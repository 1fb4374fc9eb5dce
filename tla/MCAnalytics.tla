---------------------------- MODULE MCAnalytics -----------------------------
(***************************************************************************)
(* Limiter and sketches with the code's hashes. Of the four ids used, 1    *)
(* and 33 share a column of the limiter in row 1 only, 1 and 513 in rows 1 *)
(* and 3, and 1 and 8193 in every row; only the columns in use are         *)
(* represented. 33 and 8193 share a register, with ranks 2 and 4; the      *)
(* rank of 513, which is 7, is the greatest.                               *)
(***************************************************************************)
EXTENDS Analytics

CodeColumn == [e \in Entities |-> [r \in CmsRows |-> HashColumn(e, r)]]

UsedColumns == { HashColumn(e, r) : e \in Entities, r \in CmsRows }

CodeHashes == [e \in Entities |-> CodeHash(e)]
=============================================================================
