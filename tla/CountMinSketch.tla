-------------------------- MODULE CountMinSketch ----------------------------
(***************************************************************************)
(* The count-min sketch behind the rate limiter: pkg/engine/cms.go.        *)
(* Its two operations run under one mutex, so each is a single step of     *)
(* whatever calls it; they are operators on the table.                     *)
(***************************************************************************)
EXTENDS Naturals, SpatialTypes

CONSTANTS
  CmsRows,    \* the rows of the table (4 in the code)
  CmsCols,    \* its columns (1024)
  Column,     \* Column[e][r]: the column entity e hashes to in row r
  RateLimit   \* the packets per tick ProcessPacket lets through (50)

ASSUME SketchAssumption ==
  /\ CmsRows # {}
  /\ Column \in [Entities -> [CmsRows -> CmsCols]]
  /\ RateLimit \in Nat

Tables == [CmsRows -> [CmsCols -> Nat]]

EmptyTable == [r \in CmsRows |-> [c \in CmsCols |-> 0]]

\* Mutant of Bump: only one row is incremented.
BumpOneRow(t, id) ==
  LET row == CHOOSE r \in CmsRows : TRUE
  IN  [t EXCEPT ![row][Column[id][row]] = @ + 1]

\* The table after addAndEstimate(id): one cell of every row is incremented.
\* A cell would have to be hit 2^32 times within one tick to wrap.
Bump(t, id) ==
  [r \in CmsRows |-> [c \in CmsCols |->
     IF c = Column[id][r] THEN t[r][c] + 1 ELSE t[r][c]]]

\* Mutants of OverLimit: one packet more, one less, and the greatest of the
\* cells instead of the least.
OverLimitLate(t, id) == \A r \in CmsRows : t[r][Column[id][r]] > RateLimit + 1
OverLimitEarly(t, id) == \A r \in CmsRows : t[r][Column[id][r]] >= RateLimit
OverLimitMax(t, id) == \E r \in CmsRows : t[r][Column[id][r]] > RateLimit

\* The estimate, the least of id's cells, exceeds the limit of
\* pipeline.go:35 exactly when all of them do.
OverLimit(t, id) == \A r \in CmsRows : t[r][Column[id][r]] > RateLimit

\* The column the code's hash gives an entity in row i. The arithmetic is on
\* uint32; 1024 divides 2^32, so the residues of 0x85ebca6b and 0xc2b2ae35,
\* 619 and 565, determine it.
HashColumn(id, i) == ((id % 1024) * ((619 + i * 565) % 1024)) % 1024
=============================================================================
