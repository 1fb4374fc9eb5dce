---------------------------- MODULE HyperLogLog -----------------------------
(***************************************************************************)
(* The sketch that estimates how many entities were routed to a cell:      *)
(* pkg/engine/hll.go. Add and Estimate run under the sketch's mutex, so    *)
(* they are operators on its registers.                                    *)
(***************************************************************************)
EXTENDS Integers, FiniteSets, Functions

CONSTANTS
  Hash,    \* Hash[id]: the register id belongs to and its rank there
  MaxRank  \* the greatest rank (27: one more than 26 leading zeros)

ASSUME RankAssumption == MaxRank \in 1 .. 27

Registers == 0 .. 63
Sketches == [Registers -> 0 .. MaxRank]
EmptySketch == [i \in Registers |-> 0]

\* Mutant of Add: the last id decides, not the greatest rank.
AddLast(sketch, id) == [sketch EXCEPT ![Hash[id].register] = Hash[id].rank]

Add(sketch, id) ==
  [sketch EXCEPT ![Hash[id].register] = IF Hash[id].rank > @ THEN Hash[id].rank ELSE @]

\* 0.709 * 64 * 64, in thousandths.
Bias == 2904064

\* It is divided by the sum of 1 / (1 << rank), and rounded down. For the
\* sum to be an integer it is scaled, and the numerator with it.
Estimate(sketch) ==
  LET sum[n \in 0 .. 64] ==
        IF n = 0 THEN 0 ELSE sum[n - 1] + 2^(MaxRank - sketch[n - 1])
  IN  (Bias * 2^MaxRank) \div (1000 * sum[64])

\* The code's hash, id * 0xc2b2ae35 modulo 2^32, in halves (0xc2b2 is 49842,
\* 0xae35 is 44597): its first six bits are the register, the leading zeros
\* of the others and one the rank. Ids are small enough for TLC's integers.
CodeHash(id) ==
  LET low == (id * 44597) % 65536
      high == (id * 49842 + (id * 44597) \div 65536) % 65536
      remaining == (high % 1024) * 65536 + low
  IN  [register |-> high \div 1024,
       rank |-> 27 - Cardinality({ k \in 0 .. 25 : 2^k <= remaining })]
=============================================================================
