----------------------------- MODULE MCNvStore -----------------------------
(* Instances of NvStore for TLC. *)
EXTENDS NvStore

CONSTANTS small, alike, large

\* Two items of one unit of room and one of two.
SmallAndLarge == [i \in {small, alike, large} |-> IF i = large THEN 2 ELSE 1]

\* Neither two items of one size nor the values are told apart.
Symmetry == Permutations({small, alike}) \cup Permutations(Values)
=============================================================================
