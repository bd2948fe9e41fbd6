-------------------------- MODULE MCContestScoring --------------------------
(* A small instance of ContestScoring.                                     *)
EXTENDS ContestScoring, TLC
CONSTANTS p1, p2, t1, t2, b1
OneBatch == [c \in 1..3 |-> IF c = 1 THEN NoBatch ELSE b1]
SomeOutcomes == {<<1, 1, 0>>, <<1, 1, 1>>}
Symmetry == Permutations(Problems) \cup Permutations(Threads)
=============================================================================
