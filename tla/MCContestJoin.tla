---------------------------- MODULE MCContestJoin ----------------------------
(* A small instance of ContestJoin.                                        *)
EXTENDS ContestJoin, TLC
CONSTANTS u1, u2, u3, t1, t2
Symmetry == Permutations(Threads)
=============================================================================
