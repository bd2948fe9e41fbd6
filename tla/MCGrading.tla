----------------------------- MODULE MCGrading -----------------------------
(* Small instances of Grading: functions for its constant parameters.      *)
EXTENDS Grading, TLC

CONSTANTS c1, c2, s1, s2, w1, w2, n1, x

OneName    == [c \in Conns |-> n1]
OneTier    == [c \in Conns |-> 1]
OneProblem == [s \in Subs |-> x]

\* Handlers differ in nothing: one name, one tier.
Symmetry == Permutations(Conns)
=============================================================================
