---------------------------- MODULE MCJudgeList ----------------------------
(* Small instances of JudgeList: functions for its constant parameters.*)
EXTENDS JudgeList

CONSTANTS c1, c2, c3, s1, s2, s3, n1, n2, x, y

\* Two judges of one tier; one name each.
TwoNames == [c \in Conns |-> IF c = c1 THEN n1 ELSE n2]
OneName  == [c \in Conns |-> n1]
OneTier  == [c \in Conns |-> 1]
TwoTiers == [c \in Conns |-> IF c = c1 THEN 1 ELSE 2]

\* Submissions that need the same problem, or two different ones.
OneProblem  == [s \in Subs |-> x]
TwoProblems == [s \in Subs |-> IF s = s2 THEN y ELSE x]
=============================================================================
