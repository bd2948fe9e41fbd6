-------------------------- MODULE MCJudgeConnection --------------------------
(* A small instance of JudgeConnection: an old connection through a proxy  *)
(* and a new one without.                                                  *)
EXTENDS JudgeConnection

CONSTANTS c1, c2

Lengths == (c1 :> <<1, 2>>) @@ (c2 :> <<1>>)
=============================================================================
