----------------------------- MODULE Lifecycle -----------------------------
(***************************************************************************)
(* What the site promises of a submission's status, as the web pages show  *)
(* it, when nobody aborts and the daemon stays up: Submission.STATUS of    *)
(* src/judge/models/submission.py as a state machine.  Grading implements  *)
(* it by messages between web threads, the bridge and the judges.          *)
(***************************************************************************)
CONSTANT Subs
VARIABLE status

InProgress == {"QU", "P", "G"}
Final == {"D", "CE", "IE"}

Init == status = [s \in Subs |-> "new"]

Step(s, from, to) ==
  /\ status[s] \in from
  /\ status' = [status EXCEPT ![s] = to]

Submit(s)       == Step(s, {"new"}, "QU")
Requeue(s)      == Step(s, Final, "QU")
Process(s)      == Step(s, {"QU"}, "P")
Grade(s)        == Step(s, {"P"}, "G")
Complete(s)     == Step(s, {"G"}, "D")
FailToCompile(s) == Step(s, {"P"}, "CE")
Break(s)        == Step(s, InProgress, "IE")

Next == \E s \in Subs :
  \/ Submit(s) \/ Requeue(s) \/ Process(s) \/ Grade(s)
  \/ Complete(s) \/ FailToCompile(s) \/ Break(s)

Spec == Init /\ [][Next]_status

\* Whoever waits for a submission sees it end.
Settles == \A s \in Subs : status[s] \in InProgress ~> status[s] \in Final
=============================================================================
