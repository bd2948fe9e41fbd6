------------------------------ MODULE Grading ------------------------------
(***************************************************************************)
(* The life of a submission across the web site, the database and the      *)
(* bridge: judge_submission and abort_submission (src/judge/judgeapi.py),  *)
(* the packets a judge sends about it (src/judge/bridge/judge_handler.py)  *)
(* and the restart of the daemon (src/judge/bridge/daemon.py), around the  *)
(* pool and queue of JudgeList.                                            *)
(*                                                                         *)
(* Each database statement is a step of its own, as each is committed on   *)
(* its own.  A judge's packets are handled in order by the one thread of   *)
(* its connection; what a judge process does between two packets is not    *)
(* part of this repository and is a free choice.                           *)
(***************************************************************************)
EXTENDS JudgeList

CONSTANTS
  Web,        \* threads of the web site and its task workers
  NumCases,   \* test cases of a submission
  Hazards     \* what else may happen

AllHazards == {"abort", "leave", "restart", "lost_reply", "web_dies", "rejudge_queued"}

ASSUME GradingAssumption ==
  /\ NumCases \in Nat
  /\ Hazards \subseteq AllHazards

Cases == 1..NumCases
InProgress == {"QU", "P", "G"}
Final == {"D", "CE", "IE", "AB"}

VARIABLES
  status,   \* Submission.status; "new" before the row exists
  cases,    \* the SubmissionTestCase rows of a submission
  graded,   \* the rows that the last grading-end summed up
  prog,     \* handler, submission -> packets its judge has sent about it
  term,     \* handler -> submissions its judge was told to terminate
  thread,   \* handler -> the database write it has yet to do
  web,      \* web thread -> what it is doing
  lost      \* history: submissions the code lost sight of (see Tracked)

rowVars == <<status, cases, graded>>
gradingVars == <<rowVars, prog, term, thread, web, lost>>
allVars == <<vars, gradingVars>>

Idle == [at |-> "idle", sub |-> NoSub]

GradingInit ==
  /\ Init
  /\ status = [s \in Subs |-> "new"]
  /\ cases = [s \in Subs |-> {}]
  /\ graded = [s \in Subs |-> {}]
  /\ prog = [c \in Conns |-> [s \in Subs |-> 0]]
  /\ term = [c \in Conns |-> {}]
  /\ thread = [c \in Conns |-> Idle]
  /\ web = [w \in Web |-> Idle]
  /\ lost = {}

\* A submission the bridge knows will be ended only if it is queued or a
\* connected judge has it.
Held(s) == Queued(s) \/ \E c \in Conns : s \in sent[c]
InBridge(s) == Known(s) \/ Held(s) \/ \E c \in Conns : thread[c].sub = s

-----------------------------------------------------------------------------
(* judge_submission, called for a new submission or for a rejudge.         *)

WebAt(w, at) == web[w].at = at
Goto(w, at) == web' = [web EXCEPT ![w] = IF at = "idle" THEN Idle ELSE [@ EXCEPT !.at = at]]
Return(w) == Goto(w, "idle")

\* Variant with a bug: the old test cases are deleted after the request.
DeleteLast(at) ==
  CASE at = "update" -> "request" [] at = "request" -> "delete" [] at = "delete" -> "idle"

\* The statements of judge_submission in their order.
After(at) ==
  CASE at = "update" -> "delete" [] at = "delete" -> "request" [] at = "request" -> "idle"

\* Variant with a bug: the update leaves the status out.
NotRequeued(s) == status

Requeued(s) == [status EXCEPT ![s] = "QU"]

Create(w, s) ==
  /\ web[w] = Idle /\ status[s] = "new"
  /\ status' = [status EXCEPT ![s] = "QU"]
  /\ web' = [web EXCEPT ![w] = [at |-> "update", sub |-> s]]
  /\ UNCHANGED <<vars, cases, graded, prog, term, thread, lost>>

\* A batch skips what is in progress, a single rejudge does not ask.
Rejudge(w, s) ==
  /\ web[w] = Idle
  /\ status[s] \in Final \/ ("rejudge_queued" \in Hazards /\ status[s] \in InProgress)
  /\ web' = [web EXCEPT ![w] = [at |-> "update", sub |-> s]]
  /\ UNCHANGED <<vars, rowVars, prog, term, thread, lost>>

\* The conditional update: a submission being processed is left alone.
UpdateQueued(w) ==
  /\ WebAt(w, "update")
  /\ LET s == web[w].sub IN
     \/ status[s] \in {"P", "G"} /\ Return(w) /\ UNCHANGED <<status, lost>>
     \/ /\ status[s] \notin {"P", "G"}
        /\ status' = Requeued(s)
        /\ Goto(w, After("update"))
        /\ lost' = IF InBridge(s) THEN lost ELSE lost \ {s}
  /\ UNCHANGED <<vars, cases, graded, prog, term, thread>>

DeleteTestCases(w) ==
  /\ WebAt(w, "delete")
  /\ cases' = [cases EXCEPT ![web[w].sub] = {}]
  /\ Goto(w, After("delete"))
  /\ UNCHANGED <<vars, status, graded, prog, term, thread, lost>>

\* The bridge ignores a submission it already has; its answer may be lost.
RequestJudge(w) ==
  /\ WebAt(w, "request")
  /\ LET s == web[w].sub IN
     \/ \E t \in Targets, p \in RequestPriorities : Judge(s, t, p)
     \/ Known(s) /\ LockFree /\ UNCHANGED vars
  /\ \/ Goto(w, After("request"))
     \/ "lost_reply" \in Hazards /\ Goto(w, "failed")
  /\ UNCHANGED <<rowVars, prog, term, thread, lost>>

\* The bridge cannot be reached.
RequestFails(w) ==
  /\ WebAt(w, "request")
  /\ "lost_reply" \in Hazards
  /\ Goto(w, "failed")
  /\ UNCHANGED <<vars, rowVars, prog, term, thread, lost>>

\* The process dies between two statements of judge_submission.
Die(w) ==
  /\ "web_dies" \in Hazards
  /\ web[w].at \in {"update", "delete", "request", "failed"}
  /\ lost' = lost \cup {web[w].sub}
  /\ Return(w)
  /\ UNCHANGED <<vars, rowVars, prog, term, thread>>

MarkFailed(w) ==
  /\ WebAt(w, "failed")
  /\ status' = [status EXCEPT ![web[w].sub] = "IE"]
  /\ Return(w)
  /\ UNCHANGED <<vars, cases, graded, prog, term, thread, lost>>

-----------------------------------------------------------------------------
(* abort_submission.                                                       *)

\* The status was read with the page's submission, and is not read again.
AbortSubmission(w, s) ==
  /\ "abort" \in Hazards
  /\ web[w] = Idle /\ status[s] \notin {"new", "D"}
  /\ web' = [web EXCEPT ![w] = [at |-> "abort", sub |-> s]]
  /\ UNCHANGED <<vars, rowVars, prog, term, thread, lost>>

\* The answer is judge-aborted: True when a judge was told (or the telling
\* raised), False when the submission left the queue or is not known at all.
\* The packet names no submission: the judge ends whatever it has.  When the
\* answer is lost, the exception keeps the status from being written.
RequestAbort(w) ==
  /\ WebAt(w, "abort")
  /\ LockFree
  /\ LET s == web[w].sub IN
     \/ /\ submission_map[s] # NoConn
        /\ term' = [c \in Conns |->
              IF c = submission_map[s] /\ c \notin closed THEN sent[c] ELSE term[c]]
        /\ Return(w)
        /\ UNCHANGED <<vars, lost>>
     \/ /\ submission_map[s] = NoConn
        /\ \/ Abort(s)
           \/ ~Queued(s) /\ UNCHANGED vars
        /\ \/ Goto(w, "aborted") /\ UNCHANGED lost
           \/ "lost_reply" \in Hazards /\ Return(w) /\ lost' = lost \cup {s}
        /\ UNCHANGED term
  /\ UNCHANGED <<rowVars, prog, thread>>

MarkAborted(w) ==
  /\ WebAt(w, "aborted")
  /\ status' = [status EXCEPT ![web[w].sub] = "AB"]
  /\ Return(w)
  /\ UNCHANGED <<vars, cases, graded, prog, term, thread, lost>>

-----------------------------------------------------------------------------
(* Packets of a judge, handled one at a time by its connection's thread.   *)

Receives(c, s) == thread[c] = Idle /\ pc[c] = "up" /\ s \in sent[c]
Advance(c, s) == prog' = [prog EXCEPT ![c][s] = @ + 1]

\* An acknowledgement of another submission than _working fails both and
\* closes the socket, but is then handled like a right one.
SubmissionAcknowledged(c, s) ==
  /\ Receives(c, s) /\ prog[c][s] = 0
  /\ Advance(c, s)
  /\ status' = [t \in Subs |-> IF t = s THEN "P"
                               ELSE IF t = working[c] THEN "IE" ELSE status[t]]
  /\ closed' = IF s = working[c] THEN closed ELSE closed \cup {c}
  /\ lost' = IF s = working[c] THEN lost ELSE lost \cup ({s, working[c]} \cap Subs)
  /\ UNCHANGED <<listVars, min_tier, offers, resume, is_disabled, problems, pc, dbVars>>
  /\ UNCHANGED <<cases, graded, term, thread, web>>

GradingBegin(c, s) ==
  /\ Receives(c, s) /\ prog[c][s] = 1
  /\ Advance(c, s)
  /\ status' = [status EXCEPT ![s] = "G"]
  /\ cases' = [cases EXCEPT ![s] = {}]
  /\ UNCHANGED <<vars, graded, term, thread, web, lost>>

TestCase(c, s) ==
  /\ Receives(c, s) /\ prog[c][s] \in 2..(NumCases + 1)
  /\ Advance(c, s)
  /\ cases' = [cases EXCEPT ![s] = @ \cup {prog[c][s] - 1}]
  /\ UNCHANGED <<vars, status, graded, term, thread, web, lost>>

\* The packets that end a submission, by the status they lead to.
MayEnd(c, s, result) ==
  CASE result = "D"  -> prog[c][s] = NumCases + 2
    [] result = "CE" -> prog[c][s] = 1
    [] result = "IE" -> prog[c][s] > 0
    [] result = "AB" -> s \in term[c]

\* on_judge_free raises: the entry of s is gone, no judge is enabled and the
\* tier of c is compared with None, or c fails to take a submission, which stays
\* in the queue, and is to be removed from the pool a second time.
FreeRaises(c, s) ==
  \/ submission_map[s] = NoConn
  \/ min_tier = NoTier
  \/ c \notin judges /\ Served(c, [working EXCEPT ![c] = NoSub]) /\ queue' = queue

\* Every handler of an end packet frees the judge first.  If that raises, the
\* rest of the handler, which stores the result, does not run.
End(c, s, result) ==
  /\ Receives(c, s) /\ MayEnd(c, s, result)
  /\ OnJudgeFree(c, s)
  /\ prog' = [prog EXCEPT ![c][s] = 0]
  /\ term' = [term EXCEPT ![c] = @ \ {s}]
  /\ \/ /\ FreeRaises(c, s)
        /\ lost' = lost \cup {s}
        /\ UNCHANGED thread
     \/ /\ ~FreeRaises(c, s)
        /\ thread' = [thread EXCEPT ![c] = [at |-> result, sub |-> s]]
        /\ UNCHANGED lost
  /\ UNCHANGED <<rowVars, web>>

StoreResult(c) ==
  /\ thread[c].at \in Final
  /\ LET s == thread[c].sub IN
     /\ status' = [status EXCEPT ![s] = thread[c].at]
     /\ graded' = [graded EXCEPT ![s] = IF thread[c].at = "D" THEN cases[s] ELSE @]
  /\ thread' = [thread EXCEPT ![c] = Idle]
  /\ UNCHANGED <<vars, cases, prog, term, web, lost>>

\* Variant with a bug: the submission is not failed.
FailNothing(c) == Idle

AfterLeaving(c) == IF working[c] = NoSub THEN Idle ELSE [at |-> "left", sub |-> working[c]]

\* on_disconnect: the pool forgets the judge, and only later is the submission
\* of _working failed; of another that the judge had, no record is left.
Leave(c) ==
  /\ "leave" \in Hazards \/ c \in closed
  /\ thread[c] = Idle
  /\ RemoveJudge(c)
  /\ prog' = [prog EXCEPT ![c] = [s \in Subs |-> 0]]
  /\ term' = [term EXCEPT ![c] = {}]
  /\ thread' = [thread EXCEPT ![c] = AfterLeaving(c)]
  /\ lost' = lost \cup (sent[c] \ {working[c]})
  /\ UNCHANGED <<rowVars, web>>

FailWorking(c) ==
  /\ thread[c].at = "left"
  /\ status' = [status EXCEPT ![thread[c].sub] = "IE"]
  /\ thread' = [thread EXCEPT ![c] = Idle]
  /\ UNCHANGED <<vars, cases, graded, prog, term, web, lost>>

\* The daemon dies with all it has in memory, starts, and fails what the
\* database still shows in progress.
Restart ==
  /\ "restart" \in Hazards
  /\ queue' = [p \in Priorities |-> <<>>]
  /\ submission_map' = [s \in Subs |-> NoConn]
  /\ judges' = {} /\ min_tier' = NoTier
  /\ working' = [c \in Conns |-> NoSub]
  /\ sent' = [c \in Conns |-> {}]
  /\ is_disabled' = [c \in Conns |-> FALSE]
  /\ problems' = [c \in Conns |-> {}]
  /\ pc' = [c \in Conns |-> "off"]
  /\ offers' = {} /\ resume' = NoResume /\ closed' = {}
  /\ status' = [s \in Subs |-> IF status[s] \in InProgress THEN "IE" ELSE status[s]]
  /\ prog' = [c \in Conns |-> [s \in Subs |-> 0]]
  /\ term' = [c \in Conns |-> {}]
  /\ thread' = [c \in Conns |-> Idle]
  /\ lost' = {} /\ failed' = {}
  /\ UNCHANGED <<dbVars, faults, cases, graded, web>>

-----------------------------------------------------------------------------
WebStep(w) ==
  \/ \E s \in Subs : Create(w, s) \/ Rejudge(w, s) \/ AbortSubmission(w, s)
  \/ UpdateQueued(w) \/ DeleteTestCases(w) \/ RequestJudge(w) \/ RequestFails(w) \/ Die(w)
  \/ MarkFailed(w) \/ RequestAbort(w) \/ MarkAborted(w)

Packet(c) ==
  \/ \E s \in Subs : \/ SubmissionAcknowledged(c, s) \/ GradingBegin(c, s)
                     \/ TestCase(c, s) \/ \E r \in Final : End(c, s, r)
  \/ StoreResult(c) \/ Leave(c) \/ FailWorking(c)

\* Steps of the pool that touch no submission row.
PoolStep ==
  /\ \/ Administer
     \/ HoldLock
     \/ \E c \in Conns :
          /\ thread[c] = Idle
          /\ \/ \E P \in ProblemSets : Register(c, P) \/ SupportedProblems(c, P)
             \/ Connected(c) \/ SaveRow(c) \/ UpdateProblems(c)
  /\ UNCHANGED gradingVars

GradingNext ==
  \/ \E w \in Web : WebStep(w)
  \/ \E c \in Conns : Packet(c)
  \/ PoolStep
  \/ Restart

GradingSpec == GradingInit /\ [][GradingNext]_allVars

-----------------------------------------------------------------------------
AtRest ==
  /\ LockFree
  /\ \A w \in Web : web[w] = Idle
  /\ \A c \in Conns : thread[c] = Idle

\* All but the submissions that the code is known to lose: a dispatch or
\* on_judge_free raised, the asking process died or missed its answer, or their
\* judge had a second one, and acknowledged it out of turn or left.  A lost one
\* is tracked again once it is requeued with nothing left of it in the bridge.
Tracked == Subs \ (lost \cup failed)

\* A submission shown in progress while no step on its row is under way is
\* queued or with a judge, so that its end will come: no crash of the daemon,
\* departure, abort or rejudge leaves it in progress for ever.
InProgressIsHeld ==
  AtRest => \A s \in Tracked : status[s] \in InProgress => Held(s)

\* Without aborts, lost answers, restarts, rejudges of a queued submission and
\* two threads that rejudge one submission at a time, the converse: what is
\* queued or with a judge is shown in progress.
HeldIsInProgress ==
  AtRest => \A s \in Tracked : Held(s) => status[s] \in InProgress

\* Without those, too, a submission is shown done on the strength of all its
\* test cases: no row is deleted between its report and grading-end.
DoneIsComplete ==
  \A s \in Tracked : status[s] = "D" => graded[s] = Cases

-----------------------------------------------------------------------------
(* Liveness.  Web threads and the threads of connections go on (strongly   *)
(* fair where they wait for the lock), and a judge that stays connected    *)
(* goes on with what it was sent and comes back when it is gone.           *)

Progress(c, s) ==
  \/ SubmissionAcknowledged(c, s) \/ GradingBegin(c, s) \/ TestCase(c, s)
  \/ End(c, s, "D")

GradingFairness ==
  /\ WF_allVars(HoldLock /\ UNCHANGED gradingVars)
  /\ \A w \in Web : SF_allVars(UpdateQueued(w) \/ DeleteTestCases(w) \/ RequestJudge(w))
  /\ \A c \in Conns :
       /\ SF_allVars(PoolStep /\ \E P \in ProblemSets : Register(c, P))
       /\ WF_allVars(PoolStep /\ Connected(c)) /\ WF_allVars(PoolStep /\ SaveRow(c))
       /\ SF_allVars(PoolStep /\ UpdateProblems(c))
       /\ WF_allVars(StoreResult(c) \/ FailWorking(c))
       /\ \A s \in Subs : SF_allVars(Progress(c, s))

FairGradingSpec == GradingSpec /\ GradingFairness

Life == INSTANCE Lifecycle WITH Subs <- Subs, status <- status

\* With one web thread, no abort and no restart, and whatever judges come and
\* go, the statuses a user sees follow the life cycle: nothing is done that was
\* not graded since it was last queued, nothing final changes but by a rejudge.
FollowsLifecycle == Life!Spec

\* Under fairness, a submission whose judges come and go still ends.
EventuallyEnds == Life!Settles
=============================================================================
