----------------------------- MODULE JudgeList -----------------------------
(***************************************************************************)
(* The pool of judges and the queue of submissions of the bridge           *)
(* (src/judge/bridge/judge_list.py), together with the parts of a judge's  *)
(* connection handler that touch them (src/judge/bridge/judge_handler.py). *)
(*                                                                         *)
(* Every method of JudgeList holds one RLock from its first line to its    *)
(* last.  A method that serves at most one judge is one action.  The       *)
(* methods that may serve several judges in a loop are cut at each judge:  *)
(* "offers" and "resume" say what the thread that holds the lock still has *)
(* to do, and no other locked method starts before it is done.  What runs  *)
(* WITHOUT the lock does interleave: _connected reads and writes           *)
(* is_disabled, and on_supported_problems writes the problem list and      *)
(* tests "working".                                                        *)
(***************************************************************************)
EXTENDS Integers, Sequences, SequencesExt, FiniteSets

CONSTANTS
  Conns,          \* connection handlers (JudgeHandler objects)
  Names,          \* rows of the Judge table
  Subs,           \* submissions
  Problems,       \* problem and language pairs
  NameOf,         \* the judge row a connection authenticates as
  TierOf,         \* the tier that _authenticate caches
  ProblemOf,      \* what a submission needs
  ProblemSets,    \* the problem lists a judge may report
  RequestPriorities, \* the priorities requests come with
  Targets,        \* the judge_id values requests come with
  Toggleable,     \* rows an administrator may enable or disable
  InitDisabled,   \* rows disabled from the start
  MaxFaults,      \* bound: dispatches that raise, and forced disconnects
  NoConn, NoName, NoSub, NoTier,
  Gone            \* any handler whose connection is over

REJUDGE_PRIORITY == 2
Priorities == 0..3
Tiers == {TierOf[c] : c \in Conns}
Entry == [id : Subs, judge_id : Names \cup {NoName}]

\* A connection is an object and its name a string: no handler is a name.
ASSUME ConstantsAssumption ==
  /\ NameOf \in [Conns -> Names]
  /\ TierOf \in [Conns -> Nat]
  /\ ProblemOf \in [Subs -> Problems]
  /\ ProblemSets \subseteq SUBSET Problems
  /\ RequestPriorities \subseteq Priorities
  /\ Targets \subseteq Names \cup {NoName}
  /\ Toggleable \subseteq Names
  /\ InitDisabled \subseteq Names
  /\ MaxFaults \in Nat
  /\ IsFiniteSet(Conns) /\ Conns \cap Names = {}
  /\ NoConn \notin Conns /\ Gone \notin Conns /\ Gone # NoConn
  /\ NoName \notin Names
  /\ NoSub \notin Subs
  /\ NoTier \notin Nat

VARIABLES
  queue,          \* the dllist between its priority markers
  submission_map, \* submission -> the handler said to be judging it
  judges,         \* the pool
  min_tier,
  working,        \* handler -> _working
  is_disabled,    \* handler -> its cached flag
  problems,       \* handler -> its problem list
  pc,             \* where each handler's thread is
  offers,         \* judges the loop of _update_min_tier has yet to visit
  resume,         \* what the lock holder does after that loop
  closed,         \* handlers whose socket the bridge has shut down
  sent,           \* handler -> submissions its judge received and not ended
  row_disabled,   \* Judge.is_disabled in the database
  toggle,         \* the row whose new flag is not saved yet, with the flag
  faults,         \* faults so far
  failed          \* history: submissions some dispatch of which raised

listVars == <<queue, submission_map, judges, working, sent, faults, failed>>
dbVars   == <<row_disabled, toggle>>
connVars == <<is_disabled, problems, pc, closed>>
vars == <<listVars, min_tier, offers, resume, connVars, dbVars>>

NoResume == [op |-> "none", judge |-> NoConn]
LockFree == offers = {} /\ resume = NoResume

\* node_map holds exactly the submissions with an entry in the queue.
InQueue(q, s) == \E p \in Priorities : \E i \in 1..Len(q[p]) : q[p][i].id = s
Queued(s) == InQueue(queue, s)

\* Variant with a bug: the test of node_map is left out.
MappedOnly(s) == submission_map[s] # NoConn

\* A request for a submission in one of the maps is ignored.
Known(s) == submission_map[s] # NoConn \/ Queued(s)

MapType     == [Subs -> Conns \cup {NoConn, Gone}]
WorkingType == [Conns -> Subs \cup {NoSub}]
SentType    == [Conns -> SUBSET Subs]

ListTypeOK ==
  /\ queue \in [Priorities -> Seq(Entry)]
  /\ submission_map \in MapType
  /\ judges \subseteq Conns
  /\ working \in WorkingType
  /\ sent \in SentType
  /\ faults \in 0..MaxFaults
  /\ failed \subseteq Subs

TypeOK ==
  /\ ListTypeOK
  /\ min_tier \in Tiers \cup {NoTier}
  /\ is_disabled \in [Conns -> BOOLEAN]
  /\ problems \in [Conns -> SUBSET Problems]
  /\ pc \in [Conns -> {"off", "handshake", "enabling", "disabling", "up", "updating"}]
  /\ offers \subseteq Conns
  /\ resume \in {NoResume} \cup [op : {"register", "remove"}, judge : Conns]
  /\ closed \subseteq Conns
  /\ row_disabled \in [Names -> BOOLEAN]
  /\ toggle \in (Names \X BOOLEAN) \cup {NoName}

Init ==
  /\ queue = [p \in Priorities |-> <<>>]
  /\ submission_map = [s \in Subs |-> NoConn]
  /\ judges = {}
  /\ min_tier = NoTier
  /\ working = [c \in Conns |-> NoSub]
  /\ is_disabled = [c \in Conns |-> FALSE]
  /\ problems = [c \in Conns |-> {}]
  /\ pc = [c \in Conns |-> "off"]
  /\ offers = {}
  /\ resume = NoResume
  /\ closed = {}
  /\ sent = [c \in Conns |-> {}]
  /\ row_disabled = [n \in Names |-> n \in InitDisabled]
  /\ toggle = NoName
  /\ faults = 0
  /\ failed = {}

-----------------------------------------------------------------------------
(* The pool, as the queries of JudgeList see it.                           *)

CanJudge(c, s, judge_id) ==
  /\ ProblemOf[s] \in problems[c]
  /\ (judge_id = NoName /\ ~is_disabled[c]) \/ NameOf[c] = judge_id

CurrentTierJudges == {c \in judges : TierOf[c] = min_tier /\ ~is_disabled[c]}

\* w is the working flags the query reads: on_judge_free clears one first.
ShouldReserveJudge(w) ==
  /\ Cardinality(CurrentTierJudges) > 1
  /\ Cardinality({c \in CurrentTierJudges : w[c] = NoSub}) <= 1

\* t is what _update_min_tier computes for a pool and its disabled flags.
IsMinTier(t, pool, disabled) ==
  LET enabled == {c \in pool : ~disabled[c]} IN
  \/ enabled = {} /\ t = NoTier
  \/ \E c \in enabled : t = TierOf[c] /\ \A d \in enabled : t <= TierOf[d]

\* Variant with a bug: nobody is offered the queue when the tier rises.
UpdateTierOnly(pool, disabled) ==
  \E t \in Tiers \cup {NoTier} :
    IsMinTier(t, pool, disabled) /\ min_tier' = t /\ offers' = {}

\* Recompute the tier; when it rises, every judge of the new tier is offered
\* the queue by OfferFreeJudge before the lock is given up.
UpdateMinTier(pool, disabled) ==
  \E t \in Tiers \cup {NoTier} :
    /\ IsMinTier(t, pool, disabled)
    /\ min_tier' = t
    /\ offers' = IF min_tier # NoTier /\ t # NoTier /\ t > min_tier
                 THEN {c \in pool : TierOf[c] = t /\ ~disabled[c]}
                 ELSE {}

-----------------------------------------------------------------------------
(* Handing one submission to one judge.  m, w and o are submission_map,    *)
(* working and sent as the caller leaves them.                             *)

SubmitSucceeds(c, s, m, w, o) ==
  /\ c \notin closed
  /\ submission_map' = [m EXCEPT ![s] = c]
  /\ working' = [w EXCEPT ![c] = s]
  /\ sent' = [o EXCEPT ![c] = @ \cup {s}]
  /\ UNCHANGED <<judges, faults, failed>>

\* submit raises before _working is set (a database error) or after it (the
\* submission has vanished, the socket is dead).  The judge leaves the pool,
\* the entry made in submission_map stays.
SubmitRaises(c, s, m, w, o) ==
  /\ c \in closed \/ faults < MaxFaults
  /\ faults' = IF c \in closed THEN faults ELSE faults + 1
  /\ submission_map' = [m EXCEPT ![s] = c]
  /\ working' \in {w, [w EXCEPT ![c] = s]}
  /\ judges' = judges \ {c}
  /\ failed' = failed \cup {s}
  /\ sent' = o

\* Entry i of class p is the first that the walk of the queue gives c.
Takes(c, w, p, i) ==
  /\ CanJudge(c, queue[p][i].id, queue[p][i].judge_id)
  /\ \A q \in 0..p : \A j \in 1..Len(queue[q]) :
       q < p \/ j < i => ~CanJudge(c, queue[q][j].id, queue[q][j].judge_id)
  /\ p >= REJUDGE_PRIORITY => ~ShouldReserveJudge(w)

Served(c, w) ==
  /\ min_tier # NoTier
  /\ TierOf[c] <= min_tier
  /\ \E p \in Priorities : \E i \in 1..Len(queue[p]) : Takes(c, w, p, i)

HandleFreeJudge(c, m, w, o) ==
  \/ /\ Served(c, w)
     /\ \E p \in Priorities : \E i \in 1..Len(queue[p]) :
          /\ Takes(c, w, p, i)
          /\ \/ /\ SubmitSucceeds(c, queue[p][i].id, m, w, o)
                /\ queue' = [queue EXCEPT ![p] = RemoveAt(@, i)]
             \/ /\ SubmitRaises(c, queue[p][i].id, m, w, o)
                /\ UNCHANGED queue
  \/ /\ ~Served(c, w)
     /\ submission_map' = m
     /\ working' = w
     /\ sent' = o
     /\ UNCHANGED <<queue, judges, faults, failed>>

-----------------------------------------------------------------------------
(* Requests of the web site, which arrive through DjangoHandler.           *)

Candidates(s, judge_id) ==
  {c \in CurrentTierJudges : CanJudge(c, s, judge_id)}

\* Variant with a bug: a rejudge takes the last free judge like any other.
FreeCandidates(s, judge_id, priority) ==
  {c \in Candidates(s, judge_id) : working[c] = NoSub}

\* Variant with a bug: a judge at work is available as well.
AllCandidates(s, judge_id, priority) == Candidates(s, judge_id)

\* The free candidates, unless the last of several is kept for submissions
\* that are not rejudges.
Available(s, judge_id, priority) ==
  LET candidates == Candidates(s, judge_id)
      free == {c \in candidates : working[c] = NoSub}
  IN IF /\ Cardinality(candidates) > 1
        /\ Cardinality(free) = 1
        /\ priority >= REJUDGE_PRIORITY
     THEN {} ELSE free

\* Variant with a bug: the entry goes to the front of its class.
EnqueueFirst(s, judge_id, priority) ==
  /\ queue' = [queue EXCEPT ![priority] = <<[id |-> s, judge_id |-> judge_id]>> \o @]
  /\ UNCHANGED <<submission_map, judges, working, sent, faults, failed>>

Enqueue(s, judge_id, priority) ==
  /\ queue' = [queue EXCEPT ![priority] = Append(@, [id |-> s, judge_id |-> judge_id])]
  /\ UNCHANGED <<submission_map, judges, working, sent, faults, failed>>

\* After a dispatch that raised the code calls judge again, which returns at
\* once because submission_map holds the submission.
Judge(s, judge_id, priority) ==
  /\ LockFree
  /\ ~Known(s)
  /\ LET available == Available(s, judge_id, priority) IN
     \/ /\ \E c \in available :
             \/ SubmitSucceeds(c, s, submission_map, working, sent)
             \/ SubmitRaises(c, s, submission_map, working, sent)
        /\ UNCHANGED queue
     \/ available = {} /\ Enqueue(s, judge_id, priority)
  /\ UNCHANGED <<min_tier, offers, resume, connVars, dbVars>>

\* Only a queued submission is taken back here; for one in submission_map the
\* judge is asked to stop and answers with an end packet like any other.
Abort(s) ==
  /\ LockFree
  /\ submission_map[s] = NoConn
  /\ \E p \in Priorities : \E i \in 1..Len(queue[p]) :
       /\ queue[p][i].id = s
       /\ queue' = [queue EXCEPT ![p] = RemoveAt(@, i)]
  /\ UNCHANGED <<submission_map, judges, working, sent, faults, failed>>
  /\ UNCHANGED <<min_tier, offers, resume, connVars, dbVars>>

\* Judge.toggle_disabled: the bridge is told first, the row is saved later.
UpdateDisableJudge(n) ==
  /\ LockFree
  /\ toggle = NoName
  /\ toggle' = <<n, ~row_disabled[n]>>
  /\ is_disabled' = [c \in Conns |-> IF c \in judges /\ NameOf[c] = n
                                     THEN ~row_disabled[n] ELSE is_disabled[c]]
  /\ UpdateMinTier(judges, is_disabled')
  /\ UNCHANGED <<listVars, resume, problems, pc, closed, row_disabled>>

SaveDisabled(n) ==
  /\ offers = {} \/ resume # NoResume   \* the bridge has answered
  /\ toggle' = NoName
  /\ \E flag \in BOOLEAN : /\ toggle = <<n, flag>>
                          /\ row_disabled' = [row_disabled EXCEPT ![n] = flag]
  /\ UNCHANGED <<listVars, min_tier, offers, resume, connVars>>

\* disconnect(judge_id, force=True): shuts the sockets of that name down.
Disconnect(n) ==
  /\ LockFree
  /\ faults < MaxFaults
  /\ faults' = faults + 1
  /\ closed' = closed \cup {c \in judges : NameOf[c] = n}
  /\ UNCHANGED <<queue, submission_map, judges, working, sent, failed>>
  /\ UNCHANGED <<min_tier, offers, resume, is_disabled, problems, pc, dbVars>>

-----------------------------------------------------------------------------
(* The thread of a judge's connection.                                     *)

\* Variant with a bug: disconnect collects the names, not the handlers.
SameNames(c) == {NameOf[c]}

\* The handlers that register's own call of disconnect shuts down: it passes
\* the handler where disconnect compares names, so no handler matches.
SameNameJudges(c) == {d \in judges : NameOf[d] = c}

Register(c, P) ==
  /\ LockFree
  /\ pc[c] = "off"
  /\ pc' = [pc EXCEPT ![c] = "handshake"]
  /\ problems' = [problems EXCEPT ![c] = P]
  /\ closed' = closed \cup SameNameJudges(c)
  /\ judges' = judges \cup {c}
  /\ UpdateMinTier(judges', is_disabled)
  /\ resume' = [op |-> "register", judge |-> c]
  /\ UNCHANGED <<queue, submission_map, working, sent, faults, failed, is_disabled, dbVars>>

\* _connected, after register has returned and without the lock: it takes the flag
\* from the row, and later saves the whole row as it was read.
Connected(c) ==
  /\ pc[c] = "handshake"
  /\ resume.judge # c
  /\ pc' = [pc EXCEPT ![c] = IF row_disabled[NameOf[c]] THEN "disabling" ELSE "enabling"]
  /\ is_disabled' = [is_disabled EXCEPT ![c] = row_disabled[NameOf[c]]]
  /\ UNCHANGED <<listVars, min_tier, offers, resume, problems, closed, dbVars>>

SaveRow(c) ==
  /\ pc[c] \in {"enabling", "disabling"}
  /\ pc' = [pc EXCEPT ![c] = "up"]
  /\ row_disabled' = [row_disabled EXCEPT ![NameOf[c]] = pc[c] = "disabling"]
  /\ UNCHANGED <<listVars, min_tier, offers, resume, is_disabled, problems, closed, toggle>>

\* on_supported_problems up to its test of "working", without the lock.
SupportedProblems(c, P) ==
  /\ pc[c] = "up"
  /\ problems' = [problems EXCEPT ![c] = P]
  /\ pc' = [pc EXCEPT ![c] = IF working[c] = NoSub THEN "updating" ELSE "up"]
  /\ UNCHANGED <<listVars, min_tier, offers, resume, is_disabled, closed, dbVars>>

UpdateProblems(c) ==
  /\ LockFree
  /\ pc[c] = "updating"
  /\ pc' = [pc EXCEPT ![c] = "up"]
  /\ HandleFreeJudge(c, submission_map, working, sent)
  /\ UNCHANGED <<min_tier, offers, resume, is_disabled, problems, closed, dbVars>>

\* The judge ends s: finished, failed to compile, broke or terminated.  When
\* submission_map has lost s, the KeyError leaves the handler "working".
OnJudgeFree(c, s) ==
  /\ LockFree
  /\ pc[c] = "up"
  /\ s \in sent[c]
  /\ LET o == [sent EXCEPT ![c] = @ \ {s}] IN
     \/ /\ submission_map[s] = NoConn
        /\ sent' = o
        /\ UNCHANGED <<queue, submission_map, judges, working, faults, failed>>
     \/ /\ submission_map[s] # NoConn
        /\ HandleFreeJudge(c, [submission_map EXCEPT ![s] = NoConn],
                              [working EXCEPT ![c] = NoSub], o)
  /\ UNCHANGED <<min_tier, offers, resume, connVars, dbVars>>

\* on_disconnect, of a judge or of a client that never authenticated: the entry
\* of _working alone leaves submission_map.  c then stands for a new handler, so
\* its fields start afresh and what still names the old one becomes Gone.
RemoveJudge(c) ==
  /\ LockFree
  /\ pc[c] \in {"off", "up"}
  /\ submission_map' = [s \in Subs |-> IF s = working[c] THEN NoConn
                                     ELSE IF submission_map[s] = c THEN Gone
                                     ELSE submission_map[s]]
  /\ judges' = judges \ {c}
  /\ UpdateMinTier(judges', is_disabled)
  /\ resume' = [op |-> "remove", judge |-> c]
  /\ working' = [working EXCEPT ![c] = NoSub]
  /\ sent' = [sent EXCEPT ![c] = {}]
  /\ is_disabled' = [is_disabled EXCEPT ![c] = FALSE]
  /\ problems' = [problems EXCEPT ![c] = {}]
  /\ pc' = [pc EXCEPT ![c] = "off"]
  /\ closed' = closed \ {c}
  /\ UNCHANGED <<queue, faults, failed, dbVars>>

-----------------------------------------------------------------------------
(* The rest of a method that holds the lock.                               *)

\* One turn of the loop in _update_min_tier.
OfferFreeJudge(c) ==
  /\ c \in offers
  /\ offers' = offers \ {c}
  /\ \/ working[c] = NoSub /\ HandleFreeJudge(c, submission_map, working, sent)
     \/ working[c] # NoSub /\ UNCHANGED listVars
  /\ UNCHANGED <<min_tier, resume, connVars, dbVars>>

\* The last line of register, whatever the loop did before it.
OfferRegistered ==
  /\ offers = {}
  /\ resume.op = "register"
  /\ resume' = NoResume
  /\ HandleFreeJudge(resume.judge, submission_map, working, sent)
  /\ UNCHANGED <<min_tier, offers, connVars, dbVars>>

\* Variant with a bug: the judge left alone is forgotten.
NoJudge == {}

\* A judge left alone in its tier is no longer reserved, and starts if it can.
SoleJudge == {c \in CurrentTierJudges : CurrentTierJudges = {c} /\ working[c] = NoSub}

\* The last lines of remove.
OfferSoleJudge ==
  /\ offers = {}
  /\ resume.op = "remove"
  /\ resume' = NoResume
  /\ \/ \E c \in SoleJudge : HandleFreeJudge(c, submission_map, working, sent)
     \/ SoleJudge = {} /\ UNCHANGED listVars
  /\ UNCHANGED <<min_tier, offers, connVars, dbVars>>

-----------------------------------------------------------------------------
Request ==
  \/ \E s \in Subs, t \in Targets, p \in RequestPriorities : Judge(s, t, p)
  \/ \E s \in Subs : Abort(s)

Administer ==
  \/ \E n \in Toggleable : UpdateDisableJudge(n) \/ SaveDisabled(n)
  \/ \E n \in Names : Disconnect(n)

Handle(c) ==
  \/ \E P \in ProblemSets : Register(c, P) \/ SupportedProblems(c, P)
  \/ Connected(c) \/ SaveRow(c)
  \/ UpdateProblems(c)
  \/ \E s \in Subs : OnJudgeFree(c, s)
  \/ RemoveJudge(c)

HoldLock ==
  \/ \E c \in Conns : OfferFreeJudge(c)
  \/ OfferRegistered
  \/ OfferSoleJudge

Next == Request \/ Administer \/ HoldLock \/ \E c \in Conns : Handle(c)

Spec == Init /\ [][Next]_vars

-----------------------------------------------------------------------------
(* Safety.                                                                 *)

\* The inductive invariant behind MappedToGrader, of a queue, submission_map,
\* working, sent and failed: an entry is in the queue once, and the three maps
\* agree on every submission whose dispatches all succeeded.
NoDuplicates(q) ==
  \A p1, p2 \in Priorities : \A i \in 1..Len(q[p1]), j \in 1..Len(q[p2]) :
    q[p1][i].id = q[p2][j].id => p1 = p2 /\ i = j

Consistent(q, m, w, o, f) ==
  \A s \in Subs \ f :
    /\ \A c \in Conns : s \in o[c] => m[s] = c
    /\ \A c \in Conns : w[c] = s => s \in o[c]
    /\ InQueue(q, s) => m[s] = NoConn

IInv ==
  /\ TypeOK
  /\ NoDuplicates(queue)
  /\ Consistent(queue, submission_map, working, sent, failed)

\* A request that a judge process holds is the one submission_map names for
\* it, and is not in the queue: no submission is ever with two judges, and an
\* abort reaches the judge that has it.  Excepted are the submissions some
\* dispatch of which raised, whose map and queue entries the code leaves behind.
MappedToGrader ==
  \A s \in Subs \ failed : \A c \in Conns :
    s \in sent[c] => submission_map[s] = c /\ ~Queued(s)

\* With no fault and no disabled judge, a free judge of the serving tier never
\* idles while the queue holds an entry below rejudge priority that it can
\* judge: no arrival, end, departure or new problem list loses a wake-up.
NoIdleWhileQueued ==
  LockFree => \A c \in CurrentTierJudges : working[c] = NoSub /\ pc[c] # "updating" =>
    \A p \in 0..(REJUDGE_PRIORITY - 1) : \A i \in 1..Len(queue[p]) :
      ~CanJudge(c, queue[p][i].id, queue[p][i].judge_id)

\* With no fault and no disabled judge, once every judge of the serving tier is
\* free no rejudge that all of them could take is left waiting: the judge held
\* in reserve does not starve the rejudges for good.
RejudgesRunWhenAllIdle ==
  /\ LockFree
  /\ CurrentTierJudges # {}
  /\ \A c \in CurrentTierJudges : working[c] = NoSub /\ pc[c] # "updating"
  => \A p \in Priorities : \A i \in 1..Len(queue[p]) : \E c \in CurrentTierJudges :
       ~CanJudge(c, queue[p][i].id, queue[p][i].judge_id)

\* A judge that works on exactly the submission its handler knows of is sent a
\* second one in two ways only: the test of "working" in on_supported_problems
\* is stale, or register offers the queue to a judge that the loop of
\* _update_min_tier has just served.
SecondRequestOnlyByRace ==
  [][\A c \in Conns :
       sent[c] = {working[c]} /\ working[c] \in sent'[c] /\ sent'[c] # sent[c]
       => pc[c] = "updating" \/ resume = [op |-> "register", judge |-> c]]_vars

\* A rejudge takes the last free judge of the serving tier, when others of the
\* tier are busy, only straight from a request and only if no other judge of the
\* tier can judge it: neither the walk of the queue nor a request that finds
\* another judge able, if busy, gets into the reserve.
RejudgeSparesLastFree ==
  [][\A c \in CurrentTierJudges : \A s \in Subs : \A p \in REJUDGE_PRIORITY..3 :
       /\ Cardinality(CurrentTierJudges) > 1
       /\ \A d \in CurrentTierJudges \ {c} : working[d] # NoSub /\ working'[d] = working[d]
       /\ \/ \E i \in 1..Len(queue[p]) : queue[p][i].id = s
          \/ \E t \in Targets : Judge(s, t, p) /\ Candidates(s, t) # {c}
       => s \notin sent'[c] \ sent[c]]_vars

-----------------------------------------------------------------------------
(* Liveness.  Threads that wait for the lock get it in the end (strong     *)
(* fairness: the lock may be taken and given up by others in between), the *)
(* holder goes on, judges come back and end what they were sent.           *)

Fairness ==
  /\ WF_vars(HoldLock)
  /\ \A c \in Conns :
       /\ SF_vars(\E P \in ProblemSets : Register(c, P))
       /\ WF_vars(Connected(c)) /\ WF_vars(SaveRow(c))
       /\ SF_vars(UpdateProblems(c))
       /\ \A s \in Subs : SF_vars(OnJudgeFree(c, s))

FairSpec == Spec /\ Fairness

\* A submission queued in the most urgent class in use leaves the queue, while
\* requests, end packets, departures and arrivals of judges go on for ever.
UrgentLeavesQueue ==
  LET urgent == CHOOSE p \in RequestPriorities : \A q \in RequestPriorities : p <= q IN
  \A s \in Subs :
    (\E i \in 1..Len(queue[urgent]) : queue[urgent][i].id = s) ~> ~Queued(s)
=============================================================================
