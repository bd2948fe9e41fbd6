--------------------------- MODULE Grading_proofs ---------------------------
(***************************************************************************)
(* Proofs about Grading, for any number of judges, submissions and web     *)
(* threads.                                                                *)
(*                                                                         *)
(* First, that no submission is forgotten, whatever befalls: CareInv says  *)
(* that somebody will end each one in progress, or queue it.  Then, where  *)
(* nothing but the coming and going of judges befalls and no two threads   *)
(* of the site have one submission in hand, that the status of each goes   *)
(* along its life cycle: CycleInv says that a submission is in one place   *)
(* at a time, and that its status says in which.                           *)
(***************************************************************************)
EXTENDS Grading, JudgeList_proofs

-----------------------------------------------------------------------------
(* The pool and the queue, seen from one submission.                       *)

\* Removing an entry of the queue leaves those of the other submissions.
LEMMA RemovalKeeps ==
  ASSUME NEW q \in QueueType, NEW p \in Priorities, NEW i \in 1..Len(q[p]),
         NEW t \in Subs, InQueue(q, t), t # q[p][i].id
  PROVE  InQueue([q EXCEPT ![p] = RemoveAt(@, i)], t)
<1> DEFINE r == [q EXCEPT ![p] = RemoveAt(@, i)]
<1>1. /\ Len(RemoveAt(q[p], i)) = Len(q[p]) - 1
      /\ \A j \in 1..(Len(q[p]) - 1) :
           RemoveAt(q[p], i)[j] = IF j < i THEN q[p][j] ELSE q[p][j + 1]
  BY RemoveAtKeeps DEF QueueType
<1>2. r[p] = RemoveAt(q[p], i) /\ \A k \in Priorities : k # p => r[k] = q[k]
  BY DEF QueueType
<1>3. PICK k \in Priorities : \E j \in 1..Len(q[k]) : q[k][j].id = t
  BY DEF InQueue
<1>4. PICK j \in 1..Len(q[k]) : q[k][j].id = t
  BY <1>3
<1> HIDE DEF r
<1>5. CASE k # p
  BY <1>2, <1>4, <1>5 DEF InQueue, r
<1>6. CASE k = p
  <2>1. j # i /\ Len(q[p]) \in Nat /\ j \in 1..Len(q[p])
    BY <1>4, <1>6 DEF QueueType
  <2> DEFINE h == IF j < i THEN j ELSE j - 1
  <2>2. h \in 1..(Len(q[p]) - 1) /\ (IF h < i THEN h ELSE h + 1) = j
    BY <2>1
  <2> HIDE DEF h
  <2>3. r[p][h].id = t /\ h \in 1..Len(r[p])
    BY <1>1, <1>2, <1>4, <1>6, <2>2
  <2>4. QED
    BY <2>3 DEF InQueue, r
<1>7. QED
  BY <1>5, <1>6

\* Appending an entry leaves the others, and queues its submission.
LEMMA InsertionKeeps ==
  ASSUME NEW q \in QueueType, NEW p \in Priorities, NEW e \in Entry,
         NEW t \in Subs, InQueue(q, t) \/ t = e.id
  PROVE  InQueue([q EXCEPT ![p] = Append(@, e)], t)
<1> DEFINE r == [q EXCEPT ![p] = Append(@, e)]
<1>1. /\ Len(Append(q[p], e)) = Len(q[p]) + 1 /\ Len(q[p]) \in Nat
      /\ \A j \in 1..Len(q[p]) : Append(q[p], e)[j] = q[p][j]
      /\ Append(q[p], e)[Len(q[p]) + 1] = e
  BY AppendKeeps DEF QueueType
<1>2. r[p] = Append(q[p], e) /\ \A k \in Priorities : k # p => r[k] = q[k]
  BY DEF QueueType
<1> HIDE DEF r
<1>3. CASE t = e.id
  <2>1. Len(q[p]) + 1 \in 1..Len(r[p]) /\ r[p][Len(q[p]) + 1].id = t
    BY <1>1, <1>2, <1>3
  <2>2. QED
    BY <2>1 DEF InQueue, r
<1>4. CASE InQueue(q, t)
  <2>1. PICK k \in Priorities : \E j \in 1..Len(q[k]) : q[k][j].id = t
    BY <1>4 DEF InQueue
  <2>2. PICK j \in 1..Len(q[k]) : q[k][j].id = t
    BY <2>1
  <2>3. j \in 1..Len(r[k]) /\ r[k][j].id = t
    BY <1>1, <1>2, <2>2
  <2>4. QED
    BY <2>3 DEF InQueue, r
<1>5. QED
  BY <1>3, <1>4

\* Held, of a queue and of the judges' submissions.
HeldIn(q, o, t) == InQueue(q, t) \/ \E c \in Conns : t \in o[c]

\* The judge that submission_map names for a submission has it.
MapOK(m, o, t) == m[t] # NoConn => m[t] \in Conns /\ t \in o[m[t]]

\* Offering the queue to a judge loses no submission, but for one of which the
\* dispatch raises.
LEMMA OfferKeeps ==
  ASSUME TypeOK, NEW c \in Conns, NEW m \in MapType, NEW w, NEW o \in SentType,
         HandleFreeJudge(c, m, w, o), NEW t \in Subs
  PROVE  /\ HeldIn(queue, o, t) => Held(t)'
         /\ t \notin failed' /\ MapOK(m, o, t) => MapOK(submission_map', sent', t)
         /\ failed \subseteq failed'
<1>1. queue \in QueueType
  BY DEF TypeOK, ListTypeOK, QueueType
<1>2. CASE /\ submission_map' = m /\ working' = w /\ sent' = o
           /\ UNCHANGED <<queue, judges, faults, failed>>
  BY <1>2 DEF HeldIn, Held, Queued, MapOK
<1>3. ASSUME NEW p \in Priorities, NEW i \in 1..Len(queue[p]),
             SubmitSucceeds(c, queue[p][i].id, m, w, o),
             queue' = [queue EXCEPT ![p] = RemoveAt(@, i)]
      PROVE  /\ HeldIn(queue, o, t) => Held(t)'
             /\ t \notin failed' /\ MapOK(m, o, t) => MapOK(submission_map', sent', t)
             /\ failed \subseteq failed'
  <2> DEFINE s == queue[p][i].id
  <2>1. s \in Subs
    <3>1. queue[p][i] \in Entry
      BY <1>1, ElementOfSeq DEF QueueType
    <3>2. QED
      BY <3>1 DEF Entry
  <2>2. /\ submission_map' = [m EXCEPT ![s] = c] /\ sent' = [o EXCEPT ![c] = @ \cup {s}]
        /\ failed' = failed
    BY <1>3 DEF SubmitSucceeds
  <2>3. InQueue(queue, t) /\ t # s => InQueue(queue', t)
    BY <1>1, <1>3, RemovalKeeps
  <2> HIDE DEF s
  <2>4. \A d \in Conns : t \in o[d] => t \in sent'[d]
    BY <2>2 DEF SentType
  <2>5. t = s => t \in sent'[c]
    BY <2>2 DEF SentType
  <2>6. HeldIn(queue, o, t) => Held(t)'
    BY <2>3, <2>4, <2>5 DEF HeldIn, Held, Queued
  <2>7. MapOK(m, o, t) => MapOK(submission_map', sent', t)
    BY <2>1, <2>2, <2>4, <2>5 DEF MapOK, MapType
  <2>8. QED
    BY <2>2, <2>6, <2>7
<1>4. ASSUME NEW p \in Priorities, NEW i \in 1..Len(queue[p]),
             SubmitRaises(c, queue[p][i].id, m, w, o), UNCHANGED queue
      PROVE  /\ HeldIn(queue, o, t) => Held(t)'
             /\ t \notin failed' /\ MapOK(m, o, t) => MapOK(submission_map', sent', t)
             /\ failed \subseteq failed'
  BY <1>4 DEF SubmitRaises, HeldIn, Held, Queued, MapOK, MapType
<1>5. QED
  BY <1>2, <1>3, <1>4 DEF HandleFreeJudge, Served

\* A request is queued or with a judge afterwards, unless its dispatch raised, and
\* disturbs no other submission.
LEMMA JudgeKeeps ==
  ASSUME TypeOK, NEW s \in Subs, NEW j \in Targets, NEW p \in RequestPriorities,
         Judge(s, j, p), NEW t \in Subs
  PROVE  /\ Held(t) => Held(t)'
         /\ t = s => Held(t)' \/ t \in failed'
         /\ t \notin failed' /\ MapOK(submission_map, sent, t) => MapOK(submission_map', sent', t)
         /\ failed \subseteq failed'
<1>1. queue \in QueueType /\ submission_map \in MapType /\ sent \in SentType /\ judges \subseteq Conns
  BY DEF TypeOK, ListTypeOK, QueueType
<1>2. Available(s, j, p) \subseteq Conns
  BY <1>1 DEF Available, Candidates, CurrentTierJudges
<1>3. ASSUME NEW c \in Conns, SubmitSucceeds(c, s, submission_map, working, sent), UNCHANGED queue
      PROVE  /\ Held(t) => Held(t)'
             /\ t = s => Held(t)'
             /\ MapOK(submission_map, sent, t) => MapOK(submission_map', sent', t)
             /\ failed' = failed
  <2>1. /\ submission_map' = [submission_map EXCEPT ![s] = c]
        /\ sent' = [sent EXCEPT ![c] = @ \cup {s}] /\ failed' = failed
    BY <1>3 DEF SubmitSucceeds
  <2>2. (\A d \in Conns : t \in sent[d] => t \in sent'[d]) /\ s \in sent'[c]
    BY <1>1, <2>1 DEF SentType
  <2>3. (Held(t) => Held(t)') /\ (t = s => Held(t)')
    BY <1>3, <2>2 DEF Held, Queued
  <2>4. MapOK(submission_map, sent, t) => MapOK(submission_map', sent', t)
    BY <1>1, <2>1, <2>2 DEF MapOK, MapType
  <2>5. QED
    BY <2>1, <2>3, <2>4
<1>4. ASSUME NEW c \in Conns, SubmitRaises(c, s, submission_map, working, sent), UNCHANGED queue
      PROVE  /\ Held(t) => Held(t)'
             /\ s \in failed'
             /\ t # s /\ MapOK(submission_map, sent, t) => MapOK(submission_map', sent', t)
             /\ failed \subseteq failed'
  BY <1>1, <1>4 DEF SubmitRaises, Held, Queued, MapOK, MapType
<1>5. ASSUME Enqueue(s, j, p)
      PROVE  /\ Held(t) => Held(t)'
             /\ t = s => Held(t)'
             /\ UNCHANGED <<submission_map, sent, failed>>
  <2> DEFINE e == [id |-> s, judge_id |-> j]
  <2>1. e \in Entry /\ e.id = s /\ p \in Priorities
    BY ConstantsAssumption DEF Entry
  <2> HIDE DEF e
  <2>2. queue' = [queue EXCEPT ![p] = Append(@, e)] /\ UNCHANGED <<submission_map, sent, failed>>
    BY <1>5 DEF Enqueue, e
  <2>3. InQueue(queue, t) \/ t = s => InQueue(queue', t)
    BY <1>1, <2>1, <2>2, InsertionKeeps
  <2>4. QED
    BY <2>2, <2>3 DEF Held, Queued
<1>6. QED
  BY <1>2, <1>3, <1>4, <1>5 DEF Judge, MapOK

\* An abort takes one submission out of the queue and no other.
LEMMA AbortKeeps ==
  ASSUME TypeOK, NEW s \in Subs, Abort(s), NEW t \in Subs, t # s
  PROVE  Held(t) => Held(t)'
<1>1. queue \in QueueType
  BY DEF TypeOK, ListTypeOK, QueueType
<1>2. PICK p \in Priorities : \E i \in 1..Len(queue[p]) :
        queue[p][i].id = s /\ queue' = [queue EXCEPT ![p] = RemoveAt(@, i)]
  BY DEF Abort
<1>3. PICK i \in 1..Len(queue[p]) :
        queue[p][i].id = s /\ queue' = [queue EXCEPT ![p] = RemoveAt(@, i)]
  BY <1>2
<1>4. InQueue(queue, t) => InQueue(queue', t)
  BY <1>1, <1>3, RemovalKeeps
<1>5. sent' = sent
  BY DEF Abort
<1>6. QED
  BY <1>4, <1>5 DEF Held, Queued

\* The end of s takes s from one judge, and nothing from another submission.
LEMMA FreeKeeps ==
  ASSUME TypeOK, NEW c \in Conns, NEW s \in Subs, OnJudgeFree(c, s), NEW t \in Subs
  PROVE  /\ t # s /\ Held(t) => Held(t)'
         /\ t \notin failed' /\ MapOK(submission_map, sent, t)
              => MapOK(submission_map', sent', t) \/ (t = s /\ submission_map[s] = NoConn)
         /\ failed \subseteq failed'
<1> DEFINE m == [submission_map EXCEPT ![s] = NoConn]
           w == [working EXCEPT ![c] = NoSub]
           o == [sent EXCEPT ![c] = @ \ {s}]
<1>1. submission_map \in MapType /\ sent \in SentType /\ working \in WorkingType
  BY DEF TypeOK, ListTypeOK
<1>2. m \in MapType /\ o \in SentType
  BY <1>1 DEF MapType, SentType
<1>3. t # s /\ Held(t) => HeldIn(queue, o, t)
  BY <1>1 DEF Held, HeldIn, Queued, SentType
<1>4. MapOK(submission_map, sent, t) => MapOK(m, o, t)
  BY <1>1 DEF MapOK, MapType, SentType
<1>5. CASE submission_map[s] = NoConn /\ sent' = o /\ UNCHANGED <<queue, submission_map, failed>>
  <2>1. MapOK(submission_map, sent, t) /\ t # s => MapOK(submission_map, o, t)
    BY <1>1 DEF MapOK, MapType, SentType
  <2>2. t # s /\ Held(t) => Held(t)'
    BY <1>3, <1>5 DEF Held, HeldIn, Queued
  <2>3. QED
    BY <1>5, <2>1, <2>2
<1>6. CASE HandleFreeJudge(c, m, w, o)
  <2> HIDE DEF m, w, o
  <2>1. /\ HeldIn(queue, o, t) => Held(t)'
        /\ t \notin failed' /\ MapOK(m, o, t) => MapOK(submission_map', sent', t)
        /\ failed \subseteq failed'
    BY <1>2, <1>6, OfferKeeps
  <2>2. QED
    BY <1>3, <1>4, <2>1
<1>7. QED
  BY <1>5, <1>6 DEF OnJudgeFree

\* A departure takes from its judge's submissions alone.
LEMMA RemoveKeeps ==
  ASSUME TypeOK, NEW c \in Conns, RemoveJudge(c), NEW t \in Subs
  PROVE  /\ Held(t) => Held(t)' \/ t \in sent[c]
         /\ MapOK(submission_map, sent, t) =>
              MapOK(submission_map', sent', t) \/ (t \in sent[c] /\ t # working[c])
         /\ failed' = failed
<1>1. submission_map \in MapType /\ sent \in SentType /\ working \in WorkingType
  BY DEF TypeOK, ListTypeOK
<1>2. /\ submission_map' = [s \in Subs |-> IF s = working[c] THEN NoConn
                                           ELSE IF submission_map[s] = c THEN Gone
                                           ELSE submission_map[s]]
      /\ sent' = [sent EXCEPT ![c] = {}] /\ UNCHANGED <<queue, failed>>
  BY DEF RemoveJudge
<1>3. \A d \in Conns : d # c => sent'[d] = sent[d]
  BY <1>1, <1>2 DEF SentType
<1>4. Held(t) => Held(t)' \/ t \in sent[c]
  BY <1>2, <1>3 DEF Held, Queued
<1>5. MapOK(submission_map, sent, t) =>
        MapOK(submission_map', sent', t) \/ (t \in sent[c] /\ t # working[c])
  BY <1>1, <1>2, <1>3, ConstantsAssumption DEF MapOK, MapType
<1>6. QED
  BY <1>2, <1>4, <1>5

\* The other steps of the pool lose no submission.
LEMMA PoolKeeps ==
  ASSUME TypeOK, PoolStep, NEW t \in Subs
  PROVE  /\ Held(t) => Held(t)'
         /\ t \notin failed' /\ MapOK(submission_map, sent, t) => MapOK(submission_map', sent', t)
         /\ failed \subseteq failed'
<1>1. submission_map \in MapType /\ sent \in SentType /\ judges \subseteq Conns
  BY DEF TypeOK, ListTypeOK
<1>2. CASE UNCHANGED <<queue, submission_map, sent, failed>>
  BY <1>2 DEF Held, Queued, MapOK
<1>3. ASSUME NEW c \in Conns, HandleFreeJudge(c, submission_map, working, sent)
      PROVE  /\ Held(t) => Held(t)'
             /\ t \notin failed' /\ MapOK(submission_map, sent, t)
                  => MapOK(submission_map', sent', t)
             /\ failed \subseteq failed'
  BY <1>1, <1>3, OfferKeeps DEF Held, HeldIn, Queued
<1>4. CASE Administer
  BY <1>2, <1>4 DEF Administer, UpdateDisableJudge, SaveDisabled, Disconnect, listVars
<1>5. ASSUME NEW c \in Conns, NEW P \in ProblemSets, Register(c, P) \/ SupportedProblems(c, P)
      PROVE  UNCHANGED <<queue, submission_map, sent, failed>>
  BY <1>5 DEF Register, SupportedProblems, listVars
<1>6. ASSUME NEW c \in Conns, Connected(c) \/ SaveRow(c)
      PROVE  UNCHANGED <<queue, submission_map, sent, failed>>
  BY <1>6 DEF Connected, SaveRow, listVars
<1>7. ASSUME NEW c \in Conns, UpdateProblems(c)
      PROVE  HandleFreeJudge(c, submission_map, working, sent)
  BY <1>7 DEF UpdateProblems
<1>8. ASSUME NEW c \in Conns, OfferFreeJudge(c)
      PROVE  \/ HandleFreeJudge(c, submission_map, working, sent)
             \/ UNCHANGED <<queue, submission_map, sent, failed>>
  BY <1>8 DEF OfferFreeJudge, listVars
<1>9. CASE OfferRegistered
  <2>1. resume.judge \in Conns
    BY <1>9 DEF OfferRegistered, TypeOK, NoResume
  <2>2. QED
    BY <1>3, <1>9, <2>1 DEF OfferRegistered
<1>10. CASE OfferSoleJudge
  <2>1. \/ \E c \in CurrentTierJudges : HandleFreeJudge(c, submission_map, working, sent)
        \/ UNCHANGED <<queue, submission_map, sent, failed>>
    BY <1>10 DEF OfferSoleJudge, SoleJudge, listVars
  <2>2. CurrentTierJudges \subseteq Conns
    BY <1>1 DEF CurrentTierJudges
  <2>3. QED
    BY <1>2, <1>3, <2>1, <2>2
<1>11. QED
  BY <1>2, <1>3, <1>4, <1>5, <1>6, <1>7, <1>8, <1>9, <1>10 DEF PoolStep, HoldLock
-----------------------------------------------------------------------------
(* Types.                                                                  *)

\* Where a web thread can be.
WebPlaces == {"update", "delete", "request", "failed", "abort", "aborted"}

GradingTypeOK ==
  /\ status \in [Subs -> {"new"} \cup InProgress \cup Final]
  /\ cases \in [Subs -> SUBSET Cases] /\ graded \in [Subs -> SUBSET Cases]
  /\ prog \in [Conns -> [Subs -> 0..(NumCases + 2)]]
  /\ term \in [Conns -> SUBSET Subs]
  /\ thread \in [Conns -> {Idle} \cup [at : Final \cup {"left"}, sub : Subs]]
  /\ web \in [Web -> {Idle} \cup [at : WebPlaces, sub : Subs]]
  /\ lost \subseteq Subs

\* A step of the pool keeps the invariant of the pool.
LEMMA PoolInv == IInv /\ [Next]_vars => IInv'
<1> SUFFICES ASSUME IInv, [Next]_vars PROVE IInv'
  OBVIOUS
<1>1. TypeOK /\ ListIInv
  BY DEF IInv, ListIInv, TypeOK
<1>2. ListIInv' /\ OtherTypeOK'
  BY <1>1, NextListInv, NextOtherType
<1>3. QED
  BY <1>2 DEF IInv, ListIInv, TypeOK, OtherTypeOK

\* A web thread that is not idle has a submission.
LEMMA WebSub ==
  ASSUME GradingTypeOK, NEW w \in Web
  PROVE  /\ web[w] = Idle \/ (web[w] \in [at : WebPlaces, sub : Subs] /\ web[w].sub \in Subs)
         /\ web[w].at \in WebPlaces => web[w].sub \in Subs /\ web[w] # Idle
         /\ web[w].at = "idle" <=> web[w] = Idle
<1>1. web[w] \in {Idle} \cup [at : WebPlaces, sub : Subs]
  BY DEF GradingTypeOK
<1>2. \A r \in [at : WebPlaces, sub : Subs] : r.at \in WebPlaces /\ r.sub \in Subs
  OBVIOUS
<1>3. Idle.at = "idle" /\ "idle" \notin WebPlaces
  BY DEF Idle, WebPlaces
<1>4. QED
  BY <1>1, <1>2, <1>3

\* A busy thread of a connection has a submission.
LEMMA ThreadSub ==
  ASSUME GradingTypeOK, NEW c \in Conns
  PROVE  /\ \/ thread[c] = Idle
            \/ thread[c] \in [at : Final \cup {"left"}, sub : Subs] /\ thread[c].sub \in Subs
         /\ thread[c].at \in Final \cup {"left"} => thread[c].sub \in Subs /\ thread[c] # Idle
         /\ thread[c].at = "idle" <=> thread[c] = Idle
<1>1. thread[c] \in {Idle} \cup [at : Final \cup {"left"}, sub : Subs]
  BY DEF GradingTypeOK
<1>2. \A r \in [at : Final \cup {"left"}, sub : Subs] : r.at \in Final \cup {"left"} /\ r.sub \in Subs
  OBVIOUS
<1>3. Idle.at = "idle" /\ "idle" \notin Final \cup {"left"}
  BY DEF Idle, Final
<1>4. QED
  BY <1>1, <1>2, <1>3

\* An idle thread names no submission.
LEMMA IdleSub == Idle.sub \notin Subs
BY ConstantsAssumption DEF Idle

\* Going to a place.
LEMMA GotoIs ==
  ASSUME GradingTypeOK, NEW w \in Web, web[w].at \in WebPlaces,
         NEW at \in WebPlaces \cup {"idle"}, Goto(w, at)
  PROVE  /\ web' \in [Web -> {Idle} \cup [at : WebPlaces, sub : Subs]]
         /\ \A v \in Web : v # w => web'[v] = web[v]
         /\ at = "idle" => web'[w] = Idle
         /\ at # "idle" => web'[w].at = at /\ web'[w].sub = web[w].sub
<1>1. web \in [Web -> {Idle} \cup [at : WebPlaces, sub : Subs]]
  BY DEF GradingTypeOK
<1>2. web[w] \in [at : WebPlaces, sub : Subs]
  BY WebSub
<1>3. web' = [web EXCEPT ![w] = IF at = "idle" THEN Idle ELSE [web[w] EXCEPT !.at = at]]
  BY DEF Goto
<1>4. CASE at = "idle"
  BY <1>1, <1>3, <1>4
<1>5. CASE at # "idle"
  <2> DEFINE r == [web[w] EXCEPT !.at = at]
  <2>1. r \in [at : WebPlaces, sub : Subs] /\ r.at = at /\ r.sub = web[w].sub
    BY <1>2, <1>5
  <2>2. web' = [web EXCEPT ![w] = r]
    BY <1>3, <1>5
  <2> HIDE DEF r
  <2>3. QED
    BY <1>1, <1>5, <2>1, <2>2
<1>6. QED
  BY <1>4, <1>5

\* Every step of the system is a step of the pool or leaves it alone, but for the
\* shutting of a socket and the restart, which empties it.
LEMMA PoolOfStep ==
  ASSUME GradingTypeOK, GradingNext, ~Restart,
         ~ \E c \in Conns, s \in Subs : SubmissionAcknowledged(c, s)
  PROVE  [Next]_vars
<1>1. ASSUME NEW w \in Web, WebStep(w) PROVE [Next]_vars
  <2>1. CASE RequestJudge(w)
    <3>1. web[w].sub \in Subs
      BY <2>1, WebSub DEF RequestJudge, WebAt, WebPlaces
    <3>2. QED
      BY <2>1, <3>1 DEF RequestJudge, Next, Request
  <2>2. CASE RequestAbort(w)
    <3>1. web[w].sub \in Subs
      BY <2>2, WebSub DEF RequestAbort, WebAt, WebPlaces
    <3>2. QED
      BY <2>2, <3>1 DEF RequestAbort, Next, Request
  <2>3. CASE ~RequestJudge(w) /\ ~RequestAbort(w)
    BY <1>1, <2>3 DEF WebStep, Create, Rejudge, AbortSubmission, UpdateQueued, DeleteTestCases,
       RequestFails, Die, MarkFailed, MarkAborted
  <2>4. QED
    BY <2>1, <2>2, <2>3
<1>2. ASSUME NEW c \in Conns, Packet(c) PROVE [Next]_vars
  <2>1. ASSUME NEW s \in Subs, NEW r \in Final, End(c, s, r) PROVE [Next]_vars
    BY <2>1 DEF End, Next, Handle
  <2>2. CASE Leave(c)
    BY <2>2 DEF Leave, Next, Handle
  <2>3. QED
    BY <1>2, <2>1, <2>2 DEF Packet, GradingBegin, TestCase, StoreResult, FailWorking
<1>3. CASE PoolStep
  BY <1>3 DEF PoolStep, Next, Handle
<1>4. QED
  BY <1>1, <1>2, <1>3 DEF GradingNext

\* Every step keeps the invariant of the pool.
LEMMA PoolInvStep == IInv /\ GradingTypeOK /\ [GradingNext]_allVars => IInv'
<1> SUFFICES ASSUME IInv, GradingTypeOK, [GradingNext]_allVars PROVE IInv'
  OBVIOUS
<1>1. CASE UNCHANGED allVars
  BY <1>1, PoolInv DEF allVars
<1>2. ASSUME NEW c \in Conns, NEW s \in Subs, SubmissionAcknowledged(c, s) PROVE IInv'
  <2>1. /\ closed' \subseteq Conns
        /\ UNCHANGED <<listVars, min_tier, offers, resume, is_disabled, problems, pc, dbVars>>
    BY <1>2 DEF SubmissionAcknowledged, IInv, TypeOK
  <2>2. TypeOK'
    BY <2>1 DEF IInv, TypeOK, ListTypeOK, listVars, dbVars
  <2>3. QED
    BY <2>1, <2>2 DEF IInv, listVars
<1>3. CASE Restart
  <2>1. /\ queue' = [p \in Priorities |-> <<>>] /\ submission_map' = [s \in Subs |-> NoConn]
        /\ judges' = {} /\ min_tier' = NoTier
        /\ working' = [c \in Conns |-> NoSub] /\ sent' = [c \in Conns |-> {}]
        /\ is_disabled' = [c \in Conns |-> FALSE] /\ problems' = [c \in Conns |-> {}]
        /\ pc' = [c \in Conns |-> "off"]
        /\ offers' = {} /\ resume' = NoResume /\ closed' = {} /\ failed' = {}
        /\ UNCHANGED <<row_disabled, toggle, faults>>
    BY <1>3 DEF Restart, dbVars
  <2>2. ListTypeOK'
    BY <2>1 DEF IInv, TypeOK, ListTypeOK, MapType, WorkingType, SentType
  <2>3. TypeOK'
    BY <2>1, <2>2 DEF IInv, TypeOK, NoResume
  <2>4. NoDuplicates(queue')
    BY <2>1 DEF NoDuplicates
  <2>5. Consistent(queue', submission_map', working', sent', failed')
    BY <2>1, ConstantsAssumption DEF Consistent, InQueue
  <2>6. QED
    BY <2>3, <2>4, <2>5 DEF IInv
<1>4. QED
  BY <1>1, <1>2, <1>3, PoolOfStep, PoolInv

WebType == [Web -> {Idle} \cup [at : WebPlaces, sub : Subs]]
ThreadType == [Conns -> {Idle} \cup [at : Final \cup {"left"}, sub : Subs]]

\* Every step of a web thread keeps the types.
LEMMA WebTypes ==
  ASSUME IInv, GradingTypeOK, NEW w \in Web, WebStep(w)
  PROVE  GradingTypeOK'
<1>1. /\ status \in [Subs -> {"new"} \cup InProgress \cup Final]
      /\ cases \in [Subs -> SUBSET Cases] /\ graded \in [Subs -> SUBSET Cases]
      /\ prog \in [Conns -> [Subs -> 0..(NumCases + 2)]] /\ term \in [Conns -> SUBSET Subs]
      /\ thread \in ThreadType /\ web \in WebType /\ lost \subseteq Subs
  BY DEF GradingTypeOK, WebType, ThreadType
<1>2. ASSUME web' \in WebType, UNCHANGED <<graded, prog, thread>>,
             status' \in [Subs -> {"new"} \cup InProgress \cup Final],
             cases' \in [Subs -> SUBSET Cases], lost' \subseteq Subs,
             term' \in [Conns -> SUBSET Subs]
      PROVE  GradingTypeOK'
  BY <1>1, <1>2 DEF GradingTypeOK, WebType, ThreadType
<1>3. ASSUME NEW at \in WebPlaces \cup {"idle"}, Goto(w, at), web[w].at \in WebPlaces
      PROVE  web' \in WebType
  BY <1>3, GotoIs DEF WebType
<1>4. ASSUME NEW s \in Subs, Create(w, s) \/ Rejudge(w, s) \/ AbortSubmission(w, s)
      PROVE  GradingTypeOK'
  <2>1. \E at \in WebPlaces : web' = [web EXCEPT ![w] = [at |-> at, sub |-> s]]
    BY <1>4 DEF Create, Rejudge, AbortSubmission, WebPlaces
  <2>2. web' \in WebType
    BY <1>1, <2>1 DEF WebType
  <2>3. /\ status' \in [Subs -> {"new"} \cup InProgress \cup Final]
        /\ UNCHANGED <<cases, graded, prog, term, thread, lost>>
    BY <1>1, <1>4 DEF Create, Rejudge, AbortSubmission, rowVars, InProgress
  <2>4. QED
    BY <1>1, <1>2, <2>2, <2>3
<1>5. CASE UpdateQueued(w)
  <2>1. web[w].at = "update" /\ (Return(w) \/ Goto(w, After("update")))
    BY <1>5 DEF UpdateQueued, WebAt
  <2>2. web' \in WebType
    BY <1>3, <2>1 DEF Return, After, WebPlaces
  <2>3. /\ status' \in [Subs -> {"new"} \cup InProgress \cup Final] /\ lost' \subseteq Subs
        /\ UNCHANGED <<cases, graded, prog, term, thread>>
    BY <1>1, <1>5 DEF UpdateQueued, Requeued, InProgress
  <2>4. QED
    BY <1>1, <1>2, <2>2, <2>3
<1>6. CASE DeleteTestCases(w)
  <2>1. web[w].at = "delete" /\ Goto(w, After("delete"))
    BY <1>6 DEF DeleteTestCases, WebAt
  <2>2. web' \in WebType
    BY <1>3, <2>1 DEF After, WebPlaces
  <2>3. cases' \in [Subs -> SUBSET Cases] /\ UNCHANGED <<status, graded, prog, term, thread, lost>>
    BY <1>1, <1>6 DEF DeleteTestCases
  <2>4. QED
    BY <1>1, <1>2, <2>2, <2>3
<1>7. CASE RequestJudge(w) \/ RequestFails(w)
  <2>1. web[w].at = "request" /\ (Goto(w, After("request")) \/ Goto(w, "failed"))
    BY <1>7 DEF RequestJudge, RequestFails, WebAt
  <2>2. web' \in WebType
    BY <1>3, <2>1 DEF After, WebPlaces
  <2>3. UNCHANGED <<status, cases, graded, prog, term, thread, lost>>
    BY <1>7 DEF RequestJudge, RequestFails, rowVars
  <2>4. QED
    BY <1>1, <1>2, <2>2, <2>3
<1>8. CASE Die(w)
  <2>1. web[w].at \in WebPlaces /\ Return(w) /\ lost' = lost \cup {web[w].sub}
    BY <1>8 DEF Die, WebPlaces
  <2>2. web' \in WebType
    BY <1>3, <2>1 DEF Return
  <2>3. UNCHANGED <<status, cases, graded, prog, term, thread>> /\ lost' \subseteq Subs
    BY <1>1, <1>8, <2>1, WebSub DEF Die, rowVars
  <2>4. QED
    BY <1>1, <1>2, <2>2, <2>3
<1>9. CASE MarkFailed(w) \/ MarkAborted(w)
  <2>1. web[w].at \in WebPlaces /\ Return(w)
    BY <1>9 DEF MarkFailed, MarkAborted, WebPlaces, WebAt
  <2>2. web' \in WebType
    BY <1>3, <2>1 DEF Return
  <2>3. /\ status' \in [Subs -> {"new"} \cup InProgress \cup Final]
        /\ UNCHANGED <<cases, graded, prog, term, thread, lost>>
    BY <1>1, <1>9 DEF MarkFailed, MarkAborted, Final
  <2>4. QED
    BY <1>1, <1>2, <2>2, <2>3
<1>10. CASE RequestAbort(w)
  <2>1. /\ web[w].at = "abort" /\ (Return(w) \/ Goto(w, "aborted"))
        /\ UNCHANGED <<status, cases, graded, prog, thread>>
        /\ lost' = lost \/ lost' = lost \cup {web[w].sub}
    BY <1>10 DEF RequestAbort, WebAt, rowVars
  <2>2. web' \in WebType
    BY <1>3, <2>1 DEF Return, WebPlaces
  <2>3. lost' \subseteq Subs
    BY <1>1, <2>1, WebSub DEF WebPlaces
  <2>4. term' \in [Conns -> SUBSET Subs]
    <3>1. \/ term' = term
          \/ term' = [c \in Conns |-> IF c = submission_map[web[w].sub] /\ c \notin closed
                                        THEN sent[c] ELSE term[c]]
      BY <1>10 DEF RequestAbort
    <3>2. QED
      BY <1>1, <3>1 DEF IInv, TypeOK, ListTypeOK, SentType
  <2>5. QED
    BY <1>1, <1>2, <2>1, <2>2, <2>3, <2>4
<1>11. QED
  BY <1>4, <1>5, <1>6, <1>7, <1>8, <1>9, <1>10 DEF WebStep

\* So does every other step.
LEMMA GradingTypes ==
  ASSUME IInv, GradingTypeOK, [GradingNext]_allVars
  PROVE  GradingTypeOK'
<1>1. /\ status \in [Subs -> {"new"} \cup InProgress \cup Final]
      /\ cases \in [Subs -> SUBSET Cases] /\ graded \in [Subs -> SUBSET Cases]
      /\ prog \in [Conns -> [Subs -> 0..(NumCases + 2)]] /\ term \in [Conns -> SUBSET Subs]
      /\ thread \in ThreadType /\ web \in WebType /\ lost \subseteq Subs
      /\ NumCases \in Nat
  BY GradingAssumption DEF GradingTypeOK, WebType, ThreadType
<1>2. CASE UNCHANGED gradingVars
  BY <1>2 DEF gradingVars, rowVars, GradingTypeOK
<1>3. ASSUME NEW c \in Conns, Packet(c) PROVE GradingTypeOK'
  <2>1. ASSUME NEW s \in Subs, SubmissionAcknowledged(c, s) PROVE GradingTypeOK'
    <3>1. prog' \in [Conns -> [Subs -> 0..(NumCases + 2)]]
      BY <1>1, <2>1 DEF SubmissionAcknowledged, Advance
    <3>2. status' \in [Subs -> {"new"} \cup InProgress \cup Final] /\ lost' \subseteq Subs
      BY <1>1, <2>1 DEF SubmissionAcknowledged, InProgress, Final
    <3>3. UNCHANGED <<cases, graded, term, thread, web>>
      BY <2>1 DEF SubmissionAcknowledged
    <3>4. QED
      BY <3>1, <3>2, <3>3 DEF GradingTypeOK
  <2>2. ASSUME NEW s \in Subs, GradingBegin(c, s) PROVE GradingTypeOK'
    <3>1. prog' \in [Conns -> [Subs -> 0..(NumCases + 2)]]
      BY <1>1, <2>2 DEF GradingBegin, Advance
    <3>2. /\ status' \in [Subs -> {"new"} \cup InProgress \cup Final]
          /\ cases' \in [Subs -> SUBSET Cases]
      BY <1>1, <2>2 DEF GradingBegin, InProgress
    <3>3. UNCHANGED <<graded, term, thread, web, lost>>
      BY <2>2 DEF GradingBegin
    <3>4. QED
      BY <3>1, <3>2, <3>3 DEF GradingTypeOK
  <2>3. ASSUME NEW s \in Subs, TestCase(c, s) PROVE GradingTypeOK'
    <3>1. prog' \in [Conns -> [Subs -> 0..(NumCases + 2)]] /\ prog[c][s] - 1 \in Cases
      BY <1>1, <2>3 DEF TestCase, Advance, Cases
    <3>2. cases' \in [Subs -> SUBSET Cases]
      BY <1>1, <2>3, <3>1 DEF TestCase
    <3>3. UNCHANGED <<status, graded, term, thread, web, lost>>
      BY <2>3 DEF TestCase
    <3>4. QED
      BY <3>1, <3>2, <3>3 DEF GradingTypeOK
  <2>4. ASSUME NEW s \in Subs, NEW r \in Final, End(c, s, r) PROVE GradingTypeOK'
    <3>1. /\ prog' = [prog EXCEPT ![c][s] = 0] /\ term' = [term EXCEPT ![c] = @ \ {s}]
          /\ thread' = thread \/ thread' = [thread EXCEPT ![c] = [at |-> r, sub |-> s]]
          /\ lost' = lost \/ lost' = lost \cup {s}
          /\ UNCHANGED <<status, cases, graded, web>>
      BY <2>4 DEF End, rowVars
    <3>2. prog' \in [Conns -> [Subs -> 0..(NumCases + 2)]] /\ term' \in [Conns -> SUBSET Subs]
          /\ lost' \subseteq Subs
      BY <1>1, <3>1
    <3>3. thread' \in ThreadType
      BY <1>1, <3>1 DEF ThreadType
    <3>4. QED
      BY <1>1, <3>1, <3>2, <3>3 DEF GradingTypeOK, ThreadType
  <2>5. CASE StoreResult(c)
    <3>1. thread[c].at \in Final /\ thread[c].sub \in Subs
      BY <2>5, ThreadSub DEF StoreResult
    <3>2. /\ status' = [status EXCEPT ![thread[c].sub] = thread[c].at]
          /\ graded' = [graded EXCEPT ![thread[c].sub] =
                          IF thread[c].at = "D" THEN cases[thread[c].sub] ELSE @]
          /\ thread' = [thread EXCEPT ![c] = Idle]
          /\ UNCHANGED <<cases, prog, term, web, lost>>
      BY <2>5 DEF StoreResult
    <3>3. /\ status' \in [Subs -> {"new"} \cup InProgress \cup Final]
          /\ graded' \in [Subs -> SUBSET Cases]
      BY <1>1, <3>1, <3>2
    <3>4. thread' \in ThreadType
      BY <1>1, <3>2 DEF ThreadType
    <3>5. QED
      BY <1>1, <3>2, <3>3, <3>4 DEF GradingTypeOK, ThreadType
  <2>6. CASE Leave(c)
    <3>1. /\ prog' = [prog EXCEPT ![c] = [s \in Subs |-> 0]]
          /\ term' = [term EXCEPT ![c] = {}]
          /\ thread' = [thread EXCEPT ![c] = AfterLeaving(c)]
          /\ lost' = lost \cup (sent[c] \ {working[c]})
          /\ UNCHANGED <<status, cases, graded, web>>
      BY <2>6 DEF Leave, rowVars
    <3>2. sent[c] \subseteq Subs /\ working[c] \in Subs \cup {NoSub}
      BY DEF IInv, TypeOK, ListTypeOK, SentType, WorkingType
    <3>3. AfterLeaving(c) \in {Idle} \cup [at : Final \cup {"left"}, sub : Subs]
      BY <3>2 DEF AfterLeaving
    <3>4. thread' \in ThreadType
      BY <1>1, <3>1, <3>3 DEF ThreadType
    <3>5. prog' \in [Conns -> [Subs -> 0..(NumCases + 2)]] /\ term' \in [Conns -> SUBSET Subs]
          /\ lost' \subseteq Subs
      BY <1>1, <3>1, <3>2
    <3>6. QED
      BY <1>1, <3>1, <3>4, <3>5 DEF GradingTypeOK, ThreadType
  <2>7. CASE FailWorking(c)
    <3>1. thread[c].sub \in Subs
      BY <2>7, ThreadSub DEF FailWorking
    <3>2. /\ status' = [status EXCEPT ![thread[c].sub] = "IE"]
          /\ thread' = [thread EXCEPT ![c] = Idle]
          /\ UNCHANGED <<cases, graded, prog, term, web, lost>>
      BY <2>7 DEF FailWorking
    <3>3. thread' \in ThreadType
      BY <1>1, <3>2 DEF ThreadType
    <3>4. status' \in [Subs -> {"new"} \cup InProgress \cup Final]
      BY <1>1, <3>1, <3>2 DEF Final
    <3>5. QED
      BY <1>1, <3>2, <3>3, <3>4 DEF GradingTypeOK, ThreadType
  <2>8. QED
    BY <1>3, <2>1, <2>2, <2>3, <2>4, <2>5, <2>6, <2>7 DEF Packet
<1>4. CASE Restart
  <2>1. /\ status' = [s \in Subs |-> IF status[s] \in InProgress THEN "IE" ELSE status[s]]
        /\ prog' = [c \in Conns |-> [s \in Subs |-> 0]] /\ term' = [c \in Conns |-> {}]
        /\ thread' = [c \in Conns |-> Idle] /\ lost' = {}
        /\ UNCHANGED <<cases, graded, web>>
    BY <1>4 DEF Restart
  <2>2. status' \in [Subs -> {"new"} \cup InProgress \cup Final]
    BY <1>1, <2>1 DEF Final
  <2>3. QED
    BY <1>1, <2>1, <2>2 DEF GradingTypeOK, ThreadType
<1>5. QED
  BY <1>2, <1>3, <1>4, WebTypes DEF GradingNext, PoolStep, allVars

-----------------------------------------------------------------------------
(* Nothing in progress is forgotten.                                       *)

\* A step on the row of s is under way, which will end it or request it.
Pending(s) ==
  \/ \E w \in Web : web[w].sub = s /\ web[w].at \in {"delete", "request", "failed", "aborted"}
  \/ \E c \in Conns : thread[c].sub = s

\* A web thread is about to queue s.
Asked(s) == \E w \in Web : web[w].sub = s /\ web[w].at = "update"

\* Somebody will end s, or queue it; and the judge that submission_map names has
\* it.
Cared(s) ==
  /\ status[s] \in {"P", "G"} => Held(s) \/ Pending(s)
  /\ status[s] = "QU" => Held(s) \/ Pending(s) \/ Asked(s)
  /\ MapOK(submission_map, sent, s)

CareInv == IInv /\ GradingTypeOK /\ \A s \in Tracked : Cared(s)

\* A step that leaves the status of t, and loses neither t nor the thread that
\* has it in hand.
LEMMA StillCared ==
  ASSUME NEW t \in Subs, Cared(t), status'[t] = status[t] \/ status'[t] \notin InProgress,
         Held(t) => Held(t)' \/ Pending(t)', Pending(t) => Pending(t)' \/ Held(t)',
         Asked(t) => Asked(t)' \/ Pending(t)' \/ Held(t)' \/ status[t] # "QU",
         MapOK(submission_map', sent', t)
  PROVE  Cared(t)'
BY DEF Cared, InProgress

\* A web thread leaves the submissions it does not have in hand alone.
LEMMA WebElsewhere ==
  ASSUME NEW w \in Web, NEW t \in Subs, UNCHANGED thread, \A v \in Web : v # w => web'[v] = web[v],
         web[w].sub # t
  PROVE  (Pending(t) => Pending(t)') /\ (Asked(t) => Asked(t)')
BY DEF Pending, Asked

\* So does the thread of a connection.
LEMMA ThreadElsewhere ==
  ASSUME NEW c \in Conns, NEW t \in Subs, UNCHANGED web,
         \A d \in Conns : d # c => thread'[d] = thread[d],
         thread[c].sub # t
  PROVE  (Pending(t) => Pending(t)') /\ (Asked(t) => Asked(t)')
BY DEF Pending, Asked

\* Web threads.
LEMMA WebCare ==
  ASSUME CareInv, NEW w \in Web, WebStep(w), NEW t \in Tracked'
  PROVE  Cared(t)'
<1> DEFINE s == web[w].sub
<1>1. /\ IInv /\ GradingTypeOK /\ TypeOK /\ t \in Subs /\ t \notin lost' /\ t \notin failed'
      /\ t \in Tracked => Cared(t)
      /\ status \in [Subs -> {"new"} \cup InProgress \cup Final]
      /\ web \in [Web -> {Idle} \cup [at : WebPlaces, sub : Subs]]
  BY DEF CareInv, IInv, Tracked, GradingTypeOK
<1>2. ASSUME UNCHANGED vars
      PROVE  /\ Held(t)' <=> Held(t)
             /\ MapOK(submission_map', sent', t) <=> MapOK(submission_map, sent, t)
             /\ failed' = failed
  BY <1>2 DEF vars, listVars, Held, Queued, MapOK
<1>3. ASSUME NEW u \in Subs, Create(w, u) \/ Rejudge(w, u) \/ AbortSubmission(w, u)
      PROVE  Cared(t)'
  <2>1. /\ UNCHANGED <<vars, thread, lost>> /\ web[w] = Idle
        /\ \E at \in WebPlaces : web' = [web EXCEPT ![w] = [at |-> at, sub |-> u]]
    BY <1>3 DEF Create, Rejudge, AbortSubmission, WebPlaces
  <2>2. t \in Tracked /\ Cared(t)
    BY <1>1, <1>2, <2>1 DEF Tracked
  <2>3. (Pending(t) => Pending(t)') /\ (Asked(t) => Asked(t)')
    BY <1>1, <2>1, IdleSub, WebElsewhere
  <2>4. CASE status'[t] = status[t]
    BY <1>1, <1>2, <2>1, <2>2, <2>3, <2>4, StillCared DEF Cared
  <2>5. CASE status'[t] # status[t]
    <3>1. /\ t = u /\ status'[t] = "QU" /\ web'[w].sub = t /\ web'[w].at = "update"
      BY <1>1, <1>3, <2>5 DEF Create, Rejudge, AbortSubmission, rowVars
    <3>2. Asked(t)'
      BY <3>1 DEF Asked
    <3>3. QED
      BY <1>2, <2>1, <2>2, <3>1, <3>2 DEF Cared
  <2>6. QED
    BY <2>4, <2>5
<1>4. CASE UpdateQueued(w)
  <2>1. /\ web[w].at = "update" /\ UNCHANGED <<vars, thread>> /\ s \in Subs
        /\ \/ status[s] \in {"P", "G"} /\ Return(w) /\ UNCHANGED <<status, lost>>
           \/ /\ status[s] \notin {"P", "G"}
              /\ status' = Requeued(s) /\ Goto(w, After("update"))
              /\ lost' = IF InBridge(s) THEN lost ELSE lost \ {s}
    BY <1>1, <1>4, WebSub DEF UpdateQueued, WebAt, WebPlaces
  <2>2. CASE t # s
    <3>1. t \in Tracked /\ Cared(t) /\ status'[t] = status[t]
      BY <1>1, <1>2, <2>1, <2>2 DEF Tracked, Requeued
    <3>2. \A v \in Web : v # w => web'[v] = web[v]
      BY <1>1, <2>1, GotoIs DEF WebPlaces, Return, After
    <3>3. web[w].sub # t /\ UNCHANGED thread
      BY <2>1, <2>2
    <3>4. (Pending(t) => Pending(t)') /\ (Asked(t) => Asked(t)')
      BY <1>1, <3>2, <3>3, WebElsewhere
    <3>5. UNCHANGED vars
      BY <2>1
    <3>6. QED
      BY <1>1, <1>2, <3>1, <3>4, <3>5, StillCared DEF Cared
  <2>3. CASE t = s /\ status[s] \in {"P", "G"}
    <3>1. Return(w) /\ UNCHANGED <<status, lost>>
      BY <2>1, <2>3
    <3>2. t \in Tracked /\ Cared(t)
      BY <1>1, <1>2, <2>1, <3>1 DEF Tracked
    <3>3. \A v \in Web : v # w => web'[v] = web[v]
      BY <1>1, <2>1, <3>1, GotoIs DEF WebPlaces, Return
    <3>4. Pending(t) => Pending(t)'
      BY <2>1, <3>3 DEF Pending
    <3>5. QED
      BY <1>1, <1>2, <2>1, <2>3, <3>1, <3>2, <3>4, StillCared DEF Cared
  <2>4. CASE t = s /\ status[s] \notin {"P", "G"}
    <3>1. Goto(w, "delete") /\ status'[t] = "QU" /\ lost' = IF InBridge(s) THEN lost ELSE lost \ {s}
      BY <1>1, <2>1, <2>4 DEF After, Requeued
    <3>2. web'[w].at = "delete" /\ web'[w].sub = s
      BY <1>1, <2>1, <3>1, GotoIs DEF WebPlaces
    <3>3. Pending(t)'
      BY <2>4, <3>2 DEF Pending
    <3>4. MapOK(submission_map, sent, t)
      <4>1. CASE t \in Tracked
        BY <1>1, <4>1 DEF Cared
      <4>2. CASE t \notin Tracked
        <5>1. ~InBridge(s)
          BY <1>1, <1>2, <2>1, <2>4, <3>1, <4>2 DEF Tracked
        <5>2. QED
          BY <2>4, <5>1 DEF InBridge, Known, MapOK
      <4>3. QED
        BY <4>1, <4>2
    <3>5. QED
      BY <1>2, <2>1, <3>1, <3>3, <3>4 DEF Cared
  <2>5. QED
    BY <2>2, <2>3, <2>4
<1>5. CASE DeleteTestCases(w) \/ RequestFails(w)
  <2>1. /\ web[w].at \in {"delete", "request"} /\ UNCHANGED <<vars, status, thread, lost>>
        /\ \E at \in {"request", "failed"} : Goto(w, at)
    BY <1>5 DEF DeleteTestCases, RequestFails, WebAt, After, rowVars
  <2>2. PICK at \in {"request", "failed"} : Goto(w, at)
    BY <2>1
  <2>3. /\ \A v \in Web : v # w => web'[v] = web[v]
        /\ web'[w].at = at /\ web'[w].sub = web[w].sub
    BY <1>1, <2>1, <2>2, GotoIs DEF WebPlaces
  <2>4. t \in Tracked /\ Cared(t)
    BY <1>1, <1>2, <2>1 DEF Tracked
  <2>5. (Pending(t) => Pending(t)') /\ (Asked(t) => Asked(t)')
    BY <2>1, <2>3 DEF Pending, Asked
  <2>6. QED
    BY <1>1, <1>2, <2>1, <2>4, <2>5, StillCared DEF Cared
<1>6. CASE RequestJudge(w)
  <2>1. /\ web[w].at = "request" /\ UNCHANGED <<status, thread, lost>> /\ s \in Subs
        /\ \/ \E j \in Targets, p \in RequestPriorities : Judge(s, j, p)
           \/ Known(s) /\ UNCHANGED vars
        /\ \E at \in {"idle", "failed"} : Goto(w, at)
    BY <1>1, <1>6, WebSub DEF RequestJudge, WebAt, After, rowVars, WebPlaces
  <2>2. \A v \in Web : v # w => web'[v] = web[v]
    BY <1>1, <2>1, GotoIs DEF WebPlaces
  <2>3. /\ failed \subseteq failed' /\ (Held(t) => Held(t)')
        /\ MapOK(submission_map, sent, t) => MapOK(submission_map', sent', t)
        /\ t = s => Held(t)' \/ (Known(s) /\ UNCHANGED vars)
    <3>1. ASSUME NEW j \in Targets, NEW p \in RequestPriorities, Judge(s, j, p)
          PROVE  /\ failed \subseteq failed' /\ (Held(t) => Held(t)')
                 /\ MapOK(submission_map, sent, t) => MapOK(submission_map', sent', t)
                 /\ t = s => Held(t)'
      <4> HIDE DEF s
      <4>1. s \in Subs
        BY <2>1
      <4>2. QED
        BY <1>1, <3>1, <4>1, JudgeKeeps
    <3>2. CASE Known(s) /\ UNCHANGED vars
      BY <1>2, <3>2
    <3>3. QED
      BY <2>1, <3>1, <3>2
  <2>4. t \in Tracked /\ Cared(t)
    BY <1>1, <2>1, <2>3 DEF Tracked
  <2>5. t = s => Held(t)'
    <3> SUFFICES ASSUME t = s, Known(s), UNCHANGED vars PROVE Held(t)
      BY <1>2, <2>3
    <3>1. QED
      BY <2>4 DEF Known, Held, Cared, MapOK
  <2>6. CASE t = s
    BY <2>1, <2>3, <2>4, <2>5, <2>6 DEF Cared
  <2>7. CASE t # s
    <3>1. web[w].sub # t /\ UNCHANGED <<thread, status>>
      BY <2>1, <2>7
    <3>2. (Pending(t) => Pending(t)') /\ (Asked(t) => Asked(t)')
      BY <1>1, <2>2, <3>1, WebElsewhere
    <3>3. QED
      BY <1>1, <2>3, <2>4, <3>1, <3>2, StillCared DEF Cared
  <2>8. QED
    BY <2>6, <2>7
<1>7. CASE Die(w) \/ MarkFailed(w) \/ MarkAborted(w)
  <2>1. /\ web[w].at \in WebPlaces /\ Return(w) /\ UNCHANGED <<vars, thread>> /\ s \in Subs
        /\ \/ lost' = lost /\ \E r \in Final : status' = [status EXCEPT ![s] = r]
           \/ lost' = lost \cup {s} /\ status' = status
    BY <1>1, <1>7, WebSub DEF Die, MarkFailed, MarkAborted, WebAt, rowVars, Final, WebPlaces
  <2>2. \A v \in Web : v # w => web'[v] = web[v]
    BY <1>1, <2>1, GotoIs DEF Return
  <2>3. t \in Tracked /\ Cared(t)
    BY <1>1, <1>2, <2>1 DEF Tracked
  <2>4. CASE t = s
    <3>1. status'[t] \in Final
      BY <1>1, <2>1, <2>4
    <3>2. QED
      BY <1>2, <2>1, <2>3, <3>1 DEF Cared, Final
  <2>5. CASE t # s
    <3>1. (Pending(t) => Pending(t)') /\ (Asked(t) => Asked(t)') /\ status'[t] = status[t]
      BY <1>1, <2>1, <2>2, <2>5, WebElsewhere
    <3>2. QED
      BY <1>1, <1>2, <2>1, <2>3, <3>1, StillCared DEF Cared
  <2>6. QED
    BY <2>4, <2>5
<1>8. CASE RequestAbort(w)
  <2>1. /\ web[w].at = "abort" /\ UNCHANGED <<status, thread>> /\ s \in Subs
        /\ \/ submission_map[s] # NoConn /\ UNCHANGED <<vars, lost>> /\ Return(w)
           \/ /\ Abort(s) \/ UNCHANGED vars
              /\ \/ Goto(w, "aborted") /\ UNCHANGED lost
                 \/ Return(w) /\ lost' = lost \cup {s}
    BY <1>1, <1>8, WebSub DEF RequestAbort, WebAt, rowVars, WebPlaces
  <2>2. \A v \in Web : v # w => web'[v] = web[v]
    BY <1>1, <2>1, GotoIs DEF WebPlaces, Return
  <2>3. /\ UNCHANGED <<submission_map, sent, failed>>
        /\ MapOK(submission_map, sent, t) => MapOK(submission_map', sent', t)
    BY <1>2, <2>1 DEF Abort, vars, listVars, MapOK
  <2>4. t \in Tracked /\ Cared(t)
    BY <1>1, <2>1, <2>3 DEF Tracked
  <2>5. (Pending(t) => Pending(t)') /\ (Asked(t) => Asked(t)')
    BY <2>1, <2>2 DEF Pending, Asked
  <2>6. CASE t = s /\ Abort(s)
    <3>1. Goto(w, "aborted")
      BY <1>1, <2>1, <2>6 DEF Abort, vars, listVars
    <3>2. web'[w].at = "aborted" /\ web'[w].sub = s
      BY <1>1, <2>1, <3>1, GotoIs DEF WebPlaces
    <3>3. Pending(t)'
      BY <2>6, <3>2 DEF Pending
    <3>4. QED
      BY <2>1, <2>3, <2>4, <3>3 DEF Cared
  <2>7. CASE t # s \/ UNCHANGED vars
    <3>1. Held(t) => Held(t)'
      BY <1>1, <1>2, <2>1, <2>7, AbortKeeps
    <3>2. QED
      BY <1>1, <2>1, <2>3, <2>4, <2>5, <3>1, StillCared DEF Cared
  <2>8. QED
    BY <2>1, <2>6, <2>7
<1>9. QED
  BY <1>3, <1>4, <1>5, <1>6, <1>7, <1>8 DEF WebStep

\* The packets of a judge and the threads that handle them.
LEMMA PacketCare ==
  ASSUME CareInv, NEW c \in Conns, Packet(c), NEW t \in Tracked'
  PROVE  Cared(t)'
<1>1. /\ IInv /\ GradingTypeOK /\ TypeOK /\ t \in Subs /\ t \notin lost' /\ t \notin failed'
      /\ t \in Tracked => Cared(t)
      /\ status \in [Subs -> {"new"} \cup InProgress \cup Final]
      /\ thread \in ThreadType /\ sent[c] \subseteq Subs /\ working[c] \in Subs \cup {NoSub}
  BY DEF CareInv, IInv, Tracked, GradingTypeOK, ThreadType, TypeOK, ListTypeOK, SentType, WorkingType
<1>2. ASSUME UNCHANGED listVars
      PROVE  /\ Held(t)' <=> Held(t)
             /\ MapOK(submission_map', sent', t) <=> MapOK(submission_map, sent, t)
             /\ failed' = failed
  BY <1>2 DEF listVars, Held, Queued, MapOK
<1>3. ASSUME NEW s \in Subs, SubmissionAcknowledged(c, s) \/ GradingBegin(c, s) \/ TestCase(c, s)
      PROVE  Cared(t)'
  <2>1. /\ s \in sent[c] /\ UNCHANGED <<listVars, thread, web>>
        /\ lost \subseteq lost'
        /\ t # s => status'[t] = status[t] \/ status'[t] = "IE"
    BY <1>1, <1>3 DEF SubmissionAcknowledged, GradingBegin, TestCase, Receives, vars
  <2>2. t \in Tracked /\ Cared(t)
    BY <1>1, <1>2, <2>1 DEF Tracked
  <2>3. (Pending(t) <=> Pending(t)') /\ (Asked(t) <=> Asked(t)')
    BY <2>1 DEF Pending, Asked
  <2>4. CASE t = s
    <3>1. Held(t)'
      BY <1>2, <2>1, <2>4 DEF Held
    <3>2. QED
      BY <1>2, <2>1, <2>2, <3>1 DEF Cared
  <2>5. CASE t # s
    <3>1. status'[t] = status[t] \/ status'[t] \notin InProgress
      BY <2>1, <2>5 DEF InProgress
    <3>2. QED
      BY <1>1, <1>2, <2>1, <2>2, <2>3, <3>1, StillCared DEF Cared
  <2>6. QED
    BY <2>4, <2>5
<1>4. ASSUME NEW s \in Subs, NEW r \in Final, End(c, s, r)
      PROVE  Cared(t)'
  <2>1. /\ OnJudgeFree(c, s) /\ thread[c] = Idle /\ UNCHANGED <<status, web>>
        /\ \/ lost' = lost \cup {s} /\ thread' = thread
           \/ /\ submission_map[s] # NoConn
              /\ thread' = [thread EXCEPT ![c] = [at |-> r, sub |-> s]]
              /\ lost' = lost
    BY <1>4 DEF End, Receives, FreeRaises, rowVars
  <2>2. /\ t # s /\ Held(t) => Held(t)'
        /\ MapOK(submission_map, sent, t)
             => MapOK(submission_map', sent', t) \/ (t = s /\ submission_map[s] = NoConn)
        /\ failed \subseteq failed'
    BY <1>1, <2>1, FreeKeeps
  <2>3. t \in Tracked /\ Cared(t)
    BY <1>1, <2>1, <2>2 DEF Tracked
  <2>4. \A d \in Conns : d # c => thread'[d] = thread[d]
    BY <1>1, <2>1 DEF ThreadType
  <2>5. thread[c].sub # t
    BY <1>1, <2>1, IdleSub
  <2>6. (Pending(t) => Pending(t)') /\ (Asked(t) => Asked(t)')
    BY <1>1, <2>1, <2>4, <2>5, ThreadElsewhere
  <2>7. CASE t = s
    <3>1. thread' = [thread EXCEPT ![c] = [at |-> r, sub |-> s]] /\ submission_map[s] # NoConn
      BY <1>1, <2>1, <2>7
    <3>2. thread'[c].sub = t
      BY <1>1, <2>7, <3>1 DEF ThreadType
    <3>3. Pending(t)'
      BY <3>2 DEF Pending
    <3>4. QED
      BY <2>1, <2>2, <2>3, <3>1, <3>3 DEF Cared
  <2>8. CASE t # s
    <3>1. UNCHANGED status
      BY <2>1
    <3>2. QED
      BY <1>1, <2>2, <2>3, <2>6, <2>8, <3>1, StillCared DEF Cared
  <2>9. QED
    BY <2>7, <2>8
<1>5. CASE StoreResult(c) \/ FailWorking(c)
  <2> DEFINE s == thread[c].sub
  <2>1. /\ s \in Subs /\ UNCHANGED <<vars, web, lost>> /\ thread' = [thread EXCEPT ![c] = Idle]
        /\ \E r \in Final : status' = [status EXCEPT ![s] = r]
    BY <1>1, <1>5, ThreadSub DEF StoreResult, FailWorking, Final
  <2>2. t \in Tracked /\ Cared(t) /\ UNCHANGED listVars
    BY <1>1, <1>2, <2>1 DEF Tracked, vars
  <2>3. CASE t = s
    <3>1. status'[t] \in Final
      BY <1>1, <2>1, <2>3
    <3>2. QED
      BY <1>2, <2>2, <3>1 DEF Cared, Final
  <2>4. CASE t # s
    <3>1. \A d \in Conns : d # c => thread'[d] = thread[d]
      BY <1>1, <2>1 DEF ThreadType
    <3>2. thread[c].sub # t /\ UNCHANGED web /\ status'[t] = status[t]
      BY <1>1, <2>1, <2>4
    <3>3. (Pending(t) => Pending(t)') /\ (Asked(t) => Asked(t)')
      BY <1>1, <3>1, <3>2, ThreadElsewhere
    <3>4. QED
      BY <1>1, <1>2, <2>2, <3>2, <3>3, StillCared DEF Cared
  <2>5. QED
    BY <2>3, <2>4
<1>6. CASE Leave(c)
  <2>1. /\ RemoveJudge(c) /\ thread[c] = Idle /\ UNCHANGED <<status, web>>
        /\ thread' = [thread EXCEPT ![c] = AfterLeaving(c)]
        /\ lost' = lost \cup (sent[c] \ {working[c]})
    BY <1>6 DEF Leave, rowVars
  <2>2. t \notin sent[c] \/ t = working[c]
    BY <1>1, <2>1
  <2>3. /\ Held(t) => Held(t)' \/ t = working[c]
        /\ MapOK(submission_map, sent, t) => MapOK(submission_map', sent', t)
        /\ failed' = failed
    BY <1>1, <2>1, <2>2, RemoveKeeps
  <2>4. t \in Tracked /\ Cared(t)
    BY <1>1, <2>1, <2>3 DEF Tracked
  <2>5. t = working[c] => Pending(t)'
    <3> SUFFICES ASSUME t = working[c] PROVE Pending(t)'
      OBVIOUS
    <3>1. thread'[c] = [at |-> "left", sub |-> t]
      BY <1>1, <2>1, ConstantsAssumption DEF AfterLeaving, ThreadType
    <3>2. thread'[c].sub = t
      BY <3>1
    <3>3. QED
      BY <3>2 DEF Pending
  <2>6. \A d \in Conns : d # c => thread'[d] = thread[d]
    BY <1>1, <2>1 DEF ThreadType
  <2>7. thread[c].sub # t
    BY <1>1, <2>1, IdleSub
  <2>8. (Pending(t) => Pending(t)') /\ (Asked(t) => Asked(t)')
    BY <1>1, <2>1, <2>6, <2>7, ThreadElsewhere
  <2>9. Held(t) => Held(t)' \/ Pending(t)'
    BY <2>3, <2>5
  <2>10. UNCHANGED status /\ MapOK(submission_map', sent', t)
    BY <2>1, <2>3, <2>4 DEF Cared
  <2>11. CASE Held(t)'
    BY <1>1, <2>4, <2>8, <2>10, <2>11, StillCared
  <2>12. CASE Pending(t)'
    BY <2>10, <2>12 DEF Cared
  <2>13. CASE ~Held(t)' /\ ~Pending(t)'
    BY <1>1, <2>4, <2>8, <2>9, <2>10, <2>13, StillCared
  <2>14. QED
    BY <2>11, <2>12, <2>13
<1>7. QED
  BY <1>3, <1>4, <1>5, <1>6 DEF Packet

\* The invariant is inductive.
LEMMA CareStep == CareInv /\ [GradingNext]_allVars => CareInv'
<1> SUFFICES ASSUME CareInv, [GradingNext]_allVars PROVE CareInv'
  OBVIOUS
<1>1. IInv /\ GradingTypeOK /\ TypeOK
  BY DEF CareInv, IInv
<1>2. IInv' /\ GradingTypeOK'
  BY <1>1, PoolInvStep, GradingTypes
<1>3. ASSUME NEW t \in Tracked' PROVE Cared(t)'
  <2>1. t \in Subs /\ t \notin lost' /\ t \notin failed' /\ (t \in Tracked => Cared(t))
    BY DEF CareInv, Tracked
  <2>2. CASE UNCHANGED allVars
    BY <2>1, <2>2 DEF allVars, gradingVars, rowVars, vars, listVars, Tracked, Cared, Held, Queued,
       Pending, Asked, MapOK
  <2>3. CASE \E w \in Web : WebStep(w)
    BY <2>3, WebCare
  <2>4. CASE \E c \in Conns : Packet(c)
    BY <2>4, PacketCare
  <2>5. CASE PoolStep
    <3>1. UNCHANGED gradingVars
      BY <2>5 DEF PoolStep
    <3>2. /\ Held(t) => Held(t)'
          /\ MapOK(submission_map, sent, t) => MapOK(submission_map', sent', t)
          /\ failed \subseteq failed'
      BY <1>1, <2>1, <2>5, PoolKeeps
    <3>3. t \in Tracked /\ Cared(t)
      BY <2>1, <3>1, <3>2 DEF Tracked, gradingVars
    <3>4. (Pending(t) <=> Pending(t)') /\ (Asked(t) <=> Asked(t)') /\ UNCHANGED status
      BY <3>1 DEF gradingVars, rowVars, Pending, Asked
    <3>5. MapOK(submission_map', sent', t)
      BY <3>2, <3>3 DEF Cared
    <3>6. QED
      BY <2>1, <3>2, <3>3, <3>4, <3>5, StillCared
  <2>6. CASE Restart
    <3>1. /\ status' = [s \in Subs |-> IF status[s] \in InProgress THEN "IE" ELSE status[s]]
          /\ submission_map' = [s \in Subs |-> NoConn]
      BY <2>6 DEF Restart
    <3>2. status'[t] \notin InProgress
      BY <2>1, <3>1 DEF InProgress
    <3>3. QED
      BY <2>1, <3>1, <3>2 DEF Cared, InProgress, MapOK
  <2>7. QED
    BY <2>2, <2>3, <2>4, <2>5, <2>6 DEF GradingNext
<1>4. QED
  BY <1>1, <1>2, <1>3 DEF CareInv

\* It holds at the start.
LEMMA CareInit == GradingInit => CareInv
<1> SUFFICES ASSUME GradingInit PROVE CareInv
  OBVIOUS
<1>1. IInv
  BY InitInv DEF GradingInit
<1>2. GradingTypeOK
  <2>1. /\ status = [s \in Subs |-> "new"]
        /\ cases = [s \in Subs |-> {}] /\ graded = [s \in Subs |-> {}]
        /\ prog = [c \in Conns |-> [s \in Subs |-> 0]] /\ term = [c \in Conns |-> {}]
        /\ thread = [c \in Conns |-> Idle] /\ web = [w \in Web |-> Idle] /\ lost = {}
    BY DEF GradingInit
  <2>2. 0 \in 0..(NumCases + 2)
    BY GradingAssumption
  <2>3. prog \in [Conns -> [Subs -> 0..(NumCases + 2)]]
    BY <2>1, <2>2
  <2>4. QED
    BY <2>1, <2>3 DEF GradingTypeOK
<1>3. \A s \in Subs : status[s] = "new" /\ submission_map[s] = NoConn
  BY DEF GradingInit, Init
<1>4. QED
  BY <1>1, <1>2, <1>3 DEF CareInv, Tracked, Cared, MapOK

\* It holds in every reachable state.
LEMMA CareAlways == GradingSpec => []CareInv
BY CareInit, CareStep, PTL DEF GradingSpec

\* Every variable of the site and the bridge keeps to its type.
THEOREM GradingTypesHold == GradingSpec => []GradingTypeOK
<1>1. CareInv => GradingTypeOK
  BY DEF CareInv
<1>2. QED
  BY <1>1, CareAlways, PTL

\* No crash of the daemon, departure of a judge, abort, lost answer or rejudge
\* leaves a submission in progress that nobody will end, but for those that the
\* code is known to lose.
THEOREM NothingIsForgotten == GradingSpec => []InProgressIsHeld
<1>1. CareInv => InProgressIsHeld
  <2> SUFFICES ASSUME CareInv, AtRest, NEW s \in Tracked, status[s] \in InProgress PROVE Held(s)
    BY DEF InProgressIsHeld
  <2>1. s \in Subs /\ Cared(s)
    BY DEF CareInv, Tracked
  <2>2. Idle.at \notin {"delete", "request", "failed", "aborted", "update"} /\ Idle.sub # s
    BY <2>1, IdleSub DEF Idle
  <2>3. ~Pending(s) /\ ~Asked(s)
    BY <2>2 DEF AtRest, Pending, Asked
  <2>4. QED
    BY <2>1, <2>3 DEF Cared, InProgress
<1>2. QED
  BY <1>1, CareAlways, PTL

-----------------------------------------------------------------------------
(* The life cycle: what keeps the status of a submission in step with its  *)
(* place in the bridge.                                                    *)

\* t comes into a map of the pool from the queue alone.
Quiet(t) ==
  /\ Queued(t)' => Queued(t)
  /\ \A d \in Conns : t \in sent'[d] => t \in sent[d] \/ Queued(t)
  /\ submission_map'[t] # NoConn => Known(t)

\* What a judge is offered comes from the queue, and it keeps what it has.
LEMMA OfferMoves ==
  ASSUME TypeOK, NoDuplicates(queue),
         NEW c \in Conns, NEW m \in MapType, NEW w, NEW o \in SentType,
         HandleFreeJudge(c, m, w, o), NEW t \in Subs
  PROVE  /\ Queued(t)' => Queued(t)
         /\ \A d \in Conns : t \in sent'[d] => t \in o[d] \/ Queued(t)
         /\ \A d \in Conns : t \in o[d] => t \in sent'[d]
         /\ submission_map'[t] # NoConn => m[t] # NoConn \/ Queued(t)
<1>1. queue \in QueueType
  BY DEF TypeOK, ListTypeOK, QueueType
<1>2. CASE submission_map' = m /\ sent' = o /\ UNCHANGED queue
  BY <1>2 DEF Queued
<1>3. ASSUME NEW p \in Priorities, NEW i \in 1..Len(queue[p]),
             SubmitSucceeds(c, queue[p][i].id, m, w, o),
             queue' = [queue EXCEPT ![p] = RemoveAt(@, i)]
      PROVE  /\ Queued(t)' => Queued(t)
             /\ \A d \in Conns : t \in sent'[d] => t \in o[d] \/ Queued(t)
             /\ \A d \in Conns : t \in o[d] => t \in sent'[d]
             /\ submission_map'[t] # NoConn => m[t] # NoConn \/ Queued(t)
  <2> DEFINE s == queue[p][i].id
  <2>1. t = s => Queued(t)
    BY DEF Queued, InQueue
  <2>2. InQueue(queue', t) => InQueue(queue, t)
    BY <1>1, <1>3, QueueRemoval
  <2>3. submission_map' = [m EXCEPT ![s] = c] /\ sent' = [o EXCEPT ![c] = @ \cup {s}]
    BY <1>3 DEF SubmitSucceeds
  <2> HIDE DEF s
  <2>4. \A d \in Conns : (t \in o[d] => t \in sent'[d]) /\ (t \in sent'[d] => t \in o[d] \/ t = s)
    BY <2>3 DEF SentType
  <2>5. submission_map'[t] # m[t] => t = s
    BY <2>3 DEF MapType
  <2>6. QED
    BY <2>1, <2>2, <2>4, <2>5 DEF Queued
<1>4. ASSUME NEW p \in Priorities, NEW i \in 1..Len(queue[p]),
             SubmitRaises(c, queue[p][i].id, m, w, o), UNCHANGED queue
      PROVE  /\ Queued(t)' => Queued(t)
             /\ \A d \in Conns : t \in sent'[d] => t \in o[d] \/ Queued(t)
             /\ \A d \in Conns : t \in o[d] => t \in sent'[d]
             /\ submission_map'[t] # NoConn => m[t] # NoConn \/ Queued(t)
  <2> DEFINE s == queue[p][i].id
  <2>1. t = s => Queued(t)
    BY DEF Queued, InQueue
  <2>2. submission_map' = [m EXCEPT ![s] = c] /\ sent' = o
    BY <1>4 DEF SubmitRaises
  <2> HIDE DEF s
  <2>3. submission_map'[t] # m[t] => t = s
    BY <2>2 DEF MapType
  <2>4. QED
    BY <1>4, <2>1, <2>2, <2>3 DEF Queued
<1>5. QED
  BY <1>2, <1>3, <1>4 DEF HandleFreeJudge, Served

\* A request brings in its own submission alone.
LEMMA JudgeMoves ==
  ASSUME IInv, NEW s \in Subs, NEW j \in Targets, NEW p \in RequestPriorities,
         Judge(s, j, p), NEW t \in Subs
  PROVE  /\ t # s => Quiet(t)
         /\ \A d \in Conns : t \in sent[d] => t \in sent'[d]
<1>1. queue \in QueueType /\ submission_map \in MapType /\ sent \in SentType /\ judges \subseteq Conns
      /\ NoDuplicates(queue) /\ ~Known(s)
  BY DEF IInv, TypeOK, ListTypeOK, QueueType, Judge
<1>2. Available(s, j, p) \subseteq Conns
  BY <1>1 DEF Available, Candidates, CurrentTierJudges
<1>3. ASSUME NEW c \in Conns, UNCHANGED queue,
             \/ SubmitSucceeds(c, s, submission_map, working, sent)
             \/ SubmitRaises(c, s, submission_map, working, sent)
      PROVE  /\ t # s => Quiet(t)
             /\ \A d \in Conns : t \in sent[d] => t \in sent'[d]
  <2>1. /\ submission_map' = [submission_map EXCEPT ![s] = c]
        /\ sent' = sent \/ sent' = [sent EXCEPT ![c] = @ \cup {s}]
    BY <1>3 DEF SubmitSucceeds, SubmitRaises
  <2>2. \A d \in Conns : (t \in sent[d] => t \in sent'[d]) /\ (t \in sent'[d] => t \in sent[d] \/ t = s)
    BY <1>1, <2>1 DEF SentType
  <2>3. t # s => submission_map'[t] = submission_map[t]
    BY <1>1, <2>1 DEF MapType
  <2>4. QED
    BY <1>3, <2>2, <2>3 DEF Quiet, Queued, Known
<1>4. CASE Enqueue(s, j, p)
  <2> DEFINE e == [id |-> s, judge_id |-> j]
  <2>1. e \in Entry /\ e.id = s /\ p \in Priorities
    BY ConstantsAssumption DEF Entry
  <2> HIDE DEF e
  <2>2. queue' = [queue EXCEPT ![p] = Append(@, e)] /\ UNCHANGED <<submission_map, sent>>
    BY <1>4 DEF Enqueue, e
  <2>3. InQueue(queue', t) => InQueue(queue, t) \/ t = s
    <3>1. ~InQueue(queue, e.id)
      BY <1>1, <2>1 DEF Known, Queued
    <3>2. QED
      BY <1>1, <2>1, <2>2, <3>1, QueueInsertion
  <2>4. QED
    BY <2>2, <2>3 DEF Quiet, Queued, Known
<1>5. QED
  BY <1>2, <1>3, <1>4 DEF Judge

\* When a judge is freed of s it has what it had but s, and s is out of the bridge.
LEMMA FreeMoves ==
  ASSUME IInv, NEW c \in Conns, NEW s \in Subs, OnJudgeFree(c, s), NEW t \in Subs
  PROVE  /\ Quiet(t)
         /\ \A d \in Conns : t \in sent[d] /\ ~(d = c /\ t = s) => t \in sent'[d]
         /\ s \notin failed => ~Known(s)' /\ ~Held(s)'
<1> DEFINE m == [submission_map EXCEPT ![s] = NoConn]
           w == [working EXCEPT ![c] = NoSub]
           o == [sent EXCEPT ![c] = @ \ {s}]
<1>1. /\ TypeOK /\ submission_map \in MapType /\ sent \in SentType /\ NoDuplicates(queue)
      /\ s \in sent[c]
  BY DEF IInv, TypeOK, ListTypeOK, OnJudgeFree
<1>2. m \in MapType /\ o \in SentType
  BY <1>1 DEF MapType, SentType
<1>3. /\ \A d \in Conns, u \in Subs : u \in o[d] <=> u \in sent[d] /\ ~(d = c /\ u = s)
      /\ m[s] = NoConn /\ \A u \in Subs : m[u] # NoConn => submission_map[u] # NoConn
  BY <1>1 DEF MapType, SentType
<1>4. s \notin failed => submission_map[s] = c /\ ~Queued(s) /\ \A d \in Conns : s \notin o[d]
  <2>1. s \notin failed =>
          submission_map[s] = c /\ \A d \in Conns : s \in sent[d] => submission_map[s] = d
    BY <1>1 DEF IInv, Consistent
  <2>2. s \notin failed => ~InQueue(queue, s)
    BY <2>1, ConstantsAssumption DEF IInv, Consistent
  <2>3. QED
    BY <1>3, <2>1, <2>2 DEF Queued
<1>5. CASE submission_map[s] = NoConn /\ sent' = o /\ UNCHANGED <<queue, submission_map>>
  <2>1. s \in failed
    BY <1>4, <1>5, ConstantsAssumption
  <2>2. QED
    BY <1>3, <1>5, <2>1 DEF Quiet, Queued, Known
<1>6. CASE HandleFreeJudge(c, m, w, o)
  <2> HIDE DEF m, w, o
  <2>1. \A u \in Subs :
          /\ Queued(u)' => Queued(u)
          /\ \A d \in Conns : u \in sent'[d] => u \in o[d] \/ Queued(u)
          /\ \A d \in Conns : u \in o[d] => u \in sent'[d]
          /\ submission_map'[u] # NoConn => m[u] # NoConn \/ Queued(u)
    BY <1>1, <1>2, <1>6, OfferMoves
  <2>2. Quiet(t) /\ \A d \in Conns : t \in sent[d] /\ ~(d = c /\ t = s) => t \in sent'[d]
    BY <1>3, <2>1 DEF Quiet, Known
  <2>3. s \notin failed => ~Known(s)' /\ ~Held(s)'
    BY <1>3, <1>4, <2>1 DEF Known, Held
  <2>4. QED
    BY <2>2, <2>3
<1>7. QED
  BY <1>5, <1>6 DEF OnJudgeFree

\* When a judge leaves, what it was working on is out of the bridge.
LEMMA RemoveMoves ==
  ASSUME IInv, NEW c \in Conns, RemoveJudge(c), NEW t \in Subs
  PROVE  /\ Quiet(t)
         /\ \A d \in Conns : d # c => sent'[d] = sent[d]
         /\ sent'[c] = {}
         /\ t = working[c] /\ t \notin failed => ~Known(t)' /\ ~Held(t)' /\ t \in sent[c]
<1>1. submission_map \in MapType /\ sent \in SentType
  BY DEF IInv, TypeOK, ListTypeOK
<1>2. /\ submission_map' = [s \in Subs |-> IF s = working[c] THEN NoConn
                                           ELSE IF submission_map[s] = c THEN Gone
                                           ELSE submission_map[s]]
      /\ sent' = [sent EXCEPT ![c] = {}] /\ UNCHANGED queue
  BY DEF RemoveJudge
<1>3. (\A d \in Conns : d # c => sent'[d] = sent[d]) /\ sent'[c] = {}
  BY <1>1, <1>2 DEF SentType
<1>4. submission_map'[t] # NoConn => submission_map[t] # NoConn /\ t # working[c]
  BY <1>1, <1>2, ConstantsAssumption
<1>5. Quiet(t)
  BY <1>2, <1>3, <1>4 DEF Quiet, Queued, Known
<1>6. ASSUME t = working[c], t \notin failed PROVE ~Known(t)' /\ ~Held(t)' /\ t \in sent[c]
  <2>1. /\ t \in sent[c] /\ submission_map[t] = c
        /\ \A d \in Conns : t \in sent[d] => submission_map[t] = d
    BY <1>6 DEF IInv, Consistent
  <2>2. ~InQueue(queue, t)
    BY <1>6, <2>1, ConstantsAssumption DEF IInv, Consistent
  <2>3. QED
    BY <1>2, <1>3, <1>4, <1>6, <2>1, <2>2 DEF Known, Held, Queued
<1>7. QED
  BY <1>3, <1>5, <1>6

\* The other steps of the pool.
LEMMA PoolMoves ==
  ASSUME IInv, PoolStep, NEW t \in Subs
  PROVE  /\ Quiet(t)
         /\ \A d \in Conns : t \in sent[d] => t \in sent'[d]
<1>1. /\ submission_map \in MapType /\ sent \in SentType /\ judges \subseteq Conns
      /\ TypeOK /\ NoDuplicates(queue)
  BY DEF IInv, TypeOK, ListTypeOK
<1>2. CASE UNCHANGED <<queue, submission_map, sent>>
  BY <1>2 DEF Quiet, Queued, Known
<1>3. ASSUME NEW c \in Conns, HandleFreeJudge(c, submission_map, working, sent)
      PROVE  /\ Quiet(t)
             /\ \A d \in Conns : t \in sent[d] => t \in sent'[d]
  BY <1>1, <1>3, OfferMoves DEF Quiet, Known
<1>4. CASE Administer
  BY <1>2, <1>4 DEF Administer, UpdateDisableJudge, SaveDisabled, Disconnect, listVars
<1>5. ASSUME NEW c \in Conns, NEW P \in ProblemSets, Register(c, P) \/ SupportedProblems(c, P)
      PROVE  UNCHANGED <<queue, submission_map, sent>>
  BY <1>5 DEF Register, SupportedProblems, listVars
<1>6. ASSUME NEW c \in Conns, Connected(c) \/ SaveRow(c)
      PROVE  UNCHANGED <<queue, submission_map, sent>>
  BY <1>6 DEF Connected, SaveRow, listVars
<1>7. ASSUME NEW c \in Conns, UpdateProblems(c)
      PROVE  HandleFreeJudge(c, submission_map, working, sent)
  BY <1>7 DEF UpdateProblems
<1>8. ASSUME NEW c \in Conns, OfferFreeJudge(c)
      PROVE  \/ HandleFreeJudge(c, submission_map, working, sent)
             \/ UNCHANGED <<queue, submission_map, sent>>
  BY <1>8 DEF OfferFreeJudge, listVars
<1>9. CASE OfferRegistered
  <2>1. resume.judge \in Conns
    BY <1>1, <1>9 DEF OfferRegistered, TypeOK, NoResume
  <2>2. QED
    BY <1>3, <1>9, <2>1 DEF OfferRegistered
<1>10. CASE OfferSoleJudge
  <2>1. \/ \E c \in CurrentTierJudges : HandleFreeJudge(c, submission_map, working, sent)
        \/ UNCHANGED <<queue, submission_map, sent>>
    BY <1>10 DEF OfferSoleJudge, SoleJudge, listVars
  <2>2. CurrentTierJudges \subseteq Conns
    BY <1>1 DEF CurrentTierJudges
  <2>3. QED
    BY <1>2, <1>3, <2>1, <2>2
<1>11. QED
  BY <1>2, <1>3, <1>4, <1>5, <1>6, <1>7, <1>8, <1>9, <1>10 DEF PoolStep, HoldLock

\* How far the judge is with s, and what the site shows.
InStep(c, s) ==
  \/ prog[c][s] = 0 /\ status[s] = "QU"
  \/ prog[c][s] = 1 /\ status[s] = "P"
  \/ prog[c][s] > 1 /\ status[s] = "G" /\ cases[s] = 1..(prog[c][s] - 2)

\* What the thread of a connection is about to write, and what the site shows.
Ending(at, s) ==
  \/ at = "D" /\ status[s] = "G" /\ cases[s] = Cases
  \/ at = "CE" /\ status[s] = "P"
  \/ at \in {"IE", "left"} /\ status[s] \in InProgress

\* A submission is in one place: with a web thread, in the queue, with a judge
\* or with the thread that ends it; and its status says in which.
Cycle(s) ==
  /\ \A w \in Web : web[w].sub = s =>
       /\ ~InBridge(s)
       /\ status[s] = "QU" \/ (web[w].at = "update" /\ status[s] \in Final)
  /\ Queued(s) => status[s] = "QU"
  /\ \A c \in Conns : s \in sent[c] => InStep(c, s)
  /\ \A c \in Conns : thread[c].sub = s =>
       /\ Ending(thread[c].at, s) /\ ~Known(s) /\ ~Held(s)
       /\ \A d \in Conns : thread[d].sub = s => d = c
  /\ status[s] = "D" => graded[s] = Cases

\* No judge was told to stop, and packets are counted of what it has alone.
NothingLeft ==
  \A c \in Conns : term[c] = {} /\ \A s \in Subs : s \notin sent[c] => prog[c][s] = 0

CycleInv ==
  /\ CareInv
  /\ \A w \in Web : web[w].at \in {"idle", "update", "delete", "request"}
  /\ NothingLeft
  /\ \A s \in Tracked : Cycle(s)

\* A submission the step leaves alone, or takes from the queue.
LEMMA CycleFrame ==
  ASSUME NEW t \in Subs, Cycle(t), Quiet(t),
         status'[t] = status[t], cases'[t] = cases[t], graded'[t] = graded[t],
         \A c \in Conns : t \notin sent[c] => prog[c][t] = 0,
         \A c \in Conns : t \in sent'[c] => prog'[c][t] = prog[c][t],
         \A w \in Web : web'[w].sub = t => web'[w] = web[w],
         \A c \in Conns : thread'[c].sub = t => thread'[c] = thread[c]
  PROVE  Cycle(t)'
<1>1. /\ ~Known(t) => ~Known(t)'
      /\ ~Known(t) /\ ~Held(t) => ~Held(t)'
      /\ ~InBridge(t) => ~InBridge(t)'
  BY DEF Quiet, Known, Held, InBridge
<1>2. \A w \in Web : web'[w].sub = t =>
        /\ ~InBridge(t)'
        /\ status'[t] = "QU" \/ (web'[w].at = "update" /\ status'[t] \in Final)
  BY <1>1 DEF Cycle
<1>3. Queued(t)' => status'[t] = "QU"
  BY DEF Cycle, Quiet
<1>4. ASSUME NEW c \in Conns, t \in sent'[c] PROVE InStep(c, t)'
  <2>1. CASE t \in sent[c]
    BY <1>4, <2>1 DEF Cycle, InStep
  <2>2. CASE t \notin sent[c]
    BY <1>4, <2>2 DEF Cycle, InStep, Quiet
  <2>3. QED
    BY <2>1, <2>2
<1>5. ASSUME NEW c \in Conns, thread'[c].sub = t
      PROVE  /\ Ending(thread[c].at, t)' /\ ~Known(t)' /\ ~Held(t)'
             /\ \A d \in Conns : thread'[d].sub = t => d = c
  <2>1. thread'[c] = thread[c] /\ thread[c].sub = t
    BY <1>5
  <2>2. Ending(thread[c].at, t) /\ ~Known(t) /\ ~Held(t)
        /\ \A d \in Conns : thread[d].sub = t => d = c
    BY <2>1 DEF Cycle
  <2>3. Ending(thread[c].at, t)'
    BY <2>1, <2>2 DEF Ending
  <2>4. \A d \in Conns : thread'[d].sub = t => d = c
    BY <2>2
  <2>5. QED
    BY <1>1, <2>2, <2>3, <2>4
<1>6. status'[t] = "D" => graded'[t] = Cases
  BY DEF Cycle
<1>7. QED
  BY <1>2, <1>3, <1>4, <1>5, <1>6 DEF Cycle

\* A submission that is out of the bridge after the step.
LEMMA CycleOut ==
  ASSUME NEW t \in Subs, ~InBridge(t)',
         \A w \in Web : web'[w].sub = t =>
           status'[t] = "QU" \/ (web'[w].at = "update" /\ status'[t] \in Final),
         status'[t] = "D" => graded'[t] = Cases
  PROVE  Cycle(t)'
<1>1. ~Queued(t)' /\ (\A c \in Conns : t \notin sent'[c]) /\ (\A c \in Conns : thread'[c].sub # t)
  BY DEF InBridge, Known, Held
<1>2. QED
  BY <1>1 DEF Cycle

\* A submission that is not in progress is out of the bridge.
LEMMA OutsideIsOut ==
  ASSUME CareInv, NEW t \in Tracked, Cycle(t), status[t] \notin InProgress
  PROVE  ~InBridge(t)
<1>1. t \in Subs /\ Cared(t)
  BY DEF CareInv, Tracked
<1>2. ~Held(t)
  BY DEF Held, Cycle, InStep, InProgress
<1>3. ~Known(t)
  BY <1>1, <1>2 DEF Known, Held, Cared, MapOK
<1>4. \A c \in Conns : thread[c].sub # t
  BY DEF Cycle, Ending, InProgress
<1>5. QED
  BY <1>2, <1>3, <1>4 DEF InBridge

\* A submission that a judge has is nowhere else.
LEMMA WithOneJudge ==
  ASSUME CycleInv, NEW t \in Tracked, NEW c \in Conns, t \in sent[c]
  PROVE  /\ Cycle(t) /\ InStep(c, t) /\ ~Queued(t) /\ submission_map[t] = c
         /\ \A d \in Conns : t \in sent[d] => d = c
         /\ \A w \in Web : web[w].sub # t
         /\ \A d \in Conns : thread[d].sub # t
<1>1. t \in Subs \ failed /\ Cycle(t) /\ Held(t)
  BY DEF CycleInv, NothingLeft, Tracked, Held
<1>2. submission_map[t] = c /\ \A d \in Conns : t \in sent[d] => submission_map[t] = d
  BY <1>1 DEF CycleInv, NothingLeft, CareInv, IInv, Consistent
<1>3. ~InQueue(queue, t)
  BY <1>1, <1>2, ConstantsAssumption DEF CycleInv, NothingLeft, CareInv, IInv, Consistent
<1>4. (\A w \in Web : web[w].sub # t) /\ (\A d \in Conns : thread[d].sub # t)
  BY <1>1 DEF Cycle, InBridge
<1>5. QED
  BY <1>1, <1>2, <1>3, <1>4 DEF Cycle, Queued

\* No two threads of the site have the same submission in hand.
Alone == \A v, w \in Web, s \in Subs : web[v].sub = s /\ web[w].sub = s => v = w

\* What may befall is that judges leave.
Benign == Hazards \subseteq {"leave"}

\* Where a web thread goes.
LEMMA CycleWebPlaces ==
  ASSUME CycleInv, Benign, NEW w \in Web, WebStep(w)
  PROVE  /\ \/ \E s \in Subs : Create(w, s) \/ Rejudge(w, s)
            \/ UpdateQueued(w) \/ DeleteTestCases(w)
            \/ RequestJudge(w) /\ Return(w)
         /\ \A v \in Web : web'[v].at \in {"idle", "update", "delete", "request"}
         /\ \A v \in Web : v # w => web'[v] = web[v]
         /\ UNCHANGED <<prog, term, thread>>
<1>1. web[w].at \in {"idle", "update", "delete", "request"} /\ GradingTypeOK
      /\ web \in [Web -> {Idle} \cup [at : WebPlaces, sub : Subs]]
  BY DEF CycleInv, NothingLeft, CareInv, GradingTypeOK
<1>2. \/ \E s \in Subs : Create(w, s) \/ Rejudge(w, s)
      \/ UpdateQueued(w) \/ DeleteTestCases(w)
      \/ RequestJudge(w) /\ Return(w)
  <2>1. ~RequestFails(w) /\ ~Die(w) /\ ~MarkFailed(w) /\ ~MarkAborted(w) /\ ~RequestAbort(w)
        /\ \A s \in Subs : ~AbortSubmission(w, s)
    BY <1>1 DEF Benign, RequestFails, Die, MarkFailed, MarkAborted, RequestAbort, AbortSubmission, WebAt
  <2>2. RequestJudge(w) => Return(w)
    BY DEF Benign, RequestJudge, Return, After
  <2>3. QED
    BY <2>1, <2>2 DEF WebStep
<1>3. UNCHANGED <<prog, term, thread>>
  BY <1>2 DEF Create, Rejudge, UpdateQueued, DeleteTestCases, RequestJudge
<1>4. CASE \E s \in Subs : Create(w, s) \/ Rejudge(w, s)
  <2>1. PICK s \in Subs : web' = [web EXCEPT ![w] = [at |-> "update", sub |-> s]]
    BY <1>4 DEF Create, Rejudge
  <2>2. \A v \in Web : IF v = w THEN web'[v].at = "update" ELSE web'[v] = web[v]
    BY <1>1, <2>1
  <2>3. QED
    BY <1>2, <1>3, <2>2 DEF CycleInv, NothingLeft
<1>5. CASE UpdateQueued(w) \/ DeleteTestCases(w) \/ (RequestJudge(w) /\ Return(w))
  <2>1. web[w].at \in WebPlaces /\ \E at \in {"idle", "delete", "request"} : Goto(w, at)
    BY <1>5 DEF UpdateQueued, DeleteTestCases, RequestJudge, WebAt, After, Return, WebPlaces
  <2>2. PICK at \in {"idle", "delete", "request"} : Goto(w, at)
    BY <2>1
  <2>3. (\A v \in Web : v # w => web'[v] = web[v]) /\ web'[w].at = at
    BY <1>1, <2>1, <2>2, GotoIs DEF WebPlaces, Idle
  <2>4. QED
    BY <1>2, <1>3, <2>3 DEF CycleInv, NothingLeft
<1>6. QED
  BY <1>2, <1>4, <1>5

\* Web threads, each with a submission of its own, keep every submission in its
\* place.
LEMMA WebCycle ==
  ASSUME CycleInv, Alone, Alone', Benign, NEW w \in Web, WebStep(w), NEW t \in Tracked'
  PROVE  Cycle(t)'
<1> DEFINE s == web[w].sub
<1>1. /\ CareInv /\ IInv /\ GradingTypeOK /\ t \in Subs /\ t \notin lost' /\ t \notin failed'
      /\ t \in Tracked => Cycle(t)
      /\ \A c \in Conns : t \notin sent[c] => prog[c][t] = 0
      /\ web[w].sub = t => \A v \in Web : web[v].sub = t => v = w
      /\ web'[w].sub = t => \A v \in Web : web'[v].sub = t => v = w
      /\ \A v \in Web : v # w => web'[v] = web[v]
      /\ status \in [Subs -> {"new"} \cup InProgress \cup Final]
      /\ cases \in [Subs -> SUBSET Cases]
      /\ web \in [Web -> {Idle} \cup [at : WebPlaces, sub : Subs]]
  BY CycleWebPlaces DEF CycleInv, NothingLeft, CareInv, Tracked, GradingTypeOK, Alone
<1>2. /\ \/ \E u \in Subs : Create(w, u) \/ Rejudge(w, u)
         \/ UpdateQueued(w) \/ DeleteTestCases(w)
         \/ RequestJudge(w) /\ Return(w)
      /\ UNCHANGED <<prog, term, thread>>
  BY CycleWebPlaces
<1>3. ASSUME UNCHANGED vars
      PROVE  Quiet(t) /\ (InBridge(t)' <=> InBridge(t)) /\ failed' = failed
  BY <1>2, <1>3 DEF vars, listVars, Quiet, InBridge, Known, Held, Queued
<1>4. ASSUME NEW u \in Subs, Create(w, u) \/ Rejudge(w, u)
      PROVE  Cycle(t)'
  <2>1. /\ UNCHANGED <<vars, cases, graded, lost>> /\ web[w] = Idle
        /\ web' = [web EXCEPT ![w] = [at |-> "update", sub |-> u]]
        /\ \/ status[u] = "new" /\ status' = [status EXCEPT ![u] = "QU"]
           \/ status[u] \in Final /\ status' = status
    BY <1>4 DEF Create, Rejudge, Benign, rowVars
  <2>2. t \in Tracked /\ Cycle(t)
    BY <1>1, <1>3, <2>1 DEF Tracked
  <2>3. web'[w].at = "update" /\ web'[w].sub = u
    BY <1>1, <2>1
  <2>4. CASE t = u
    <3>1. ~InBridge(t)
      BY <1>1, <2>1, <2>2, <2>4, OutsideIsOut DEF InProgress, Final
    <3>2. status'[t] = "QU" \/ status'[t] \in Final
      BY <1>1, <2>1, <2>4
    <3>3. status'[t] = "D" => graded'[t] = Cases
      BY <1>1, <2>1, <2>2, <2>4 DEF Cycle
    <3>4. ~InBridge(t)'
      BY <1>3, <2>1, <3>1
    <3>5. \A v \in Web : web'[v].sub = t => v = w
      BY <1>1, <2>3, <2>4
    <3>6. QED
      BY <1>1, <2>3, <3>2, <3>3, <3>4, <3>5, CycleOut
  <2>5. CASE t # u
    <3>1. status'[t] = status[t] /\ \A v \in Web : web'[v].sub = t => web'[v] = web[v]
      BY <1>1, <2>1, <2>3, <2>5
    <3>2. QED
      BY <1>1, <1>2, <1>3, <2>1, <2>2, <3>1, CycleFrame
  <2>6. QED
    BY <2>4, <2>5
<1>5. CASE UpdateQueued(w)
  <2>1. /\ web[w].at = "update" /\ UNCHANGED <<vars, cases, graded>> /\ s \in Subs
        /\ \/ status[s] \in {"P", "G"} /\ Return(w) /\ UNCHANGED <<status, lost>>
           \/ /\ status[s] \notin {"P", "G"}
              /\ status' = Requeued(s) /\ Goto(w, "delete")
              /\ lost' = IF InBridge(s) THEN lost ELSE lost \ {s}
    BY <1>1, <1>5, WebSub DEF UpdateQueued, WebAt, WebPlaces, After
  <2>2. web'[w] = Idle \/ web'[w].sub = s
    BY <1>1, <2>1, GotoIs DEF Return, WebPlaces
  <2>3. CASE t # s
    <3>1. t \in Tracked /\ Cycle(t) /\ status'[t] = status[t]
      BY <1>1, <1>3, <2>1, <2>3 DEF Tracked, Requeued
    <3>2. \A v \in Web : web'[v].sub = t => web'[v] = web[v]
      BY <1>1, <2>2, <2>3, IdleSub
    <3>3. UNCHANGED <<vars, cases, graded>>
      BY <2>1
    <3>4. QED
      BY <1>1, <1>2, <1>3, <3>1, <3>2, <3>3, CycleFrame
  <2>4. CASE t = s
    <3>1. status[s] \notin {"P", "G"} /\ ~InBridge(s)
      <4>1. CASE t \in Tracked
        <5>1. /\ ~InBridge(t)
              /\ status[t] = "QU" \/ (web[w].at = "update" /\ status[t] \in Final)
          BY <1>1, <2>4, <4>1 DEF Cycle
        <5>2. QED
          BY <2>4, <5>1 DEF Final
      <4>2. CASE t \notin Tracked
        BY <1>1, <1>3, <2>1, <2>4, <4>2 DEF Tracked
      <4>3. QED
        BY <4>1, <4>2
    <3>2. status'[t] = "QU"
      BY <1>1, <2>1, <2>4, <3>1 DEF Requeued
    <3>3. ~InBridge(t)'
      BY <1>3, <2>1, <2>4, <3>1
    <3>4. QED
      BY <1>1, <3>2, <3>3, CycleOut
  <2>5. QED
    BY <2>3, <2>4
<1>6. CASE DeleteTestCases(w)
  <2>1. /\ web[w].at = "delete" /\ UNCHANGED <<vars, status, graded, lost>> /\ s \in Subs
        /\ Goto(w, "request") /\ cases' = [cases EXCEPT ![s] = {}]
    BY <1>1, <1>6, WebSub DEF DeleteTestCases, WebAt, WebPlaces, After
  <2>2. web'[w].sub = s
    BY <1>1, <2>1, GotoIs DEF WebPlaces
  <2>3. t \in Tracked /\ Cycle(t)
    BY <1>1, <1>3, <2>1 DEF Tracked
  <2>4. CASE t # s
    <3>1. UNCHANGED <<vars, status, graded>> /\ cases'[t] = cases[t]
      BY <1>1, <2>1, <2>4
    <3>2. \A v \in Web : web'[v].sub = t => web'[v] = web[v]
      BY <1>1, <2>2, <2>4
    <3>3. QED
      BY <1>1, <1>2, <1>3, <2>3, <3>1, <3>2, CycleFrame
  <2>5. CASE t = s
    <3>1. ~InBridge(t) /\ status[t] = "QU"
      BY <1>1, <2>1, <2>3, <2>5 DEF Cycle
    <3>2. ~InBridge(t)' /\ status'[t] = "QU"
      BY <1>3, <2>1, <3>1
    <3>3. QED
      BY <1>1, <3>2, CycleOut
  <2>6. QED
    BY <2>4, <2>5
<1>7. CASE RequestJudge(w) /\ Return(w)
  <2>1. /\ web[w].at = "request" /\ UNCHANGED <<status, cases, graded, lost>> /\ s \in Subs
        /\ \/ \E j \in Targets, p \in RequestPriorities : Judge(s, j, p)
           \/ Known(s) /\ UNCHANGED vars
    BY <1>1, <1>7, WebSub DEF RequestJudge, WebAt, rowVars, WebPlaces
  <2>2. web'[w] = Idle
    BY <1>1, <1>7, <2>1, GotoIs DEF Return, WebPlaces
  <2>3. \A v \in Web : web'[v].sub = t => web'[v] = web[v] /\ t # s
    BY <1>1, <2>2, IdleSub
  <2>4. failed \subseteq failed'
    BY <2>1 DEF Judge, SubmitSucceeds, SubmitRaises, Enqueue, vars, listVars
  <2>5. t \in Tracked /\ Cycle(t)
    BY <1>1, <2>1, <2>4 DEF Tracked
  <2>6. CASE t # s
    <3>1. Quiet(t)
      <4>1. ASSUME NEW j \in Targets, NEW p \in RequestPriorities, Judge(s, j, p) PROVE Quiet(t)
        <5>1. s \in Subs /\ t # s
          BY <2>1, <2>6
        <5> HIDE DEF s
        <5>2. QED
          BY <1>1, <4>1, <5>1, JudgeMoves
      <4>2. QED
        BY <1>3, <2>1, <4>1
    <3>2. UNCHANGED <<status, cases, graded>>
      BY <2>1
    <3>3. QED
      BY <1>1, <1>2, <2>3, <2>5, <3>1, <3>2, CycleFrame
  <2>7. CASE t = s
    <3>1. ~InBridge(t) /\ status[t] = "QU"
      BY <1>1, <2>1, <2>5, <2>7 DEF Cycle
    <3>2. \A c \in Conns : prog'[c][t] = 0 /\ thread'[c].sub # t
      BY <1>1, <1>2, <3>1 DEF InBridge, Held
    <3>3. status'[t] = "QU"
      BY <2>1, <3>1
    <3>4. \A c \in Conns : InStep(c, t)'
      BY <3>2, <3>3 DEF InStep
    <3>5. \A v \in Web : web'[v].sub # t
      BY <2>3, <2>7
    <3>6. \A c \in Conns : thread'[c].sub # t
      BY <3>2
    <3>7. status'[t] # "D"
      BY <3>3
    <3>8. QED
      BY <3>3, <3>4, <3>5, <3>6, <3>7 DEF Cycle
  <2>8. QED
    BY <2>6, <2>7
<1>8. QED
  BY <1>2, <1>4, <1>5, <1>6, <1>7

\* A judge's packets, and what its thread makes of them, keep every submission in
\* its place.
LEMMA PacketCycle ==
  ASSUME CycleInv, NEW c \in Conns, Packet(c), NEW t \in Tracked'
  PROVE  Cycle(t)'
<1>1. /\ CareInv /\ IInv /\ GradingTypeOK /\ t \in Subs /\ t \notin lost' /\ t \notin failed'
      /\ t \in Tracked => Cycle(t)
      /\ \A d \in Conns : t \notin sent[d] => prog[d][t] = 0
      /\ status \in [Subs -> {"new"} \cup InProgress \cup Final]
      /\ cases \in [Subs -> SUBSET Cases] /\ graded \in [Subs -> SUBSET Cases]
      /\ prog \in [Conns -> [Subs -> 0..(NumCases + 2)]]
      /\ thread \in ThreadType /\ sent[c] \subseteq Subs /\ working[c] \in Subs \cup {NoSub}
  BY DEF CycleInv, NothingLeft, CareInv, Tracked, GradingTypeOK, ThreadType, IInv, TypeOK, ListTypeOK,
     SentType, WorkingType
<1>2. ASSUME UNCHANGED listVars
      PROVE  Quiet(t) /\ (InBridge(t)' <=> Queued(t) \/ submission_map[t] # NoConn
                                          \/ \E d \in Conns : t \in sent[d] \/ thread'[d].sub = t)
             /\ failed' = failed /\ (Queued(t)' <=> Queued(t)) /\ sent' = sent
  BY <1>2 DEF listVars, Quiet, InBridge, Known, Held, Queued
<1>3. ASSUME NEW s \in Subs, SubmissionAcknowledged(c, s) \/ GradingBegin(c, s) \/ TestCase(c, s)
      PROVE  Cycle(t)'
  <2>1. /\ s \in sent[c] /\ UNCHANGED <<listVars, thread, web, graded>>
        /\ lost \subseteq lost' /\ prog' = [prog EXCEPT ![c][s] = @ + 1]
    BY <1>3 DEF SubmissionAcknowledged, GradingBegin, TestCase, Receives, vars, Advance
  <2>2. t \in Tracked /\ Cycle(t)
    BY <1>1, <1>2, <2>1 DEF Tracked
  <2>3. CASE t # s
    <3>1. status'[t] = status[t] /\ cases'[t] = cases[t]
      BY <1>1, <1>3, <2>3 DEF SubmissionAcknowledged, GradingBegin, TestCase
    <3>2. \A d \in Conns : prog'[d][t] = prog[d][t]
      BY <1>1, <2>1, <2>3
    <3>3. QED
      BY <1>1, <1>2, <2>1, <2>2, <3>1, <3>2, CycleFrame
  <2>4. CASE t = s
    <3>1. /\ InStep(c, t) /\ ~Queued(t) /\ \A d \in Conns : t \in sent[d] => d = c
          /\ \A w \in Web : web[w].sub # t
          /\ \A d \in Conns : thread[d].sub # t
      BY <2>1, <2>2, <2>4, WithOneJudge
    <3>2. prog'[c][t] = prog[c][t] + 1 /\ prog[c][t] \in Nat /\ NumCases \in Nat
      BY <1>1, <2>1, <2>4, GradingAssumption
    <3>3. CASE SubmissionAcknowledged(c, s)
      <4>1. prog[c][t] = 0 /\ status'[t] = "P"
        BY <1>1, <2>4, <3>3 DEF SubmissionAcknowledged
      <4>2. InStep(c, t)'
        BY <3>2, <4>1 DEF InStep
      <4>3. QED
        BY <1>2, <2>1, <3>1, <4>1, <4>2 DEF Cycle
    <3>4. CASE GradingBegin(c, s)
      <4>1. prog[c][t] = 1 /\ status'[t] = "G" /\ cases'[t] = {}
        BY <1>1, <2>4, <3>4 DEF GradingBegin
      <4>2. InStep(c, t)'
        <5>1. 1..(2 - 2) = {}
          OBVIOUS
        <5>2. QED
          BY <3>2, <4>1, <5>1 DEF InStep
      <4>3. QED
        BY <1>2, <2>1, <3>1, <4>1, <4>2 DEF Cycle
    <3>5. CASE TestCase(c, s)
      <4> DEFINE k == prog[c][t]
      <4>1. k > 1 /\ status'[t] = status[t] /\ cases'[t] = cases[t] \cup {k - 1}
        BY <1>1, <2>4, <3>2, <3>5 DEF TestCase
      <4>2. status[t] = "G" /\ cases[t] = 1..(k - 2)
        BY <3>1, <3>2, <4>1 DEF InStep
      <4>3. cases'[t] = 1..(k + 1 - 2)
        <5> HIDE DEF k
        <5>1. k \in Nat
          BY <3>2 DEF k
        <5>2. 1..(k + 1 - 2) = 1..(k - 2) \cup {k - 1}
          BY <4>1, <5>1
        <5>3. QED
          BY <4>1, <4>2, <5>2
      <4>4. InStep(c, t)'
        BY <3>2, <4>1, <4>2, <4>3 DEF InStep
      <4>5. QED
        BY <1>2, <2>1, <3>1, <4>1, <4>2, <4>4 DEF Cycle
    <3>6. QED
      BY <1>3, <3>3, <3>4, <3>5
  <2>5. QED
    BY <2>3, <2>4
<1>4. ASSUME NEW s \in Subs, NEW r \in Final, End(c, s, r)
      PROVE  Cycle(t)'
  <2>1. /\ OnJudgeFree(c, s) /\ thread[c] = Idle /\ UNCHANGED <<status, cases, graded, web>>
        /\ s \in sent[c] /\ prog' = [prog EXCEPT ![c][s] = 0] /\ MayEnd(c, s, r)
        /\ \/ lost' = lost \cup {s} /\ thread' = thread
           \/ /\ thread' = [thread EXCEPT ![c] = [at |-> r, sub |-> s]]
              /\ lost' = lost
    BY <1>4 DEF End, Receives, rowVars
  <2>2. Quiet(t) /\ (s \notin failed => ~Known(s)' /\ ~Held(s)')
    BY <1>1, <2>1, FreeMoves
  <2>3. failed \subseteq failed'
    BY <1>1, <2>1, FreeKeeps DEF IInv
  <2>4. t \in Tracked /\ Cycle(t)
    BY <1>1, <2>1, <2>3 DEF Tracked
  <2>5. CASE t # s
    <3>1. \A d \in Conns : prog'[d][t] = prog[d][t]
      BY <1>1, <2>1, <2>5
    <3>2. \A d \in Conns : thread'[d].sub = t => thread'[d] = thread[d]
      BY <1>1, <2>1, <2>5 DEF ThreadType
    <3>3. UNCHANGED <<status, cases, graded, web>>
      BY <2>1
    <3>4. QED
      BY <1>1, <2>2, <2>4, <3>1, <3>2, <3>3, CycleFrame
  <2>6. CASE t = s
    <3>1. /\ InStep(c, t) /\ \A w \in Web : web[w].sub # t
          /\ \A d \in Conns : thread[d].sub # t
      BY <2>1, <2>4, <2>6, WithOneJudge
    <3>2. thread' = [thread EXCEPT ![c] = [at |-> r, sub |-> s]]
      BY <1>1, <2>1, <2>6
    <3>3. /\ thread'[c].at = r /\ thread'[c].sub = t
          /\ \A d \in Conns : thread'[d].sub = t => d = c
      BY <1>1, <2>6, <3>1, <3>2 DEF ThreadType
    <3>4. Ending(r, t)
      <4>1. prog[c][t] \in Nat /\ NumCases \in Nat /\ term[c] = {}
        BY <1>1, GradingAssumption DEF CycleInv, NothingLeft
      <4>2. CASE r = "D"
        <5>1. prog[c][t] = NumCases + 2
          BY <2>1, <2>6, <4>2 DEF MayEnd
        <5>2. status[t] = "G" /\ cases[t] = 1..(prog[c][t] - 2)
          BY <3>1, <4>1, <5>1 DEF InStep
        <5>3. prog[c][t] - 2 = NumCases
          BY <4>1, <5>1
        <5>4. QED
          BY <4>2, <5>2, <5>3 DEF Ending, Cases
      <4>3. CASE r = "CE"
        <5>1. prog[c][t] = 1
          BY <2>1, <2>6, <4>3 DEF MayEnd
        <5>2. QED
          BY <3>1, <4>3, <5>1 DEF InStep, Ending
      <4>4. CASE r = "IE"
        BY <3>1, <4>4 DEF InStep, Ending, InProgress
      <4>5. CASE r = "AB"
        BY <2>1, <2>6, <4>1, <4>5 DEF MayEnd
      <4>6. QED
        BY <4>2, <4>3, <4>4, <4>5 DEF Final
    <3>5. Ending(thread[c].at, t)'
      BY <2>1, <3>3, <3>4 DEF Ending
    <3>6. ~Known(t)' /\ ~Held(t)'
      BY <2>2, <2>4, <2>6 DEF Tracked
    <3>7. ~Queued(t)' /\ \A d \in Conns : t \notin sent'[d]
      BY <3>6 DEF Held
    <3>8. status'[t] = "D" => graded'[t] = Cases
      BY <2>1, <2>4 DEF Cycle
    <3>9. UNCHANGED web
      BY <2>1
    <3>10. QED
      BY <3>1, <3>3, <3>5, <3>6, <3>7, <3>8, <3>9 DEF Cycle
  <2>7. QED
    BY <2>5, <2>6
<1>5. CASE StoreResult(c) \/ FailWorking(c)
  <2> DEFINE s == thread[c].sub
  <2>1. /\ s \in Subs /\ UNCHANGED <<vars, web, lost, cases, prog>>
        /\ thread' = [thread EXCEPT ![c] = Idle]
        /\ \/ /\ thread[c].at \in Final /\ status' = [status EXCEPT ![s] = thread[c].at]
              /\ graded' = [graded EXCEPT ![s] = IF thread[c].at = "D" THEN cases[s] ELSE @]
           \/ status' = [status EXCEPT ![s] = "IE"] /\ graded' = graded
    BY <1>1, <1>5, ThreadSub DEF StoreResult, FailWorking, Final
  <2>2. t \in Tracked /\ Cycle(t) /\ UNCHANGED listVars
    BY <1>1, <1>2, <2>1 DEF Tracked, vars
  <2>3. thread'[c] = Idle /\ \A d \in Conns : d # c => thread'[d] = thread[d]
    BY <1>1, <2>1 DEF ThreadType
  <2>4. CASE t = s
    <3>1. /\ Ending(thread[c].at, t) /\ ~Known(t) /\ ~Held(t)
          /\ \A d \in Conns : thread[d].sub = t => d = c
      BY <2>2, <2>4 DEF Cycle
    <3>2. \A d \in Conns : thread'[d].sub # t
      BY <1>1, <2>3, <3>1, IdleSub
    <3>3. ~InBridge(t)'
      BY <1>2, <2>2, <3>1, <3>2 DEF Known, Held
    <3>4. \A w \in Web : web'[w].sub # t
      <4>1. InBridge(t)
        BY <2>4 DEF InBridge
      <4>2. QED
        BY <2>1, <2>2, <4>1 DEF Cycle
    <3>5. status'[t] = "D" => graded'[t] = Cases
      <4> SUFFICES ASSUME status'[t] = "D" PROVE graded'[t] = Cases
        OBVIOUS
      <4>1. thread[c].at = "D" /\ graded'[t] = cases[t]
        BY <1>1, <2>1, <2>4
      <4>2. cases[t] = Cases
        BY <3>1, <4>1 DEF Ending
      <4>3. QED
        BY <4>1, <4>2
    <3>6. QED
      BY <1>1, <3>3, <3>4, <3>5, CycleOut
  <2>5. CASE t # s
    <3>1. /\ status'[t] = status[t] /\ graded'[t] = graded[t] /\ UNCHANGED <<cases, prog, web>>
          /\ \A d \in Conns : thread'[d].sub = t => thread'[d] = thread[d]
      BY <1>1, <2>1, <2>3, <2>5, IdleSub
    <3>2. QED
      BY <1>1, <1>2, <2>2, <3>1, CycleFrame
  <2>6. QED
    BY <2>4, <2>5
<1>6. CASE Leave(c)
  <2>1. /\ RemoveJudge(c) /\ thread[c] = Idle /\ UNCHANGED <<status, cases, graded, web>>
        /\ thread' = [thread EXCEPT ![c] = AfterLeaving(c)]
        /\ prog' = [prog EXCEPT ![c] = [s \in Subs |-> 0]]
        /\ lost' = lost \cup (sent[c] \ {working[c]})
    BY <1>6 DEF Leave, rowVars
  <2>2. failed' = failed
    BY <2>1 DEF RemoveJudge
  <2>3. t \in Tracked /\ Cycle(t)
    BY <1>1, <2>1, <2>2 DEF Tracked
  <2>4. /\ Quiet(t) /\ \A d \in Conns : d # c => sent'[d] = sent[d]
        /\ sent'[c] = {}
        /\ t = working[c] => ~Known(t)' /\ ~Held(t)' /\ t \in sent[c]
    BY <1>1, <2>1, <2>2, RemoveMoves
  <2>5. /\ \A d \in Conns : d # c => thread'[d] = thread[d] /\ prog'[d] = prog[d]
        /\ thread'[c] = AfterLeaving(c)
    BY <1>1, <2>1 DEF ThreadType
  <2>6. CASE t # working[c]
    <3>1. thread'[c].sub # t
      BY <1>1, <2>5, <2>6, IdleSub DEF AfterLeaving
    <3>2. \A d \in Conns : t \in sent'[d] => prog'[d][t] = prog[d][t]
      BY <2>4, <2>5
    <3>3. \A d \in Conns : thread'[d].sub = t => thread'[d] = thread[d]
      BY <2>5, <3>1
    <3>4. UNCHANGED <<status, cases, graded, web>>
      BY <2>1
    <3>5. QED
      BY <1>1, <2>3, <2>4, <3>2, <3>3, <3>4, CycleFrame
  <2>7. CASE t = working[c]
    <3>1. /\ InStep(c, t) /\ \A w \in Web : web[w].sub # t
          /\ \A d \in Conns : thread[d].sub # t
      BY <2>3, <2>4, <2>7, WithOneJudge
    <3>2. thread'[c] = [at |-> "left", sub |-> t]
      BY <1>1, <2>5, <2>7, ConstantsAssumption DEF AfterLeaving
    <3>3. thread'[c].at = "left" /\ \A d \in Conns : thread'[d].sub = t => d = c
      BY <2>5, <3>1, <3>2
    <3>4. Ending(thread[c].at, t)'
      BY <2>1, <3>1, <3>3 DEF Ending, InStep, InProgress
    <3>5. ~Queued(t)' /\ (\A d \in Conns : t \notin sent'[d]) /\ ~Known(t)' /\ ~Held(t)'
      BY <2>4, <2>7 DEF Held
    <3>6. status'[t] = "D" => graded'[t] = Cases
      BY <2>1, <2>3 DEF Cycle
    <3>7. UNCHANGED web
      BY <2>1
    <3>8. QED
      BY <3>1, <3>3, <3>4, <3>5, <3>6, <3>7 DEF Cycle
  <2>8. QED
    BY <2>6, <2>7
<1>7. QED
  BY <1>3, <1>4, <1>5, <1>6 DEF Packet

\* What a judge is not working on has no packets counted, and nothing is ended on
\* request.
LEMMA CycleCounts ==
  ASSUME CycleInv, Benign, GradingNext
  PROVE  /\ \A w \in Web : web'[w].at \in {"idle", "update", "delete", "request"}
         /\ NothingLeft'
<1>1. /\ IInv /\ GradingTypeOK
      /\ term \in [Conns -> SUBSET Subs]
      /\ prog \in [Conns -> [Subs -> 0..(NumCases + 2)]]
      /\ \A w \in Web : web[w].at \in {"idle", "update", "delete", "request"}
      /\ \A c \in Conns : term[c] = {} /\ \A s \in Subs : s \notin sent[c] => prog[c][s] = 0
  BY DEF CycleInv, CareInv, NothingLeft, GradingTypeOK
<1>2. ASSUME NEW w \in Web, WebStep(w)
      PROVE  /\ \A v \in Web : web'[v].at \in {"idle", "update", "delete", "request"}
             /\ NothingLeft'
  <2>1. /\ UNCHANGED <<prog, term>>
        /\ \A v \in Web : web'[v].at \in {"idle", "update", "delete", "request"}
    BY <1>2, CycleWebPlaces
  <2>2. \A c \in Conns, s \in Subs : s \in sent[c] => s \in sent'[c]
    <3>1. CASE UNCHANGED vars
      BY <3>1 DEF vars, listVars
    <3>2. CASE RequestJudge(w)
      <4>1. web[w].sub \in Subs
        BY <1>1, <3>2, WebSub DEF RequestJudge, WebAt, WebPlaces
      <4>2. UNCHANGED vars \/ \E j \in Targets, p \in RequestPriorities : Judge(web[w].sub, j, p)
        BY <3>2 DEF RequestJudge
      <4>3. QED
        BY <1>1, <3>1, <4>1, <4>2, JudgeMoves
    <3>3. QED
      BY <1>2, <3>1, <3>2, CycleWebPlaces DEF Create, Rejudge, UpdateQueued, DeleteTestCases
  <2>3. QED
    BY <1>1, <2>1, <2>2 DEF NothingLeft
<1>3. ASSUME NEW c \in Conns, Packet(c)
      PROVE  UNCHANGED web /\ NothingLeft'
  <2>1. ASSUME NEW s \in Subs, SubmissionAcknowledged(c, s) \/ GradingBegin(c, s) \/ TestCase(c, s)
        PROVE  UNCHANGED web /\ NothingLeft'
    <3>1. /\ s \in sent[c] /\ UNCHANGED <<listVars, web, term>> /\ prog' = [prog EXCEPT ![c][s] = @ + 1]
      BY <2>1 DEF SubmissionAcknowledged, GradingBegin, TestCase, Receives, vars, Advance
    <3>2. sent' = sent
      BY <3>1 DEF listVars
    <3>3. \A d \in Conns, u \in Subs : prog'[d][u] = prog[d][u] \/ u \in sent[d]
      BY <1>1, <3>1
    <3>4. QED
      BY <1>1, <3>1, <3>2, <3>3 DEF NothingLeft
  <2>2. ASSUME NEW s \in Subs, NEW r \in Final, End(c, s, r)
        PROVE  UNCHANGED web /\ NothingLeft'
    <3>1. /\ OnJudgeFree(c, s) /\ UNCHANGED web
          /\ prog' = [prog EXCEPT ![c][s] = 0] /\ term' = [term EXCEPT ![c] = @ \ {s}]
      BY <2>2 DEF End
    <3>2. \A d \in Conns, u \in Subs : u \in sent[d] /\ ~(d = c /\ u = s) => u \in sent'[d]
      BY <1>1, <3>1, FreeMoves
    <3>3. \A d \in Conns, u \in Subs :
            prog'[d][u] = IF d = c /\ u = s THEN 0 ELSE prog[d][u]
      BY <1>1, <3>1
    <3>4. \A d \in Conns : term'[d] = {}
      BY <1>1, <3>1
    <3>5. QED
      BY <1>1, <3>1, <3>2, <3>3, <3>4 DEF NothingLeft
  <2>3. CASE StoreResult(c) \/ FailWorking(c)
    BY <1>1, <2>3 DEF StoreResult, FailWorking, vars, listVars, NothingLeft
  <2>4. CASE Leave(c)
    <3>1. /\ RemoveJudge(c) /\ UNCHANGED web
          /\ prog' = [prog EXCEPT ![c] = [s \in Subs |-> 0]] /\ term' = [term EXCEPT ![c] = {}]
      BY <2>4 DEF Leave
    <3>2. sent' = [sent EXCEPT ![c] = {}] /\ sent \in SentType
      BY <1>1, <3>1 DEF RemoveJudge, IInv, TypeOK, ListTypeOK
    <3>3. \A d \in Conns : d # c => sent'[d] = sent[d] /\ prog'[d] = prog[d]
      BY <1>1, <3>1, <3>2 DEF SentType
    <3>4. \A s \in Subs : prog'[c][s] = 0
      BY <1>1, <3>1
    <3>5. \A d \in Conns : term'[d] = {}
      BY <1>1, <3>1
    <3>6. QED
      BY <1>1, <3>1, <3>3, <3>4, <3>5 DEF NothingLeft
  <2>5. QED
    BY <1>3, <2>1, <2>2, <2>3, <2>4 DEF Packet
<1>4. CASE PoolStep
  <2>1. UNCHANGED <<prog, term, web>>
    BY <1>4 DEF PoolStep, gradingVars
  <2>2. \A c \in Conns, s \in Subs : s \in sent[c] => s \in sent'[c]
    BY <1>1, <1>4, PoolMoves
  <2>3. QED
    BY <1>1, <2>1, <2>2 DEF NothingLeft
<1>5. ~Restart
  BY DEF Restart, Benign
<1>6. QED
  BY <1>1, <1>2, <1>3, <1>4, <1>5 DEF GradingNext

\* The invariant is inductive.
LEMMA CycleStep ==
  ASSUME Benign
  PROVE  CycleInv /\ Alone /\ Alone' /\ [GradingNext]_allVars => CycleInv'
<1> SUFFICES ASSUME CycleInv, Alone, Alone', [GradingNext]_allVars PROVE CycleInv'
  OBVIOUS
<1>1. CareInv' /\ IInv
  BY CareStep DEF CycleInv, NothingLeft, CareInv
<1>2. CASE UNCHANGED allVars
  <2>1. ASSUME NEW t \in Tracked' PROVE Cycle(t)'
    <3>1. Cycle(t)
      BY <1>2, <2>1 DEF allVars, gradingVars, vars, listVars, Tracked, CycleInv
    <3>2. QED
      BY <1>2, <3>1 DEF allVars, gradingVars, rowVars, vars, listVars, Cycle, InBridge, Known, Held,
         Queued, InStep, Ending
  <2>2. QED
    BY <1>1, <1>2, <2>1 DEF CycleInv, NothingLeft, allVars, gradingVars, vars, listVars
<1>3. CASE GradingNext
  <2>1. ASSUME NEW t \in Tracked' PROVE Cycle(t)'
    <3>1. CASE \E w \in Web : WebStep(w)
      BY <2>1, <3>1, WebCycle
    <3>2. CASE \E c \in Conns : Packet(c)
      BY <2>1, <3>2, PacketCycle
    <3>3. CASE PoolStep
      <4>1. UNCHANGED <<status, cases, graded, prog, term, thread, web, lost>>
        BY <3>3 DEF PoolStep, gradingVars, rowVars
      <4>2. t \in Subs /\ t \notin lost' /\ t \notin failed'
        BY <2>1 DEF Tracked
      <4>3. Quiet(t) /\ failed \subseteq failed'
        BY <1>1, <3>3, <4>2, PoolMoves, PoolKeeps DEF IInv
      <4>4. t \in Tracked /\ Cycle(t) /\ \A c \in Conns : t \notin sent[c] => prog[c][t] = 0
        BY <4>1, <4>2, <4>3 DEF Tracked, CycleInv, NothingLeft
      <4>5. QED
        BY <4>1, <4>2, <4>3, <4>4, CycleFrame
    <3>4. ~Restart
      BY DEF Restart, Benign
    <3>5. QED
      BY <1>3, <3>1, <3>2, <3>3, <3>4 DEF GradingNext
  <2>2. QED
    BY <1>1, <1>3, <2>1, CycleCounts DEF CycleInv, NothingLeft
<1>4. QED
  BY <1>2, <1>3

\* It holds at the start.
LEMMA CycleInit == GradingInit => CycleInv
<1> SUFFICES ASSUME GradingInit PROVE CycleInv
  OBVIOUS
<1>1. CareInv
  BY CareInit
<1>2. /\ \A p \in Priorities : queue[p] = <<>>
      /\ \A c \in Conns : sent[c] = {} /\ thread[c] = Idle /\ term[c] = {}
      /\ \A c \in Conns : \A s \in Subs : prog[c][s] = 0
      /\ \A w \in Web : web[w] = Idle
      /\ \A s \in Subs : status[s] = "new"
  BY DEF GradingInit, Init
<1>3. \A s \in Subs : ~Queued(s)
  BY <1>2 DEF Queued, InQueue
<1>4. ASSUME NEW s \in Tracked PROVE Cycle(s)
  <2>1. s \in Subs
    BY <1>4 DEF Tracked
  <2>2. QED
    BY <1>2, <1>3, <2>1, IdleSub DEF Cycle
<1>5. QED
  BY <1>1, <1>2, <1>4 DEF CycleInv, NothingLeft, Idle

\* It holds in every state reached with each thread at a submission of its own.
LEMMA CycleAlways ==
  ASSUME Benign
  PROVE  GradingSpec /\ []Alone => []CycleInv
BY CycleInit, CycleStep, PTL DEF GradingSpec

\* What is queued or with a judge is shown in progress, however often judges
\* leave.
THEOREM HeldOnesAreInProgress ==
  ASSUME Benign
  PROVE  GradingSpec /\ []Alone => []HeldIsInProgress
<1>1. CycleInv => HeldIsInProgress
  BY DEF CycleInv, NothingLeft, Cycle, HeldIsInProgress, Held, InStep, InProgress
<1>2. QED
  BY <1>1, CycleAlways, PTL

\* A submission is shown done on the strength of all its test cases: the rows that
\* judge_submission deletes are never those of a grading under way.
THEOREM DoneOnesAreComplete ==
  ASSUME Benign
  PROVE  GradingSpec /\ []Alone => []DoneIsComplete
<1>1. CycleInv => DoneIsComplete
  BY DEF CycleInv, NothingLeft, Cycle, DoneIsComplete
<1>2. QED
  BY <1>1, CycleAlways, PTL

-----------------------------------------------------------------------------
(* The statuses that a user sees.                                          *)

\* Nobody's submission is shown aborted, or about to be.
NoneAborted ==
  /\ \A s \in Subs : status[s] # "AB"
  /\ \A c \in Conns : thread[c].at # "AB"

\* No step of the benign kind aborts one.
LEMMA NoneAbortedStep ==
  ASSUME CycleInv, NoneAborted, Benign, [GradingNext]_allVars
  PROVE  NoneAborted'
<1>1. /\ GradingTypeOK /\ thread \in ThreadType
      /\ status \in [Subs -> {"new"} \cup InProgress \cup Final]
      /\ \A c \in Conns : term[c] = {}
  BY DEF CycleInv, NothingLeft, CareInv, GradingTypeOK, ThreadType
<1>2. ASSUME NEW w \in Web, WebStep(w) PROVE NoneAborted'
  <2>1. UNCHANGED thread
    BY <1>2, CycleWebPlaces
  <2>2. UNCHANGED status \/ \E s \in Subs : status' = [status EXCEPT ![s] = "QU"]
    <3>1. UpdateQueued(w) => web[w].sub \in Subs
      BY <1>1, WebSub DEF UpdateQueued, WebAt, WebPlaces
    <3>2. QED
      BY <1>2, <3>1, CycleWebPlaces DEF Create, Rejudge, UpdateQueued, DeleteTestCases, RequestJudge,
         Requeued, rowVars
  <2>3. \A s \in Subs : status'[s] # "AB"
    BY <1>1, <2>2 DEF NoneAborted
  <2>4. QED
    BY <2>1, <2>3 DEF NoneAborted
<1>3. ASSUME NEW c \in Conns, Packet(c) PROVE NoneAborted'
  <2>1. ASSUME NEW s \in Subs, SubmissionAcknowledged(c, s) \/ GradingBegin(c, s) \/ TestCase(c, s)
        PROVE  NoneAborted'
    BY <1>1, <2>1 DEF SubmissionAcknowledged, GradingBegin, TestCase, NoneAborted
  <2>2. ASSUME NEW s \in Subs, NEW r \in Final, End(c, s, r) PROVE NoneAborted'
    <3>1. r # "AB"
      BY <1>1, <2>2 DEF End, MayEnd
    <3>2. /\ UNCHANGED status
          /\ thread' = thread \/ thread' = [thread EXCEPT ![c] = [at |-> r, sub |-> s]]
      BY <2>2 DEF End, rowVars
    <3>3. \A d \in Conns : thread'[d] = thread[d] \/ thread'[d].at = r
      BY <1>1, <3>2 DEF ThreadType
    <3>4. QED
      BY <3>1, <3>2, <3>3 DEF NoneAborted
  <2>3. CASE StoreResult(c) \/ FailWorking(c)
    <3>1. /\ thread' = [thread EXCEPT ![c] = Idle]
          /\ \E r \in {thread[c].at, "IE"} : status' = [status EXCEPT ![thread[c].sub] = r]
      BY <2>3 DEF StoreResult, FailWorking
    <3>2. \A d \in Conns : thread'[d] = thread[d] \/ thread'[d] = Idle
      BY <1>1, <3>1 DEF ThreadType
    <3>3. \A s \in Subs : status'[s] # "AB"
      BY <1>1, <3>1 DEF NoneAborted
    <3>4. QED
      BY <3>2, <3>3 DEF NoneAborted, Idle
  <2>4. CASE Leave(c)
    <3>1. UNCHANGED status /\ thread' = [thread EXCEPT ![c] = AfterLeaving(c)]
      BY <2>4 DEF Leave, rowVars
    <3>2. AfterLeaving(c).at # "AB"
      BY DEF AfterLeaving, Idle
    <3>3. \A d \in Conns : thread'[d] = thread[d] \/ thread'[d] = AfterLeaving(c)
      BY <1>1, <3>1 DEF ThreadType
    <3>4. QED
      BY <3>1, <3>2, <3>3 DEF NoneAborted
  <2>5. QED
    BY <1>3, <2>1, <2>2, <2>3, <2>4 DEF Packet
<1>4. CASE PoolStep \/ UNCHANGED allVars
  BY <1>4 DEF PoolStep, allVars, gradingVars, rowVars, NoneAborted
<1>5. ~Restart
  BY DEF Restart, Benign
<1>6. QED
  BY <1>2, <1>3, <1>4, <1>5 DEF GradingNext

\* A step of the life cycle of one submission, as Lifecycle has it.
Moves(from, to) ==
  \/ from \in {"new", "D", "CE", "IE"} /\ to = "QU"
  \/ from = "QU" /\ to = "P"
  \/ from = "P" /\ to \in {"G", "CE"}
  \/ from = "G" /\ to = "D"
  \/ from \in {"QU", "P", "G"} /\ to = "IE"

\* A step takes the status of a submission that the code does not lose along its
\* life cycle.
LEMMA LifeMoves ==
  ASSUME CycleInv, NoneAborted, Benign, [GradingNext]_allVars,
         NEW t \in Tracked, t \in Tracked', status'[t] # status[t]
  PROVE  Moves(status[t], status'[t])
<1>1. /\ GradingTypeOK /\ t \in Subs /\ Cycle(t) /\ t \notin lost' /\ status[t] # "AB"
      /\ status \in [Subs -> {"new"} \cup InProgress \cup Final]
      /\ thread \in ThreadType
  BY DEF CycleInv, NothingLeft, CareInv, GradingTypeOK, Tracked, ThreadType, NoneAborted
<1>2. ASSUME NEW w \in Web, WebStep(w) PROVE Moves(status[t], status'[t])
  <2>1. ASSUME NEW s \in Subs, Create(w, s) \/ Rejudge(w, s) PROVE Moves(status[t], status'[t])
    BY <1>1, <2>1 DEF Create, Rejudge, Moves, rowVars
  <2>2. CASE UpdateQueued(w)
    <3>1. web[w].sub = t /\ status'[t] = "QU"
      BY <1>1, <2>2 DEF UpdateQueued, Requeued
    <3>2. status[t] \in Final
      BY <1>1, <3>1 DEF Cycle
    <3>3. QED
      BY <1>1, <3>1, <3>2 DEF Moves, Final
  <2>3. QED
    BY <1>1, <1>2, <2>1, <2>2, CycleWebPlaces DEF DeleteTestCases, RequestJudge, rowVars
<1>3. ASSUME NEW c \in Conns, Packet(c) PROVE Moves(status[t], status'[t])
  <2>1. ASSUME NEW s \in Subs, SubmissionAcknowledged(c, s) PROVE Moves(status[t], status'[t])
    <3>1. /\ s \in sent[c] /\ prog[c][s] = 0
          /\ status' = [u \in Subs |-> IF u = s THEN "P"
                                       ELSE IF u = working[c] THEN "IE" ELSE status[u]]
          /\ lost' = IF s = working[c] THEN lost ELSE lost \cup ({s, working[c]} \cap Subs)
      BY <2>1 DEF SubmissionAcknowledged, Receives
    <3>2. t = s
      BY <1>1, <3>1
    <3>3. status'[t] = "P" /\ InStep(c, t)
      BY <1>1, <3>1, <3>2 DEF Cycle
    <3>4. QED
      BY <3>1, <3>2, <3>3 DEF InStep, Moves
  <2>2. ASSUME NEW s \in Subs, GradingBegin(c, s) PROVE Moves(status[t], status'[t])
    <3>1. t = s /\ t \in sent[c] /\ prog[c][t] = 1 /\ status'[t] = "G"
      BY <1>1, <2>2 DEF GradingBegin, Receives
    <3>2. InStep(c, t)
      BY <1>1, <3>1 DEF Cycle
    <3>3. QED
      BY <3>1, <3>2 DEF InStep, Moves
  <2>3. CASE StoreResult(c) \/ FailWorking(c)
    <3>1. /\ t = thread[c].sub
          /\ \/ status'[t] = thread[c].at /\ thread[c].at \in Final
             \/ status'[t] = "IE" /\ thread[c].at = "left"
      BY <1>1, <2>3 DEF StoreResult, FailWorking
    <3>2. Ending(thread[c].at, t)
      BY <1>1, <3>1 DEF Cycle
    <3>3. QED
      BY <3>1, <3>2 DEF Ending, Moves, InProgress, Final
  <2>4. QED
    BY <1>1, <1>3, <2>1, <2>2, <2>3 DEF Packet, TestCase, End, Leave, rowVars
<1>4. CASE PoolStep \/ UNCHANGED allVars
  BY <1>4 DEF PoolStep, allVars, gradingVars, rowVars
<1>5. ~Restart
  BY DEF Restart, Benign
<1>6. QED
  BY <1>2, <1>3, <1>4, <1>5 DEF GradingNext

\* A step changes one status, unless it loses a submission.
LEMMA OneStatus ==
  ASSUME CycleInv, Benign, [GradingNext]_allVars, Tracked' = Subs
  PROVE  \/ UNCHANGED status
         \/ \E s \in Subs, r \in {"new"} \cup InProgress \cup Final : status' = [status EXCEPT ![s] = r]
<1>1. /\ GradingTypeOK /\ status \in [Subs -> {"new"} \cup InProgress \cup Final]
      /\ \A s \in Subs : s \notin lost'
  BY DEF CycleInv, NothingLeft, CareInv, GradingTypeOK, Tracked
<1>2. ASSUME NEW w \in Web, WebStep(w)
      PROVE  UNCHANGED status \/ \E s \in Subs : status' = [status EXCEPT ![s] = "QU"]
  <2>1. UpdateQueued(w) => web[w].sub \in Subs
    BY <1>1, WebSub DEF UpdateQueued, WebAt, WebPlaces
  <2>2. QED
    BY <1>2, <2>1, CycleWebPlaces DEF Create, Rejudge, UpdateQueued, DeleteTestCases, RequestJudge,
       Requeued, rowVars
<1>3. ASSUME NEW c \in Conns, Packet(c)
      PROVE  \/ UNCHANGED status
             \/ \E s \in Subs, r \in {"P", "G"} \cup Final : status' = [status EXCEPT ![s] = r]
  <2>1. ASSUME NEW s \in Subs, SubmissionAcknowledged(c, s)
        PROVE  status' = [status EXCEPT ![s] = "P"]
    <3>1. s = working[c]
      BY <1>1, <2>1 DEF SubmissionAcknowledged
    <3>2. status' = [u \in Subs |-> IF u = s THEN "P" ELSE status[u]]
      BY <2>1, <3>1 DEF SubmissionAcknowledged
    <3>3. QED
      BY <1>1, <3>2
  <2>2. ASSUME NEW s \in Subs, GradingBegin(c, s) PROVE status' = [status EXCEPT ![s] = "G"]
    BY <2>2 DEF GradingBegin
  <2>3. CASE StoreResult(c) \/ FailWorking(c)
    <3>1. thread[c].sub \in Subs
      BY <1>1, <2>3, ThreadSub DEF StoreResult, FailWorking
    <3>2. \E r \in Final : status' = [status EXCEPT ![thread[c].sub] = r]
      BY <2>3 DEF StoreResult, FailWorking, Final
    <3>3. QED
      BY <3>1, <3>2
  <2>4. QED
    BY <1>3, <2>1, <2>2, <2>3 DEF Packet, TestCase, End, Leave, rowVars
<1>4. CASE PoolStep \/ UNCHANGED allVars
  BY <1>4 DEF PoolStep, allVars, gradingVars, rowVars
<1>5. ~Restart
  BY DEF Restart, Benign
<1>6. QED
  BY <1>2, <1>3, <1>4, <1>5 DEF GradingNext, InProgress

\* A step of the whole is then a step of Lifecycle, or leaves the statuses alone.
LEMMA LifeStep ==
  ASSUME CycleInv, NoneAborted, Benign, [GradingNext]_allVars, Tracked = Subs, Tracked' = Subs
  PROVE  [Life!Next]_status
<1>1. status \in [Subs -> {"new"} \cup InProgress \cup Final]
  BY DEF CycleInv, NothingLeft, CareInv, GradingTypeOK
<1>2. CASE UNCHANGED status
  BY <1>2
<1>3. ASSUME NEW s \in Subs, NEW r \in {"new"} \cup InProgress \cup Final,
             status' = [status EXCEPT ![s] = r], status' # status
      PROVE  Life!Next
  <2>1. status'[s] = r /\ status[s] # r
    BY <1>1, <1>3
  <2>2. Moves(status[s], r)
    BY <2>1, LifeMoves
  <2>3. QED
    BY <1>3, <2>2 DEF Moves, Life!Next, Life!Submit, Life!Requeue, Life!Process, Life!Grade,
       Life!Complete, Life!FailToCompile, Life!Break, Life!Step, Life!Final, Life!InProgress
<1>4. QED
  BY <1>2, <1>3, OneStatus

\* Whatever other submissions are lost, the status of one that is not goes along
\* its life cycle.
THEOREM StatusGoesAlong ==
  ASSUME Benign
  PROVE  GradingSpec /\ []Alone =>
           [][\A t \in Tracked \cap Tracked' :
                status'[t] # status[t] => Moves(status[t], status'[t])]_allVars
<1>1. CycleInv /\ NoneAborted /\ [GradingNext]_allVars =>
        [\A t \in Tracked \cap Tracked' :
           status'[t] # status[t] => Moves(status[t], status'[t])]_allVars
  BY LifeMoves
<1>2. GradingInit => NoneAborted
  BY DEF GradingInit, NoneAborted, Idle
<1>3. CycleInv /\ NoneAborted /\ [GradingNext]_allVars => NoneAborted'
  BY NoneAbortedStep
<1>4. QED
  BY <1>1, <1>2, <1>3, CycleAlways, PTL DEF GradingSpec

\* As long as no submission is lost, the messages between web threads, the bridge
\* and the judges implement the life cycle of Lifecycle.
THEOREM LifeCycleIsFollowed ==
  ASSUME Benign
  PROVE  GradingSpec /\ []Alone /\ [](Tracked = Subs) => FollowsLifecycle
<1>1. GradingInit => NoneAborted /\ Life!Init
  BY DEF GradingInit, NoneAborted, Idle, Life!Init
<1>2. CycleInv /\ NoneAborted /\ [GradingNext]_allVars => NoneAborted'
  BY NoneAbortedStep
<1>3. CycleInv /\ NoneAborted /\ [GradingNext]_allVars /\ Tracked = Subs /\ (Tracked = Subs)'
      => [Life!Next]_status
  <2>1. (Tracked = Subs)' => Tracked' = Subs
    OBVIOUS
  <2>2. QED
    BY <2>1, LifeStep
<1>4. QED
  BY <1>1, <1>2, <1>3, CycleAlways, PTL DEF GradingSpec, FollowsLifecycle, Life!Spec
=============================================================================
