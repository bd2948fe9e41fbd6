--------------------------- MODULE EventBus_proofs ---------------------------
(***************************************************************************)
(* Proofs about EventBus, for any submissions, consumers, payloads and     *)
(* bounds.                                                                 *)
(*                                                                         *)
(* AnnouncesOnce follows the place of the request that announces.  The     *)
(* rows of results stand on BusInv (what the queues hold was published)    *)
(* and RowsInv (a row is that of a published event, and what a consumer    *)
(* has found is of the event at the head of its queue): from them          *)
(* PercentagesAreRight, for any number of consumers.  StoredOnce is about  *)
(* one consumer, as two may both find nothing and both create a row.       *)
(***************************************************************************)
EXTENDS EventBus, SequenceTheorems, WellFoundedInduction, TLAPS

-----------------------------------------------------------------------------
(* Announcements.                                                          *)

\* The announcements: of a submission that has passed the place where it is announced.
Announcement == [sub : Subs, id : Nat]

AnnouncedInv ==
  /\ announced \in Seq(Announcement) /\ AnnouncedOnce
  /\ DOMAIN step = Subs
  /\ \A i \in DOMAIN announced :
       /\ step[announced[i].sub] # "new"
       /\ announced[i].sub \in Uploads => step[announced[i].sub] # "saved"

\* Appending to a sequence.
LEMMA Appends ==
  ASSUME NEW S, NEW q \in Seq(S), NEW x \in S
  PROVE  /\ Append(q, x) \in Seq(S)
         /\ DOMAIN Append(q, x) = DOMAIN q \cup {Len(q) + 1}
         /\ \A i \in DOMAIN q : Append(q, x)[i] = q[i]
         /\ Append(q, x)[Len(q) + 1] = x
         /\ Len(q) \in Nat /\ Len(q) + 1 \notin DOMAIN q
OBVIOUS

\* Copies of x at the end of a sequence.
LEMMA Copies ==
  ASSUME NEW S, NEW q \in Seq(S), NEW x \in S, NEW r \in Seq(S),
         \A i \in DOMAIN r : r[i] = x
  PROVE  /\ q \o r \in Seq(S)
         /\ \A i \in DOMAIN (q \o r) :
              (q \o r)[i] = x \/ (i \in DOMAIN q /\ (q \o r)[i] = q[i])
         /\ q # <<>> => q \o r # <<>> /\ (q \o r)[1] = q[1]
<1>1. /\ q \o r \in Seq(S) /\ Len(q \o r) = Len(q) + Len(r)
      /\ \A i \in 1 .. Len(q) + Len(r) : (q \o r)[i] = IF i <= Len(q) THEN q[i] ELSE r[i - Len(q)]
  BY ConcatProperties
<1>2. /\ DOMAIN (q \o r) = 1 .. Len(q) + Len(r) /\ DOMAIN q = 1 .. Len(q) /\ DOMAIN r = 1 .. Len(r)
      /\ Len(q) \in Nat /\ Len(r) \in Nat /\ (q # <<>> => Len(q) >= 1)
  BY <1>1
<1> DEFINE b == q \o r
<1>3. ASSUME NEW i \in DOMAIN b PROVE b[i] = x \/ (i \in DOMAIN q /\ b[i] = q[i])
  <2>1. CASE i <= Len(q)
    BY <1>1, <1>2, <2>1
  <2>2. CASE i > Len(q)
    <3>1. i - Len(q) \in DOMAIN r /\ b[i] = r[i - Len(q)]
      BY <1>1, <1>2, <2>2
    <3>2. QED
      BY <3>1
  <2>3. QED
    BY <1>2, <2>1, <2>2
<1>4. q # <<>> => b # <<>> /\ b[1] = q[1]
  BY <1>1, <1>2
<1>5. QED
  BY <1>1, <1>3, <1>4

\* The announcements are about submissions.
LEMMA Announces ==
  ASSUME AnnouncedInv
  PROVE  \A i \in DOMAIN announced : announced[i].sub \in Subs
<1>1. \A i \in DOMAIN announced : announced[i] \in Announcement
  BY DEF AnnouncedInv
<1>2. QED
  BY <1>1 DEF Announcement

\* An announcement of a submission that has none.
LEMMA AnnounceKeeps ==
  ASSUME AnnouncedInv, NEW s \in Subs, Announce(s),
         \A i \in DOMAIN announced : announced[i].sub # s,
         NEW to, step' = [step EXCEPT ![s] = to],
         to # "new", s \in Uploads => to # "saved"
  PROVE  AnnouncedInv'
<1> DEFINE e == [sub |-> s, id |-> Len(announced) + 1]
<1>1. announced \in Seq(Announcement) /\ Len(announced) \in Nat
  BY DEF AnnouncedInv
<1>2. e \in Announcement /\ e.sub = s
  BY <1>1 DEF Announcement
<1>3. announced' = announced \/ announced' = announced \o <<e>> \/ announced' = announced \o <<e, e>>
  BY DEF Announce
<1> HIDE DEF e
<1>4. \A i \in DOMAIN announced : announced[i].sub \in Subs
  BY Announces
<1>5. ASSUME NEW r \in {<<e>>, <<e, e>>}, announced' = announced \o r PROVE AnnouncedInv'
  <2>1. r \in Seq(Announcement) /\ \A i \in DOMAIN r : r[i] = e
    <3>1. CASE r = <<e>>
      BY <1>2, <3>1
    <3>2. CASE r = <<e, e>>
      BY <1>2, <3>2
    <3>3. QED
      BY <1>5, <3>1, <3>2
  <2>2. /\ announced' \in Seq(Announcement)
        /\ \A i \in DOMAIN announced' :
             announced'[i] = e \/ (i \in DOMAIN announced /\ announced'[i] = announced[i])
    BY <1>1, <1>2, <1>5, <2>1, Copies
  <2>3. AnnouncedOnce'
    BY <1>2, <2>2 DEF AnnouncedInv, AnnouncedOnce
  <2>4. QED
    BY <1>2, <1>4, <2>2, <2>3 DEF AnnouncedInv
<1>6. CASE announced' = announced
  BY <1>4, <1>6 DEF AnnouncedInv, AnnouncedOnce
<1>7. QED
  BY <1>3, <1>5, <1>6

\* A request that goes on without an announcement.
LEMMA QuietKeeps ==
  ASSUME AnnouncedInv, NEW s \in Subs, UNCHANGED announced, NEW to,
         step' = [step EXCEPT ![s] = to], to # "new", s \in Uploads => to # "saved"
  PROVE  AnnouncedInv'
<1>1. \A i \in DOMAIN announced : announced[i].sub \in Subs
  BY Announces
<1>2. QED
  BY <1>1 DEF AnnouncedInv, AnnouncedOnce

\* Every step keeps it.
LEMMA AnnouncedStep == AnnouncedInv /\ [Next]_vars => AnnouncedInv'
<1> SUFFICES ASSUME AnnouncedInv, [Next]_vars PROVE AnnouncedInv'
  OBVIOUS
<1>1. ASSUME NEW s \in Subs, Save(s) PROVE AnnouncedInv'
  <2>1. step' = [step EXCEPT ![s] = "saved"] /\ step[s] = "new"
    BY <1>1 DEF Save, Goes
  <2>2. \A i \in DOMAIN announced : announced[i].sub # s
    BY <2>1 DEF AnnouncedInv
  <2>3. CASE s \in Uploads
    <3>1. UNCHANGED announced
      BY <1>1, <2>3 DEF Save, Signal, SkipsEvent
    <3>2. \A i \in DOMAIN announced : announced[i].sub \in Subs
      BY Announces
    <3>3. QED
      BY <2>1, <2>2, <3>1, <3>2 DEF AnnouncedInv, AnnouncedOnce
  <2>4. CASE s \notin Uploads
    BY <1>1, <2>1, <2>2, <2>4, AnnounceKeeps DEF Save, Signal, SkipsEvent
  <2>5. QED
    BY <2>3, <2>4
<1>2. ASSUME NEW s \in Subs, Attach(s) PROVE AnnouncedInv'
  <2>1. step' = [step EXCEPT ![s] = "attached"] /\ step[s] = "saved" /\ s \in Uploads
    BY <1>2 DEF Attach, Goes
  <2>2. \A i \in DOMAIN announced : announced[i].sub # s
    BY <2>1 DEF AnnouncedInv
  <2>3. QED
    BY <1>2, <2>1, <2>2, AnnounceKeeps DEF Attach
<1>3. ASSUME NEW s \in Subs,
             SaveSource(s) \/ AskInside(s) \/ Commit(s) \/ AskAfter(s) \/ Rollback(s)
      PROVE  AnnouncedInv'
  <2>1. UNCHANGED announced
    BY <1>3 DEF SaveSource, AskInside, Commit, AskAfter, Rollback
  <2>2. \E to \in {"sourced", "stored", "made", "failed"} : step' = [step EXCEPT ![s] = to]
    BY <1>3 DEF SaveSource, AskInside, Commit, AskAfter, Rollback, Goes
  <2>3. QED
    BY <2>1, <2>2, QuietKeeps
<1>4. ASSUME \/ \E s \in Subs : Evaluate(s)
             \/ SendAgain
             \/ \E k \in Consumers : Connect(k) \/ Disconnect(k) \/ Consume(k)
             \/ UNCHANGED vars
      PROVE  AnnouncedInv'
  <2>1. UNCHANGED <<step, announced>>
    BY <1>4 DEF Evaluate, SendAgain, Connect, Disconnect, Consume, Refuse, Look, Store, vars, site
  <2>2. QED
    BY <2>1 DEF AnnouncedInv, AnnouncedOnce
<1>5. QED
  BY <1>1, <1>2, <1>3, <1>4 DEF Next

\* A submission is announced under one id, an upload too, which is saved twice, and
\* however often the publisher sends it.
THEOREM AnnouncesOnce == Spec => []AnnouncedOnce
<1>1. Init => AnnouncedInv
  BY DEF Init, AnnouncedInv, AnnouncedOnce
<1>2. AnnouncedInv => AnnouncedOnce
  BY DEF AnnouncedInv, AnnouncedOnce
<1>3. QED
  BY <1>1, <1>2, AnnouncedStep, PTL DEF Spec

-----------------------------------------------------------------------------
(* Events and rows.                                                        *)

\* An event of the external judge.
Message == [id : Nat, sub : Subs, payload : Payloads]

\* The rows that events can make.
Event == {RowOf(m) : m \in Message}

\* What an evaluation publishes is an event, with the next number or without one.
LEMMA ResultsAre ==
  ASSUME published \in Seq(Message), NEW s \in Subs, NEW m \in Results(s)
  PROVE  m \in Message /\ m.id \in {0, Len(published) + 1}
<1>1. Len(published) \in Nat /\ (CHOOSE p \in Payloads : TRUE) \in Payloads
  BY BusAssumption
<1>2. CASE m \in [id : {Len(published) + 1}, sub : {s}, payload : Payloads]
  BY <1>1, <1>2 DEF Message
<1>3. CASE m = [id |-> 0, sub |-> s, payload |-> CHOOSE p \in Payloads : TRUE]
  BY <1>1, <1>3 DEF Message
<1>4. QED
  BY <1>2, <1>3 DEF Results

\* What is published, with its number or none, and what the queues hold of it.
BusInv ==
  /\ published \in Seq(Message)
  /\ \A n \in DOMAIN published : published[n].id \in {0, n}
  /\ queue \in [Consumers -> Seq(Message)]
  /\ \A k \in Consumers : \A i \in DOMAIN queue[k] : queue[k][i] \in Range(published)

\* Each row is that of an event that was published.  A consumer that has looked has
\* found rows of the event at the head of its queue.
RowsInv ==
  /\ events \in Seq(Event)
  /\ \A i \in DOMAIN events :
       /\ events[i].id \in DOMAIN published
       /\ events[i] = RowOf(published[events[i].id])
  /\ DOMAIN found = Consumers
  /\ \A k \in Consumers : found[k] # NotYet =>
       /\ queue[k] # <<>> /\ queue[k][1].id # 0
       /\ found[k] \subseteq Matching(queue[k][1])

\* Some copies of a message go to the end of the queues: their heads stay.
LEMMA Routes ==
  ASSUME BusInv, NEW m \in Message, Route(<<m>>) \/ Route(<<m, m>>)
  PROVE  /\ queue' \in [Consumers -> Seq(Message)]
         /\ \A k \in Consumers : \A i \in DOMAIN queue'[k] :
              queue'[k][i] = m \/ (i \in DOMAIN queue[k] /\ queue'[k][i] = queue[k][i])
         /\ \A k \in Consumers : queue[k] # <<>> =>
              queue'[k] # <<>> /\ queue'[k][1] = queue[k][1]
<1>1. PICK ms \in {<<m>>, <<m, m>>} :
        queue' = [k \in Consumers |-> IF k \in up THEN queue[k] \o ms ELSE queue[k]]
  BY DEF Route
<1>2. ms \in Seq(Message) /\ \A i \in DOMAIN ms : ms[i] = m
  <2>1. CASE ms = <<m>>
    BY <2>1
  <2>2. CASE ms = <<m, m>>
    BY <2>2
  <2>3. QED
    BY <1>1, <2>1, <2>2
<1>3. ASSUME NEW k \in Consumers
      PROVE  /\ queue'[k] \in Seq(Message)
             /\ \A i \in DOMAIN queue'[k] :
                  queue'[k][i] = m \/ (i \in DOMAIN queue[k] /\ queue'[k][i] = queue[k][i])
             /\ queue[k] # <<>> => queue'[k] # <<>> /\ queue'[k][1] = queue[k][1]
  <2>1. queue[k] \in Seq(Message)
    BY DEF BusInv
  <2>2. CASE k \notin up
    BY <1>1, <2>1, <2>2
  <2>3. CASE k \in up
    <3>1. queue'[k] = queue[k] \o ms
      BY <1>1, <2>3
    <3>2. QED
      BY <1>2, <2>1, <3>1, Copies
  <2>4. QED
    BY <2>2, <2>3
<1>4. queue' \in [Consumers -> Seq(Message)]
  BY <1>1, <1>3
<1>5. QED
  BY <1>3, <1>4

\* Every step keeps the queues to what was published.
LEMMA BusStep == BusInv /\ RowsInv /\ [Next]_vars => BusInv'
<1> SUFFICES ASSUME BusInv, RowsInv, [Next]_vars PROVE BusInv'
  OBVIOUS
<1>1. ASSUME NEW s \in Subs, Evaluate(s) PROVE BusInv'
  <2>1. PICK m \in Results(s) :
          published' = Append(published, m) /\ (Route(<<m>>) \/ Route(<<m, m>>))
    BY <1>1 DEF Evaluate
  <2>2. published \in Seq(Message) /\ Len(published) \in Nat
    BY DEF BusInv
  <2>3. m \in Message /\ m.id \in {0, Len(published) + 1}
    BY <2>1, <2>2, ResultsAre
  <2>4. published' = Append(published, m) /\ (Route(<<m>>) \/ Route(<<m, m>>))
    BY <2>1
  <2>5. /\ published' \in Seq(Message)
        /\ DOMAIN published' = DOMAIN published \cup {Len(published) + 1}
        /\ \A n \in DOMAIN published : published'[n] = published[n]
        /\ published'[Len(published) + 1] = m
    BY <2>2, <2>3, <2>4, Appends
  <2>6. \A n \in DOMAIN published' : published'[n].id \in {0, n}
    BY <2>3, <2>5 DEF BusInv
  <2>7. Range(published) \subseteq Range(published') /\ m \in Range(published')
    BY <2>5 DEF Range
  <2>8. /\ queue' \in [Consumers -> Seq(Message)]
        /\ \A k \in Consumers : \A i \in DOMAIN queue'[k] :
             queue'[k][i] = m \/ (i \in DOMAIN queue[k] /\ queue'[k][i] = queue[k][i])
    BY <2>3, <2>4, Routes
  <2>9. \A k \in Consumers : \A i \in DOMAIN queue'[k] : queue'[k][i] \in Range(published')
    BY <2>7, <2>8 DEF BusInv
  <2>10. QED
    BY <2>5, <2>6, <2>8, <2>9 DEF BusInv
<1>2. ASSUME SendAgain PROVE BusInv'
  <2>1. PICK m \in Range(published) : Route(<<m>>)
    BY <1>2 DEF SendAgain
  <2>2. m \in Message /\ UNCHANGED published
    BY <1>2 DEF SendAgain, BusInv, Range
  <2>3. /\ queue' \in [Consumers -> Seq(Message)]
        /\ \A k \in Consumers : \A i \in DOMAIN queue'[k] :
             queue'[k][i] = m \/ (i \in DOMAIN queue[k] /\ queue'[k][i] = queue[k][i])
    BY <2>1, <2>2, Routes
  <2>4. \A k \in Consumers : \A i \in DOMAIN queue'[k] : queue'[k][i] \in Range(published)
    BY <2>1, <2>3 DEF BusInv
  <2>5. QED
    BY <2>2, <2>3, <2>4 DEF BusInv
<1>3. ASSUME NEW k \in Consumers, Disconnect(k) \/ Consume(k) PROVE BusInv'
  <2>1. /\ UNCHANGED published
        /\ \/ UNCHANGED queue
           \/ queue' = [queue EXCEPT ![k] = <<>>]
           \/ queue[k] # <<>> /\ queue' = [queue EXCEPT ![k] = Tail(@)]
           \/ found[k] # NotYet /\ queue' = [queue EXCEPT ![k] = Tail(@)]
    BY <1>3 DEF Disconnect, Consume, Refuse, Raises, Look, Store, Acknowledge, bus
  <2>2. queue[k] \in Seq(Message)
    BY DEF BusInv
  <2>3. CASE UNCHANGED queue
    BY <2>1, <2>3 DEF BusInv
  <2>4. CASE queue' = [queue EXCEPT ![k] = <<>>]
    BY <2>1, <2>4 DEF BusInv
  <2>5. CASE queue' = [queue EXCEPT ![k] = Tail(@)] /\ queue[k] # <<>>
    <3>1. /\ Tail(queue[k]) \in Seq(Message)
          /\ \A i \in DOMAIN Tail(queue[k]) :
               i + 1 \in DOMAIN queue[k] /\ Tail(queue[k])[i] = queue[k][i + 1]
      BY <2>2, <2>5
    <3>2. \A j \in Consumers : queue'[j] = IF j = k THEN Tail(queue[k]) ELSE queue[j]
      BY <2>5 DEF BusInv
    <3>3. queue' \in [Consumers -> Seq(Message)]
      BY <2>5, <3>1 DEF BusInv
    <3>4. QED
      BY <2>1, <3>1, <3>2, <3>3 DEF BusInv
  <2>6. QED
    BY <2>1, <2>3, <2>4, <2>5 DEF RowsInv
<1>4. ASSUME \/ \E s \in Subs : \/ Save(s) \/ Attach(s) \/ SaveSource(s) \/ AskInside(s)
                                \/ Commit(s) \/ AskAfter(s) \/ Rollback(s)
             \/ \E k \in Consumers : Connect(k)
             \/ UNCHANGED vars
      PROVE  BusInv'
  <2>1. UNCHANGED <<published, queue>>
    BY <1>4 DEF Save, Attach, SaveSource, AskInside, Commit, AskAfter, Rollback, Connect, vars, bus
  <2>2. QED
    BY <2>1 DEF BusInv
<1>5. QED
  BY <1>1, <1>2, <1>3, <1>4 DEF Next

\* The rows of a message carry its number and its submission.
LEMMA RowsAre ==
  ASSUME NEW m \in Message
  PROVE  RowOf(m) \in Event /\ RowOf(m).id = m.id /\ RowOf(m).sub = m.sub
BY DEF RowOf, Event

\* Looking and storing.
LEMMA RowsStep == BusInv /\ RowsInv /\ [Next]_vars => RowsInv'
<1> SUFFICES ASSUME BusInv, RowsInv, [Next]_vars PROVE RowsInv'
  OBVIOUS
<1>1. ASSUME UNCHANGED <<events, found>>,
             published \in Seq(Message),
             \A n \in DOMAIN published :
               n \in DOMAIN published' /\ published'[n] = published[n],
             \A k \in Consumers : queue[k] # <<>> =>
               queue'[k] # <<>> /\ queue'[k][1] = queue[k][1]
      PROVE  RowsInv'
  BY <1>1 DEF RowsInv, Matching
<1>2. ASSUME NEW s \in Subs, Evaluate(s) PROVE RowsInv'
  <2>1. PICK m \in Results(s) :
          published' = Append(published, m) /\ (Route(<<m>>) \/ Route(<<m, m>>))
    BY <1>2 DEF Evaluate
  <2>2. published \in Seq(Message) /\ Len(published) \in Nat
    BY DEF BusInv
  <2>3. m \in Message
    BY <2>1, <2>2, ResultsAre
  <2>4. published' = Append(published, m) /\ (Route(<<m>>) \/ Route(<<m, m>>))
    BY <2>1
  <2>5. \A n \in DOMAIN published : n \in DOMAIN published' /\ published'[n] = published[n]
    BY <2>2, <2>3, <2>4, Appends
  <2>6. UNCHANGED <<events, found>>
    BY <1>2 DEF Evaluate, consumer
  <2>7. QED
    BY <1>1, <2>2, <2>3, <2>4, <2>5, <2>6, Routes
<1>3. ASSUME SendAgain PROVE RowsInv'
  <2>1. PICK m \in Range(published) : Route(<<m>>)
    BY <1>3 DEF SendAgain
  <2>2. m \in Message /\ UNCHANGED <<published, events, found>> /\ published \in Seq(Message)
    BY <1>3 DEF SendAgain, BusInv, Range, consumer
  <2>3. QED
    BY <1>1, <2>1, <2>2, Routes
<1>4. ASSUME NEW k \in Consumers, Disconnect(k) \/ Refuse(k) PROVE RowsInv'
  <2>1. /\ UNCHANGED <<published, events>>
        /\ found' = [found EXCEPT ![k] = NotYet]
        /\ \A j \in Consumers : j # k => queue'[j] = queue[j]
    BY <1>4 DEF Disconnect, Refuse, Acknowledge, BusInv
  <2>2. QED
    BY <2>1 DEF RowsInv, Matching
<1>5. ASSUME NEW k \in Consumers, Look(k) PROVE RowsInv'
  BY <1>5 DEF Look, bus, RowsInv, Matching
<1>6. ASSUME NEW k \in Consumers, Store(k) PROVE RowsInv'
  <2> DEFINE m == queue[k][1]
             row == CHOOSE i \in found[k] : TRUE
  <2>1. queue[k] # <<>> /\ queue[k] \in Seq(Message) /\ found[k] \subseteq Matching(m) /\ m.id # 0
    BY <1>6 DEF Store, RowsInv, BusInv
  <2>2. 1 \in DOMAIN queue[k]
    BY <2>1
  <2>3. m \in Message /\ m.id \in DOMAIN published /\ published[m.id] = m
    <3>1. PICK n \in DOMAIN published : published[n] = m
      BY <2>2 DEF BusInv, Range
    <3>2. QED
      BY <2>1, <2>2, <3>1 DEF BusInv
  <2>4. /\ UNCHANGED published
        /\ found' = [found EXCEPT ![k] = NotYet]
        /\ \A j \in Consumers : j # k => queue'[j] = queue[j]
        /\ events' = IF found[k] = {} THEN Append(events, RowOf(m))
                                      ELSE [events EXCEPT ![row] = RowOf(m)]
    BY <1>6 DEF Store, Acknowledge, BusInv
  <2>5. RowOf(m) \in Event /\ RowOf(m).id = m.id /\ RowOf(m).sub = m.sub
    BY <2>3, RowsAre
  <2>6. events \in Seq(Event) /\ Len(events) \in Nat
    BY DEF RowsInv
  <2>7. found[k] # {} => row \in DOMAIN events /\ events[row].id = m.id /\ events[row].sub = m.sub
    BY <2>1 DEF Matching
  <2> HIDE DEF m, row
  <2>8. /\ events' \in Seq(Event)
        /\ \A i \in DOMAIN events : /\ i \in DOMAIN events'
                                    /\ events'[i].id = events[i].id
                                    /\ events'[i].sub = events[i].sub
        /\ \A i \in DOMAIN events' : \/ events'[i] = RowOf(m)
                                     \/ i \in DOMAIN events /\ events'[i] = events[i]
    <3>1. CASE found[k] = {}
      <4>1. events' = Append(events, RowOf(m))
        BY <2>4, <3>1
      <4>2. QED
        BY <2>5, <2>6, <4>1, Appends
    <3>2. CASE found[k] # {}
      <4>1. events' = [events EXCEPT ![row] = RowOf(m)]
        BY <2>4, <3>2
      <4>2. DOMAIN events' = DOMAIN events
            /\ \A i \in DOMAIN events : events'[i] = IF i = row THEN RowOf(m) ELSE events[i]
        BY <4>1
      <4>3. events' \in Seq(Event)
        BY <2>5, <2>6, <2>7, <3>2, <4>1, ExceptSeq
      <4>4. QED
        BY <2>5, <2>7, <3>2, <4>2, <4>3
    <3>3. QED
      BY <3>1, <3>2
  <2>9. \A i \in DOMAIN events' :
          events'[i].id \in DOMAIN published' /\ events'[i] = RowOf(published'[events'[i].id])
    BY <2>3, <2>4, <2>5, <2>8 DEF RowsInv
  <2>10. \A n : Matching(n) \subseteq Matching(n)'
    BY <2>8 DEF Matching
  <2>11. DOMAIN found' = Consumers
         /\ \A j \in Consumers : found'[j] = IF j = k THEN NotYet ELSE found[j]
    BY <2>4 DEF RowsInv
  <2>12. \A j \in Consumers : found'[j] # NotYet =>
           /\ queue'[j] # <<>> /\ queue'[j][1].id # 0
           /\ found'[j] \subseteq Matching(queue[j][1])' /\ queue'[j] = queue[j]
    BY <2>4, <2>10, <2>11 DEF RowsInv
  <2>13. QED
    BY <2>8, <2>9, <2>11, <2>12 DEF RowsInv, Matching
<1>7. ASSUME \/ \E s \in Subs : \/ Save(s) \/ Attach(s) \/ SaveSource(s) \/ AskInside(s)
                                \/ Commit(s) \/ AskAfter(s) \/ Rollback(s)
             \/ \E k \in Consumers : Connect(k)
             \/ UNCHANGED vars
      PROVE  RowsInv'
  <2>1. UNCHANGED <<published, queue, events, found>>
    BY <1>7 DEF Save, Attach, SaveSource, AskInside, Commit, AskAfter, Rollback, Connect, vars,
       bus, consumer
  <2>2. QED
    BY <2>1 DEF RowsInv, Matching
<1>8. QED
  BY <1>2, <1>3, <1>4, <1>5, <1>6, <1>7 DEF Next, Consume

\* Initially nothing is published.
LEMMA RowsInit == Init => BusInv /\ RowsInv
<1> SUFFICES ASSUME Init PROVE BusInv /\ RowsInv
  OBVIOUS
<1>1. BusInv
  BY DEF Init, BusInv, Range
<1>2. RowsInv
  BY DEF Init, RowsInv
<1>3. QED
  BY <1>1, <1>2

\* What is on the bus and what is in the table fit together in every state.
THEOREM RowsAreOfEvents == Spec => [](BusInv /\ RowsInv)
BY RowsInit, BusStep, RowsStep, PTL DEF Spec

-----------------------------------------------------------------------------
(* One row for an event.                                                   *)

\* Nobody else stores between a consumer's look and its write.
OneConsumer == \A j, k \in Consumers : j = k

\* An event has one row, and a consumer in its transaction has found it.
UniqueInv ==
  /\ OneRowPerEvent
  /\ \A k \in Consumers : found[k] # NotYet => found[k] = Matching(queue[k][1])

\* Every step keeps that.
LEMMA UniqueStep ==
  ASSUME OneConsumer
  PROVE  BusInv /\ RowsInv /\ RowsInv' /\ UniqueInv /\ [Next]_vars => UniqueInv'
<1> SUFFICES ASSUME BusInv, RowsInv, RowsInv', UniqueInv, [Next]_vars PROVE UniqueInv'
  OBVIOUS
<1>1. ASSUME UNCHANGED <<events, found>>,
             \A k \in Consumers : queue[k] # <<>> =>
               queue'[k] # <<>> /\ queue'[k][1] = queue[k][1]
      PROVE  UniqueInv'
  BY <1>1 DEF RowsInv, UniqueInv, OneRowPerEvent, Matching
<1>2. ASSUME NEW m \in Message, Route(<<m>>) \/ Route(<<m, m>>), UNCHANGED consumer
      PROVE  UniqueInv'
  BY <1>1, <1>2, Routes DEF consumer
<1>3. ASSUME NEW s \in Subs, Evaluate(s) PROVE UniqueInv'
  <2>1. PICK m \in Results(s) : Route(<<m>>) \/ Route(<<m, m>>)
    BY <1>3 DEF Evaluate
  <2>2. m \in Message
    BY <2>1, ResultsAre DEF BusInv
  <2>3. QED
    BY <1>2, <1>3, <2>1, <2>2 DEF Evaluate
<1>4. ASSUME SendAgain PROVE UniqueInv'
  <2>1. \E m \in Message : Route(<<m>>)
    BY <1>4 DEF SendAgain, BusInv, Range
  <2>2. QED
    BY <1>2, <1>4, <2>1 DEF SendAgain
<1>5. ASSUME NEW k \in Consumers, Disconnect(k) \/ Refuse(k) PROVE UniqueInv'
  <2>1. UNCHANGED events /\ found' = [found EXCEPT ![k] = NotYet]
    BY <1>5 DEF Disconnect, Refuse, Acknowledge
  <2>2. \A j \in Consumers : found'[j] = NotYet
    BY <2>1 DEF OneConsumer, RowsInv
  <2>3. QED
    BY <2>1, <2>2 DEF UniqueInv, OneRowPerEvent
<1>6. ASSUME NEW k \in Consumers, Look(k) PROVE UniqueInv'
  BY <1>6 DEF Look, bus, RowsInv, UniqueInv, OneRowPerEvent, Matching
<1>7. ASSUME NEW k \in Consumers, Store(k) PROVE UniqueInv'
  <2> DEFINE m == queue[k][1]
             row == CHOOSE i \in found[k] : TRUE
  <2>1. /\ queue[k] \in Seq(Message) /\ queue[k] # <<>>
        /\ found[k] = Matching(m)
        /\ found' = [found EXCEPT ![k] = NotYet]
        /\ events' = IF found[k] = {} THEN Append(events, RowOf(m))
                                      ELSE [events EXCEPT ![row] = RowOf(m)]
    BY <1>7 DEF Store, Acknowledge, BusInv, RowsInv, UniqueInv
  <2>2. m \in Message
    BY <2>1
  <2>3. RowOf(m) \in Event /\ RowOf(m).id = m.id /\ RowOf(m).sub = m.sub
    BY <2>2, RowsAre
  <2>4. found[k] = {i \in DOMAIN events : events[i].id = m.id /\ events[i].sub = m.sub}
    BY <2>1 DEF Matching
  <2> HIDE DEF m
  <2>5. OneRowPerEvent'
    <3>1. CASE found[k] = {}
      <4>1. events' = Append(events, RowOf(m)) /\ events \in Seq(Event)
        BY <2>1, <3>1 DEF RowsInv
      <4>2. /\ DOMAIN events' = DOMAIN events \cup {Len(events) + 1}
            /\ events'[Len(events) + 1] = RowOf(m)
            /\ \A i \in DOMAIN events : events'[i] = events[i]
        BY <2>3, <4>1, Appends
      <4>3. \A i \in DOMAIN events : ~(events[i].id = m.id /\ events[i].sub = m.sub)
        BY <2>4, <3>1
      <4>4. QED
        BY <2>3, <4>2, <4>3 DEF UniqueInv, OneRowPerEvent
    <3>2. CASE found[k] # {}
      <4>1. events' = [events EXCEPT ![row] = RowOf(m)] /\ row \in found[k]
        BY <2>1, <3>2
      <4>2. /\ DOMAIN events' = DOMAIN events
            /\ \A i \in DOMAIN events :
                 events'[i].id = events[i].id /\ events'[i].sub = events[i].sub
        BY <2>3, <2>4, <4>1
      <4>3. QED
        BY <4>2 DEF UniqueInv, OneRowPerEvent
    <3>3. QED
      BY <3>1, <3>2
  <2>6. \A j \in Consumers : found'[j] = NotYet
    BY <2>1 DEF OneConsumer, RowsInv
  <2>7. QED
    BY <2>5, <2>6 DEF UniqueInv
<1>8. ASSUME \/ \E s \in Subs : \/ Save(s) \/ Attach(s) \/ SaveSource(s) \/ AskInside(s)
                                \/ Commit(s) \/ AskAfter(s) \/ Rollback(s)
             \/ \E k \in Consumers : Connect(k)
             \/ UNCHANGED vars
      PROVE  UniqueInv'
  <2>1. UNCHANGED <<queue, events, found>>
    BY <1>8 DEF Save, Attach, SaveSource, AskInside, Commit, AskAfter, Rollback, Connect, vars,
       bus, consumer
  <2>2. QED
    BY <1>1, <2>1
<1>9. QED
  BY <1>3, <1>4, <1>5, <1>6, <1>7, <1>8 DEF Next, Consume

\* With one consumer, an event that is delivered several times, or once more after
\* the consumer broke off between its look and its write, has one row.
THEOREM StoredOnce ==
  ASSUME OneConsumer
  PROVE  Spec => []OneRowPerEvent
<1>1. Init => UniqueInv
  BY DEF Init, UniqueInv, OneRowPerEvent
<1>2. UniqueInv => OneRowPerEvent
  BY DEF UniqueInv
<1>3. QED
  BY <1>1, <1>2, UniqueStep, RowsAreOfEvents, PTL DEF Spec

-----------------------------------------------------------------------------
(* Percentages.                                                            *)

\* A quotient rounded down.
LEMMA Quotient ==
  ASSUME NEW a \in Int, NEW b \in Int, b > 0
  PROVE  /\ a \div b \in Int
         /\ (a \div b) * b <= a
         /\ (a \div b + 1) * b > a
OBVIOUS

\* A set of numbers has a least one, ...
LEMMA LeastOf ==
  ASSUME NEW T \in SUBSET Nat, T # {}
  PROVE  \E x \in T : \A y \in T : x <= y
<1>1. PICK x \in T : \A y \in T : <<y, x>> \notin OpToRel(<, Nat)
  BY NatLessThanWellFounded, WFMin
<1>2. \A y \in T : ~(y < x)
  BY <1>1 DEF OpToRel
<1>3. QED
  BY <1>2

\* ... and, when it is bounded, a greatest.
LEMMA GreatestOf ==
  ASSUME NEW n \in Nat, NEW T \in SUBSET (1 .. n), T # {}
  PROVE  \E x \in T : \A y \in T : y <= x
<1> DEFINE R == {i \in Nat : n - i \in T}
<1>1. R # {}
  <2>1. PICK x \in T : TRUE
    OBVIOUS
  <2>2. n - x \in Nat /\ n - (n - x) = x
    OBVIOUS
  <2>3. QED
    BY <2>1, <2>2
<1>2. PICK i \in R : \A j \in R : i <= j
  BY <1>1, LeastOf
<1>3. \A y \in T : n - y \in R
  <2> TAKE y \in T
  <2>1. y \in 1 .. n
    OBVIOUS
  <2>2. n - y \in Nat /\ n - (n - y) = y
    BY <2>1
  <2>3. n - (n - y) \in T
    BY <2>2
  <2> QED
    BY <2>2, <2>3
<1>4. \A y \in T : y <= n - i
  BY <1>2, <1>3
<1>5. QED
  BY <1>2, <1>4

\* The row a page shows has the percentage of its event, or else that of its
\* event's own totals; with any number of consumers.
THEOREM PercentagesAreRight == Spec => []PercentageOfTotals
<1>1. BusInv /\ RowsInv => PercentageOfTotals
  <2> SUFFICES ASSUME BusInv, RowsInv, NEW s \in Subs, Shown(s) # 0
               PROVE  LET e == events[Shown(s)]
                          m == published[e.id]
                          p == m.payload
                      IN  /\ m.sub = s
                          /\ p.percentage # None => e.percentage = p.percentage
                          /\ e.percentage # None /\ p.percentage = None =>
                                /\ e.percentage * p.max <= p.total * Full
                                /\ (e.percentage + 1) * p.max > p.total * Full
    BY DEF PercentageOfTotals
  <2> DEFINE mine == {i \in DOMAIN events : events[i].sub = s}
  <2>1. mine # {} /\ Shown(s) = CHOOSE i \in mine : \A j \in mine : j <= i
    BY DEF Shown
  <2>2. Len(events) \in Nat /\ mine \subseteq 1 .. Len(events)
    BY DEF RowsInv
  <2>3. \E i \in mine : \A j \in mine : j <= i
    BY <2>1, <2>2, GreatestOf
  <2>4. Shown(s) \in mine
    BY <2>1, <2>3
  <2> DEFINE e == events[Shown(s)]
             m == published[e.id]
             p == m.payload
  <2>5. e = RowOf(m) /\ e.sub = s /\ m \in Message
    BY <2>4 DEF RowsInv, BusInv
  <2>6. m.sub = s /\ e.percentage = Percentage(p) /\ p \in Payloads
    BY <2>5 DEF RowOf, Message
  <2>7. ASSUME e.percentage # None, p.percentage = None
        PROVE  /\ e.percentage * p.max <= p.total * Full
               /\ (e.percentage + 1) * p.max > p.total * Full
    <3>1. /\ p.total # None /\ p.max # None /\ p.max > 0
          /\ e.percentage = (p.total * Full) \div p.max
      BY <2>6, <2>7 DEF Percentage
    <3>2. p.total \in Int /\ p.max \in Int /\ Full \in Int
      BY <2>6, <3>1, BusAssumption
    <3> HIDE DEF p, e
    <3>3. p.total * Full \in Int
      BY <3>2
    <3>4. QED
      BY <3>1, <3>2, <3>3, Quotient
  <2>8. p.percentage # None => e.percentage = p.percentage
    BY <2>6 DEF Percentage
  <2> QED
    BY <2>6, <2>7, <2>8
<1>2. QED
  BY <1>1, RowsAreOfEvents, PTL
=============================================================================
