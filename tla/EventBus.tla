------------------------------ MODULE EventBus ------------------------------
(***************************************************************************)
(* A submission is stored by the site and announced on the event bus; an   *)
(* external judge evaluates what is announced and publishes results; the   *)
(* consumer of the site turns them into rows, of which the page of the     *)
(* submission shows the newest.                                            *)
(***************************************************************************)
EXTENDS Integers, Sequences, SequencesExt

CONSTANTS
    Subs,           \* submissions
    Uploads,        \* those made by uploading a package, not by the form
    Consumers,      \* processes that consume the bus
    Payloads,       \* payloads of results: [total, max, percentage, rubrics]
    Full,           \* what every percentage is a share of: 100
    None,           \* a number that is absent
    MaxResults,     \* bound: results of the external judge
    MaxFaults       \* bound: failing saves, publishes and consumers

ASSUME BusAssumption ==
    /\ Uploads \subseteq Subs /\ None \notin Nat /\ Full \in Nat /\ Payloads # {}
    /\ \A p \in Payloads : {p.total, p.max} \subseteq Int \cup {None}

VARIABLES
    step,           \* how far the request that makes a submission has come
    committed,      \* the submissions other connections see
    announced,      \* the announcements on the bus, oldest first: [sub, id]
    asked,          \* the submissions the bridge was asked to judge
    published,      \* history: the results published, [id, sub, payload]
    queue,          \* per consumer its exclusive queue; it is lost with it
    up,             \* the consumers that are connected
    found,          \* the rows a consumer in its transaction has found
    events,         \* the rows of ResultEvent, by created_at
    refused,        \* history: per consumer the numbers of the events it refused
    faults

site == <<step, committed, announced, asked>>
bus == <<published, queue, up>>
consumer == <<found, events, refused>>
vars == <<site, bus, consumer, faults>>

\* The consumer has not looked yet: no row has the number 0.
NotYet == {0}

Init ==
    /\ step = [s \in Subs |-> "new"]
    /\ committed = {} /\ announced = <<>> /\ asked = {}
    /\ published = <<>> /\ queue = [k \in Consumers |-> <<>>] /\ up = {}
    /\ found = [k \in Consumers |-> NotYet] /\ events = <<>>
    /\ refused = [k \in Consumers |-> {}] /\ faults = 0

Fault == faults < MaxFaults /\ faults' = faults + 1

Goes(s, from, to) == step[s] = from /\ step' = [step EXCEPT ![s] = to]

-----------------------------------------------------------------------------
(* The site: one transaction for the submission and its source. *)

\* An envelope with a new id, which kombu may send again after a lost connection.
\* The publishing is best effort: its failure is logged and the request goes on.
Announce(s) ==
    LET e == [sub |-> s, id |-> Len(announced) + 1]
    IN  \/ announced' = announced \o <<e>> /\ UNCHANGED faults
        \/ Fault /\ (UNCHANGED announced \/ announced' = announced \o <<e, e>>)

\* Variant with a bug: the first save of an upload is announced as well.
SkipsNone(s) == FALSE

SkipsEvent(s) == s \in Uploads

\* The signal of a save announces a creation, unless it is told to skip this one.
Signal(s) ==
    IF SkipsEvent(s) THEN UNCHANGED <<announced, faults>> ELSE Announce(s)

Save(s) ==
    /\ Goes(s, "new", "saved")
    /\ Signal(s)
    /\ UNCHANGED <<committed, asked, bus, consumer>>

\* An upload is saved again with its package, and announced.
Attach(s) ==
    /\ Goes(s, "saved", "attached") /\ s \in Uploads
    /\ Announce(s)
    /\ UNCHANGED <<committed, asked, bus, consumer>>

SaveSource(s) ==
    /\ Goes(s, IF s \in Uploads THEN "attached" ELSE "saved", "sourced")
    /\ UNCHANGED <<committed, announced, asked, bus, consumer, faults>>

Dispatch(s) == asked' = asked \cup {s}

\* judge() of an upload is called inside the transaction, that of the form after
AskInside(s) ==
    /\ s \in Uploads /\ Goes(s, "sourced", "stored")
    /\ Dispatch(s)
    /\ UNCHANGED <<committed, announced, bus, consumer, faults>>

Commit(s) ==
    /\ Goes(s, IF s \in Uploads THEN "stored" ELSE "sourced",
               IF s \in Uploads THEN "made" ELSE "stored")
    /\ committed' = committed \cup {s}
    /\ UNCHANGED <<announced, asked, bus, consumer, faults>>

AskAfter(s) ==
    /\ s \notin Uploads /\ Goes(s, "stored", "made")
    /\ Dispatch(s)
    /\ UNCHANGED <<committed, announced, bus, consumer, faults>>

\* A step of the transaction fails, and all is rolled back.
Rollback(s) ==
    /\ step[s] \in {"saved", "attached", "sourced", "stored"} /\ s \notin committed
    /\ Fault
    /\ step' = [step EXCEPT ![s] = "failed"]
    /\ UNCHANGED <<committed, announced, asked, bus, consumer>>

-----------------------------------------------------------------------------
(* The external judge and the bus. *)

\* A topic exchange: a copy to the queue of every consumer that is connected.
Route(ms) ==
    queue' = [k \in Consumers |-> IF k \in up THEN queue[k] \o ms ELSE queue[k]]

\* The events an evaluation may publish: the next one with some payload, or one that
\* no consumer can read, without an id of its own.
Results(s) ==
    [id : {Len(published) + 1}, sub : {s}, payload : Payloads]
        \cup {[id |-> 0, sub |-> s, payload |-> CHOOSE p \in Payloads : TRUE]}

\* It evaluates an announced submission; its publisher may send the event twice.
Evaluate(s) ==
    /\ \E i \in DOMAIN announced : announced[i].sub = s
    /\ Len(published) < MaxResults
    /\ \E m \in Results(s) :
          /\ published' = Append(published, m)
          /\ \/ Route(<<m>>) /\ UNCHANGED faults
             \/ Fault /\ Route(<<m, m>>)
    /\ UNCHANGED <<site, up, consumer>>

\* An older event is sent once more, after a lost confirmation.
SendAgain ==
    /\ Fault
    /\ \E m \in Range(published) : Route(<<m>>)
    /\ UNCHANGED <<site, published, up, consumer>>

-----------------------------------------------------------------------------
(* The consumer. *)

Connect(k) ==
    /\ k \notin up
    /\ up' = up \cup {k}
    /\ UNCHANGED <<site, published, queue, consumer, faults>>

\* The queue is exclusive and auto-delete: it goes with the connection, and so
\* does what it holds and what is not acknowledged.
Disconnect(k) ==
    /\ k \in up /\ Fault
    /\ up' = up \ {k}
    /\ queue' = [queue EXCEPT ![k] = <<>>]
    /\ found' = [found EXCEPT ![k] = NotYet]
    /\ UNCHANGED <<site, published, events, refused>>

Acknowledge(k) ==
    /\ queue' = [queue EXCEPT ![k] = Tail(@)]
    /\ found' = [found EXCEPT ![k] = NotYet]

\* The handler raises: the event is not one it can read, or some query of its
\* transaction fails, which is rolled back.
Raises(k) ==
    /\ queue[k] # <<>>
    /\ IF queue[k][1].id = 0 THEN UNCHANGED faults ELSE Fault

\* Variant with a bug: the event is put back.
RefuseAndRequeue(k) ==
    /\ Raises(k)
    /\ found' = [found EXCEPT ![k] = NotYet]
    /\ UNCHANGED <<site, bus, events, refused>>

\* The event is rejected, and never put back into the queue.
Refuse(k) ==
    /\ Raises(k)
    /\ refused' = [refused EXCEPT ![k] = @ \cup {queue[k][1].id}]
    /\ Acknowledge(k)
    /\ UNCHANGED <<site, published, up, events>>

\* Variant with a bug: only the newest row is compared.
MatchingNewest(m) == {i \in DOMAIN events : i = Len(events) /\ events[i].id = m.id}

\* filter(event_id=..., submission_id=...)
Matching(m) == {i \in DOMAIN events : events[i].id = m.id /\ events[i].sub = m.sub}

Look(k) ==
    /\ queue[k] # <<>> /\ queue[k][1].id # 0 /\ found[k] = NotYet
    /\ found' = [found EXCEPT ![k] = Matching(queue[k][1])]
    /\ UNCHANGED <<site, bus, events, refused, faults>>

\* The loop over the rubrics leaves the last one's maximum in max_score ...
LastMax(p) == IF p.rubrics = <<>> THEN p.max ELSE Last(p.rubrics)

\* Variant with a bug: the loop comes first.
PercentageAfterLoop(p) ==
    IF p.percentage = None /\ p.total # None /\ LastMax(p) # None /\ LastMax(p) > 0
      THEN (p.total * Full) \div LastMax(p)
      ELSE p.percentage

\* ... when the percentage has already been computed.
Percentage(p) ==
    IF p.percentage = None /\ p.total # None /\ p.max # None /\ p.max > 0
      THEN (p.total * Full) \div p.max
      ELSE p.percentage

RowOf(m) ==
    [id |-> m.id, sub |-> m.sub, total |-> m.payload.total,
     max |-> LastMax(m.payload), percentage |-> Percentage(m.payload)]

\* Update the row that was found, or create one; then acknowledge.
Store(k) ==
    /\ found[k] # NotYet
    /\ LET m == queue[k][1]
       IN  events' = IF found[k] = {}
                       THEN Append(events, RowOf(m))
                       ELSE [events EXCEPT ![CHOOSE i \in found[k] : TRUE] = RowOf(m)]
    /\ Acknowledge(k)
    /\ UNCHANGED <<site, published, up, refused, faults>>

-----------------------------------------------------------------------------
Consume(k) == Refuse(k) \/ Look(k) \/ Store(k)

Next ==
    \/ \E s \in Subs :
          \/ Save(s) \/ Attach(s) \/ SaveSource(s) \/ AskInside(s) \/ Commit(s)
          \/ AskAfter(s) \/ Rollback(s) \/ Evaluate(s)
    \/ SendAgain
    \/ \E k \in Consumers : Connect(k) \/ Disconnect(k) \/ Consume(k)

\* A consumer that is connected goes on consuming.
Spec == Init /\ [][Next]_vars /\ \A k \in Consumers : WF_vars(Consume(k))

-----------------------------------------------------------------------------
(* Properties. *)

\* A submission is announced under one id, though an upload is saved twice and the
\* publisher may send its envelope twice.
AnnouncedOnce ==
    \A i, j \in DOMAIN announced :
        announced[i].sub = announced[j].sub => announced[i].id = announced[j].id

\* With one consumer an event makes one row, however often it is delivered and
\* wherever the consumer broke off.
OneRowPerEvent ==
    \A i, j \in DOMAIN events :
        events[i].id = events[j].id /\ events[i].sub = events[j].sub => i = j

\* The row a page shows: the newest of the submission; 0: none
Shown(s) ==
    LET mine == {i \in DOMAIN events : events[i].sub = s}
    IN  IF mine = {} THEN 0 ELSE CHOOSE i \in mine : \A j \in mine : j <= i

\* The percentage a page shows is that of an event about its submission, the one
\* the event names or else the share of its own totals, whatever the rubrics say
\* and however often it was stored.
PercentageOfTotals ==
    \A s \in Subs : Shown(s) # 0 =>
        LET e == events[Shown(s)]
            m == published[e.id]
            p == m.payload
        IN  /\ m.sub = s
            /\ p.percentage # None => e.percentage = p.percentage
            /\ e.percentage # None /\ p.percentage = None =>
                  /\ e.percentage * p.max <= p.total * Full
                  /\ (e.percentage + 1) * p.max > p.total * Full

\* A result that reached the queue of a consumer is stored or refused by it, unless
\* the consumer is disconnected first: no event that cannot be read or stored, and
\* no repetition of one, holds up the events behind it.
DeliveredIsStored ==
    \A k \in Consumers, n \in 1 .. MaxResults :
        (\E i \in DOMAIN queue[k] : queue[k][i].id = n)
            ~> (k \notin up \/ n \in refused[k] \/ \E i \in DOMAIN events : events[i].id = n)
=============================================================================
