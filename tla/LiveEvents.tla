----------------------------- MODULE LiveEvents -----------------------------
(***************************************************************************)
(* The live events of the site: the daemon (websocket/daemon.js), the      *)
(* poster of the bridge (event_poster_ws.py), the receiver of a page       *)
(* (resources/event.js) by websocket or by long poll, and the page of a    *)
(* submission that asks for its test cases again on every event            *)
(* (templates/submission/status.html).                                     *)
(***************************************************************************)
EXTENDS Integers, Sequences, SequencesExt

CONSTANTS
    Clients,        \* pages
    Sub, Other,     \* the channel of the submission, and any other channel
    MaxQueue,       \* max_queue of the daemon
    MaxRow,         \* bound: times the row of the submission is written
    MaxPosts,       \* bound: messages posted
    MaxFaults       \* bound: lost answers, connections and requests, restarts

ASSUME QueueAssumption == MaxQueue \in Nat \ {0}

VARIABLES
    messages,       \* the backlog of the daemon
    message_id,     \* the number of the last message
    followers,      \* the websockets with a filter
    pollers,        \* the long polls that wait
    log,            \* history: all messages ever posted
    row,            \* the version of the submission and its test cases
    posting,        \* does the bridge still owe the event of this version?
    at,             \* where the receiver of a page is
    last_msg,       \* the last message it has seen
    heard,          \* history: how many messages it was handed
    wire,           \* what the daemon has sent to it and it has not read
    shown,          \* the versions of the submission and the test cases on the page
    update,         \* "free", or the state of the request for test cases
    fetched,        \* the versions that request read
    request,        \* is another one to follow it?
    faults

daemon == <<messages, message_id, followers, pollers, log>>
bridge == <<row, posting>>
receiver == <<at, last_msg, heard, wire>>
page == <<shown, update, fetched, request>>
vars == <<daemon, bridge, receiver, page, faults>>

Filter(c) == {Sub}

Wants(c, m) == m.channel \in Filter(c)

\* Variants with a bug: off by one, either way.
AtOrAfter(n, m) == m.id >= n

AfterTheNext(n, m) == m.id > n + 1

\* Is m newer than what has been seen?
After(n, m) == m.id > n

Nothing == [submission |-> 0, cases |-> 0]

Init ==
    /\ messages = <<>> /\ message_id = 1 /\ followers = {} /\ pollers = {}
    /\ log = <<>> /\ row = 0 /\ posting = FALSE /\ faults = 0
    /\ at = [c \in Clients |-> "away"]
    /\ last_msg = [c \in Clients |-> 0]
    /\ heard = [c \in Clients |-> 0]
    /\ wire = [c \in Clients |-> <<>>]
    /\ shown = [c \in Clients |-> Nothing]
    /\ update = [c \in Clients |-> "free"]
    /\ fetched = [c \in Clients |-> Nothing]
    /\ request = [c \in Clients |-> FALSE]

Fault == faults < MaxFaults /\ faults' = faults + 1

-----------------------------------------------------------------------------
(* The daemon. *)

\* push, then shift when the queue is longer than max_queue
Pushed(m) ==
    LET q == Append(messages, m)
    IN  IF Len(q) > MaxQueue THEN Tail(q) ELSE q

\* messages.post: the backlog, then every follower, then every poller
Posted(ch, r) ==
    LET m == [id |-> message_id + 1, channel |-> ch, row |-> r]
        Told == {c \in followers \cup pollers : Wants(c, m)}
    IN  /\ Len(log) < MaxPosts
        /\ message_id' = m.id
        /\ messages' = Pushed(m)
        /\ log' = Append(log, m)
        /\ wire' = [c \in Clients |->
                      IF c \in Told THEN Append(wire[c], m) ELSE wire[c]]
        /\ pollers' = pollers \ Told
        /\ UNCHANGED <<followers, at, last_msg, heard>>

\* messages.catch_up: the part of the backlog a new follower has not seen; the
\* walk keeps of the first n messages those it hands over.
CatchUp(c) ==
    LET Missed(m) == After(last_msg[c], m) /\ Wants(c, m)
        walk[n \in 0 .. Len(messages)] ==
            IF n = 0 THEN <<>>
            ELSE IF Missed(messages[n]) THEN Append(walk[n - 1], messages[n])
            ELSE walk[n - 1]
    IN  walk[Len(messages)]

Restart ==
    /\ Fault
    /\ messages' = <<>> /\ followers' = {} /\ pollers' = {}
    /\ message_id' = message_id + 1         \* Date.now()
    /\ UNCHANGED <<log, bridge, receiver, page>>

-----------------------------------------------------------------------------
(* The bridge: it writes the row, then posts the event. *)

WriteRow ==
    /\ ~posting /\ row < MaxRow
    /\ row' = row + 1 /\ posting' = TRUE
    /\ UNCHANGED <<daemon, receiver, page, faults>>

PostEvent == posting /\ Posted(Sub, row) /\ posting' = FALSE /\ UNCHANGED <<row, page, faults>>

\* The answer is lost: the poster connects again and posts it once more.
PostAnswerLost == posting /\ Fault /\ Posted(Sub, row) /\ UNCHANGED <<bridge, page>>

\* All tries fail: post returns 0, and nobody hears of this version.
PostFails ==
    /\ posting /\ Fault /\ posting' = FALSE
    /\ UNCHANGED <<daemon, row, receiver, page>>

PostOther == Posted(Other, 0) /\ UNCHANGED <<bridge, page, faults>>

-----------------------------------------------------------------------------
(* The view of the page: the submission, event.last(), then the test cases. *)

\* get_object. A version but the first may be graded, and the page then has no receiver.
Load(c) ==
    /\ at[c] = "away"
    /\ shown' = [shown EXCEPT ![c].submission = row]
    /\ \E is_graded \in {FALSE, row > 0} :
          at' = [at EXCEPT ![c] = IF is_graded THEN "reading" ELSE "loaded"]
    /\ UNCHANGED <<daemon, bridge, last_msg, heard, wire, update, fetched, request, faults>>

\* event.last(), which is 0 if the daemon cannot be reached.
TakeLast(c) ==
    /\ at[c] = "loaded"
    /\ \/ last_msg' = [last_msg EXCEPT ![c] = message_id] /\ UNCHANGED faults
       \/ Fault /\ UNCHANGED last_msg
    /\ at' = [at EXCEPT ![c] = "reading"]
    /\ UNCHANGED <<daemon, bridge, heard, wire, page>>

\* The page is rendered, with a receiver if it has a number to start from.
ReadCases(c) ==
    /\ at[c] = "reading"
    /\ shown' = [shown EXCEPT ![c].cases = row]
    /\ at' = [at EXCEPT ![c] = IF last_msg[c] = 0 THEN "static" ELSE "opening"]
    /\ UNCHANGED <<daemon, bridge, last_msg, heard, wire, update, fetched, request, faults>>

-----------------------------------------------------------------------------
(* The receiver. *)

\* onopen sends start-msg and set-filter; the daemon follows and catches up.
WsOpen(c) ==
    /\ at[c] = "opening"
    /\ at' = [at EXCEPT ![c] = "websocket"]
    /\ followers' = followers \cup {c}
    /\ wire' = [wire EXCEPT ![c] = @ \o CatchUp(c)]
    /\ UNCHANGED <<messages, message_id, pollers, log, bridge, last_msg, heard, page, faults>>

\* Not open within two seconds: the receiver polls from now on.
WsTimeout(c) ==
    /\ at[c] = "opening" /\ Fault
    /\ at' = [at EXCEPT ![c] = "poll"]
    /\ UNCHANGED <<daemon, bridge, last_msg, heard, wire, page>>

\* An open websocket breaks: nothing opens it again.
WsClosed(c) ==
    /\ at[c] = "websocket"
    /\ \/ Fault
       \/ c \notin followers /\ wire[c] = <<>> /\ UNCHANGED faults
    /\ at' = [at EXCEPT ![c] = "gone"]
    /\ wire' = [wire EXCEPT ![c] = <<>>]
    /\ followers' = followers \ {c}
    /\ UNCHANGED <<messages, message_id, pollers, log, bridge, last_msg, heard, page>>

\* A request: the first message it has not seen is the answer, or it waits.
Poll(c) ==
    /\ at[c] = "poll"
    /\ at' = [at EXCEPT ![c] = "polling"]
    /\ IF CatchUp(c) # <<>>
         THEN wire' = [wire EXCEPT ![c] = <<CatchUp(c)[1]>>] /\ UNCHANGED pollers
         ELSE pollers' = pollers \cup {c} /\ UNCHANGED wire
    /\ UNCHANGED <<messages, message_id, followers, log, bridge, last_msg, heard, page, faults>>

\* 504 after a minute, or the connection breaks: another request.
PollEnds(c) ==
    /\ at[c] = "polling"
    /\ \/ Fault
       \/ wire[c] = <<>> /\ UNCHANGED faults
    /\ at' = [at EXCEPT ![c] = "poll"]
    /\ wire' = [wire EXCEPT ![c] = <<>>]
    /\ pollers' = pollers \ {c}
    /\ UNCHANGED <<messages, message_id, followers, log, bridge, last_msg, heard, page>>

\* Variant with a bug: what comes during a request is ignored.
UpdateUnlessBlocked(c) ==
    /\ update' = [update EXCEPT ![c] = IF @ = "free" THEN "asked" ELSE @]
    /\ request' = [request EXCEPT ![c] = FALSE]

\* update() of the page: ask now, or remember to ask
Update(c) ==
    IF update[c] = "free"
      THEN update' = [update EXCEPT ![c] = "asked"] /\ request' = [request EXCEPT ![c] = FALSE]
      ELSE request' = [request EXCEPT ![c] = TRUE] /\ UNCHANGED update

\* onmessage, by websocket or as the answer of a poll, which polls again
Receive(c) ==
    /\ wire[c] # <<>>
    /\ last_msg' = [last_msg EXCEPT ![c] = wire[c][1].id]
    /\ heard' = [heard EXCEPT ![c] = @ + 1]
    /\ wire' = [wire EXCEPT ![c] = Tail(@)]
    /\ at' = [at EXCEPT ![c] = IF @ = "polling" THEN "poll" ELSE @]
    /\ Update(c)
    /\ UNCHANGED <<daemon, bridge, shown, fetched, faults>>

-----------------------------------------------------------------------------
(* The request of a page for its test cases: the same view, without a receiver. *)

Fetch(c) ==
    /\ update[c] = "asked"
    /\ update' = [update EXCEPT ![c] = "loaded"]
    /\ fetched' = [fetched EXCEPT ![c].submission = row]
    /\ UNCHANGED <<daemon, bridge, receiver, shown, request, faults>>

FetchCases(c) ==
    /\ update[c] = "loaded"
    /\ update' = [update EXCEPT ![c] = "read"]
    /\ fetched' = [fetched EXCEPT ![c].cases = row]
    /\ UNCHANGED <<daemon, bridge, receiver, shown, request, faults>>

Done(c) ==
    /\ update[c] = "read"
    /\ update' = [update EXCEPT ![c] = "cooling"]
    /\ shown' = [shown EXCEPT ![c] = fetched[c]]
    /\ UNCHANGED <<daemon, bridge, receiver, fetched, request, faults>>

\* After half a second the page is free, and asks again if it was told to.
Cool(c) ==
    /\ update[c] = "cooling"
    /\ update' = [update EXCEPT ![c] = IF request[c] THEN "asked" ELSE "free"]
    /\ request' = [request EXCEPT ![c] = FALSE]
    /\ UNCHANGED <<daemon, bridge, receiver, shown, fetched, faults>>

\* A failed request leaves the page blocked for good.
FetchFails(c) ==
    /\ update[c] \in {"asked", "loaded", "read"} /\ Fault
    /\ update' = [update EXCEPT ![c] = "stuck"]
    /\ UNCHANGED <<daemon, bridge, receiver, shown, fetched, request>>

-----------------------------------------------------------------------------
Steps(c) ==
    \/ Load(c) \/ TakeLast(c) \/ ReadCases(c) \/ WsOpen(c) \/ WsTimeout(c) \/ WsClosed(c)
    \/ Poll(c) \/ PollEnds(c) \/ Receive(c)
    \/ Fetch(c) \/ FetchCases(c) \/ Done(c) \/ Cool(c) \/ FetchFails(c)

Next ==
    \/ Restart \/ WriteRow \/ PostEvent \/ PostAnswerLost \/ PostFails \/ PostOther
    \/ \E c \in Clients : Steps(c)

\* The browser and its timers go on, it notices a connection that is gone, and
\* the thread of the bridge goes on; no fault, no further event and no timeout
\* of a waiting poll has to happen.
Fairness ==
    /\ WF_vars(PostEvent)
    /\ \A c \in Clients :
          /\ WF_vars(ReadCases(c)) /\ WF_vars(WsOpen(c)) /\ WF_vars(Poll(c))
          /\ WF_vars(c \notin pollers /\ PollEnds(c))
          /\ WF_vars(c \notin followers /\ WsClosed(c))
          /\ WF_vars(Receive(c))
          /\ WF_vars(Fetch(c) \/ FetchCases(c) \/ Done(c) \/ Cool(c))

Spec == Init /\ [][Next]_vars /\ Fairness

-----------------------------------------------------------------------------
(* Properties. *)

\* What the daemon has forgotten ends just before its backlog.
Floor == IF messages = <<>> THEN message_id ELSE messages[1].id - 1

Promise == INSTANCE EventLog WITH
    Clients <- Clients, Channels <- {Sub, Other}, Filter <- Filter,
    MaxQueue <- MaxQueue, log <- log, floor <- Floor, cursor <- last_msg,
    heard <- heard

\* The daemon, its two transports and the receiver implement the log: a page
\* is handed the messages of its channels in order, each once, and misses only
\* what left the bounded backlog or was lost with a restart.
ImplementsEventLog == Promise!Spec

\* No lost wake-up: a poll that waits, or an open websocket with nothing under
\* way, has seen every message of its channels the daemon still has.
NoLostWakeUp ==
    \A c \in followers \cup pollers :
        \A i \in DOMAIN messages :
            Wants(c, messages[i]) /\ messages[i].id > last_msg[c]
            => messages[i] \in Range(wire[c])

EventsOf(r) == {m \in Range(log) : m.channel = Sub /\ m.row = r}

\* The page has a receiver that has yet to be handed an event of version r.
Awaits(c, r) == last_msg[c] # 0 /\ \E m \in EventsOf(r) : m.id > last_msg[c]

\* Its test cases were read after event.last().
Rendered(c) == at[c] \notin {"away", "loaded", "reading", "static"}

\* Its websocket broke, a request failed, or every event of version r is forgotten.
CutOff(c, r) ==
    \/ at[c] = "gone" \/ update[c] = "stuck"
    \/ \A m \in EventsOf(r) : m \notin Range(messages) \cup Range(wire[c])

\* A page with a receiver comes to show every version of the submission whose
\* event was posted after the event.last() of its view, be that before its
\* subscription or during a request, and every announced version of the test
\* cases, which the view reads after event.last(). Not so a version of the
\* submission announced between the view's loading of it and event.last(): it
\* waits for the next event.
PageCatchesUp ==
    \A c \in Clients, r \in 1 .. MaxRow :
        /\ Awaits(c, r) ~> (shown[c].submission >= r \/ CutOff(c, r))
        /\ (Rendered(c) /\ EventsOf(r) # {}) ~> (shown[c].cases >= r \/ CutOff(c, r))
=============================================================================
