------------------------------ MODULE EventLog ------------------------------
(***************************************************************************)
(* What the live events promise a page: messages are numbered in one log,  *)
(* a page is handed the messages of its channels in the order of the log,  *)
(* each at most once, and misses only those the daemon has forgotten.      *)
(***************************************************************************)
EXTENDS Integers, Sequences

CONSTANTS Clients, Channels, Filter(_), MaxQueue

VARIABLES
    log,        \* every message ever posted, oldest first
    floor,      \* messages numbered up to this one are forgotten
    cursor,     \* per page, the last message it has seen; 0: none
    heard       \* and how many messages it was handed

vars == <<log, floor, cursor, heard>>

LastId == IF log = <<>> THEN 0 ELSE log[Len(log)].id

Kept(l, f) == {i \in DOMAIN l : l[i].id > f}

Wanted(c) == {i \in DOMAIN log : log[i].id > cursor[c] /\ log[i].channel \in Filter(c)}

Init == log = <<>> /\ floor \in Nat /\ cursor = [c \in Clients |-> 0] /\ heard = cursor

\* A message is numbered above all others; forgetting starts with the oldest
\* and only once MaxQueue younger ones are kept.
Post ==
    /\ Len(log') = Len(log) + 1
    /\ SubSeq(log', 1, Len(log)) = log
    /\ log'[Len(log')].id > LastId
    /\ log'[Len(log')].channel \in Channels
    /\ floor' >= floor
    /\ \/ Kept(log', floor') = Kept(log, floor) \cup {Len(log')}
       \/ Len(log') - MaxQueue + 1 \in Kept(log', floor')
    /\ UNCHANGED <<cursor, heard>>

\* The daemon is restarted and remembers nothing.
Restart == floor' >= LastId /\ floor' >= floor /\ UNCHANGED <<log, cursor, heard>>

\* A page is rendered: it has seen what was posted before.
Open(c) ==
    /\ cursor[c] = 0
    /\ \E n \in LastId .. (IF floor > LastId THEN floor ELSE LastId) :
          cursor' = [cursor EXCEPT ![c] = n]
    /\ UNCHANGED <<log, floor, heard>>

\* The next message of its channels, but for those forgotten meanwhile.
Hand(c) ==
    /\ cursor[c] # 0
    /\ \E i \in Wanted(c) :
          /\ \A j \in Wanted(c) : j < i => log[j].id <= floor
          /\ cursor' = [cursor EXCEPT ![c] = log[i].id]
    /\ heard' = [heard EXCEPT ![c] = @ + 1]
    /\ UNCHANGED <<log, floor>>

Next == Post \/ Restart \/ \E c \in Clients : Open(c) \/ Hand(c)

Spec == Init /\ [][Next]_vars
=============================================================================
