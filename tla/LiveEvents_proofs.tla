-------------------------- MODULE LiveEvents_proofs --------------------------
(***************************************************************************)
(* Proofs about LiveEvents: the daemon, its two transports and the         *)
(* receiver implement EventLog, and no page waits while the daemon has a   *)
(* message for it. The invariant says where every message of the log is    *)
(* that a page wants and has not seen: forgotten, on the wire of the page, *)
(* or, of a page the daemon does not know, in the backlog, which is the    *)
(* end of the log. The backlog is walked by a recursive function; what a   *)
(* walk returns is proved by the least number of steps at which it would   *)
(* go wrong.                                                               *)
(***************************************************************************)
EXTENDS LiveEvents, WellFoundedInduction, TLAPS

-----------------------------------------------------------------------------
(* The walk over the backlog.                                              *)

\* A set of numbers has a least one: by this the facts about a walk are proved,
\* from its first step on.
LEMMA LeastOf ==
  ASSUME NEW T \in SUBSET Nat, T # {}
  PROVE  \E x \in T : \A y \in T : x <= y
<1>1. PICK x \in T : \A y \in T : <<y, x>> \notin OpToRel(<, Nat)
  BY NatLessThanWellFounded, WFMin
<1>2. \A y \in T : ~(y < x)
  BY <1>1 DEF OpToRel
<1>3. QED
  BY <1>2

\* w walks over the first k elements of q and keeps those in M.
Walks(w, q, M, k) ==
  w = [n \in 0 .. k |->
         IF n = 0 THEN <<>>
         ELSE IF q[n] \in M THEN Append(w[n - 1], q[n]) ELSE w[n - 1]]

\* What a walk holds after n elements.
LEMMA WalkIs ==
  ASSUME NEW w, NEW q, NEW M, NEW k, Walks(w, q, M, k), NEW n \in 0 .. k
  PROVE  w[n] = IF n = 0 THEN <<>>
                ELSE IF q[n] \in M THEN Append(w[n - 1], q[n]) ELSE w[n - 1]
BY Zenon DEF Walks

\* There is a walk over any sequence.
LEMMA WalkExists ==
  ASSUME NEW q, NEW M, NEW L \in Nat
  PROVE  \E w : Walks(w, q, M, L)
<1> DEFINE Bad == {k \in Nat : ~ \E w : Walks(w, q, M, k)}
<1>1. SUFFICES ASSUME Bad # {} PROVE FALSE
  OBVIOUS
<1>2. PICK k \in Bad : \A j \in Bad : k <= j
  BY <1>1, LeastOf
<1>3. CASE k = 0
  <2> DEFINE w == [n \in 0 .. 0 |-> <<>>]
  <2>1. Walks(w, q, M, 0)
    BY DEF Walks
  <2>2. QED
    BY <1>2, <1>3, <2>1
<1>4. CASE k # 0
  <2>1. k \in Nat /\ k - 1 \in Nat /\ k - 1 \notin Bad
    BY <1>2, <1>4
  <2>2. PICK w : Walks(w, q, M, k - 1)
    BY <2>1
  <2> HIDE DEF Bad
  <2> DEFINE v == [n \in 0 .. k |->
                     IF n = 0 THEN <<>>
                     ELSE IF q[n] \in M THEN Append(w[n - 1], q[n]) ELSE w[n - 1]]
  <2>3. \A n \in 0 .. k - 1 : v[n] = w[n]
    <3> TAKE n \in 0 .. k - 1
    <3>1. n \in 0 .. k
      BY <2>1
    <3>2. w[n] = IF n = 0 THEN <<>>
                 ELSE IF q[n] \in M THEN Append(w[n - 1], q[n]) ELSE w[n - 1]
      BY <2>2, WalkIs
    <3>3. QED
      BY <3>1, <3>2
  <2>4. \A n \in 0 .. k : n # 0 => n - 1 \in 0 .. k - 1
    BY <2>1
  <2>5. Walks(v, q, M, k)
    BY <2>3, <2>4 DEF Walks
  <2>6. QED
    BY <1>2, <2>5 DEF Bad
<1>5. QED
  BY <1>3, <1>4

\* r is made of the elements of q up to k that are in M, in their order.
Selects(r, q, M, k) ==
  /\ \A i \in DOMAIN r : \E n \in 1 .. k : r[i] = q[n] /\ q[n] \in M
  /\ \A n \in 1 .. k : q[n] \in M => \E i \in DOMAIN r : r[i] = q[n]
  /\ \A i, j \in DOMAIN r : i < j =>
       \E m, n \in 1 .. k : m < n /\ r[i] = q[m] /\ r[j] = q[n]

\* A walk selects.
LEMMA WalkSelects ==
  ASSUME NEW S, NEW q \in Seq(S), NEW M, NEW w, Walks(w, q, M, Len(q))
  PROVE  w[Len(q)] \in Seq(S) /\ Selects(w[Len(q)], q, M, Len(q))
<1> DEFINE Good(k) == w[k] \in Seq(S) /\ Selects(w[k], q, M, k)
           Bad == {k \in Nat : k <= Len(q) /\ ~Good(k)}
<1>1. Len(q) \in Nat
  OBVIOUS
<1>2. SUFFICES ASSUME Bad # {} PROVE FALSE
  BY <1>1
<1>3. PICK k \in Bad : \A j \in Bad : k <= j
  BY <1>2, LeastOf
<1>4. CASE k = 0
  <2>1. 0 \in 0 .. Len(q) /\ w[0] = <<>>
    BY <1>1, WalkIs
  <2>2. w[0] \in Seq(S) /\ DOMAIN w[0] = {} /\ 1 .. 0 = {}
    BY <2>1
  <2>3. Good(0)
    BY <2>2 DEF Selects
  <2>4. QED
    BY <1>3, <1>4, <2>3
<1>5. CASE k # 0
  <2>1. k \in Nat /\ k - 1 \in Nat /\ k - 1 \notin Bad /\ k <= Len(q) /\ k \in 1 .. Len(q)
    BY <1>1, <1>3, <1>5
  <2>2. Good(k - 1)
    BY <1>1, <2>1
  <2> DEFINE r == w[k - 1]
  <2>3. w[k] = IF q[k] \in M THEN Append(r, q[k]) ELSE r
    <3>1. k \in 0 .. Len(q) /\ k # 0
      BY <1>1, <1>5, <2>1
    <3>2. QED
      BY <3>1, WalkIs
  <2>4. r \in Seq(S) /\ Selects(r, q, M, k - 1) /\ q[k] \in S
    BY <2>1, <2>2
  <2>5. ~Good(k)
    BY <1>3
  <2> HIDE DEF Bad, r
  <2>6. CASE q[k] \notin M
    <3>1. w[k] = r
      BY <2>3, <2>6
    <3>2. \A n \in 1 .. k : n # k => n \in 1 .. k - 1
      BY <2>1
    <3>3. \A n \in 1 .. k - 1 : n \in 1 .. k
      BY <2>1
    <3>4. Selects(r, q, M, k)
      BY <2>4, <2>6, <3>2, <3>3 DEF Selects
    <3>5. QED
      BY <2>4, <2>5, <3>1, <3>4
  <2>7. CASE q[k] \in M
    <3>1. w[k] = Append(r, q[k])
      BY <2>3, <2>7
    <3> DEFINE s == Append(r, q[k])
    <3>2. /\ s \in Seq(S) /\ DOMAIN s = DOMAIN r \cup {Len(r) + 1} /\ Len(r) \in Nat
          /\ \A i \in DOMAIN r : s[i] = r[i] /\ i \in 1 .. Len(r)
          /\ s[Len(r) + 1] = q[k] /\ Len(r) + 1 \notin DOMAIN r
      BY <2>4
    <3> HIDE DEF s
    <3>3. \A n \in 1 .. k : n # k => n \in 1 .. k - 1 /\ n < k
      BY <2>1
    <3>4. (\A n \in 1 .. k - 1 : n \in 1 .. k /\ n < k) /\ k \in 1 .. k
      BY <2>1
    <3>5. \A i \in DOMAIN s : \E n \in 1 .. k : s[i] = q[n] /\ q[n] \in M
      BY <2>4, <2>7, <3>2, <3>4 DEF Selects
    <3>6. \A n \in 1 .. k : q[n] \in M => \E i \in DOMAIN s : s[i] = q[n]
      BY <2>4, <3>2, <3>3 DEF Selects
    <3>7. ASSUME NEW i \in DOMAIN s, NEW j \in DOMAIN s, i < j
          PROVE  \E m, n \in 1 .. k : m < n /\ s[i] = q[m] /\ s[j] = q[n]
      <4>1. i \in DOMAIN r
        BY <3>2, <3>7
      <4>2. CASE j \in DOMAIN r
        <5>1. PICK m, n \in 1 .. k - 1 : m < n /\ r[i] = q[m] /\ r[j] = q[n]
          BY <2>4, <3>7, <4>1, <4>2 DEF Selects
        <5>2. QED
          BY <3>2, <3>4, <4>1, <4>2, <5>1
      <4>3. CASE j = Len(r) + 1
        <5>1. PICK m \in 1 .. k - 1 : r[i] = q[m]
          BY <2>4, <4>1 DEF Selects
        <5>2. QED
          BY <3>2, <3>4, <4>1, <4>3, <5>1
      <4>4. QED
        BY <3>2, <4>2, <4>3
    <3>8. Selects(s, q, M, k)
      BY <3>5, <3>6, <3>7 DEF Selects
    <3>9. QED
      BY <2>5, <3>1, <3>2, <3>8 DEF s
  <2>8. QED
    BY <2>6, <2>7
<1>6. QED
  BY <1>4, <1>5

-----------------------------------------------------------------------------
(* The invariant.                                                          *)

\* A message.
Msg == [id : Nat, channel : {Sub, Other}, row : Nat]

\* Where a receiver can be.
Places ==
  {"away", "loaded", "reading", "static", "opening", "websocket", "poll", "polling", "gone"}

\* The types.
TypeOK ==
  /\ messages \in Seq(Msg) /\ log \in Seq(Msg)
  /\ message_id \in Nat \ {0} /\ row \in Nat
  /\ followers \subseteq Clients /\ pollers \subseteq Clients
  /\ at \in [Clients -> Places]
  /\ last_msg \in [Clients -> Nat] /\ heard \in [Clients -> Nat]
  /\ wire \in [Clients -> Seq(Msg)]

\* The log is numbered upwards, and the backlog is the end of it.
LogOK ==
  /\ \A i, j \in DOMAIN log : i < j => log[i].id < log[j].id
  /\ \A i \in DOMAIN log : 0 < log[i].id /\ log[i].id <= message_id
  /\ Len(messages) <= Len(log) /\ Len(messages) <= MaxQueue
  /\ \A i \in DOMAIN messages : messages[i] = log[Len(log) - Len(messages) + i]
  /\ messages # <<>> => messages[Len(messages)].id = message_id

\* What the place of a receiver says about the daemon and the wire.
PlaceOK(c) ==
  /\ at[c] \in {"away", "loaded", "static"} => last_msg[c] = 0
  /\ at[c] \in {"opening", "websocket", "poll", "polling", "gone"} => last_msg[c] # 0
  /\ last_msg[c] <= message_id
  /\ c \in followers => at[c] = "websocket"
  /\ c \in pollers => at[c] = "polling" /\ wire[c] = <<>>
  /\ at[c] \notin {"websocket", "polling"} => wire[c] = <<>>
  /\ at[c] = "polling" => Len(wire[c]) <= 1

\* A message that is forgotten or on its way to the page.
Covered(c, m) == m.id <= Floor \/ m \in Range(wire[c])

\* The wire holds messages of the log that the page wants and has not seen, in
\* order, and nothing is left out before any of them but what is forgotten.
WireOK(c) ==
  /\ \A n \in DOMAIN wire[c] :
       /\ wire[c][n] \in Range(log) /\ Wants(c, wire[c][n]) /\ After(last_msg[c], wire[c][n])
       /\ \A i \in DOMAIN log :
            Wants(c, log[i]) /\ After(last_msg[c], log[i]) /\ log[i].id < wire[c][n].id
            => Covered(c, log[i])
  /\ \A m, n \in DOMAIN wire[c] : m < n => wire[c][m].id < wire[c][n].id

\* A page that the daemon knows misses nothing at all.
KnownOK(c) ==
  c \in followers \cup pollers =>
    \A i \in DOMAIN log :
      Wants(c, log[i]) /\ After(last_msg[c], log[i]) => Covered(c, log[i])

Inv == TypeOK /\ LogOK /\ \A c \in Clients : PlaceOK(c) /\ WireOK(c) /\ KnownOK(c)

-----------------------------------------------------------------------------
(* The backlog.                                                            *)

\* What is above the floor is the backlog.
FloorOK ==
  /\ Floor \in Nat /\ Floor <= message_id
  /\ messages = <<>> => Floor = message_id
  /\ \A i \in DOMAIN log : log[i].id > Floor <=> i > Len(log) - Len(messages)

\* The floor is at or below the last number, and what lies above it is the
\* backlog.
LEMMA FloorIs == TypeOK /\ LogOK => FloorOK
<1> SUFFICES ASSUME TypeOK, LogOK PROVE FloorOK
  OBVIOUS
<1>1. /\ Len(messages) \in Nat /\ Len(log) \in Nat /\ message_id \in Nat
      /\ DOMAIN messages = 1 .. Len(messages) /\ DOMAIN log = 1 .. Len(log)
      /\ Len(messages) <= Len(log)
      /\ \A i \in DOMAIN log : log[i].id \in Nat
  <2>1. /\ messages \in Seq(Msg) /\ log \in Seq(Msg)
        /\ message_id \in Nat /\ Len(messages) <= Len(log)
    BY DEF TypeOK, LogOK
  <2>2. \A i \in DOMAIN log : log[i] \in Msg
    BY <2>1
  <2>3. \A m \in Msg : m.id \in Nat
    BY DEF Msg
  <2>4. QED
    BY <2>1, <2>2, <2>3
<1>2. CASE messages = <<>>
  <2>1. Floor = message_id /\ Len(messages) = 0
    BY <1>2 DEF Floor
  <2>2. QED
    BY <1>1, <2>1 DEF FloorOK, LogOK
<1>3. CASE messages # <<>>
  <2> DEFINE first == Len(log) - Len(messages) + 1
  <2>1. Len(messages) > 0 /\ 1 \in DOMAIN messages /\ first \in DOMAIN log
    BY <1>1, <1>3 DEF TypeOK
  <2>2. Floor = log[first].id - 1 /\ log[first].id \in Nat
    BY <1>1, <1>3, <2>1 DEF Floor, LogOK
  <2>3. log[first].id > 0 /\ log[first].id <= message_id
    BY <2>1 DEF LogOK
  <2>4. \A i \in DOMAIN log : /\ i < first => log[i].id < log[first].id
                             /\ i > first => log[i].id > log[first].id
    BY <2>1 DEF LogOK
  <2> HIDE DEF first
  <2>5. ASSUME NEW i \in DOMAIN log PROVE log[i].id > Floor <=> i >= first
    <3>1. i \in Nat /\ first \in Nat /\ log[i].id \in Nat
      BY <1>1, <2>1
    <3>2. CASE i < first
      <4>1. log[i].id < log[first].id
        BY <2>1, <3>1, <3>2 DEF LogOK
      <4>2. ~(log[i].id > Floor) /\ ~(i >= first)
        BY <2>2, <3>1, <3>2, <4>1
      <4>3. QED
        BY <4>2
    <3>3. CASE i = first
      BY <2>2, <3>1, <3>3
    <3>4. CASE i > first
      BY <2>2, <2>4, <3>1, <3>4
    <3>5. QED
      BY <3>1, <3>2, <3>3, <3>4
  <2>6. Floor \in Nat /\ Floor <= message_id
    BY <1>1, <2>2, <2>3
  <2>7. \A i \in DOMAIN log : i >= first <=> i > Len(log) - Len(messages)
    BY <1>1 DEF first
  <2>8. QED
    BY <1>3, <2>5, <2>6, <2>7 DEF FloorOK
<1>4. QED
  BY <1>2, <1>3

\* The same after a step.
LEMMA FloorIsNext == TypeOK' /\ LogOK' => FloorOK'
BY FloorIs, PTL

\* The backlog holds the messages of the log that are not forgotten.
LEMMA BacklogIs ==
  ASSUME TypeOK, LogOK
  PROVE  \A m : m \in Range(messages) <=> \E i \in DOMAIN log : m = log[i] /\ log[i].id > Floor
<1>1. /\ Len(messages) \in Nat /\ Len(log) \in Nat /\ Len(messages) <= Len(log)
      /\ DOMAIN messages = 1 .. Len(messages) /\ DOMAIN log = 1 .. Len(log)
  BY DEF TypeOK, LogOK
<1>2. \A i \in DOMAIN log : log[i].id > Floor <=> i > Len(log) - Len(messages)
  BY FloorIs DEF FloorOK
<1>3. ASSUME NEW m \in Range(messages) PROVE \E i \in DOMAIN log : m = log[i] /\ log[i].id > Floor
  <2>1. PICK n \in DOMAIN messages : m = messages[n]
    BY DEF Range
  <2>2. /\ m = log[Len(log) - Len(messages) + n]
        /\ Len(log) - Len(messages) + n \in DOMAIN log
        /\ Len(log) - Len(messages) + n > Len(log) - Len(messages)
    BY <1>1, <2>1 DEF LogOK
  <2>3. QED
    BY <1>2, <2>2
<1>4. ASSUME NEW i \in DOMAIN log, log[i].id > Floor PROVE log[i] \in Range(messages)
  <2>1. i > Len(log) - Len(messages)
    BY <1>2, <1>4
  <2>2. i - (Len(log) - Len(messages)) \in DOMAIN messages
        /\ Len(log) - Len(messages) + (i - (Len(log) - Len(messages))) = i
    BY <1>1, <2>1
  <2>3. log[i] = messages[i - (Len(log) - Len(messages))]
    BY <2>2 DEF LogOK
  <2>4. QED
    BY <2>2, <2>3 DEF Range
<1>5. QED
  BY <1>3, <1>4

\* Catching up hands over, in order, what the page wants, has not seen and the
\* daemon has.
LEMMA CatchUpIs ==
  ASSUME TypeOK, LogOK, NEW c \in Clients
  PROVE  /\ CatchUp(c) \in Seq(Msg)
         /\ \A m : m \in Range(CatchUp(c)) <=>
                   m \in Range(messages) /\ Wants(c, m) /\ After(last_msg[c], m)
         /\ \A i, j \in DOMAIN CatchUp(c) : i < j => CatchUp(c)[i].id < CatchUp(c)[j].id
<1> DEFINE Missed(m) == After(last_msg[c], m) /\ Wants(c, m)
           M == {m \in Msg : Missed(m)}
           L == Len(messages)
           walk == CHOOSE w : w = [n \in 0 .. L |->
                     IF n = 0 THEN <<>>
                     ELSE IF Missed(messages[n]) THEN Append(w[n - 1], messages[n])
                     ELSE w[n - 1]]
<1>1. CatchUp(c) = walk[L]
  BY DEF CatchUp
<1>2. messages \in Seq(Msg) /\ L \in Nat /\ DOMAIN messages = 1 .. L
  BY DEF TypeOK
<1>3. \A n \in 1 .. L : messages[n] \in Msg /\ (messages[n] \in M <=> Missed(messages[n]))
  BY <1>2
<1>4. ASSUME NEW w
      PROVE  Walks(w, messages, M, L) <=>
             w = [n \in 0 .. L |->
                    IF n = 0 THEN <<>>
                    ELSE IF Missed(messages[n]) THEN Append(w[n - 1], messages[n])
                    ELSE w[n - 1]]
  <2>1. \A n \in 0 .. L : n # 0 => n \in 1 .. L
    BY <1>2
  <2> HIDE DEF L, M, Missed
  <2>2. [n \in 0 .. L |->
           IF n = 0 THEN <<>>
           ELSE IF Missed(messages[n]) THEN Append(w[n - 1], messages[n]) ELSE w[n - 1]]
        = [n \in 0 .. L |->
             IF n = 0 THEN <<>>
             ELSE IF messages[n] \in M THEN Append(w[n - 1], messages[n]) ELSE w[n - 1]]
    BY <1>3, <2>1
  <2>3. QED
    BY <2>2, Zenon DEF Walks
<1> HIDE DEF L, M, Missed
<1>5. \E w : Walks(w, messages, M, L)
  BY <1>2, WalkExists
<1>6. Walks(walk, messages, M, L)
  BY <1>4, <1>5
<1> HIDE DEF walk
<1>7. walk[L] \in Seq(Msg) /\ Selects(walk[L], messages, M, L)
  BY <1>2, <1>6, WalkSelects DEF L
<1>8. \A i, j \in DOMAIN messages : i < j => messages[i].id < messages[j].id
  <2>1. \A i \in DOMAIN messages : /\ messages[i] = log[Len(log) - L + i]
                                  /\ Len(log) - L + i \in DOMAIN log
    BY <1>2 DEF TypeOK, LogOK, L
  <2>2. \A i, j \in DOMAIN messages : i < j => Len(log) - L + i < Len(log) - L + j
    BY <1>2 DEF TypeOK
  <2>3. QED
    BY <2>1, <2>2 DEF LogOK
<1>9. ASSUME NEW i \in DOMAIN walk[L], NEW j \in DOMAIN walk[L], i < j
      PROVE  walk[L][i].id < walk[L][j].id
  <2>1. PICK m, n \in 1 .. L : m < n /\ walk[L][i] = messages[m] /\ walk[L][j] = messages[n]
    BY <1>7, <1>9 DEF Selects
  <2>2. QED
    BY <1>2, <1>8, <2>1
<1>10. \A m : m \in Range(walk[L]) <=> m \in Range(messages) /\ Missed(m)
  <2>1. ASSUME NEW i \in DOMAIN walk[L]
        PROVE  walk[L][i] \in Range(messages) /\ Missed(walk[L][i])
    <3>1. PICK n \in 1 .. L : walk[L][i] = messages[n] /\ messages[n] \in M
      BY <1>7 DEF Selects
    <3>2. QED
      BY <1>2, <1>3, <3>1 DEF Range
  <2>2. ASSUME NEW n \in 1 .. L, Missed(messages[n])
        PROVE  messages[n] \in Range(walk[L])
    <3>1. PICK i \in DOMAIN walk[L] : walk[L][i] = messages[n]
      BY <1>3, <1>7, <2>2 DEF Selects
    <3>2. QED
      BY <3>1 DEF Range
  <2>3. QED
    BY <1>2, <2>1, <2>2 DEF Range
<1>11. QED
  BY <1>1, <1>7, <1>9, <1>10 DEF Missed

-----------------------------------------------------------------------------
(* Steps that leave the daemon's messages alone.                           *)

PageOK(c) == PlaceOK(c) /\ WireOK(c) /\ KnownOK(c)

\* A step of one receiver has to keep its own part of the invariant only.
LEMMA OwnStep ==
  ASSUME Inv, UNCHANGED <<messages, message_id, log, row>>, NEW c \in Clients,
         TypeOK', PageOK(c)',
         \A d \in Clients \ {c} :
           /\ at'[d] = at[d] /\ last_msg'[d] = last_msg[d] /\ wire'[d] = wire[d]
           /\ d \in followers' <=> d \in followers
           /\ d \in pollers' <=> d \in pollers
  PROVE  Inv'
<1>1. LogOK'
  BY DEF Inv, LogOK
<1>2. Floor' = Floor
  BY DEF Floor
<1>3. ASSUME NEW d \in Clients \ {c} PROVE PageOK(d)'
  <2>1. PlaceOK(d)'
    BY DEF Inv, PlaceOK
  <2>2. WireOK(d)' /\ KnownOK(d)'
    BY <1>2 DEF Inv, WireOK, KnownOK, Covered, Wants, After, Filter
  <2>3. QED
    BY <2>1, <2>2 DEF PageOK
<1>4. QED
  BY <1>1, <1>3 DEF Inv, PageOK

\* A step that the receivers and the daemon do not notice.
LEMMA QuietStep ==
  ASSUME Inv, UNCHANGED <<messages, message_id, log, followers, pollers, receiver>>, row' \in Nat
  PROVE  Inv' /\ UNCHANGED Promise!vars
<1>1. Floor' = Floor
  BY DEF Floor
<1>2. TypeOK' /\ LogOK'
  BY DEF Inv, TypeOK, LogOK, receiver
<1>3. ASSUME NEW c \in Clients PROVE PlaceOK(c)' /\ WireOK(c)' /\ KnownOK(c)'
  BY <1>1 DEF Inv, PlaceOK, WireOK, KnownOK, Covered, Wants, After, Filter, receiver
<1>4. QED
  BY <1>1, <1>2, <1>3 DEF Inv, Promise!vars, receiver

\* The promise does not see a step that moves neither log, backlog nor cursor.
LEMMA Unseen ==
  ASSUME UNCHANGED <<messages, message_id, log, last_msg, heard>>
  PROVE  UNCHANGED Promise!vars
BY DEF Floor, Promise!vars

\* Rendering: the cursor starts where the daemon is.
LEMMA TakeLastStep ==
  ASSUME Inv, NEW c \in Clients, TakeLast(c),
         last_msg' = [last_msg EXCEPT ![c] = message_id]
  PROVE  Inv' /\ Promise!Open(c)
<1>1. /\ at[c] = "loaded" /\ wire[c] = <<>> /\ last_msg[c] = 0
      /\ c \notin followers /\ c \notin pollers
  BY DEF TakeLast, Inv, PlaceOK
<1>2. /\ last_msg' = [last_msg EXCEPT ![c] = message_id]
      /\ at' = [at EXCEPT ![c] = "reading"]
      /\ UNCHANGED <<messages, message_id, followers, pollers, log, row, heard, wire>>
  BY DEF TakeLast, daemon, bridge
<1>3. TypeOK'
  BY <1>2 DEF Inv, TypeOK, Places
<1>4. at'[c] = "reading" /\ last_msg'[c] = message_id /\ message_id \in Nat \ {0} /\ wire'[c] = <<>>
  BY <1>1, <1>2 DEF Inv, TypeOK
<1>5. PageOK(c)'
  <2>1. PlaceOK(c)'
    BY <1>1, <1>2, <1>4 DEF PlaceOK
  <2>2. WireOK(c)' /\ KnownOK(c)'
    BY <1>1, <1>2, <1>4 DEF WireOK, KnownOK
  <2>3. QED
    BY <2>1, <2>2 DEF PageOK
<1>6. Inv'
  BY <1>2, <1>3, <1>5, OwnStep DEF Inv, TypeOK
<1>7. Promise!LastId \in Nat /\ Promise!LastId <= message_id
  <2>1. log \in Seq(Msg) /\ message_id \in Nat /\ \A i \in DOMAIN log : log[i].id <= message_id
    BY DEF Inv, TypeOK, LogOK
  <2>2. CASE log = <<>>
    BY <2>1, <2>2 DEF Promise!LastId
  <2>3. CASE log # <<>>
    <3>1. Len(log) \in DOMAIN log /\ log[Len(log)] \in Msg
      BY <2>1, <2>3
    <3>2. QED
      BY <2>1, <2>3, <3>1 DEF Promise!LastId, Msg
  <2>4. QED
    BY <2>2, <2>3
<1>8. message_id = Promise!LastId \/ message_id = Floor
  <2>1. CASE messages = <<>>
    BY <2>1 DEF Floor
  <2>2. CASE messages # <<>>
    <3>1. messages \in Seq(Msg) /\ log \in Seq(Msg) /\ Len(messages) <= Len(log)
      BY DEF Inv, TypeOK, LogOK
    <3>2. /\ Len(messages) \in DOMAIN messages /\ Len(messages) > 0 /\ log # <<>>
          /\ Len(log) - Len(messages) + Len(messages) = Len(log)
      BY <2>2, <3>1
    <3>3. message_id = log[Len(log)].id
      BY <2>2, <3>2 DEF Inv, LogOK
    <3>4. QED
      BY <3>2, <3>3 DEF Promise!LastId
  <2>3. QED
    BY <2>1, <2>2
<1>9. Floor' = Floor /\ Floor \in Nat /\ Floor <= message_id
  BY <1>2, FloorIs DEF Floor, Inv, FloorOK
<1>10. message_id \in Promise!LastId .. (IF Floor > Promise!LastId THEN Floor ELSE Promise!LastId)
  BY <1>4, <1>7, <1>8, <1>9
<1>11. QED
  BY <1>1, <1>2, <1>6, <1>9, <1>10 DEF Promise!Open

\* A receiver that is at none of its connections: nothing is on its wire, and the
\* daemon does not know it.
LEMMA LeaveStep ==
  ASSUME Inv, NEW c \in Clients,
         NEW p \in {"loaded", "reading", "static", "opening", "poll", "gone"},
         UNCHANGED <<messages, message_id, log, row, last_msg, heard>>,
         p \in {"loaded", "static"} => last_msg[c] = 0,
         p \in {"opening", "poll", "gone"} => last_msg[c] # 0,
         at' = [at EXCEPT ![c] = p], wire' = [wire EXCEPT ![c] = <<>>],
         followers' = followers \ {c}, pollers' = pollers \ {c}
  PROVE  Inv' /\ UNCHANGED Promise!vars
<1>1. TypeOK'
  BY DEF Inv, TypeOK, Places
<1>2. at'[c] = p /\ wire'[c] = <<>> /\ last_msg'[c] = last_msg[c] /\ last_msg'[c] <= message_id'
  BY DEF Inv, TypeOK, PlaceOK
<1>3. PageOK(c)'
  BY <1>2 DEF PageOK, PlaceOK, WireOK, KnownOK
<1>4. Inv'
  BY <1>1, <1>3, OwnStep DEF Inv, TypeOK
<1>5. QED
  BY <1>4, Unseen

\* The steps of the view but a successful event.last(), giving up the websocket, losing it
\* and ending a poll leave a receiver at none of its connections.
LEMMA LeaveSteps ==
  ASSUME Inv, NEW c \in Clients,
         \/ Load(c) \/ (TakeLast(c) /\ UNCHANGED last_msg) \/ ReadCases(c)
         \/ WsTimeout(c) \/ WsClosed(c) \/ PollEnds(c)
  PROVE  Inv' /\ UNCHANGED Promise!vars
<1>1. PlaceOK(c) /\ wire \in [Clients -> Seq(Msg)]
  BY DEF Inv, TypeOK
<1>2. UNCHANGED <<messages, message_id, log, row, last_msg, heard>>
  BY DEF Load, TakeLast, ReadCases, WsTimeout, WsClosed, PollEnds, daemon, bridge
<1>3. CASE Load(c) \/ (TakeLast(c) /\ UNCHANGED last_msg) \/ ReadCases(c) \/ WsTimeout(c)
  <2>1. /\ at[c] \in {"away", "loaded", "reading", "opening"}
        /\ UNCHANGED <<wire, followers, pollers>>
    BY <1>3 DEF Load, TakeLast, ReadCases, WsTimeout, daemon
  <2>2. PICK p \in {"loaded", "reading", "static", "opening", "poll"} :
          /\ at' = [at EXCEPT ![c] = p]
          /\ p \in {"loaded", "static"} => last_msg[c] = 0
          /\ p \in {"opening", "poll", "gone"} => last_msg[c] # 0
    <3>1. CASE Load(c)
      BY <1>1, <3>1 DEF Load, PlaceOK
    <3>2. CASE TakeLast(c) /\ UNCHANGED last_msg
      BY <3>2 DEF TakeLast
    <3>3. CASE ReadCases(c)
      BY <3>3 DEF ReadCases
    <3>4. CASE WsTimeout(c)
      BY <1>1, <3>4 DEF WsTimeout, PlaceOK
    <3>5. QED
      BY <1>3, <3>1, <3>2, <3>3, <3>4
  <2>3. wire[c] = <<>> /\ c \notin followers /\ c \notin pollers
    BY <1>1, <2>1 DEF PlaceOK
  <2>4. /\ wire' = [wire EXCEPT ![c] = <<>>]
        /\ followers' = followers \ {c} /\ pollers' = pollers \ {c}
    BY <1>1, <2>1, <2>3
  <2>5. QED
    BY <1>2, <2>2, <2>4, LeaveStep
<1>4. CASE WsClosed(c)
  <2>1. /\ at[c] = "websocket" /\ at' = [at EXCEPT ![c] = "gone"]
        /\ wire' = [wire EXCEPT ![c] = <<>>]
        /\ followers' = followers \ {c} /\ pollers' = pollers
    BY <1>4 DEF WsClosed
  <2>2. c \notin pollers /\ last_msg[c] # 0
    BY <1>1, <2>1 DEF PlaceOK
  <2>3. QED
    BY <1>2, <2>1, <2>2, LeaveStep
<1>5. CASE PollEnds(c)
  <2>1. /\ at[c] = "polling" /\ at' = [at EXCEPT ![c] = "poll"]
        /\ wire' = [wire EXCEPT ![c] = <<>>]
        /\ pollers' = pollers \ {c} /\ followers' = followers
    BY <1>5 DEF PollEnds
  <2>2. c \notin followers /\ last_msg[c] # 0
    BY <1>1, <2>1 DEF PlaceOK
  <2>3. QED
    BY <1>2, <2>1, <2>2, LeaveStep
<1>6. QED
  BY <1>3, <1>4, <1>5

\* What catching up does not hand over is forgotten or seen.
LEMMA CaughtUp ==
  ASSUME Inv, NEW c \in Clients
  PROVE  /\ CatchUp(c) \in Seq(Msg)
         /\ \A n \in DOMAIN CatchUp(c) :
              /\ CatchUp(c)[n] \in Range(log)
              /\ Wants(c, CatchUp(c)[n]) /\ After(last_msg[c], CatchUp(c)[n])
         /\ \A i, j \in DOMAIN CatchUp(c) : i < j => CatchUp(c)[i].id < CatchUp(c)[j].id
         /\ \A i \in DOMAIN log : Wants(c, log[i]) /\ After(last_msg[c], log[i]) =>
              log[i].id <= Floor \/ log[i] \in Range(CatchUp(c))
<1>1. TypeOK /\ LogOK
  BY DEF Inv
<1>2. ASSUME NEW n \in DOMAIN CatchUp(c)
      PROVE  /\ CatchUp(c)[n] \in Range(log)
             /\ Wants(c, CatchUp(c)[n]) /\ After(last_msg[c], CatchUp(c)[n])
  <2>1. CatchUp(c)[n] \in Range(CatchUp(c))
    BY DEF Range
  <2>2. CatchUp(c)[n] \in Range(messages)
    BY <1>1, <2>1, CatchUpIs
  <2>3. QED
    BY <1>1, <2>1, <2>2, CatchUpIs, BacklogIs DEF Range
<1>3. ASSUME NEW i \in DOMAIN log, Wants(c, log[i]), After(last_msg[c], log[i])
      PROVE  log[i].id <= Floor \/ log[i] \in Range(CatchUp(c))
  <2>1. log[i].id \in Nat /\ Floor \in Nat
    <3>1. log[i] \in Msg
      BY DEF Inv, TypeOK
    <3>2. QED
      BY <1>1, <3>1, FloorIs DEF FloorOK, Msg
  <2>2. CASE log[i].id > Floor
    BY <1>1, <1>3, <2>2, BacklogIs, CatchUpIs
  <2>3. QED
    BY <2>1, <2>2
<1>4. QED
  BY <1>1, <1>2, <1>3, CatchUpIs

\* An open websocket is sent what it has missed, and follows from then on.
LEMMA WsOpenStep ==
  ASSUME Inv, NEW c \in Clients, WsOpen(c)
  PROVE  Inv' /\ UNCHANGED Promise!vars
<1>1. PlaceOK(c) /\ wire \in [Clients -> Seq(Msg)] /\ at \in [Clients -> Places]
  BY DEF Inv, TypeOK
<1>2. /\ at[c] = "opening" /\ at' = [at EXCEPT ![c] = "websocket"]
      /\ followers' = followers \cup {c} /\ wire' = [wire EXCEPT ![c] = @ \o CatchUp(c)]
      /\ UNCHANGED <<messages, message_id, pollers, log, row, last_msg, heard>>
  BY DEF WsOpen, bridge
<1>3. wire[c] = <<>> /\ c \notin pollers /\ last_msg[c] # 0 /\ last_msg[c] <= message_id
  BY <1>1, <1>2 DEF PlaceOK
<1>4. wire' = [wire EXCEPT ![c] = CatchUp(c)] /\ CatchUp(c) \in Seq(Msg)
  <2>1. CatchUp(c) \in Seq(Msg)
    BY CaughtUp
  <2>2. <<>> \o CatchUp(c) = CatchUp(c)
    BY <2>1
  <2>3. QED
    BY <1>2, <1>3, <2>1, <2>2
<1>5. wire'[c] = CatchUp(c) /\ at'[c] = "websocket" /\ last_msg'[c] = last_msg[c]
  BY <1>1, <1>2, <1>4
<1>6. TypeOK'
  BY <1>2, <1>4 DEF Inv, TypeOK, Places
<1>7. Floor' = Floor /\ log' = log
  BY <1>2 DEF Floor
<1>8. PlaceOK(c)'
  BY <1>2, <1>3, <1>5 DEF PlaceOK
<1>9. WireOK(c)' /\ KnownOK(c)'
  BY <1>5, <1>7, CaughtUp DEF WireOK, KnownOK, Covered, Wants, After, Filter
<1>10. Inv'
  BY <1>1, <1>2, <1>4, <1>6, <1>8, <1>9, OwnStep DEF PageOK, Inv, TypeOK
<1>11. QED
  BY <1>2, <1>10, Unseen

\* A poll is answered with the first message it has missed, or waits.
LEMMA PollStep ==
  ASSUME Inv, NEW c \in Clients, Poll(c)
  PROVE  Inv' /\ UNCHANGED Promise!vars
<1>1. PlaceOK(c) /\ wire \in [Clients -> Seq(Msg)] /\ at \in [Clients -> Places]
  BY DEF Inv, TypeOK
<1>2. /\ at[c] = "poll" /\ at' = [at EXCEPT ![c] = "polling"]
      /\ UNCHANGED <<messages, message_id, followers, log, row, last_msg, heard>>
  BY DEF Poll, bridge
<1>3. /\ wire[c] = <<>> /\ c \notin followers /\ c \notin pollers
      /\ last_msg[c] # 0 /\ last_msg[c] <= message_id
  BY <1>1, <1>2 DEF PlaceOK
<1>4. Floor' = Floor /\ log' = log /\ at'[c] = "polling" /\ last_msg'[c] = last_msg[c]
  BY <1>1, <1>2 DEF Floor
<1>5. CASE CatchUp(c) # <<>>
  <2> DEFINE q == CatchUp(c)
             m == q[1]
  <2>1. wire' = [wire EXCEPT ![c] = <<m>>] /\ UNCHANGED pollers
    BY <1>5 DEF Poll
  <2>2. q \in Seq(Msg) /\ 1 \in DOMAIN q /\ m \in Msg
    BY <1>5, CaughtUp
  <2>3. /\ \A n \in DOMAIN q : q[n] \in Range(log) /\ Wants(c, q[n]) /\ After(last_msg[c], q[n])
        /\ \A i, j \in DOMAIN q : i < j => q[i].id < q[j].id
        /\ \A i \in DOMAIN log : Wants(c, log[i]) /\ After(last_msg[c], log[i]) =>
             log[i].id <= Floor \/ log[i] \in Range(q)
    BY CaughtUp
  <2> HIDE DEF q
  <2>4. \A n \in DOMAIN q : ~(q[n].id < m.id)
    <3> TAKE n \in DOMAIN q
    <3>1. n \in Nat /\ n >= 1 /\ q[n] \in Msg
      BY <2>2
    <3>2. n = 1 \/ m.id < q[n].id
      BY <2>2, <2>3, <3>1
    <3>3. QED
      BY <2>2, <3>1, <3>2 DEF Msg
  <2>5. \A i \in DOMAIN log :
          Wants(c, log[i]) /\ After(last_msg[c], log[i]) /\ log[i].id < m.id => log[i].id <= Floor
    BY <2>3, <2>4 DEF Range
  <2>6. m \in Range(log) /\ Wants(c, m) /\ After(last_msg[c], m)
    BY <2>2, <2>3
  <2> HIDE DEF m
  <2>7. wire'[c] = <<m>> /\ DOMAIN <<m>> = {1} /\ Len(<<m>>) = 1 /\ <<m>>[1] = m
    BY <1>1, <2>1
  <2>8. TypeOK'
    BY <1>2, <2>1, <2>2 DEF Inv, TypeOK, Places
  <2>9. PlaceOK(c)'
    BY <1>2, <1>3, <1>4, <2>1, <2>7 DEF PlaceOK
  <2>10. WireOK(c)'
    BY <1>4, <2>5, <2>6, <2>7 DEF WireOK, Covered, Wants, After, Filter
  <2>11. KnownOK(c)'
    BY <1>2, <1>3, <2>1 DEF KnownOK
  <2>12. Inv'
    BY <1>1, <1>2, <2>1, <2>8, <2>9, <2>10, <2>11, OwnStep DEF PageOK
  <2>13. QED
    BY <1>2, <2>12, Unseen
<1>6. CASE CatchUp(c) = <<>>
  <2>1. pollers' = pollers \cup {c} /\ UNCHANGED wire
    BY <1>6 DEF Poll
  <2>2. TypeOK'
    BY <1>2, <2>1 DEF Inv, TypeOK, Places
  <2>3. PlaceOK(c)'
    BY <1>2, <1>3, <1>4, <2>1 DEF PlaceOK
  <2>4. WireOK(c)'
    BY <1>3, <2>1 DEF WireOK
  <2>5. KnownOK(c)'
    <3>1. Range(CatchUp(c)) = {}
      BY <1>6 DEF Range
    <3>2. QED
      BY <1>4, <3>1, CaughtUp DEF KnownOK, Covered, Wants, After, Filter
  <2>6. Inv'
    BY <1>1, <1>2, <2>1, <2>2, <2>3, <2>4, <2>5, OwnStep DEF PageOK
  <2>7. QED
    BY <1>2, <2>6, Unseen
<1>7. QED
  BY <1>5, <1>6

\* Receiving hands the page the next message of the log it wants.
LEMMA ReceiveStep ==
  ASSUME Inv, NEW c \in Clients, Receive(c)
  PROVE  Inv' /\ Promise!Hand(c)
<1> DEFINE q == wire[c]
           m == q[1]
<1>1. /\ PlaceOK(c) /\ WireOK(c) /\ KnownOK(c)
      /\ wire \in [Clients -> Seq(Msg)] /\ at \in [Clients -> Places]
      /\ last_msg \in [Clients -> Nat] /\ heard \in [Clients -> Nat]
  BY DEF Inv, TypeOK
<1>2. /\ q # <<>> /\ last_msg' = [last_msg EXCEPT ![c] = m.id]
      /\ heard' = [heard EXCEPT ![c] = @ + 1] /\ wire' = [wire EXCEPT ![c] = Tail(q)]
      /\ at' = [at EXCEPT ![c] = IF @ = "polling" THEN "poll" ELSE @]
      /\ UNCHANGED <<messages, message_id, followers, pollers, log, row>>
  BY DEF Receive, daemon, bridge
<1>3. /\ q \in Seq(Msg) /\ 1 \in DOMAIN q /\ m \in Msg /\ m.id \in Nat
      /\ Tail(q) \in Seq(Msg) /\ Len(Tail(q)) = Len(q) - 1
      /\ \A n \in DOMAIN Tail(q) : n + 1 \in DOMAIN q /\ Tail(q)[n] = q[n + 1]
      /\ \A n \in DOMAIN q : n # 1 => n - 1 \in DOMAIN Tail(q) /\ Tail(q)[n - 1] = q[n]
  <2>1. q \in Seq(Msg) /\ q # <<>>
    BY <1>1, <1>2
  <2>2. 1 \in DOMAIN q /\ m \in Msg
    BY <2>1
  <2>3. m.id \in Nat
    BY <2>2 DEF Msg
  <2> HIDE DEF q
  <2>4. /\ Tail(q) \in Seq(Msg) /\ Len(Tail(q)) = Len(q) - 1
        /\ DOMAIN q = 1 .. Len(q) /\ DOMAIN Tail(q) = 1 .. Len(q) - 1 /\ Len(q) \in Nat
        /\ \A n \in DOMAIN Tail(q) : Tail(q)[n] = q[n + 1]
    BY <2>1
  <2>5. QED
    BY <2>2, <2>3, <2>4
<1>4. /\ \A n \in DOMAIN q :
           /\ q[n] \in Range(log) /\ Wants(c, q[n]) /\ q[n].id > last_msg[c]
           /\ \A i \in DOMAIN log :
                Wants(c, log[i]) /\ log[i].id > last_msg[c] /\ log[i].id < q[n].id
                => log[i].id <= Floor \/ log[i] \in Range(q)
      /\ \A i, j \in DOMAIN q : i < j => q[i].id < q[j].id
  BY <1>1 DEF WireOK, Covered, After
<1>5. c \in followers \cup pollers =>
        \A i \in DOMAIN log : Wants(c, log[i]) /\ log[i].id > last_msg[c]
                             => log[i].id <= Floor \/ log[i] \in Range(q)
  BY <1>1 DEF KnownOK, Covered, After
<1>6. /\ c \notin pollers /\ at[c] \in {"websocket", "polling"} /\ last_msg[c] # 0
      /\ at[c] = "polling" => Len(q) = 1
  BY <1>1, <1>2, <1>3 DEF PlaceOK
<1>7. /\ wire'[c] = Tail(q) /\ last_msg'[c] = m.id
      /\ at'[c] = IF at[c] = "polling" THEN "poll" ELSE at[c]
      /\ Floor' = Floor /\ log' = log
  BY <1>1, <1>2 DEF Floor
<1>8. \A i \in DOMAIN log : log[i].id \in Nat
  <2>1. \A i \in DOMAIN log : log[i] \in Msg
    BY DEF Inv, TypeOK
  <2>2. QED
    BY <2>1 DEF Msg
<1>9. m.id > last_msg[c] /\ last_msg[c] \in Nat
  BY <1>1, <1>3, <1>4
<1> HIDE DEF q, m
<1>10. \A x \in Range(q) : x.id > m.id => x \in Range(Tail(q))
  <2> SUFFICES ASSUME NEW n \in DOMAIN q, q[n].id > m.id PROVE q[n] \in Range(Tail(q))
    BY DEF Range
  <2>1. n # 1
    BY <1>3 DEF m
  <2>2. QED
    BY <1>3, <2>1 DEF Range
<1>11. \A n \in DOMAIN Tail(q) : Tail(q)[n].id > m.id
  <2> TAKE n \in DOMAIN Tail(q)
  <2>1. n \in Nat /\ n >= 1 /\ n + 1 \in DOMAIN q /\ Tail(q)[n] = q[n + 1]
    BY <1>3
  <2>2. 1 < n + 1
    BY <2>1
  <2>3. m.id < q[n + 1].id
    BY <1>3, <1>4, <2>1, <2>2 DEF m
  <2>4. q[n + 1].id \in Nat
    <3>1. q[n + 1] \in Msg
      BY <1>3, <2>1
    <3>2. QED
      BY <3>1 DEF Msg
  <2>5. QED
    BY <1>3, <2>1, <2>3, <2>4
<1>12. TypeOK'
  <2>1. wire' \in [Clients -> Seq(Msg)] /\ at' \in [Clients -> Places]
        /\ last_msg' \in [Clients -> Nat] /\ heard' \in [Clients -> Nat]
    BY <1>1, <1>2, <1>3 DEF Places
  <2>2. QED
    BY <1>2, <2>1 DEF Inv, TypeOK
<1>13. PlaceOK(c)'
  <2>1. m.id # 0 /\ m.id <= message_id
    <3>1. m.id # 0 /\ m \in Range(log)
      BY <1>3, <1>4, <1>9 DEF m
    <3>2. QED
      BY <3>1 DEF Inv, LogOK, Range
  <2>2. at[c] = "polling" => Tail(q) = <<>>
    <3> SUFFICES ASSUME at[c] = "polling" PROVE Tail(q) = <<>>
      OBVIOUS
    <3>1. Len(q) = 1 /\ Len(Tail(q)) = Len(q) - 1 /\ Tail(q) \in Seq(Msg)
      BY <1>3, <1>6
    <3> DEFINE r == Tail(q)
    <3>2. r \in Seq(Msg) /\ Len(r) = 0
      BY <3>1
    <3> HIDE DEF r
    <3>3. r = <<>>
      BY <3>2
    <3>4. QED
      BY <3>3 DEF r
  <2>3. QED
    BY <1>1, <1>2, <1>6, <1>7, <2>1, <2>2 DEF PlaceOK
<1>14. \A n \in DOMAIN Tail(q) :
         /\ Tail(q)[n] \in Range(log) /\ Wants(c, Tail(q)[n])
         /\ \A i \in DOMAIN log :
              Wants(c, log[i]) /\ log[i].id > m.id /\ log[i].id < Tail(q)[n].id
              => log[i].id <= Floor \/ log[i] \in Range(Tail(q))
  BY <1>3, <1>4, <1>8, <1>9, <1>10
<1>15. \A i, j \in DOMAIN Tail(q) : i < j => Tail(q)[i].id < Tail(q)[j].id
  <2> TAKE i, j \in DOMAIN Tail(q)
  <2>1. i \in Nat /\ j \in Nat /\ (i < j => i + 1 < j + 1)
    BY <1>3
  <2>2. QED
    BY <1>3, <1>4, <2>1
<1>16. WireOK(c)'
  BY <1>7, <1>11, <1>14, <1>15 DEF WireOK, Covered, Wants, After, Filter
<1>17. KnownOK(c)'
  <2>1. c \in followers' \cup pollers' =>
          \A i \in DOMAIN log : Wants(c, log[i]) /\ log[i].id > m.id
                               => log[i].id <= Floor \/ log[i] \in Range(Tail(q))
    <3> SUFFICES ASSUME c \in followers \cup pollers, NEW i \in DOMAIN log,
                        Wants(c, log[i]), log[i].id > m.id
                 PROVE  log[i].id <= Floor \/ log[i] \in Range(Tail(q))
      BY <1>2
    <3>1. log[i].id > last_msg[c]
      BY <1>3, <1>8, <1>9
    <3>2. QED
      BY <1>5, <1>10, <3>1
  <2>2. QED
    BY <1>7, <2>1 DEF KnownOK, Covered, Wants, After, Filter
<1>18. Inv'
  BY <1>1, <1>2, <1>12, <1>13, <1>16, <1>17, OwnStep DEF PageOK
<1>19. Promise!Hand(c)
  <2>1. PICK i \in DOMAIN log : log[i] = m
    BY <1>3, <1>4 DEF Range, m
  <2>2. Promise!Wanted(c) = {j \in DOMAIN log : log[j].id > last_msg[c] /\ Wants(c, log[j])}
    BY DEF Promise!Wanted, Wants
  <2>3. i \in Promise!Wanted(c)
    BY <1>3, <1>4, <2>1, <2>2 DEF m
  <2>4. \A x \in Range(q) : ~(x.id < m.id)
    <3> SUFFICES ASSUME NEW n \in DOMAIN q PROVE ~(q[n].id < m.id)
      BY DEF Range
    <3>1. n \in Nat /\ n >= 1 /\ q[n].id \in Nat
      <4>1. n \in Nat /\ n >= 1 /\ q[n] \in Msg
        BY <1>3
      <4>2. QED
        BY <4>1 DEF Msg
    <3>2. n = 1 \/ m.id < q[n].id
      BY <1>3, <1>4, <3>1 DEF m
    <3>3. QED
      BY <1>3, <3>1, <3>2 DEF m
  <2>5. ASSUME NEW j \in Promise!Wanted(c), j < i PROVE log[j].id <= Floor
    <3>1. log[j].id < m.id
      BY <2>1, <2>2, <2>5 DEF Inv, LogOK
    <3>2. QED
      BY <1>3, <1>4, <2>2, <2>4, <3>1 DEF m
  <2>6. QED
    BY <1>2, <1>6, <1>7, <2>1, <2>3, <2>5 DEF Promise!Hand
<1>20. QED
  BY <1>18, <1>19

-----------------------------------------------------------------------------
(* Steps of the daemon.                                                    *)

\* Appending to a sequence.
LEMMA Appends ==
  ASSUME NEW S, NEW q \in Seq(S), NEW x \in S
  PROVE  /\ Append(q, x) \in Seq(S) /\ Len(Append(q, x)) = Len(q) + 1
         /\ DOMAIN Append(q, x) = DOMAIN q \cup {Len(q) + 1}
         /\ \A i \in DOMAIN q : Append(q, x)[i] = q[i]
         /\ Append(q, x)[Len(q) + 1] = x
         /\ Len(q) \in Nat /\ Len(q) + 1 \notin DOMAIN q
         /\ Range(Append(q, x)) = Range(q) \cup {x}
<1>1. /\ Append(q, x) \in Seq(S) /\ Len(Append(q, x)) = Len(q) + 1
      /\ DOMAIN Append(q, x) = DOMAIN q \cup {Len(q) + 1}
      /\ \A i \in DOMAIN q : Append(q, x)[i] = q[i]
      /\ Append(q, x)[Len(q) + 1] = x
      /\ Len(q) \in Nat /\ Len(q) + 1 \notin DOMAIN q
  OBVIOUS
<1> HIDE DEF Range
<1>2. Range(Append(q, x)) = Range(q) \cup {x}
  BY <1>1 DEF Range
<1>3. QED
  BY <1>1, <1>2

\* Pushing keeps the backlog the end of the log.
LEMMA PushOK ==
  ASSUME TypeOK, LogOK, NEW m \in Msg, m.id = message_id + 1,
         message_id' = m.id, messages' = Pushed(m), log' = Append(log, m)
  PROVE  /\ messages' \in Seq(Msg) /\ log' \in Seq(Msg)
         /\ LogOK' /\ message_id' \in Nat \ {0}
         /\ Len(messages') = IF Len(messages) = MaxQueue THEN MaxQueue ELSE Len(messages) + 1
<1> DEFINE q == Append(messages, m)
           K == Len(messages)
           L == Len(log)
<1>1. /\ messages \in Seq(Msg) /\ log \in Seq(Msg) /\ message_id \in Nat \ {0}
      /\ K \in Nat /\ L \in Nat /\ K <= L /\ K <= MaxQueue /\ MaxQueue \in Nat \ {0}
      /\ DOMAIN messages = 1 .. K /\ DOMAIN log = 1 .. L
  BY QueueAssumption DEF TypeOK, LogOK
<1>2. /\ log' \in Seq(Msg) /\ Len(log') = L + 1 /\ DOMAIN log' = 1 .. L + 1
      /\ \A i \in 1 .. L : log'[i] = log[i]
      /\ log'[L + 1] = m
  BY <1>1, Appends
<1>3. /\ q \in Seq(Msg) /\ Len(q) = K + 1 /\ DOMAIN q = 1 .. K + 1
      /\ \A i \in 1 .. K : q[i] = messages[i]
      /\ q[K + 1] = m
  BY <1>1, Appends
<1>4. message_id' \in Nat \ {0} /\ m.id \in Nat /\ \A i \in 1 .. L : log[i].id \in Nat
  <2>1. \A i \in 1 .. L : log[i] \in Msg
    BY <1>1
  <2>2. QED
    BY <1>1, <2>1 DEF Msg
<1>5. \A i \in 1 .. L : 0 < log[i].id /\ log[i].id <= message_id
  BY <1>1 DEF LogOK
<1>6. \A i \in 1 .. L + 1 : 0 < log'[i].id /\ log'[i].id <= message_id'
  <2> TAKE i \in 1 .. L + 1
  <2>1. CASE i \in 1 .. L
    BY <1>1, <1>2, <1>4, <1>5, <2>1
  <2>2. CASE i = L + 1
    BY <1>1, <1>2, <1>4, <2>2
  <2>3. QED
    BY <1>1, <2>1, <2>2
<1>7. \A i, j \in 1 .. L + 1 : i < j => log'[i].id < log'[j].id
  <2> SUFFICES ASSUME NEW i \in 1 .. L + 1, NEW j \in 1 .. L + 1, i < j
               PROVE  log'[i].id < log'[j].id
    OBVIOUS
  <2>1. i \in 1 .. L
    BY <1>1
  <2>2. CASE j \in 1 .. L
    <3>1. log[i].id < log[j].id
      BY <1>1, <2>1, <2>2 DEF LogOK
    <3>2. QED
      BY <1>2, <2>1, <2>2, <3>1
  <2>3. CASE j = L + 1
    <3>1. log[i].id <= message_id /\ log[i].id \in Nat
      BY <1>4, <1>5, <2>1
    <3>2. log'[i].id = log[i].id /\ log'[j].id = message_id + 1
      BY <1>2, <2>1, <2>3
    <3>3. QED
      BY <1>1, <3>1, <3>2
  <2>4. QED
    BY <1>1, <2>2, <2>3
<1>8. \A i \in 1 .. K : messages[i] = log[L - K + i] /\ L - K + i \in 1 .. L
  BY <1>1 DEF LogOK
<1>14. K \in Nat /\ L \in Nat /\ K <= L /\ K <= MaxQueue /\ MaxQueue \in Nat \ {0}
  BY <1>1
<1>0. messages' = IF Len(q) > MaxQueue THEN Tail(q) ELSE q
  BY DEF Pushed
<1> DEFINE Goal == /\ messages' \in Seq(Msg) /\ log' \in Seq(Msg)
                   /\ LogOK' /\ message_id' \in Nat \ {0}
                   /\ Len(messages') = IF K = MaxQueue THEN MaxQueue ELSE K + 1
<1> HIDE DEF q, K, L
<1>9. \A i \in 1 .. K + 1 : q[i] = log'[L - K + i]
  <2> TAKE i \in 1 .. K + 1
  <2>1. CASE i \in 1 .. K
    BY <1>2, <1>3, <1>8, <2>1
  <2>2. CASE i = K + 1
    <3>1. L - K + i = L + 1
      BY <1>14, <2>2
    <3>2. QED
      BY <1>2, <1>3, <2>2, <3>1
  <2>3. i \in 1 .. K \/ i = K + 1
    BY <1>14
  <2>4. QED
    BY <2>1, <2>2, <2>3
<1>10. CASE K < MaxQueue
  <2>1. messages' = q
    BY <1>0, <1>14, <1>3, <1>10
  <2>2. /\ messages' \in Seq(Msg) /\ Len(messages') = K + 1 /\ DOMAIN messages' = 1 .. K + 1
        /\ messages'[K + 1] = m
    BY <1>3, <2>1
  <2>3. \A i \in 1 .. K + 1 : messages'[i] = log'[(L + 1) - (K + 1) + i]
    <3>1. (L + 1) - (K + 1) = L - K
      BY <1>14
    <3>2. QED
      BY <1>9, <2>1, <3>1
  <2>4. K + 1 <= L + 1 /\ K + 1 <= MaxQueue
    BY <1>14, <1>10
  <2>5. LogOK'
    BY <1>14, <1>2, <1>6, <1>7, <2>2, <2>3, <2>4 DEF LogOK
  <2>6. Goal
    BY <1>14, <1>2, <1>4, <1>10, <2>2, <2>5
  <2>7. QED
    BY <2>6 DEF K
<1>11. CASE K = MaxQueue
  <2>1. messages' = Tail(q)
    BY <1>0, <1>14, <1>3, <1>11
  <2>2. /\ messages' \in Seq(Msg) /\ Len(messages') = K /\ DOMAIN messages' = 1 .. K
        /\ \A i \in 1 .. K : messages'[i] = q[i + 1]
    BY <1>14, <1>3, <2>1
  <2>3. \A i \in 1 .. K : messages'[i] = log'[(L + 1) - K + i]
    <3> TAKE i \in 1 .. K
    <3>1. i + 1 \in 1 .. K + 1 /\ L - K + (i + 1) = (L + 1) - K + i
      BY <1>14
    <3>2. QED
      BY <1>9, <2>2, <3>1
  <2>4. K <= L + 1 /\ K \in 1 .. K /\ messages'[K] = m
    BY <1>14, <1>3, <1>11, <2>2
  <2>5. LogOK'
    BY <1>14, <1>2, <1>6, <1>7, <2>2, <2>3, <2>4 DEF LogOK
  <2>6. Goal
    BY <1>14, <1>2, <1>4, <1>11, <2>2, <2>5
  <2>7. QED
    BY <2>6 DEF K
<1>12. K < MaxQueue \/ K = MaxQueue
  BY <1>14
<1>13. QED
  BY <1>10, <1>11, <1>12 DEF K

\* The daemon forgets in the order of the log.
LEMMA FloorRises ==
  ASSUME TypeOK, LogOK, NEW m \in Msg, m.id = message_id + 1,
         message_id' = m.id, messages' = Pushed(m), log' = Append(log, m)
  PROVE  Floor' \in Nat /\ Floor' >= Floor
<1> DEFINE K == Len(messages)
           L == Len(log)
           J == Len(messages')
           j == L + 1 - J + 1
<1>1. /\ LogOK' /\ messages' \in Seq(Msg) /\ J = IF K = MaxQueue THEN MaxQueue ELSE K + 1
      /\ Len(log') = L + 1 /\ L \in Nat /\ K \in Nat /\ J \in Nat /\ K <= L /\ MaxQueue \in Nat \ {0}
      /\ message_id \in Nat /\ log \in Seq(Msg)
      /\ DOMAIN log = 1 .. L /\ DOMAIN messages' = 1 .. J
  <2>1. messages \in Seq(Msg) /\ log \in Seq(Msg) /\ message_id \in Nat /\ Len(messages) <= Len(log)
    BY DEF TypeOK, LogOK
  <2>2. LogOK' /\ messages' \in Seq(Msg) /\ J = IF K = MaxQueue THEN MaxQueue ELSE K + 1
    BY PushOK
  <2>3. Len(log') = L + 1
    BY <2>1, Appends
  <2>4. QED
    BY <2>1, <2>2, <2>3, QueueAssumption
<1>2. \A i \in 1 .. L : log'[i] = log[i]
  BY <1>1, Appends
<1>3. log'[L + 1] = m
  BY <1>1, Appends
<1> HIDE DEF L, K, J
<1>4. J >= 1 /\ J <= K + 1 /\ j \in 1 .. L + 1 /\ j > L - K
  BY <1>1
<1>5. messages'[1] = log'[j]
  <2>1. 1 \in DOMAIN messages'
    BY <1>1, <1>4
  <2>2. messages'[1] = log'[Len(log') - Len(messages') + 1]
    BY <1>1, <2>1 DEF LogOK
  <2>3. Len(log') - Len(messages') + 1 = j
    BY <1>1 DEF J
  <2>4. QED
    BY <2>2, <2>3
<1>6. Floor' = log'[j].id - 1
  <2>1. messages' # <<>>
    BY <1>1, <1>4 DEF J
  <2>2. QED
    BY <1>5, <2>1 DEF Floor
<1>7. FloorOK
  BY FloorIs
<1>8. CASE j \in 1 .. L
  <2>1. log[j].id > Floor /\ Floor \in Nat
    BY <1>1, <1>4, <1>7, <1>8 DEF FloorOK, L, K
  <2>2. log[j].id \in Nat
    <3>1. log[j] \in Msg
      BY <1>1, <1>8
    <3>2. QED
      BY <3>1 DEF Msg
  <2>3. Floor' = log[j].id - 1
    BY <1>2, <1>6, <1>8
  <2>4. QED
    BY <2>1, <2>2, <2>3
<1>9. CASE j = L + 1
  <2>1. Floor' = message_id /\ Floor \in Nat /\ Floor <= message_id
    BY <1>1, <1>3, <1>6, <1>7, <1>9 DEF FloorOK
  <2>2. QED
    BY <1>1, <2>1
<1>10. QED
  BY <1>1, <1>4, <1>8, <1>9

\* What posting a message changes.
PostedIs(m) ==
  /\ m \in Msg /\ m.id = message_id + 1 /\ message_id' = m.id
  /\ messages' = Pushed(m) /\ log' = Append(log, m)
  /\ \A c \in Clients :
       wire'[c] = IF c \in followers \cup pollers /\ Wants(c, m)
                    THEN Append(wire[c], m) ELSE wire[c]
  /\ pollers' = {c \in pollers : ~Wants(c, m)}
  /\ UNCHANGED <<followers, at, last_msg, heard>>

\* Posting a message keeps the invariant: it is above all others, and goes to
\* every page the daemon knows that wants it.
LEMMA PostedInv ==
  ASSUME Inv, NEW m, PostedIs(m), row' \in Nat, DOMAIN wire' = Clients,
         wire' \in [Clients -> Seq(Msg)]
  PROVE  Inv'
<1> DEFINE L == Len(log)
<1>1. /\ m \in Msg /\ m.id = message_id + 1 /\ message_id \in Nat /\ log \in Seq(Msg)
      /\ wire \in [Clients -> Seq(Msg)] /\ L \in Nat /\ DOMAIN log = 1 .. L
      /\ TypeOK /\ LogOK
  BY DEF Inv, TypeOK, PostedIs
<1>2. LogOK' /\ messages' \in Seq(Msg) /\ log' \in Seq(Msg) /\ message_id' \in Nat \ {0}
  BY <1>1, PushOK DEF PostedIs
<1>3. TypeOK'
  BY <1>2 DEF Inv, TypeOK, PostedIs
<1>4. Floor \in Nat /\ Floor' \in Nat /\ Floor <= Floor'
  BY <1>1, FloorRises, FloorIs DEF PostedIs, FloorOK
<1>5. /\ \A i \in DOMAIN log' : log'[i] = m \/ (i \in DOMAIN log /\ log'[i] = log[i])
      /\ Range(log') = Range(log) \cup {m}
  BY <1>1, Appends DEF PostedIs
<1>6. \A x \in Range(log) : x.id \in Nat /\ x.id < m.id
  <2> SUFFICES ASSUME NEW i \in DOMAIN log PROVE log[i].id \in Nat /\ log[i].id < m.id
    BY DEF Range
  <2>1. log[i] \in Msg /\ log[i].id <= message_id
    BY <1>1 DEF LogOK
  <2>2. log[i].id \in Nat
    BY <2>1 DEF Msg
  <2>3. QED
    BY <1>1, <2>1, <2>2
<1>7. \A i \in DOMAIN log : log[i] \in Range(log)
  BY DEF Range
<1>8. m.id \in Nat
  BY <1>1
<1>9. ASSUME NEW c \in Clients PROVE PlaceOK(c)' /\ WireOK(c)' /\ KnownOK(c)'
  <2> DEFINE q == wire[c]
             r == wire'[c]
  <2>1. PlaceOK(c) /\ WireOK(c) /\ KnownOK(c) /\ q \in Seq(Msg)
    BY <1>1 DEF Inv
  <2>2. /\ c \in followers' <=> c \in followers
        /\ c \in pollers' <=> c \in pollers /\ ~Wants(c, m)
        /\ at'[c] = at[c] /\ last_msg'[c] = last_msg[c] /\ last_msg[c] \in Nat
    BY DEF PostedIs, Inv, TypeOK
  <2>0. last_msg'[c] <= message_id'
    <3>1. last_msg[c] <= message_id /\ message_id' = message_id + 1
      BY <1>1, <2>1 DEF PlaceOK, PostedIs
    <3>2. QED
      BY <1>1, <2>2, <3>1
  <2>3. \A n \in DOMAIN q :
          /\ q[n] \in Range(log) /\ Wants(c, q[n]) /\ q[n].id > last_msg[c]
          /\ \A i \in DOMAIN log :
               Wants(c, log[i]) /\ log[i].id > last_msg[c] /\ log[i].id < q[n].id
               => log[i].id <= Floor \/ log[i] \in Range(q)
    BY <2>1 DEF WireOK, Covered, After
  <2>4. \A i, j \in DOMAIN q : i < j => q[i].id < q[j].id
    BY <2>1 DEF WireOK
  <2>5. c \in followers \cup pollers =>
          \A i \in DOMAIN log : Wants(c, log[i]) /\ log[i].id > last_msg[c]
                               => log[i].id <= Floor \/ log[i] \in Range(q)
    BY <2>1 DEF KnownOK, Covered, After
  <2>6. CASE ~(c \in followers \cup pollers /\ Wants(c, m))
    <3>1. wire'[c] = wire[c]
      BY <2>6 DEF PostedIs
    <3>2. PlaceOK(c)'
      BY <2>0, <2>1, <2>2, <3>1 DEF PlaceOK
    <3>3. ASSUME NEW n \in DOMAIN q
          PROVE  /\ q[n] \in Range(log')
                 /\ \A i \in DOMAIN log' :
                      Wants(c, log'[i]) /\ log'[i].id > last_msg[c] /\ log'[i].id < q[n].id
                      => log'[i].id <= Floor' \/ log'[i] \in Range(q)
      <4>1. q[n] \in Range(log') /\ q[n].id \in Nat /\ q[n].id < m.id
        BY <1>5, <1>6, <2>3
      <4>2. \A i \in DOMAIN log' : log'[i].id < q[n].id => i \in DOMAIN log /\ log'[i] = log[i]
        BY <1>5, <1>8, <4>1
      <4>3. QED
        BY <1>4, <1>6, <1>7, <2>3, <4>1, <4>2
    <3>4. WireOK(c)'
      BY <2>2, <2>3, <2>4, <3>1, <3>3 DEF WireOK, Covered, Wants, After, Filter
    <3>5. ASSUME c \in followers' \cup pollers', NEW i \in DOMAIN log',
                 Wants(c, log'[i]), log'[i].id > last_msg[c]
          PROVE  log'[i].id <= Floor' \/ log'[i] \in Range(q)
      <4>1. c \in followers \cup pollers /\ ~Wants(c, m)
        BY <2>2, <2>6, <3>5
      <4>2. i \in DOMAIN log /\ log'[i] = log[i]
        BY <1>5, <3>5, <4>1
      <4>3. QED
        BY <1>4, <1>6, <1>7, <2>5, <3>5, <4>1, <4>2
    <3>6. KnownOK(c)'
      BY <2>2, <3>1, <3>5 DEF KnownOK, Covered, Wants, After, Filter
    <3>7. QED
      BY <3>2, <3>4, <3>6
  <2>7. CASE c \in followers \cup pollers /\ Wants(c, m)
    <3>1. wire'[c] = Append(wire[c], m)
      BY <2>7 DEF PostedIs
    <3>2. /\ r \in Seq(Msg) /\ Len(r) = Len(q) + 1 /\ Len(q) \in Nat
          /\ \A n \in DOMAIN r : (n \in DOMAIN q /\ r[n] = q[n]) \/ (n = Len(q) + 1 /\ r[n] = m)
          /\ Range(r) = Range(q) \cup {m}
          /\ DOMAIN q = 1 .. Len(q)
      BY <1>1, <2>1, <3>1, Appends
    <3>3. PlaceOK(c)'
      <4>1. at[c] = "polling" => q = <<>>
        BY <2>1, <2>7 DEF PlaceOK
      <4>2. at[c] \in {"websocket", "polling"}
        BY <2>1, <2>7 DEF PlaceOK
      <4>3. at[c] = "polling" => Len(r) <= 1
        BY <3>2, <4>1
      <4>4. c \notin pollers'
        BY <2>2, <2>7
      <4>5. QED
        BY <2>0, <2>1, <2>2, <3>2, <4>2, <4>3, <4>4 DEF PlaceOK, r
    <3> HIDE DEF q, r
    <3>4. m.id > last_msg[c]
      <4>1. last_msg[c] <= message_id
        BY <2>1 DEF PlaceOK
      <4>2. QED
        BY <1>1, <2>2, <4>1
    <3>5. \A i \in DOMAIN log' : Wants(c, log'[i]) /\ log'[i].id > last_msg[c]
            => log'[i].id <= Floor' \/ log'[i] \in Range(r)
      <4> SUFFICES ASSUME NEW i \in DOMAIN log', Wants(c, log'[i]), log'[i].id > last_msg[c]
                   PROVE  log'[i].id <= Floor' \/ log'[i] \in Range(r)
        OBVIOUS
      <4>1. CASE log'[i] = m
        BY <3>2, <4>1
      <4>2. CASE i \in DOMAIN log /\ log'[i] = log[i]
        BY <1>4, <1>6, <1>7, <2>5, <2>7, <3>2, <4>2
      <4>3. QED
        BY <1>5, <4>1, <4>2
    <3>6. \A n \in DOMAIN r : r[n] \in Range(log') /\ Wants(c, r[n]) /\ r[n].id > last_msg[c]
      BY <1>5, <2>3, <2>7, <3>2, <3>4
    <3>7. \A n \in DOMAIN q : q[n].id \in Nat /\ q[n].id < m.id
      BY <1>6, <2>3
    <3>8. ASSUME NEW i \in DOMAIN r, NEW j \in DOMAIN r, i < j
          PROVE  r[i].id < r[j].id
      <4>1. i \in DOMAIN q /\ r[i] = q[i]
        BY <3>2, <3>8
      <4>2. QED
        BY <2>4, <3>2, <3>7, <3>8, <4>1
    <3>9. WireOK(c)'
      BY <2>2, <3>5, <3>6, <3>8 DEF WireOK, Covered, Wants, After, Filter, r
    <3>10. KnownOK(c)'
      BY <2>2, <3>5 DEF KnownOK, Covered, Wants, After, Filter, r
    <3>11. QED
      BY <3>3, <3>9, <3>10
  <2>8. QED
    BY <2>6, <2>7
<1>10. QED
  BY <1>2, <1>3, <1>9 DEF Inv

\* What is kept of a log: the positions above the floor.
LEMMA KeptIs ==
  ASSUME TypeOK, LogOK
  PROVE  Promise!Kept(log, Floor) = {i \in DOMAIN log : i > Len(log) - Len(messages)}
BY FloorIs DEF FloorOK, Promise!Kept

\* The same after a step.
LEMMA KeptIsNext ==
  (TypeOK /\ LogOK => Promise!Kept(log, Floor) = {i \in DOMAIN log : i > Len(log) - Len(messages)})'
BY KeptIs, PTL

\* Posting a message keeps the invariant and is a step of the promise: only when
\* the backlog is full is a message forgotten, and it is the oldest.
LEMMA PostedStep ==
  ASSUME Inv, NEW ch \in {Sub, Other}, NEW r \in Nat, Posted(ch, r), row' \in Nat
  PROVE  Inv' /\ Promise!Post
<1> DEFINE m == [id |-> message_id + 1, channel |-> ch, row |-> r]
           L == Len(log)
           K == Len(messages)
           J == Len(messages')
<1>1. /\ TypeOK /\ LogOK /\ log \in Seq(Msg) /\ message_id \in Nat
      /\ wire \in [Clients -> Seq(Msg)] /\ followers \subseteq Clients /\ pollers \subseteq Clients
  BY DEF Inv, TypeOK
<1>2. m \in Msg /\ m.id = message_id + 1
  BY <1>1 DEF Msg
<1>3. PostedIs(m) /\ DOMAIN wire' = Clients
  BY <1>1, <1>2 DEF Posted, PostedIs
<1> HIDE DEF m
<1>4. wire' \in [Clients -> Seq(Msg)]
  <2>1. ASSUME NEW c \in Clients PROVE wire'[c] \in Seq(Msg)
    <3>1. wire[c] \in Seq(Msg) /\ Append(wire[c], m) \in Seq(Msg)
      BY <1>1, <1>2, Appends
    <3>2. wire'[c] = Append(wire[c], m) \/ wire'[c] = wire[c]
      BY <1>3 DEF PostedIs
    <3>3. QED
      BY <3>1, <3>2
  <2>2. wire' = [c \in Clients |-> wire'[c]]
    BY DEF Posted
  <2>3. QED
    BY <2>1, <2>2
<1>5. Inv'
  BY <1>3, <1>4, PostedInv
<1>6. /\ log' = Append(log, m) /\ Len(log') = L + 1 /\ log'[L + 1] = m
      /\ DOMAIN log' = 1 .. L + 1 /\ L \in Nat
      /\ SubSeq(log', 1, L) = log
  BY <1>1, <1>2, <1>3 DEF PostedIs
<1>7. m.id > Promise!LastId /\ m.channel \in {Sub, Other}
  <2>1. m.channel \in {Sub, Other}
    BY <1>2 DEF Msg
  <2>2. CASE log = <<>>
    BY <1>1, <1>2, <2>1, <2>2 DEF Promise!LastId
  <2>3. CASE log # <<>>
    <3>1. Len(log) \in DOMAIN log
      BY <1>1, <2>3
    <3>2. log[Len(log)].id <= message_id /\ log[Len(log)] \in Msg
      BY <1>1, <3>1 DEF LogOK
    <3>3. log[Len(log)].id \in Nat
      BY <3>2 DEF Msg
    <3>4. QED
      BY <1>1, <1>2, <2>1, <2>3, <3>2, <3>3 DEF Promise!LastId
  <2>4. QED
    BY <2>1, <2>2, <2>3
<1>8. Floor' >= Floor
  BY <1>1, <1>2, <1>3, FloorRises DEF PostedIs
<1>9. J = IF K = MaxQueue THEN MaxQueue ELSE K + 1
  BY <1>1, <1>2, <1>3, PushOK DEF PostedIs
<1>10. /\ K \in Nat /\ K <= L /\ MaxQueue \in Nat \ {0} /\ DOMAIN log = 1 .. L
  BY <1>1, QueueAssumption DEF TypeOK, LogOK
<1>11. Promise!Kept(log, Floor) = {i \in 1 .. L : i > L - K}
  BY <1>1, <1>10, KeptIs
<1>12. Promise!Kept(log', Floor') = {i \in 1 .. L + 1 : i > L + 1 - J}
  <2>1. TypeOK' /\ LogOK'
    BY <1>5 DEF Inv
  <2>2. Promise!Kept(log', Floor') = {i \in DOMAIN log' : i > Len(log') - Len(messages')}
    BY <2>1, KeptIsNext
  <2>3. QED
    BY <1>6, <2>2
<1> HIDE DEF J, K, L
<1>13. ASSUME NEW n, n = L + 1
       PROVE  \/ Promise!Kept(log', Floor') = Promise!Kept(log, Floor) \cup {n}
              \/ n - MaxQueue + 1 \in Promise!Kept(log', Floor')
  <2>1. CASE K = MaxQueue
    <3>1. n - MaxQueue + 1 \in {i \in 1 .. L + 1 : i > L + 1 - J}
      BY <1>6, <1>9, <1>10, <1>13, <2>1
    <3>2. QED
      BY <1>12, <3>1
  <2>2. CASE K # MaxQueue
    <3>1. {i \in 1 .. L + 1 : i > L + 1 - J} = {i \in 1 .. L : i > L - K} \cup {n}
      BY <1>6, <1>9, <1>10, <1>13, <2>2
    <3>2. QED
      BY <1>11, <1>12, <3>1
  <2>3. QED
    BY <2>1, <2>2
<1>14. UNCHANGED <<last_msg, heard>>
  BY <1>3 DEF PostedIs
<1>15. Promise!Post
  <2>1. /\ Len(log') = Len(log) + 1 /\ SubSeq(log', 1, Len(log)) = log
        /\ log'[Len(log')] = m
    BY <1>6 DEF L
  <2>2. /\ log'[Len(log')].id > Promise!LastId /\ log'[Len(log')].channel \in {Sub, Other}
    BY <1>7, <2>1
  <2>3. \/ Promise!Kept(log', Floor') = Promise!Kept(log, Floor) \cup {Len(log')}
        \/ Len(log') - MaxQueue + 1 \in Promise!Kept(log', Floor')
    <3>1. Len(log') = L + 1
      BY <1>6
    <3>2. QED
      BY <1>13, <3>1, Zenon
  <2>4. QED
    BY <1>8, <1>14, <2>1, <2>2, <2>3, Zenon DEF Promise!Post
<1>16. QED
  BY <1>5, <1>15

\* A restart of the daemon empties its backlog; its next numbers are above all
\* that were given.
LEMMA RestartStep ==
  ASSUME Inv, Restart
  PROVE  Inv' /\ Promise!Restart
<1>1. /\ messages' = <<>> /\ followers' = {} /\ pollers' = {} /\ message_id' = message_id + 1
      /\ UNCHANGED <<log, row, at, last_msg, heard, wire>>
  BY DEF Restart, bridge, receiver
<1>2. message_id \in Nat /\ message_id' \in Nat \ {0} /\ log \in Seq(Msg) /\ TypeOK /\ LogOK
  BY <1>1 DEF Inv, TypeOK
<1>3. TypeOK'
  BY <1>1, <1>2 DEF TypeOK
<1>4. \A i \in DOMAIN log : log[i].id \in Nat /\ log[i].id <= message_id
  <2>1. \A i \in DOMAIN log : log[i] \in Msg /\ log[i].id <= message_id
    BY <1>2 DEF LogOK
  <2>2. QED
    BY <2>1 DEF Msg
<1>5. Len(log) \in Nat /\ Len(messages') = 0 /\ DOMAIN messages' = {}
  BY <1>1, <1>2
<1>6. LogOK'
  <2>1. \A i \in DOMAIN log : log[i].id <= message_id'
    BY <1>1, <1>2, <1>4
  <2>2. QED
    BY <1>1, <1>2, <1>5, <2>1, QueueAssumption DEF LogOK
<1>7. Floor' = message_id' /\ Floor \in Nat /\ Floor <= message_id
  BY <1>1, <1>2, FloorIs DEF Floor, FloorOK
<1>8. ASSUME NEW c \in Clients PROVE PlaceOK(c)' /\ WireOK(c)' /\ KnownOK(c)'
  <2>1. PlaceOK(c) /\ WireOK(c) /\ last_msg[c] \in Nat
    BY DEF Inv, TypeOK
  <2>2. PlaceOK(c)'
    BY <1>1, <1>2, <2>1 DEF PlaceOK
  <2>3. \A i \in DOMAIN log : log[i].id <= Floor'
    BY <1>1, <1>2, <1>4, <1>7
  <2>4. WireOK(c)' /\ KnownOK(c)'
    BY <1>1, <2>1, <2>3 DEF WireOK, KnownOK, Covered, Wants, After, Filter
  <2>5. QED
    BY <2>2, <2>4
<1>9. Promise!LastId <= Floor'
  <2>1. CASE log = <<>>
    BY <1>1, <1>2, <1>7, <2>1 DEF Promise!LastId
  <2>2. CASE log # <<>>
    <3>1. Len(log) \in DOMAIN log
      BY <1>2, <2>2
    <3>2. QED
      BY <1>1, <1>2, <1>4, <1>7, <2>2, <3>1 DEF Promise!LastId
  <2>3. QED
    BY <2>1, <2>2
<1>10. Floor' >= Floor
  BY <1>1, <1>2, <1>7
<1>11. QED
  BY <1>1, <1>3, <1>6, <1>8, <1>9, <1>10 DEF Inv, Promise!Restart

\* Every step keeps the invariant and is a step of the promise, or none.
LEMMA StepOK ==
  ASSUME Inv, [Next]_vars
  PROVE  Inv' /\ [Promise!Next]_(Promise!vars)
<1>1. row \in Nat
  BY DEF Inv, TypeOK
<1>2. CASE Restart
  BY <1>2, RestartStep DEF Promise!Next
<1>3. CASE PostEvent
  <2>1. Posted(Sub, row) /\ row' \in Nat
    BY <1>1, <1>3 DEF PostEvent
  <2>2. QED
    BY <1>1, <2>1, PostedStep DEF Promise!Next
<1>4. CASE PostAnswerLost
  <2>1. Posted(Sub, row) /\ row' \in Nat
    BY <1>1, <1>4 DEF PostAnswerLost, bridge
  <2>2. QED
    BY <1>1, <2>1, PostedStep DEF Promise!Next
<1>5. CASE PostOther
  <2>1. Posted(Other, 0) /\ row' \in Nat
    BY <1>1, <1>5 DEF PostOther, bridge
  <2>2. QED
    BY <2>1, PostedStep DEF Promise!Next
<1>6. CASE WriteRow \/ PostFails
  <2>1. UNCHANGED <<messages, message_id, log, followers, pollers, receiver>> /\ row' \in Nat
    BY <1>1, <1>6 DEF WriteRow, PostFails, daemon
  <2>2. QED
    BY <2>1, QuietStep
<1>7. ASSUME NEW c \in Clients, Steps(c) PROVE Inv' /\ [Promise!Next]_(Promise!vars)
  <2>1. CASE TakeLast(c) /\ last_msg' = [last_msg EXCEPT ![c] = message_id]
    BY <2>1, TakeLastStep DEF Promise!Next
  <2>2. CASE \/ Load(c) \/ (TakeLast(c) /\ UNCHANGED last_msg) \/ ReadCases(c)
             \/ WsTimeout(c) \/ WsClosed(c) \/ PollEnds(c)
    BY <2>2, LeaveSteps
  <2>8. TakeLast(c) => \/ last_msg' = [last_msg EXCEPT ![c] = message_id]
                       \/ UNCHANGED last_msg
    BY DEF TakeLast
  <2>3. CASE WsOpen(c)
    BY <2>3, WsOpenStep
  <2>4. CASE Poll(c)
    BY <2>4, PollStep
  <2>5. CASE Receive(c)
    BY <2>5, ReceiveStep DEF Promise!Next
  <2>6. CASE Fetch(c) \/ FetchCases(c) \/ Done(c) \/ Cool(c) \/ FetchFails(c)
    <3>1. UNCHANGED <<messages, message_id, log, followers, pollers, receiver>> /\ row' \in Nat
      BY <1>1, <2>6 DEF Fetch, FetchCases, Done, Cool, FetchFails, daemon, bridge
    <3>2. QED
      BY <3>1, QuietStep
  <2>7. QED
    BY <1>7, <2>1, <2>2, <2>3, <2>4, <2>5, <2>6, <2>8 DEF Steps
<1>8. CASE UNCHANGED vars
  <2>1. UNCHANGED <<messages, message_id, log, followers, pollers, receiver>> /\ row' \in Nat
    BY <1>1, <1>8 DEF vars, daemon, bridge
  <2>2. QED
    BY <2>1, QuietStep
<1>9. QED
  BY <1>2, <1>3, <1>4, <1>5, <1>6, <1>7, <1>8 DEF Next

\* The first state.
LEMMA InitOK == Init => Inv /\ Promise!Init
<1> SUFFICES ASSUME Init PROVE Inv /\ Promise!Init
  OBVIOUS
<1>1. /\ messages = <<>> /\ message_id = 1 /\ followers = {} /\ pollers = {} /\ log = <<>> /\ row = 0
      /\ at = [c \in Clients |-> "away"] /\ last_msg = [c \in Clients |-> 0]
      /\ heard = [c \in Clients |-> 0] /\ wire = [c \in Clients |-> <<>>]
  BY DEF Init
<1>2. <<>> \in Seq(Msg) /\ Len(<<>>) = 0 /\ DOMAIN <<>> = {}
  OBVIOUS
<1>3. TypeOK
  BY <1>1, <1>2 DEF TypeOK, Places
<1>4. LogOK
  BY <1>1, <1>2, QueueAssumption DEF LogOK
<1>5. ASSUME NEW c \in Clients PROVE PlaceOK(c) /\ WireOK(c) /\ KnownOK(c)
  BY <1>1, <1>2 DEF PlaceOK, WireOK, KnownOK
<1>6. Promise!Init
  BY <1>1 DEF Promise!Init, Floor
<1>7. QED
  BY <1>3, <1>4, <1>5, <1>6 DEF Inv

\* A page that the daemon knows misses nothing of the backlog.
LEMMA InvWakes == Inv => NoLostWakeUp
<1> SUFFICES ASSUME Inv, NEW c \in followers \cup pollers, NEW i \in DOMAIN messages,
                    Wants(c, messages[i]), messages[i].id > last_msg[c]
             PROVE  messages[i] \in Range(wire[c])
  BY DEF NoLostWakeUp
<1>1. TypeOK /\ LogOK /\ c \in Clients /\ messages[i] \in Range(messages)
  BY DEF Inv, TypeOK, Range
<1>2. PICK j \in DOMAIN log : messages[i] = log[j] /\ log[j].id > Floor
  BY <1>1, BacklogIs
<1>3. log[j].id <= Floor \/ log[j] \in Range(wire[c])
  BY <1>1, <1>2 DEF Inv, KnownOK, Covered, After
<1>4. log[j].id \in Nat /\ Floor \in Nat
  <2>1. log[j] \in Msg
    BY DEF Inv, TypeOK
  <2>2. QED
    BY <1>1, <2>1, FloorIs DEF FloorOK, Msg
<1>5. QED
  BY <1>2, <1>3, <1>4

-----------------------------------------------------------------------------
(* The theorems.                                                           *)

\* The invariant holds throughout.
LEMMA Invariant == Spec => []Inv
<1>1. Init => Inv
  BY InitOK
<1>2. Inv /\ [Next]_vars => Inv'
  BY StepOK
<1>3. QED
  BY <1>1, <1>2, PTL DEF Spec

\* No lost wake-up (daemon.js, catch_up and post): a poll that waits, or an open
\* websocket, has been sent every message of its channels that is in the backlog
\* and that it has not seen, whatever was posted between its request and the one
\* before.
THEOREM NoWakeUpLost == Spec => []NoLostWakeUp
BY Invariant, InvWakes, PTL

\* The daemon, its two transports and the receiver of a page implement the log:
\* over lost answers, broken connections, repeated posts and restarts of the
\* daemon, a page is handed the messages of its channels in order, each once, and
\* misses only those that left the backlog or were lost with a restart.
THEOREM LogIsImplemented == Spec => ImplementsEventLog
<1>1. Init => Promise!Init
  BY InitOK
<1>2. Inv /\ [Next]_vars => [Promise!Next]_(Promise!vars)
  BY StepOK
<1>3. QED
  BY <1>1, <1>2, Invariant, PTL DEF Spec, ImplementsEventLog, Promise!Spec
=============================================================================
