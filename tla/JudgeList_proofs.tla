--------------------------- MODULE JudgeList_proofs ---------------------------
(***************************************************************************)
(* Proofs about JudgeList, for any number of judges, submissions and       *)
(* tiers: type correctness; that a submission whose dispatches all         *)
(* succeeded is with one judge at most, the one that submission_map names; *)
(* when a judge is sent a second submission; what the reserve spares. And, *)
(* without faults and disabled judges, that no free judge idles beside     *)
(* what it can judge.                                                      *)
(***************************************************************************)
EXTENDS JudgeList, SequenceTheorems, FiniteSetTheorems, WellFoundedInduction, TLAPS

-----------------------------------------------------------------------------
(* Sequences.                                                              *)

\* Removing an entry of the queue keeps the others, in order.
LEMMA RemoveAtKeeps ==
  ASSUME NEW S, NEW q \in Seq(S), NEW i \in 1..Len(q)
  PROVE  /\ RemoveAt(q, i) \in Seq(S)
         /\ Len(RemoveAt(q, i)) = Len(q) - 1
         /\ \A j \in 1..(Len(q) - 1) :
              RemoveAt(q, i)[j] = IF j < i THEN q[j] ELSE q[j + 1]
<1> DEFINE front == SubSeq(q, 1, i - 1)
           back == SubSeq(q, i + 1, Len(q))
<1>1. front \in Seq(S) /\ Len(front) = i - 1 /\ \A j \in 1..(i - 1) : front[j] = q[j]
  OBVIOUS
<1>2. /\ back \in Seq(S) /\ Len(back) = Len(q) - i
      /\ \A j \in 1..(Len(q) - i) : back[j] = q[j + i]
  OBVIOUS
<1>3. RemoveAt(q, i) = front \o back
  BY DEF RemoveAt
<1> HIDE DEF front, back
<1>4. front \o back \in Seq(S)
  BY <1>1, <1>2
<1>5. Len(front \o back) = Len(q) - 1
  <2>1. Len(front \o back) = Len(front) + Len(back)
    BY <1>1, <1>2, ConcatProperties
  <2>2. Len(q) \in Nat
    OBVIOUS
  <2>3. QED
    BY <1>1, <1>2, <2>1, <2>2
<1>6. ASSUME NEW j \in 1..(Len(q) - 1)
      PROVE  (front \o back)[j] = IF j < i THEN q[j] ELSE q[j + 1]
  <2>1. CASE j < i
    BY <1>1, <1>2, <2>1
  <2>2. CASE ~(j < i)
    <3>1. (front \o back)[j] = back[j - (i - 1)]
      BY <1>1, <1>2, <2>2
    <3>2. j - (i - 1) \in 1..(Len(q) - i)
      BY <2>2
    <3>3. QED
      BY <1>2, <2>2, <3>1, <3>2
  <2>3. QED
    BY <2>1, <2>2
<1>7. QED
  BY <1>3, <1>4, <1>5, <1>6

\* Appending an entry keeps the others.
LEMMA AppendKeeps ==
  ASSUME NEW S, NEW q \in Seq(S), NEW e \in S
  PROVE  /\ Append(q, e) \in Seq(S)
         /\ Len(Append(q, e)) = Len(q) + 1
         /\ \A j \in 1..Len(q) : Append(q, e)[j] = q[j]
         /\ Append(q, e)[Len(q) + 1] = e
OBVIOUS

-----------------------------------------------------------------------------
(* The queue.                                                              *)

QueueType == [Priorities -> Seq(Entry)]

\* Taking entry i of class p out: every entry left was there before, at a
\* position of its own, and none is the one taken.
LEMMA QueueRemoval ==
  ASSUME NEW q \in QueueType, NEW p \in Priorities, NEW i \in 1..Len(q[p]),
         NoDuplicates(q)
  PROVE  LET r == [q EXCEPT ![p] = RemoveAt(@, i)] IN
         /\ r \in QueueType
         /\ NoDuplicates(r)
         /\ \A s \in Subs : InQueue(r, s) => InQueue(q, s) /\ s # q[p][i].id
<1> DEFINE r == [q EXCEPT ![p] = RemoveAt(@, i)]
           old(k, j) == IF k = p /\ j >= i THEN j + 1 ELSE j
<1>1. /\ RemoveAt(q[p], i) \in Seq(Entry)
      /\ Len(RemoveAt(q[p], i)) = Len(q[p]) - 1
      /\ \A j \in 1..(Len(q[p]) - 1) :
           RemoveAt(q[p], i)[j] = IF j < i THEN q[p][j] ELSE q[p][j + 1]
  BY RemoveAtKeeps DEF QueueType
<1>2. r \in QueueType
  BY <1>1 DEF QueueType
<1>3. ASSUME NEW k \in Priorities, NEW j \in 1..Len(r[k])
      PROVE  /\ old(k, j) \in 1..Len(q[k])
             /\ r[k][j] = q[k][old(k, j)]
             /\ ~(k = p /\ old(k, j) = i)
  <2>1. CASE k = p
    BY <1>1, <2>1 DEF QueueType
  <2>2. CASE k # p
    BY <2>2 DEF QueueType
  <2>3. QED
    BY <2>1, <2>2
<1> HIDE DEF r
<1>4. NoDuplicates(r)
  <2> SUFFICES ASSUME NEW p1 \in Priorities, NEW p2 \in Priorities,
                      NEW j1 \in 1..Len(r[p1]), NEW j2 \in 1..Len(r[p2]),
                      r[p1][j1].id = r[p2][j2].id
               PROVE  p1 = p2 /\ j1 = j2
    BY DEF NoDuplicates
  <2>1. /\ old(p1, j1) \in 1..Len(q[p1]) /\ r[p1][j1] = q[p1][old(p1, j1)]
        /\ old(p2, j2) \in 1..Len(q[p2]) /\ r[p2][j2] = q[p2][old(p2, j2)]
    BY <1>3
  <2> HIDE DEF old
  <2>2. p1 = p2 /\ old(p1, j1) = old(p2, j2)
    BY <2>1 DEF NoDuplicates
  <2> USE DEF old
  <2>3. QED
    BY <2>2
<1>5. ASSUME NEW s \in Subs, InQueue(r, s)
      PROVE  InQueue(q, s) /\ s # q[p][i].id
  <2>1. PICK k \in Priorities : \E j \in 1..Len(r[k]) : r[k][j].id = s
    BY <1>5 DEF InQueue
  <2>2. PICK j \in 1..Len(r[k]) : r[k][j].id = s
    BY <2>1
  <2> DEFINE h == old(k, j)
  <2>3. h \in 1..Len(q[k]) /\ q[k][h].id = s /\ ~(k = p /\ h = i)
    BY <1>3, <2>2
  <2> HIDE DEF h
  <2>4. InQueue(q, s)
    BY <2>3 DEF InQueue
  <2>5. s # q[p][i].id
    BY <2>3 DEF NoDuplicates
  <2>6. QED
    BY <2>4, <2>5
<1>6. QED
  BY <1>2, <1>4, <1>5 DEF r

\* Appending the entry of a submission that has none to a class.
LEMMA QueueInsertion ==
  ASSUME NEW q \in QueueType, NEW p \in Priorities, NEW e \in Entry,
         NoDuplicates(q), ~InQueue(q, e.id)
  PROVE  LET r == [q EXCEPT ![p] = Append(@, e)] IN
         /\ r \in QueueType
         /\ NoDuplicates(r)
         /\ \A s \in Subs : InQueue(r, s) => InQueue(q, s) \/ s = e.id
<1> DEFINE r == [q EXCEPT ![p] = Append(@, e)]
<1>1. /\ Append(q[p], e) \in Seq(Entry)
      /\ Len(Append(q[p], e)) = Len(q[p]) + 1
      /\ \A j \in 1..Len(q[p]) : Append(q[p], e)[j] = q[p][j]
      /\ Append(q[p], e)[Len(q[p]) + 1] = e
  BY AppendKeeps DEF QueueType
<1>2. r \in QueueType
  BY <1>1 DEF QueueType
<1>3. ASSUME NEW k \in Priorities, NEW j \in 1..Len(r[k])
      PROVE  \/ j \in 1..Len(q[k]) /\ r[k][j] = q[k][j]
             \/ k = p /\ j = Len(q[p]) + 1 /\ r[k][j] = e
  <2>1. CASE k = p
    <3>1. Len(q[p]) \in Nat
      BY DEF QueueType
    <3>2. r[k] = Append(q[p], e)
      BY <2>1 DEF QueueType
    <3>3. QED
      BY <1>1, <2>1, <3>1, <3>2
  <2>2. CASE k # p
    BY <2>2 DEF QueueType
  <2>3. QED
    BY <2>1, <2>2
<1>4. NoDuplicates(r)
  <2> SUFFICES ASSUME NEW p1 \in Priorities, NEW p2 \in Priorities,
                      NEW j1 \in 1..Len(r[p1]), NEW j2 \in 1..Len(r[p2]),
                      r[p1][j1].id = r[p2][j2].id
               PROVE  p1 = p2 /\ j1 = j2
    BY DEF NoDuplicates
  <2> QED
    BY <1>3 DEF NoDuplicates, InQueue
<1>5. ASSUME NEW s \in Subs, InQueue(r, s)
      PROVE  InQueue(q, s) \/ s = e.id
  BY <1>3, <1>5 DEF InQueue
<1>6. QED
  BY <1>2, <1>4, <1>5

-----------------------------------------------------------------------------
(* One dispatch.                                                           *)

\* A dispatch that succeeds hands c a submission nobody has, and leaves the
\* three maps in agreement.
LEMMA SubmitSucceedsConsistent ==
  ASSUME NEW c \in Conns, NEW s \in Subs, NEW r,
         NEW m \in MapType, NEW w \in WorkingType, NEW o \in SentType,
         ListTypeOK,
         Consistent(queue, m, w, o, failed),
         s \in failed \/ m[s] = NoConn,
         \A t \in Subs : InQueue(r, t) => InQueue(queue, t) /\ t # s,
         SubmitSucceeds(c, s, m, w, o)
  PROVE  /\ submission_map' \in MapType /\ working' \in WorkingType /\ sent' \in SentType
         /\ Consistent(r, submission_map', working', sent', failed')
<1>1. /\ submission_map' = [m EXCEPT ![s] = c]
      /\ working' = [w EXCEPT ![c] = s]
      /\ sent' = [o EXCEPT ![c] = @ \cup {s}]
      /\ failed' = failed
  BY DEF SubmitSucceeds
<1>2. submission_map' \in MapType /\ working' \in WorkingType /\ sent' \in SentType
  BY <1>1 DEF MapType, WorkingType, SentType
<1>3. ASSUME NEW t \in Subs \ failed
      PROVE  /\ \A d \in Conns : t \in sent'[d] => submission_map'[t] = d
             /\ \A d \in Conns : working'[d] = t => t \in sent'[d]
             /\ InQueue(r, t) => submission_map'[t] = NoConn
  <2>1. /\ \A d \in Conns : t \in o[d] => m[t] = d
        /\ \A d \in Conns : w[d] = t => t \in o[d]
        /\ InQueue(queue, t) => m[t] = NoConn
    BY DEF Consistent
  <2>2. \A d \in Conns : t \in sent'[d] => submission_map'[t] = d
    BY <1>1, <2>1, ConstantsAssumption DEF MapType, SentType
  <2>3. \A d \in Conns : working'[d] = t => t \in sent'[d]
    BY <1>1, <2>1 DEF WorkingType, SentType
  <2>4. InQueue(r, t) => submission_map'[t] = NoConn
    BY <1>1, <2>1 DEF MapType
  <2>5. QED
    BY <2>2, <2>3, <2>4
<1>4. QED
  BY <1>1, <1>2, <1>3 DEF Consistent

\* A dispatch that raises only unsettles the submission it was for.
LEMMA SubmitRaisesConsistent ==
  ASSUME NEW c \in Conns, NEW s \in Subs,
         NEW m \in MapType, NEW w \in WorkingType, NEW o \in SentType,
         ListTypeOK,
         Consistent(queue, m, w, o, failed),
         SubmitRaises(c, s, m, w, o)
  PROVE  /\ submission_map' \in MapType /\ working' \in WorkingType /\ sent' \in SentType
         /\ Consistent(queue, submission_map', working', sent', failed')
<1>1. /\ submission_map' = [m EXCEPT ![s] = c]
      /\ working' \in {w, [w EXCEPT ![c] = s]}
      /\ sent' = o
      /\ failed' = failed \cup {s}
  BY DEF SubmitRaises
<1>2. submission_map' \in MapType /\ working' \in WorkingType /\ sent' \in SentType
  BY <1>1 DEF MapType, WorkingType, SentType
<1>3. ASSUME NEW t \in Subs \ failed'
      PROVE  /\ \A d \in Conns : t \in sent'[d] => submission_map'[t] = d
             /\ \A d \in Conns : working'[d] = t => t \in sent'[d]
             /\ InQueue(queue, t) => submission_map'[t] = NoConn
  <2>1. /\ \A d \in Conns : t \in o[d] => m[t] = d
        /\ \A d \in Conns : w[d] = t => t \in o[d]
        /\ InQueue(queue, t) => m[t] = NoConn
    BY <1>1 DEF Consistent
  <2>2. t # s
    BY <1>1
  <2>3. submission_map'[t] = m[t]
    BY <1>1, <2>2 DEF MapType
  <2>4. \A d \in Conns : working'[d] = t => w[d] = t
    BY <1>1, <2>2 DEF WorkingType
  <2>5. QED
    BY <1>1, <2>1, <2>3, <2>4
<1>4. QED
  BY <1>2, <1>3 DEF Consistent

\* The counters and the pool keep their types in either case.
LEMMA SubmitTypes ==
  ASSUME NEW c \in Conns, NEW s \in Subs, NEW m, NEW w, NEW o, ListTypeOK,
         SubmitSucceeds(c, s, m, w, o) \/ SubmitRaises(c, s, m, w, o)
  PROVE  judges' \subseteq Conns /\ faults' \in 0..MaxFaults /\ failed' \subseteq Subs
BY ConstantsAssumption DEF SubmitSucceeds, SubmitRaises, ListTypeOK

-----------------------------------------------------------------------------
(* Offering the queue to one judge.                                        *)

ListIInv ==
  /\ ListTypeOK
  /\ NoDuplicates(queue)
  /\ Consistent(queue, submission_map, working, sent, failed)

\* Offering the queue to a judge keeps the part of the invariant about the queue
\* and the maps, whatever maps the caller leaves it.
LEMMA HandleFreeJudgeInv ==
  ASSUME NEW c \in Conns,
         NEW m \in MapType, NEW w \in WorkingType, NEW o \in SentType,
         ListTypeOK,
         NoDuplicates(queue),
         Consistent(queue, m, w, o, failed),
         HandleFreeJudge(c, m, w, o)
  PROVE  ListIInv'
<1>1. CASE \E p \in Priorities : \E i \in 1..Len(queue[p]) :
             /\ \/ /\ SubmitSucceeds(c, queue[p][i].id, m, w, o)
                   /\ queue' = [queue EXCEPT ![p] = RemoveAt(@, i)]
                \/ /\ SubmitRaises(c, queue[p][i].id, m, w, o)
                   /\ UNCHANGED queue
  <2>1. PICK p \in Priorities : \E i \in 1..Len(queue[p]) :
             /\ \/ /\ SubmitSucceeds(c, queue[p][i].id, m, w, o)
                   /\ queue' = [queue EXCEPT ![p] = RemoveAt(@, i)]
                \/ /\ SubmitRaises(c, queue[p][i].id, m, w, o)
                   /\ UNCHANGED queue
    BY <1>1
  <2>2. PICK i \in 1..Len(queue[p]) :
             /\ \/ /\ SubmitSucceeds(c, queue[p][i].id, m, w, o)
                   /\ queue' = [queue EXCEPT ![p] = RemoveAt(@, i)]
                \/ /\ SubmitRaises(c, queue[p][i].id, m, w, o)
                   /\ UNCHANGED queue
    BY <2>1
  <2> DEFINE s == queue[p][i].id
  <2>3. queue \in QueueType /\ s \in Subs /\ InQueue(queue, s)
    <3>1. queue \in QueueType /\ queue[p] \in Seq(Entry)
      BY DEF ListTypeOK, QueueType
    <3>2. queue[p][i] \in Entry
      BY <3>1, ElementOfSeq
    <3>3. QED
      BY <3>1, <3>2 DEF Entry, InQueue
  <2>4. s \in failed \/ m[s] = NoConn
    BY <2>3 DEF Consistent
  <2> HIDE DEF s
  <2>5. CASE SubmitSucceeds(c, s, m, w, o) /\ queue' = [queue EXCEPT ![p] = RemoveAt(@, i)]
    <3>1. /\ queue' \in QueueType
          /\ NoDuplicates(queue')
          /\ \A t \in Subs : InQueue(queue', t) => InQueue(queue, t) /\ t # s
      BY <2>3, <2>5, QueueRemoval DEF s
    <3>2. /\ submission_map' \in MapType /\ working' \in WorkingType /\ sent' \in SentType
          /\ Consistent(queue', submission_map', working', sent', failed')
      BY <2>3, <2>4, <2>5, <3>1, SubmitSucceedsConsistent
    <3>3. judges' \subseteq Conns /\ faults' \in 0..MaxFaults /\ failed' \subseteq Subs
      BY <2>3, <2>5, SubmitTypes
    <3>4. QED
      BY <3>1, <3>2, <3>3 DEF ListIInv, ListTypeOK, QueueType
  <2>6. CASE SubmitRaises(c, s, m, w, o) /\ UNCHANGED queue
    <3>1. /\ submission_map' \in MapType /\ working' \in WorkingType /\ sent' \in SentType
          /\ Consistent(queue, submission_map', working', sent', failed')
      BY <2>3, <2>6, SubmitRaisesConsistent
    <3>2. judges' \subseteq Conns /\ faults' \in 0..MaxFaults /\ failed' \subseteq Subs
      BY <2>3, <2>6, SubmitTypes
    <3>3. QED
      BY <2>6, <3>1, <3>2 DEF ListIInv, ListTypeOK
  <2>7. QED
    BY <2>2, <2>5, <2>6 DEF s
<1>2. CASE /\ submission_map' = m /\ working' = w /\ sent' = o
           /\ UNCHANGED <<queue, judges, faults, failed>>
  BY <1>2 DEF ListIInv, ListTypeOK
<1>3. QED
  BY <1>1, <1>2 DEF HandleFreeJudge, Served

-----------------------------------------------------------------------------
(* The actions.                                                            *)

\* The daemon starts with an empty pool and queue, where the invariant holds.
LEMMA InitInv == Init => IInv
<1> SUFFICES ASSUME Init
             PROVE  IInv
  OBVIOUS
<1>1. ListTypeOK
  BY ConstantsAssumption DEF Init, ListTypeOK, MapType, WorkingType, SentType
<1>2. TypeOK
  BY <1>1, ConstantsAssumption DEF Init, TypeOK, NoResume
<1>3. NoDuplicates(queue)
  BY DEF Init, NoDuplicates
<1>4. Consistent(queue, submission_map, working, sent, failed)
  BY ConstantsAssumption DEF Init, Consistent, InQueue
<1>5. QED
  BY <1>2, <1>3, <1>4 DEF IInv

\* A request enters the pool or the queue only when neither has the submission.
LEMMA JudgeInv ==
  ASSUME ListIInv, NEW s \in Subs, NEW t \in Targets, NEW p \in RequestPriorities,
         Judge(s, t, p)
  PROVE  ListIInv'
<1>1. /\ queue \in QueueType /\ ListTypeOK /\ NoDuplicates(queue)
      /\ submission_map \in MapType /\ working \in WorkingType /\ sent \in SentType
      /\ Consistent(queue, submission_map, working, sent, failed)
  BY DEF ListIInv, ListTypeOK, QueueType
<1>2. submission_map[s] = NoConn /\ ~InQueue(queue, s)
  BY DEF Judge, Known, Queued
<1>3. ASSUME NEW c \in Conns, SubmitSucceeds(c, s, submission_map, working, sent),
             UNCHANGED queue
      PROVE  ListIInv'
  <2>1. /\ submission_map' \in MapType /\ working' \in WorkingType /\ sent' \in SentType
        /\ Consistent(queue, submission_map', working', sent', failed')
    BY <1>1, <1>2, <1>3, SubmitSucceedsConsistent
  <2>2. judges' \subseteq Conns /\ faults' \in 0..MaxFaults /\ failed' \subseteq Subs
    BY <1>1, <1>3, SubmitTypes
  <2>3. QED
    BY <1>1, <1>3, <2>1, <2>2 DEF ListIInv, ListTypeOK
<1>4. ASSUME NEW c \in Conns, SubmitRaises(c, s, submission_map, working, sent),
             UNCHANGED queue
      PROVE  ListIInv'
  <2>1. /\ submission_map' \in MapType /\ working' \in WorkingType /\ sent' \in SentType
        /\ Consistent(queue, submission_map', working', sent', failed')
    BY <1>1, <1>4, SubmitRaisesConsistent
  <2>2. judges' \subseteq Conns /\ faults' \in 0..MaxFaults /\ failed' \subseteq Subs
    BY <1>1, <1>4, SubmitTypes
  <2>3. QED
    BY <1>1, <1>4, <2>1, <2>2 DEF ListIInv, ListTypeOK
<1>5. ASSUME Enqueue(s, t, p)
      PROVE  ListIInv'
  <2> DEFINE e == [id |-> s, judge_id |-> t]
  <2>1. e \in Entry /\ e.id = s /\ p \in Priorities
    BY ConstantsAssumption DEF Entry
  <2> HIDE DEF e
  <2>2. queue' = [queue EXCEPT ![p] = Append(@, e)]
    BY <1>5 DEF Enqueue, e
  <2>3. /\ queue' \in QueueType
        /\ NoDuplicates(queue')
        /\ \A u \in Subs : InQueue(queue', u) => InQueue(queue, u) \/ u = s
    BY <1>1, <1>2, <2>1, <2>2, QueueInsertion
  <2>4. UNCHANGED <<submission_map, judges, working, sent, faults, failed>>
    BY <1>5 DEF Enqueue
  <2>5. Consistent(queue', submission_map, working, sent, failed)
    BY <1>1, <1>2, <2>3 DEF Consistent
  <2>6. QED
    BY <1>1, <2>3, <2>4, <2>5 DEF ListIInv, ListTypeOK, QueueType
<1>6. Available(s, t, p) \subseteq Conns
  BY <1>1 DEF Available, Candidates, CurrentTierJudges, ListTypeOK
<1>7. QED
  BY <1>3, <1>4, <1>5, <1>6 DEF Judge

\* Taking a submission back from the queue disturbs no other entry.
LEMMA AbortInv ==
  ASSUME ListIInv, NEW s \in Subs, Abort(s)
  PROVE  ListIInv'
<1>1. PICK p \in Priorities : \E i \in 1..Len(queue[p]) :
        queue' = [queue EXCEPT ![p] = RemoveAt(@, i)]
  BY DEF Abort
<1>2. PICK i \in 1..Len(queue[p]) : queue' = [queue EXCEPT ![p] = RemoveAt(@, i)]
  BY <1>1
<1>3. /\ queue' \in QueueType
      /\ NoDuplicates(queue')
      /\ \A t \in Subs : InQueue(queue', t) => InQueue(queue, t)
  BY <1>2, QueueRemoval DEF ListIInv, ListTypeOK, QueueType
<1>4. UNCHANGED <<submission_map, judges, working, sent, faults, failed>>
  BY DEF Abort
<1>5. Consistent(queue', submission_map, working, sent, failed)
  BY <1>3 DEF ListIInv, Consistent
<1>6. QED
  BY <1>3, <1>4, <1>5 DEF ListIInv, ListTypeOK, QueueType

\* The end of s takes it from the maps of every judge, c alone having it.
LEMMA OnJudgeFreeInv ==
  ASSUME ListIInv, NEW c \in Conns, NEW s \in Subs, OnJudgeFree(c, s)
  PROVE  ListIInv'
<1> DEFINE m == [submission_map EXCEPT ![s] = NoConn]
           w == [working EXCEPT ![c] = NoSub]
           o == [sent EXCEPT ![c] = @ \ {s}]
<1>1. /\ ListTypeOK /\ NoDuplicates(queue)
      /\ submission_map \in MapType /\ working \in WorkingType /\ sent \in SentType
      /\ s \in sent[c]
  BY DEF ListIInv, ListTypeOK, OnJudgeFree
<1>2. m \in MapType /\ w \in WorkingType /\ o \in SentType
  BY <1>1 DEF MapType, WorkingType, SentType
<1>3. ASSUME NEW t \in Subs \ failed
      PROVE  /\ \A d \in Conns : t \in sent[d] => submission_map[t] = d
             /\ \A d \in Conns : working[d] = t => t \in sent[d]
             /\ InQueue(queue, t) => submission_map[t] = NoConn
  BY DEF ListIInv, Consistent
<1>4. CASE submission_map[s] = NoConn
  <2>1. /\ sent' = o
        /\ UNCHANGED <<queue, submission_map, judges, working, faults, failed>>
    BY <1>4 DEF OnJudgeFree
  <2>2. s \in failed
    BY <1>1, <1>3, <1>4, ConstantsAssumption
  <2>3. Consistent(queue, submission_map, working, o, failed)
    BY <1>1, <1>3, <2>2 DEF Consistent, SentType
  <2>4. QED
    BY <1>1, <1>2, <2>1, <2>3 DEF ListIInv, ListTypeOK
<1>5. CASE submission_map[s] # NoConn
  <2>1. HandleFreeJudge(c, m, w, o)
    BY <1>5 DEF OnJudgeFree
  <2>2. Consistent(queue, m, w, o, failed)
    <3> SUFFICES ASSUME NEW t \in Subs \ failed
                 PROVE  /\ \A d \in Conns : t \in o[d] => m[t] = d
                        /\ \A d \in Conns : w[d] = t => t \in o[d]
                        /\ InQueue(queue, t) => m[t] = NoConn
      BY DEF Consistent
    <3>1. \A d \in Conns : t \in o[d] => m[t] = d
      BY <1>1, <1>3 DEF MapType, SentType
    <3>2. \A d \in Conns : w[d] = t => t \in o[d]
      <4> SUFFICES ASSUME NEW d \in Conns, w[d] = t
                   PROVE  t \in o[d]
        OBVIOUS
      <4>1. d # c /\ working[d] = t
        BY <1>1, ConstantsAssumption DEF WorkingType
      <4>2. QED
        BY <1>1, <1>3, <4>1 DEF SentType
    <3>3. InQueue(queue, t) => m[t] = NoConn
      BY <1>1, <1>3 DEF MapType
    <3>4. QED
      BY <3>1, <3>2, <3>3
  <2> HIDE DEF m, w, o
  <2>3. QED
    BY <1>1, <1>2, <2>1, <2>2, HandleFreeJudgeInv
<1>6. QED
  BY <1>4, <1>5

\* A departure clears the entry of _working, which is the leaver's own.
LEMMA RemoveJudgeInv ==
  ASSUME ListIInv, NEW c \in Conns, RemoveJudge(c)
  PROVE  ListIInv'
<1>1. /\ ListTypeOK /\ NoDuplicates(queue)
      /\ submission_map \in MapType /\ working \in WorkingType /\ sent \in SentType
  BY DEF ListIInv, ListTypeOK
<1>2. /\ submission_map' = [s \in Subs |-> IF s = working[c] THEN NoConn
                                           ELSE IF submission_map[s] = c THEN Gone
                                           ELSE submission_map[s]]
      /\ working' = [working EXCEPT ![c] = NoSub]
      /\ sent' = [sent EXCEPT ![c] = {}]
      /\ judges' = judges \ {c}
      /\ UNCHANGED <<queue, faults, failed>>
  BY DEF RemoveJudge
<1>3. submission_map' \in MapType /\ working' \in WorkingType /\ sent' \in SentType
  BY <1>1, <1>2 DEF MapType, WorkingType, SentType
<1>4. ASSUME NEW t \in Subs \ failed
      PROVE  /\ \A d \in Conns : t \in sent'[d] => submission_map'[t] = d
             /\ \A d \in Conns : working'[d] = t => t \in sent'[d]
             /\ InQueue(queue, t) => submission_map'[t] = NoConn
  <2>1. /\ \A d \in Conns : t \in sent[d] => submission_map[t] = d
        /\ \A d \in Conns : working[d] = t => t \in sent[d]
        /\ InQueue(queue, t) => submission_map[t] = NoConn
    BY DEF ListIInv, Consistent
  <2>2. \A d \in Conns : t \in sent'[d] => submission_map'[t] = d
    BY <1>1, <1>2, <2>1 DEF MapType, WorkingType, SentType
  <2>3. \A d \in Conns : working'[d] = t => t \in sent'[d]
    <3> SUFFICES ASSUME NEW d \in Conns, working'[d] = t
                 PROVE  t \in sent'[d]
      OBVIOUS
    <3>1. d # c /\ working[d] = t
      BY <1>1, <1>2, ConstantsAssumption DEF WorkingType
    <3>2. QED
      BY <1>1, <1>2, <2>1, <3>1 DEF SentType
  <2>4. InQueue(queue, t) => submission_map'[t] = NoConn
    BY <1>1, <1>2, <2>1, ConstantsAssumption DEF MapType
  <2>5. QED
    BY <2>2, <2>3, <2>4
<1>5. QED
  BY <1>1, <1>2, <1>3, <1>4 DEF ListIInv, ListTypeOK, Consistent

\* Every step preserves the part of the invariant about the queue and the maps.
LEMMA NextListInv ==
  ASSUME TypeOK, ListIInv, [Next]_vars
  PROVE  ListIInv'
<1>1. /\ ListTypeOK /\ NoDuplicates(queue)
      /\ submission_map \in MapType /\ working \in WorkingType /\ sent \in SentType
      /\ Consistent(queue, submission_map, working, sent, failed)
  BY DEF ListIInv, ListTypeOK
<1>2. ASSUME UNCHANGED listVars
      PROVE  ListIInv'
  BY <1>2 DEF ListIInv, ListTypeOK, listVars
<1>3. ASSUME NEW s \in Subs, NEW t \in Targets, NEW p \in RequestPriorities, Judge(s, t, p)
      PROVE  ListIInv'
  BY <1>3, JudgeInv
<1>4. ASSUME NEW s \in Subs, Abort(s)
      PROVE  ListIInv'
  BY <1>4, AbortInv
<1>5. ASSUME NEW n \in Names, Disconnect(n)
      PROVE  ListIInv'
  <2>1. /\ faults' \in 0..MaxFaults
        /\ UNCHANGED <<queue, submission_map, judges, working, sent, failed>>
    BY <1>1, <1>5, ConstantsAssumption DEF Disconnect, ListTypeOK
  <2>2. QED
    BY <1>1, <2>1 DEF ListIInv, ListTypeOK
<1>6. ASSUME NEW n \in Names, UpdateDisableJudge(n) \/ SaveDisabled(n)
      PROVE  ListIInv'
  BY <1>2, <1>6 DEF UpdateDisableJudge, SaveDisabled
<1>7. ASSUME NEW c \in Conns, NEW P \in ProblemSets, Register(c, P)
      PROVE  ListIInv'
  <2>1. /\ judges' \subseteq Conns
        /\ UNCHANGED <<queue, submission_map, working, sent, faults, failed>>
    BY <1>1, <1>7 DEF Register, ListTypeOK
  <2>2. QED
    BY <1>1, <2>1 DEF ListIInv, ListTypeOK
<1>8. ASSUME NEW c \in Conns, NEW P \in ProblemSets, SupportedProblems(c, P)
      PROVE  ListIInv'
  BY <1>2, <1>8 DEF SupportedProblems
<1>9. ASSUME NEW c \in Conns, Connected(c) \/ SaveRow(c)
      PROVE  ListIInv'
  BY <1>2, <1>9 DEF Connected, SaveRow
<1>10. ASSUME NEW c \in Conns, UpdateProblems(c)
       PROVE  ListIInv'
  BY <1>1, <1>10, HandleFreeJudgeInv DEF UpdateProblems
<1>11. ASSUME NEW c \in Conns, NEW s \in Subs, OnJudgeFree(c, s)
       PROVE  ListIInv'
  BY <1>11, OnJudgeFreeInv
<1>12. ASSUME NEW c \in Conns, RemoveJudge(c)
       PROVE  ListIInv'
  BY <1>12, RemoveJudgeInv
<1>13. ASSUME NEW c \in Conns, OfferFreeJudge(c)
       PROVE  ListIInv'
  BY <1>1, <1>2, <1>13, HandleFreeJudgeInv DEF OfferFreeJudge
<1>14. ASSUME OfferRegistered
       PROVE  ListIInv'
  <2>1. resume.judge \in Conns
    BY <1>14 DEF OfferRegistered, TypeOK, NoResume
  <2>2. QED
    BY <1>1, <1>14, <2>1, HandleFreeJudgeInv DEF OfferRegistered
<1>15. ASSUME OfferSoleJudge
       PROVE  ListIInv'
  <2>1. CASE UNCHANGED listVars
    BY <1>2, <2>1
  <2>2. CASE ~UNCHANGED listVars
    <3>1. PICK c \in CurrentTierJudges :
            HandleFreeJudge(c, submission_map, working, sent)
      BY <1>15, <2>2 DEF OfferSoleJudge, SoleJudge
    <3>2. c \in Conns
      BY <1>1 DEF CurrentTierJudges, ListTypeOK
    <3>3. QED
      BY <1>1, <3>1, <3>2, HandleFreeJudgeInv
  <2>3. QED
    BY <2>1, <2>2
<1>16. CASE UNCHANGED vars
  BY <1>2, <1>16 DEF vars
<1>17. QED
  BY <1>3, <1>4, <1>5, <1>6, <1>7, <1>8, <1>9, <1>10, <1>11, <1>12, <1>13, <1>14,
     <1>15, <1>16, ConstantsAssumption
     DEF Next, Request, Administer, Handle, HoldLock

-----------------------------------------------------------------------------
(* Types of the other variables.                                           *)

OtherTypeOK ==
  /\ min_tier \in Tiers \cup {NoTier}
  /\ is_disabled \in [Conns -> BOOLEAN]
  /\ problems \in [Conns -> SUBSET Problems]
  /\ pc \in [Conns -> {"off", "handshake", "enabling", "disabling", "up", "updating"}]
  /\ offers \subseteq Conns
  /\ resume \in {NoResume} \cup [op : {"register", "remove"}, judge : Conns]
  /\ closed \subseteq Conns
  /\ row_disabled \in [Names -> BOOLEAN]
  /\ toggle \in (Names \X BOOLEAN) \cup {NoName}

\* Every step keeps the types of the variables outside the queue and the maps.
LEMMA NextOtherType ==
  ASSUME TypeOK, [Next]_vars
  PROVE  OtherTypeOK'
<1>1. /\ OtherTypeOK /\ judges \subseteq Conns
  BY DEF TypeOK, OtherTypeOK, ListTypeOK
<1>2. ASSUME UNCHANGED <<min_tier, offers, resume, connVars, dbVars>>
      PROVE  OtherTypeOK'
  BY <1>1, <1>2 DEF OtherTypeOK, connVars, dbVars
<1>3. CASE Request
  BY <1>2, <1>3 DEF Request, Judge, Abort
<1>4. ASSUME NEW n \in Names, UpdateDisableJudge(n)
      PROVE  OtherTypeOK'
  BY <1>1, <1>4 DEF UpdateDisableJudge, UpdateMinTier, OtherTypeOK, connVars, dbVars
<1>5. ASSUME NEW n \in Names, SaveDisabled(n)
      PROVE  OtherTypeOK'
  BY <1>1, <1>5 DEF SaveDisabled, OtherTypeOK, connVars, dbVars
<1>6. ASSUME NEW n \in Names, Disconnect(n)
      PROVE  OtherTypeOK'
  BY <1>1, <1>6 DEF Disconnect, OtherTypeOK, connVars, dbVars
<1>7. ASSUME NEW c \in Conns, NEW P \in ProblemSets, Register(c, P)
      PROVE  OtherTypeOK'
  <2>1. P \in SUBSET Problems
    BY ConstantsAssumption
  <2>2. QED
    BY <1>1, <1>7, <2>1
       DEF Register, UpdateMinTier, SameNameJudges, OtherTypeOK, connVars, dbVars
<1>8. ASSUME NEW c \in Conns, NEW P \in ProblemSets, SupportedProblems(c, P)
      PROVE  OtherTypeOK'
  <2>1. P \in SUBSET Problems
    BY ConstantsAssumption
  <2>2. QED
    BY <1>1, <1>8, <2>1 DEF SupportedProblems, OtherTypeOK, connVars, dbVars
<1>9. ASSUME NEW c \in Conns, Connected(c) \/ SaveRow(c)
      PROVE  OtherTypeOK'
  <2>1. NameOf[c] \in Names /\ row_disabled[NameOf[c]] \in BOOLEAN
    BY <1>1, ConstantsAssumption DEF OtherTypeOK
  <2>2. QED
    BY <1>1, <1>9, <2>1 DEF Connected, SaveRow, OtherTypeOK, connVars, dbVars
<1>10. ASSUME NEW c \in Conns, UpdateProblems(c)
       PROVE  OtherTypeOK'
  BY <1>1, <1>10 DEF UpdateProblems, OtherTypeOK, connVars, dbVars
<1>11. ASSUME NEW c \in Conns, NEW s \in Subs, OnJudgeFree(c, s)
       PROVE  OtherTypeOK'
  BY <1>2, <1>11 DEF OnJudgeFree
<1>12. ASSUME NEW c \in Conns, RemoveJudge(c)
       PROVE  OtherTypeOK'
  BY <1>1, <1>12 DEF RemoveJudge, UpdateMinTier, OtherTypeOK, connVars, dbVars
<1>13. ASSUME NEW c \in Conns, OfferFreeJudge(c)
       PROVE  OtherTypeOK'
  BY <1>1, <1>13 DEF OfferFreeJudge, OtherTypeOK, connVars, dbVars
<1>14. CASE OfferRegistered \/ OfferSoleJudge
  BY <1>1, <1>14, ConstantsAssumption
     DEF OfferRegistered, OfferSoleJudge, NoResume, OtherTypeOK, connVars, dbVars
<1>15. CASE UNCHANGED vars
  BY <1>2, <1>15 DEF vars
<1>16. QED
  BY <1>3, <1>4, <1>5, <1>6, <1>7, <1>8, <1>9, <1>10, <1>11, <1>12, <1>13, <1>14,
     <1>15, ConstantsAssumption
     DEF Next, Administer, Handle, HoldLock

-----------------------------------------------------------------------------
(* Theorems.                                                               *)

\* The inductive invariant holds in every reachable state.
THEOREM Invariance == Spec => []IInv
<1>1. IInv /\ [Next]_vars => IInv'
  <2> SUFFICES ASSUME IInv, [Next]_vars
               PROVE  IInv'
    OBVIOUS
  <2>1. TypeOK /\ ListIInv
    BY DEF IInv, ListIInv, TypeOK
  <2>2. ListIInv' /\ OtherTypeOK'
    BY <2>1, NextListInv, NextOtherType
  <2>3. QED
    BY <2>2 DEF IInv, ListIInv, TypeOK, OtherTypeOK
<1>2. QED
  BY InitInv, <1>1, PTL DEF Spec

\* Every variable keeps to its type, whatever the order of requests, end
\* packets, arrivals and departures of judges.
THEOREM TypeCorrect == Spec => []TypeOK
<1>1. IInv => TypeOK
  BY DEF IInv
<1>2. QED
  BY Invariance, <1>1, PTL

\* A submission whose dispatches all succeeded is with the judge that
\* submission_map names, or with none, and is not in the queue while it is.
THEOREM GradedByMappedJudge == Spec => []MappedToGrader
<1>1. IInv => MappedToGrader
  <2> SUFFICES ASSUME IInv, NEW s \in Subs \ failed, NEW c \in Conns, s \in sent[c]
               PROVE  submission_map[s] = c /\ ~Queued(s)
    BY DEF MappedToGrader
  <2>1. submission_map[s] = c
    BY DEF IInv, Consistent
  <2>2. ~InQueue(queue, s)
    BY <2>1, ConstantsAssumption DEF IInv, Consistent
  <2>3. QED
    BY <2>1, <2>2 DEF Queued
<1>2. QED
  BY Invariance, <1>1, PTL

\* Offering the queue to d sends nothing to any other judge.
LEMMA HandleFreeJudgeSent ==
  ASSUME NEW d \in Conns, NEW m, NEW w, NEW o \in SentType, NEW c \in Conns, c # d,
         HandleFreeJudge(d, m, w, o)
  PROVE  sent'[c] = o[c]
BY DEF HandleFreeJudge, Served, SubmitSucceeds, SubmitRaises, SentType

\* A step out of a state of the invariant sends a working judge a second
\* submission in one of the two known ways only.
LEMMA SecondRequestStep ==
  ASSUME TypeOK, [Next]_vars, NEW c \in Conns,
         sent[c] = {working[c]}, working[c] \in sent'[c], sent'[c] # sent[c]
  PROVE  pc[c] = "updating" \/ resume = [op |-> "register", judge |-> c]
<1>1. /\ sent \in SentType /\ working \in WorkingType /\ judges \subseteq Conns
      /\ working[c] \in Subs /\ working[c] # NoSub
  BY ConstantsAssumption DEF TypeOK, ListTypeOK, SentType, WorkingType
<1>2. ASSUME NEW s \in Subs, NEW t \in Targets, NEW p \in RequestPriorities, Judge(s, t, p)
      PROVE  FALSE
  <2>1. ASSUME NEW d \in Available(s, t, p)
        PROVE  d \in Conns /\ d # c
    BY <1>1 DEF Available, Candidates, CurrentTierJudges
  <2>2. sent'[c] = sent[c]
    BY <1>1, <1>2, <2>1 DEF Judge, SubmitSucceeds, SubmitRaises, Enqueue, SentType
  <2>3. QED
    BY <2>2
<1>3. ASSUME NEW d \in Conns, UpdateProblems(d)
      PROVE  pc[c] = "updating"
  BY <1>1, <1>3, HandleFreeJudgeSent DEF UpdateProblems
<1>4. ASSUME NEW d \in Conns, NEW s \in Subs, OnJudgeFree(d, s)
      PROVE  FALSE
  <2> DEFINE m == [submission_map EXCEPT ![s] = NoConn]
             w == [working EXCEPT ![d] = NoSub]
             o == [sent EXCEPT ![d] = @ \ {s}]
  <2>1. sent' = o \/ HandleFreeJudge(d, m, w, o)
    BY <1>4 DEF OnJudgeFree
  <2>2. o \in SentType /\ s \in sent[d]
    BY <1>1, <1>4 DEF SentType, OnJudgeFree
  <2>3. CASE d # c
    <3>1. o[c] = sent[c]
      BY <1>1, <2>3 DEF SentType
    <3> HIDE DEF m, w, o
    <3>2. sent'[c] = o[c]
      BY <2>1, <2>2, <2>3, HandleFreeJudgeSent
    <3>3. QED
      BY <3>1, <3>2
  <2>4. CASE d = c
    <3>1. s = working[c] /\ o[c] = {}
      BY <1>1, <2>2, <2>4 DEF SentType
    <3> HIDE DEF m, w, o
    <3>2. \/ sent'[c] = {}
          \/ \E t \in Subs : sent'[c] = {t}
      <4>1. CASE sent' = o
        BY <3>1, <4>1
      <4>2. CASE HandleFreeJudge(d, m, w, o)
        <5>1. \/ sent' = o
              \/ \E t : sent' = [o EXCEPT ![d] = @ \cup {t}]
          BY <4>2 DEF HandleFreeJudge, Served, SubmitSucceeds, SubmitRaises
        <5>2. QED
          BY <2>2, <2>4, <3>1, <5>1 DEF SentType
      <4>3. QED
        BY <2>1, <4>1, <4>2
    <3>3. QED
      BY <3>2
  <2>5. QED
    BY <2>3, <2>4
<1>5. ASSUME NEW d \in Conns, RemoveJudge(d)
      PROVE  FALSE
  BY <1>1, <1>5 DEF RemoveJudge, SentType
<1>6. ASSUME NEW d \in Conns, OfferFreeJudge(d)
      PROVE  FALSE
  <2>1. CASE working[d] = NoSub
    BY <1>1, <1>6, <2>1, HandleFreeJudgeSent DEF OfferFreeJudge, listVars
  <2>2. CASE working[d] # NoSub
    BY <1>6, <2>2 DEF OfferFreeJudge, listVars
  <2>3. QED
    BY <2>1, <2>2
<1>7. ASSUME OfferRegistered
      PROVE  resume = [op |-> "register", judge |-> c]
  <2>1. resume.judge \in Conns /\ resume = [op |-> "register", judge |-> resume.judge]
    BY <1>7 DEF OfferRegistered, TypeOK, NoResume
  <2>2. CASE resume.judge # c
    BY <1>1, <1>7, <2>1, <2>2, HandleFreeJudgeSent DEF OfferRegistered
  <2>3. QED
    BY <2>1, <2>2
<1>8. ASSUME OfferSoleJudge
      PROVE  FALSE
  <2>1. PICK d \in CurrentTierJudges :
          working[d] = NoSub /\ HandleFreeJudge(d, submission_map, working, sent)
    BY <1>8 DEF OfferSoleJudge, SoleJudge, listVars
  <2>2. d \in Conns /\ d # c
    BY <1>1, <2>1 DEF CurrentTierJudges
  <2>3. QED
    BY <1>1, <2>1, <2>2, HandleFreeJudgeSent
<1>9. ASSUME UNCHANGED sent
      PROVE  FALSE
  BY <1>9
<1>10. QED
  BY <1>2, <1>3, <1>4, <1>5, <1>6, <1>7, <1>8, <1>9
     DEF Next, Request, Administer, Handle, HoldLock, Abort, UpdateDisableJudge,
         SaveDisabled, Disconnect, Register, Connected, SaveRow, SupportedProblems, vars, listVars

\* A judge that works on the one submission its handler knows of is sent a
\* second one only by update_problems after a stale test of "working", or by
\* the last line of register: no other path can overload a judge.
THEOREM SecondRequest == Spec => SecondRequestOnlyByRace
<1>1. IInv /\ [Next]_vars =>
        [\A c \in Conns :
           sent[c] = {working[c]} /\ working[c] \in sent'[c] /\ sent'[c] # sent[c]
           => pc[c] = "updating" \/ resume = [op |-> "register", judge |-> c]]_vars
  BY SecondRequestStep DEF IInv
<1>2. QED
  BY Invariance, <1>1, PTL DEF Spec, SecondRequestOnlyByRace

-----------------------------------------------------------------------------
(* Nobody idles. In a configuration without faults and disabled judges.    *)

\* No dispatch raises, no judge is disconnected by force, disabled or enabled.
Calm == MaxFaults = 0 /\ Toggleable = {} /\ InitDisabled = {}

\* c is free in the serving tier and not about to be offered the queue.
Waiting(c) ==
  /\ c \in CurrentTierJudges
  /\ working[c] = NoSub
  /\ pc[c] # "updating"
  /\ c \notin offers
  /\ resume # [op |-> "register", judge |-> c]

\* The entry at i in class p, and whether c can judge it.
Suits(c, p, i) == CanJudge(c, queue[p][i].id, queue[p][i].judge_id)

\* The tier that serves is the least of the pool.
LeastTier(t, pool) ==
  \/ pool = {} /\ t = NoTier
  \/ /\ t \in Nat
     /\ \E c \in pool : t = TierOf[c]
     /\ \A d \in pool : t <= TierOf[d]

CalmInv ==
  /\ closed = {}
  /\ faults = 0
  /\ \A c \in Conns : ~is_disabled[c]
  /\ \A n \in Names : ~row_disabled[n]
  /\ LeastTier(min_tier, judges)
  /\ offers # {} => resume.op = "remove"

\* What waits beside a free judge of the serving tier that can judge it is a
\* rejudge, spared for want of another free judge that can; and the judge is not
\* alone in its tier, or remove is still to offer it the queue.
Spared(c, p, i) ==
  /\ p >= REJUDGE_PRIORITY
  /\ \A d \in CurrentTierJudges : Waiting(d) /\ Suits(d, p, i) => d = c
  /\ CurrentTierJudges = {c} => resume.op = "remove"

SparedInv ==
  \A p \in Priorities : \A i \in 1..Len(queue[p]) : \A c \in CurrentTierJudges :
    Waiting(c) /\ Suits(c, p, i) => Spared(c, p, i)

\* A set of numbers has a least one.
LEMMA LeastOf ==
  ASSUME NEW T \in SUBSET Nat, T # {}
  PROVE  \E x \in T : \A y \in T : x <= y
<1>1. PICK x \in T : \A y \in T : <<y, x>> \notin OpToRel(<, Nat)
  BY NatLessThanWellFounded, WFMin
<1>2. \A y \in T : ~(y < x)
  BY <1>1 DEF OpToRel
<1>3. QED
  BY <1>2

\* The walk of the queue comes to a first entry that suits c.
LEMMA FirstSuits ==
  ASSUME NEW c \in Conns, NEW p \in Priorities, NEW i \in 1..Len(queue[p]),
         queue \in QueueType, Suits(c, p, i)
  PROVE  \E q \in 0..p : \E j \in 1..Len(queue[q]) :
           /\ Suits(c, q, j)
           /\ \A k \in 0..q : \A l \in 1..Len(queue[k]) :
                k < q \/ l < j => ~Suits(c, k, l)
<1> DEFINE P == {q \in Priorities : \E j \in 1..Len(queue[q]) : Suits(c, q, j)}
<1>1. p \in P /\ P \in SUBSET Nat
  BY DEF Priorities
<1>2. PICK q \in P : \A k \in P : q <= k
  <2> HIDE DEF P
  <2>1. QED
    BY <1>1, LeastOf
<1>3. q \in 0..p /\ q \in Priorities
  BY <1>1, <1>2 DEF Priorities
<1> DEFINE I == {j \in 1..Len(queue[q]) : Suits(c, q, j)}
<1>4. I # {} /\ I \in SUBSET Nat
  BY <1>2
<1>5. PICK j \in I : \A l \in I : j <= l
  <2> HIDE DEF I
  <2>1. QED
    BY <1>4, LeastOf
<1>6. ASSUME NEW k \in 0..q, NEW l \in 1..Len(queue[k]), k < q \/ l < j, Suits(c, k, l)
      PROVE  FALSE
  <2>1. k \in Priorities /\ k \in Int /\ q \in Int
    BY <1>3 DEF Priorities
  <2>2. k \in P
    BY <1>6, <2>1
  <2>3. k = q
    <3> HIDE DEF P
    <3>1. QED
      BY <1>2, <2>1, <2>2
  <2>4. l \in I /\ l \in Int /\ j \in Int
    BY <1>6, <2>3
  <2>5. QED
    <3> HIDE DEF I
    <3>1. QED
      BY <1>5, <1>6, <2>3, <2>4
<1>7. QED
  BY <1>3, <1>5, <1>6

\* What stays when an entry is taken out was there before, in the same class.
OnlyOldEntries ==
  \A p \in Priorities : \A i \in 1..Len(queue'[p]) :
    \E j \in 1..Len(queue[p]) : queue'[p][i] = queue[p][j]

\* Taking an entry out leaves old entries only.
LEMMA TakenOut ==
  ASSUME queue \in QueueType, NEW p \in Priorities, NEW i \in 1..Len(queue[p]),
         queue' = [queue EXCEPT ![p] = RemoveAt(@, i)]
  PROVE  OnlyOldEntries
<1> SUFFICES ASSUME NEW k \in Priorities, NEW l \in 1..Len(queue'[k])
             PROVE  \E j \in 1..Len(queue[k]) : queue'[k][l] = queue[k][j]
  BY DEF OnlyOldEntries
<1>1. CASE k # p
  BY <1>1 DEF QueueType
<1>2. CASE k = p
  <2>1. queue[p] \in Seq(Entry) /\ queue'[k] = RemoveAt(queue[p], i)
    BY <1>2 DEF QueueType
  <2>2. /\ Len(queue'[k]) = Len(queue[p]) - 1
        /\ \A j \in 1..(Len(queue[p]) - 1) :
             queue'[k][j] = IF j < i THEN queue[p][j] ELSE queue[p][j + 1]
    BY <2>1, RemoveAtKeeps
  <2>3. Len(queue[p]) \in Nat
    BY <2>1
  <2>4. CASE l < i
    BY <1>2, <2>2, <2>3, <2>4
  <2>5. CASE ~(l < i)
    <3>1. l + 1 \in 1..Len(queue[p]) /\ queue'[k][l] = queue[p][l + 1]
      BY <2>2, <2>3, <2>5
    <3>2. QED
      BY <1>2, <3>1
  <2>6. QED
    BY <2>4, <2>5
<1>3. QED
  BY <1>1, <1>2

\* Two free judges of the serving tier are more than the one kept in reserve.
LEMMA OneReserved ==
  ASSUME IsFiniteSet(Conns), judges \subseteq Conns, NEW w, ShouldReserveJudge(w),
         NEW c \in CurrentTierJudges, w[c] = NoSub
  PROVE  /\ \A d \in CurrentTierJudges : w[d] = NoSub => d = c
         /\ CurrentTierJudges # {c}
<1> DEFINE free == {d \in CurrentTierJudges : w[d] = NoSub}
<1>1. free \in SUBSET Conns /\ IsFiniteSet(free) /\ c \in free
  <2>1. free \in SUBSET Conns /\ c \in free
    BY DEF CurrentTierJudges
  <2>2. QED
    BY <2>1, FS_Subset
<1>2. Cardinality(CurrentTierJudges) > 1 /\ Cardinality(free) <= 1
  BY DEF ShouldReserveJudge
<1>3. CurrentTierJudges # {c}
  <2>1. Cardinality({c}) = 1
    BY FS_Singleton
  <2>2. QED
    BY <1>2, <2>1
<1> HIDE DEF free
<1>4. ASSUME NEW d \in free, d # c
      PROVE  FALSE
  <2>1. IsFiniteSet({c}) /\ Cardinality({c}) = 1
    BY FS_Singleton
  <2>2. IsFiniteSet({c} \cup {d}) /\ Cardinality({c} \cup {d}) = 2
    BY <1>4, <2>1, FS_AddElement
  <2>3. {c} \cup {d} \in SUBSET free
    BY <1>1, <1>4
  <2>4. Cardinality({c} \cup {d}) <= Cardinality(free)
    BY <1>1, <2>3, FS_Subset
  <2>5. Cardinality(free) \in Nat
    BY <1>1, FS_CardinalityType
  <2>6. QED
    BY <1>2, <2>2, <2>4, <2>5
<1>5. QED
  BY <1>3, <1>4 DEF free

\* What c may leave in the queue when it has been offered it.
Nothing(c, w) ==
  c \in CurrentTierJudges =>
    \A p \in Priorities : \A i \in 1..Len(queue[p]) :
      Suits(c, p, i) => p >= REJUDGE_PRIORITY /\ ShouldReserveJudge(w)

\* A calm offer: c gets a submission, or nothing that waits is for it.
LEMMA Offered ==
  ASSUME IInv, CalmInv, Calm, NEW c \in Conns, NEW m, NEW w \in WorkingType, NEW o,
         HandleFreeJudge(c, m, w, o)
  PROVE  /\ UNCHANGED <<judges, faults>>
         /\ OnlyOldEntries
         /\ \A d \in Conns : d # c => working'[d] = w[d]
         /\ \/ working'[c] # NoSub
            \/ working' = w /\ UNCHANGED queue /\ Nothing(c, w)
<1>1. queue \in QueueType /\ closed = {} /\ faults = 0 /\ MaxFaults = 0
  BY DEF IInv, TypeOK, ListTypeOK, QueueType, CalmInv, Calm
<1>2. ASSUME NEW p \in Priorities, NEW i \in 1..Len(queue[p])
      PROVE  queue[p][i].id \in Subs
  <2>1. queue[p][i] \in Entry
    BY <1>1, ElementOfSeq DEF QueueType
  <2>2. QED
    BY <2>1 DEF Entry
<1>3. ASSUME NEW p \in Priorities, NEW i \in 1..Len(queue[p]),
             SubmitSucceeds(c, queue[p][i].id, m, w, o),
             queue' = [queue EXCEPT ![p] = RemoveAt(@, i)]
      PROVE  /\ UNCHANGED <<judges, faults>>
             /\ OnlyOldEntries
             /\ \A d \in Conns : d # c => working'[d] = w[d]
             /\ working'[c] # NoSub
  <2>1. OnlyOldEntries
    BY <1>1, <1>3, TakenOut
  <2>2. working' = [w EXCEPT ![c] = queue[p][i].id] /\ UNCHANGED <<judges, faults>>
    BY <1>3 DEF SubmitSucceeds
  <2>3. QED
    BY <1>2, <2>1, <2>2, ConstantsAssumption DEF WorkingType
<1>4. ASSUME NEW s, SubmitRaises(c, s, m, w, o)
      PROVE  FALSE
  BY <1>1, <1>4 DEF SubmitRaises
<1>5. CASE /\ ~ (/\ min_tier # NoTier
                 /\ TierOf[c] <= min_tier
                 /\ \E p \in Priorities : \E i \in 1..Len(queue[p]) : Takes(c, w, p, i))
           /\ working' = w
           /\ UNCHANGED <<queue, judges, faults>>
  <2>1. OnlyOldEntries
    BY <1>5 DEF OnlyOldEntries
  <2>2. ASSUME c \in CurrentTierJudges, NEW p \in Priorities, NEW i \in 1..Len(queue[p]),
               Suits(c, p, i)
        PROVE  p >= REJUDGE_PRIORITY /\ ShouldReserveJudge(w)
    <3>1. min_tier # NoTier /\ TierOf[c] <= min_tier
      BY <2>2, ConstantsAssumption DEF CurrentTierJudges
    <3>2. PICK q \in 0..p : \E j \in 1..Len(queue[q]) :
            /\ Suits(c, q, j)
            /\ \A k \in 0..q : \A l \in 1..Len(queue[k]) :
                 k < q \/ l < j => ~Suits(c, k, l)
      BY <1>1, <2>2, FirstSuits
    <3>3. PICK j \in 1..Len(queue[q]) :
            /\ Suits(c, q, j)
            /\ \A k \in 0..q : \A l \in 1..Len(queue[k]) :
                 k < q \/ l < j => ~Suits(c, k, l)
      BY <3>2
    <3>4. q \in Priorities /\ q <= p
      BY DEF Priorities
    <3>5. ~Takes(c, w, q, j)
      BY <1>5, <3>1, <3>4
    <3>6. q >= REJUDGE_PRIORITY /\ ShouldReserveJudge(w)
      BY <3>3, <3>5 DEF Takes, Suits
    <3>7. QED
      BY <3>4, <3>6 DEF Priorities, REJUDGE_PRIORITY
  <2>3. Nothing(c, w)
    BY <2>2 DEF Nothing
  <2>4. QED
    BY <1>5, <2>1, <2>3
<1>6. QED
  BY <1>3, <1>4, <1>5 DEF HandleFreeJudge, Served

\* c waited before the step as it does after, and is alone in its tier only if it
\* was, or if remove is to offer it the queue.
Steady(c) ==
  /\ Waiting(c)
  /\ problems'[c] = problems[c] /\ is_disabled'[c] = is_disabled[c]
  /\ CurrentTierJudges' = {c} =>
       resume'.op = "remove" \/ (CurrentTierJudges = {c} /\ resume.op # "remove")

\* What a step has to do for the invariant: x is the judge, if any, that it frees,
\* offers the queue or changes.
LEMMA SparedStep ==
  ASSUME SparedInv, OnlyOldEntries, NEW x,
         \A c \in CurrentTierJudges' : c # x /\ Waiting(c)' => Steady(c),
         \A p \in Priorities : \A i \in 1..Len(queue'[p]) :
           x \in CurrentTierJudges' /\ Waiting(x)' /\ Suits(x, p, i)' =>
             /\ p >= REJUDGE_PRIORITY
             /\ \A d \in CurrentTierJudges' : Waiting(d)' => d = x
             /\ CurrentTierJudges' # {x}
  PROVE  SparedInv'
<1> SUFFICES ASSUME NEW p \in Priorities, NEW i \in 1..Len(queue'[p]),
                    NEW c \in CurrentTierJudges', Waiting(c)', Suits(c, p, i)'
             PROVE  Spared(c, p, i)'
  BY DEF SparedInv
<1>1. CASE c = x
  BY <1>1 DEF Spared
<1>2. CASE c # x
  <2>1. PICK j \in 1..Len(queue[p]) : queue'[p][i] = queue[p][j]
    BY DEF OnlyOldEntries
  <2>2. ASSUME NEW d \in CurrentTierJudges', d # x, Waiting(d)', Suits(d, p, i)'
        PROVE  d \in CurrentTierJudges /\ Waiting(d) /\ Suits(d, p, j)
    <3>1. Waiting(d) /\ problems'[d] = problems[d] /\ is_disabled'[d] = is_disabled[d]
      BY <2>2 DEF Steady
    <3>2. d \in CurrentTierJudges
      BY <3>1 DEF Waiting
    <3>3. Suits(d, p, j)
      BY <2>1, <2>2, <3>1 DEF Suits, CanJudge
    <3>4. QED
      BY <3>1, <3>2, <3>3
  <2>3. c \in CurrentTierJudges /\ Waiting(c) /\ Suits(c, p, j)
    BY <1>2, <2>2
  <2>4. Spared(c, p, j)
    BY <2>3 DEF SparedInv
  <2>5. p >= REJUDGE_PRIORITY
    BY <2>4 DEF Spared
  <2>6. ASSUME NEW d \in CurrentTierJudges', Waiting(d)', Suits(d, p, i)'
        PROVE  d = c
    <3>1. CASE d = x
      BY <2>6, <3>1
    <3>2. CASE d # x
      <4>1. d \in CurrentTierJudges /\ Waiting(d) /\ Suits(d, p, j)
        BY <2>2, <2>6, <3>2
      <4>2. QED
        BY <2>4, <4>1 DEF Spared
    <3>3. QED
      BY <3>1, <3>2
  <2>7. CurrentTierJudges' = {c} => resume'.op = "remove"
    BY <1>2, <2>4 DEF Spared, Steady
  <2>8. QED
    BY <2>5, <2>6, <2>7 DEF Spared
<1>3. QED
  BY <1>1, <1>2

\* The least tier of a pool without disabled judges is what the code computes.
LEMMA LeastIsMin ==
  ASSUME NEW t, NEW pool \in SUBSET Conns, NEW disabled,
         \A c \in Conns : ~disabled[c], IsMinTier(t, pool, disabled)
  PROVE  LeastTier(t, pool)
<1>1. {c \in pool : ~disabled[c]} = pool
  OBVIOUS
<1>2. \/ pool = {} /\ t = NoTier
      \/ \E c \in pool : t = TierOf[c] /\ \A d \in pool : t <= TierOf[d]
  BY <1>1 DEF IsMinTier
<1>3. QED
  BY <1>2, ConstantsAssumption DEF LeastTier

\* A judge that arrives does not raise the tier, and offers start afterwards only.
LEMMA RegisterCalm ==
  ASSUME TypeOK, TypeOK', CalmInv, NEW c \in Conns, NEW P, Register(c, P)
  PROVE  /\ CalmInv'
         /\ offers' = {}
         /\ \A d \in CurrentTierJudges' : d # c =>
              d \in CurrentTierJudges /\ (CurrentTierJudges' = {d} => CurrentTierJudges = {d})
<1>1. /\ judges \in SUBSET Conns /\ judges' = judges \cup {c} /\ judges' \in SUBSET Conns
      /\ UNCHANGED <<is_disabled, row_disabled, faults>>
      /\ closed' = closed \cup SameNameJudges(c)
  BY DEF Register, dbVars, TypeOK, ListTypeOK
<1>2. PICK t \in Tiers \cup {NoTier} :
         /\ IsMinTier(t, judges', is_disabled)
         /\ min_tier' = t
         /\ offers' = IF min_tier # NoTier /\ t # NoTier /\ t > min_tier
                      THEN {d \in judges' : TierOf[d] = t /\ ~is_disabled[d]}
                      ELSE {}
  BY DEF Register, UpdateMinTier
<1>3. LeastTier(min_tier, judges) /\ LeastTier(min_tier', judges')
  BY <1>1, <1>2, LeastIsMin DEF CalmInv
<1>4. SameNameJudges(c) = {}
  BY <1>1, ConstantsAssumption DEF SameNameJudges
<1>5. min_tier # NoTier => min_tier' <= min_tier
  BY <1>1, <1>3, ConstantsAssumption DEF LeastTier
<1>6. offers' = {}
  <2>1. min_tier # NoTier /\ min_tier' # NoTier => min_tier \in Nat /\ min_tier' \in Nat
    BY <1>3 DEF LeastTier
  <2>2. QED
    BY <1>2, <1>5, <2>1
<1>7. CalmInv'
  BY <1>1, <1>3, <1>4, <1>6 DEF CalmInv
<1>8. ASSUME NEW d \in CurrentTierJudges', d # c
      PROVE  d \in CurrentTierJudges /\ (CurrentTierJudges' = {d} => CurrentTierJudges = {d})
  <2>1. /\ CurrentTierJudges = {e \in judges : TierOf[e] = min_tier}
        /\ CurrentTierJudges' = {e \in judges' : TierOf[e] = min_tier'}
    <3>1. \A e \in Conns : ~is_disabled[e]
      BY DEF CalmInv
    <3>2. \A e \in Conns : ~is_disabled'[e]
      BY <1>7 DEF CalmInv
    <3>3. QED
      BY <1>1, <3>1, <3>2 DEF CurrentTierJudges
  <2>2. d \in judges /\ TierOf[d] = min_tier'
    BY <1>1, <1>8, <2>1
  <2>3. min_tier = min_tier'
    BY <1>1, <1>3, <1>5, <2>2, ConstantsAssumption DEF LeastTier
  <2>4. QED
    BY <1>1, <2>1, <2>2, <2>3
<1>9. QED
  BY <1>6, <1>7, <1>8

\* When the tier changes with a departure, everybody of the new one is offered the
\* queue.
LEMMA RemoveCalm ==
  ASSUME TypeOK, TypeOK', CalmInv, NEW c \in Conns, RemoveJudge(c)
  PROVE  /\ CalmInv'
         /\ \A d \in CurrentTierJudges' : d # c /\ (d \in offers' \/ d \in CurrentTierJudges)
<1>1. /\ judges \in SUBSET Conns /\ judges' = judges \ {c} /\ judges' \in SUBSET Conns
      /\ is_disabled' = [is_disabled EXCEPT ![c] = FALSE]
      /\ UNCHANGED <<row_disabled, faults>>
      /\ closed' = closed \ {c}
      /\ resume' = [op |-> "remove", judge |-> c]
  BY DEF RemoveJudge, dbVars, TypeOK, ListTypeOK
<1>2. PICK t \in Tiers \cup {NoTier} :
         /\ IsMinTier(t, judges', is_disabled)
         /\ min_tier' = t
         /\ offers' = IF min_tier # NoTier /\ t # NoTier /\ t > min_tier
                      THEN {d \in judges' : TierOf[d] = t /\ ~is_disabled[d]}
                      ELSE {}
  BY DEF RemoveJudge, UpdateMinTier
<1>3. LeastTier(min_tier, judges) /\ LeastTier(min_tier', judges')
  BY <1>1, <1>2, LeastIsMin DEF CalmInv
<1>4. CalmInv'
  <2>1. \A d \in Conns : ~is_disabled'[d]
    BY <1>1 DEF CalmInv, TypeOK
  <2>2. closed' = {} /\ resume'.op = "remove"
    BY <1>1 DEF CalmInv
  <2>3. QED
    BY <1>1, <1>3, <2>1, <2>2 DEF CalmInv
<1>5. ASSUME NEW d \in CurrentTierJudges'
      PROVE  d # c /\ (d \in offers' \/ d \in CurrentTierJudges)
  <2>1. d \in judges /\ d \in judges' /\ d # c /\ TierOf[d] = min_tier' /\ min_tier' \in Nat
    BY <1>1, <1>5, ConstantsAssumption DEF CurrentTierJudges
  <2>2. ~is_disabled[d]
    BY <1>1, <2>1 DEF CalmInv
  <2>3. min_tier \in Nat /\ min_tier <= min_tier'
    BY <1>3, <2>1 DEF LeastTier
  <2>4. CASE min_tier = min_tier'
    BY <2>1, <2>2, <2>4 DEF CurrentTierJudges
  <2>5. CASE min_tier # min_tier'
    <3>1. min_tier' > min_tier /\ min_tier # NoTier /\ min_tier' # NoTier
      BY <2>1, <2>3, <2>5, ConstantsAssumption
    <3>2. QED
      BY <1>2, <2>1, <2>2, <3>1
  <2>6. QED
    BY <2>1, <2>4, <2>5
<1>6. QED
  BY <1>4, <1>5

\* A request served at once, or left waiting beside a judge it is not to have.
LEMMA JudgeSpared ==
  ASSUME IInv, CalmInv, Calm, SparedInv,
         NEW s \in Subs, NEW t \in Targets, NEW p \in RequestPriorities, Judge(s, t, p)
  PROVE  CalmInv' /\ SparedInv'
<1>1. /\ UNCHANGED <<min_tier, offers, resume, is_disabled, problems, pc, closed, row_disabled>>
      /\ p \in Priorities /\ queue \in QueueType /\ working \in WorkingType /\ judges \subseteq Conns
      /\ closed = {} /\ faults = 0 /\ MaxFaults = 0
  BY ConstantsAssumption
     DEF Judge, connVars, dbVars, CalmInv, Calm, IInv, TypeOK, ListTypeOK, QueueType
<1>2. UNCHANGED <<judges, faults>>
  <2>1. ASSUME NEW c, SubmitRaises(c, s, submission_map, working, sent) PROVE FALSE
    BY <1>1, <2>1 DEF SubmitRaises
  <2>2. QED
    BY <2>1 DEF Judge, SubmitSucceeds, Enqueue
<1>3. CalmInv' /\ CurrentTierJudges' = CurrentTierJudges
  BY <1>1, <1>2 DEF CalmInv, CurrentTierJudges
<1>4. ASSUME NEW c \in CurrentTierJudges, SubmitSucceeds(c, s, submission_map, working, sent),
             UNCHANGED queue
      PROVE  SparedInv'
  <2>1. OnlyOldEntries
    BY <1>4 DEF OnlyOldEntries
  <2>2. \A d \in Conns : working'[d] = NoSub => working[d] = NoSub
    BY <1>1, <1>4, ConstantsAssumption DEF SubmitSucceeds, WorkingType
  <2>3. ASSUME NEW d \in CurrentTierJudges', Waiting(d)'
        PROVE  Steady(d)
    <3>1. d \in Conns /\ d \in CurrentTierJudges
      BY <1>1, <1>3, <2>3 DEF CurrentTierJudges
    <3>2. Waiting(d)
      BY <1>1, <2>2, <2>3, <3>1 DEF Waiting
    <3>3. QED
      BY <1>1, <1>3, <3>2 DEF Steady
  <2>4. NoConn \notin CurrentTierJudges'
    BY <1>1, <1>2, ConstantsAssumption DEF CurrentTierJudges
  <2>5. QED
    BY <2>1, <2>3, <2>4, SparedStep
<1>5. ASSUME Available(s, t, p) = {}, Enqueue(s, t, p)
      PROVE  SparedInv'
  <2> DEFINE e == [id |-> s, judge_id |-> t]
  <2>1. e \in Entry /\ queue' = [queue EXCEPT ![p] = Append(@, e)] /\ working' = working
    BY <1>5, ConstantsAssumption DEF Entry, Enqueue
  <2>2. /\ Len(Append(queue[p], e)) = Len(queue[p]) + 1
        /\ \A j \in 1..Len(queue[p]) : Append(queue[p], e)[j] = queue[p][j]
        /\ Append(queue[p], e)[Len(queue[p]) + 1] = e
        /\ Len(queue[p]) \in Nat
    <3>1. queue[p] \in Seq(Entry)
      BY <1>1 DEF QueueType
    <3> HIDE DEF e
    <3>2. QED
      BY <2>1, <3>1, AppendKeeps
  <2>3. \A c : Waiting(c)' <=> Waiting(c)
    BY <1>1, <1>3, <2>1 DEF Waiting
  <2>4. ASSUME NEW c \in CurrentTierJudges, Waiting(c), CanJudge(c, s, t)
        PROVE  /\ p >= REJUDGE_PRIORITY
               /\ \A d \in CurrentTierJudges : Waiting(d) /\ CanJudge(d, s, t) => d = c
               /\ CurrentTierJudges # {c}
    <3> DEFINE cands == Candidates(s, t)
               free == {d \in cands : working[d] = NoSub}
    <3>1. c \in free /\ free \in SUBSET Conns /\ cands \in SUBSET Conns
      BY <1>1, <2>4 DEF Candidates, CurrentTierJudges, Waiting
    <3>2. Cardinality(cands) > 1 /\ Cardinality(free) = 1 /\ p >= REJUDGE_PRIORITY
      BY <1>5, <3>1 DEF Available
    <3>3. PICK f : free = {f}
      <4>1. IsFiniteSet(free)
        BY <3>1, FS_Subset, ConstantsAssumption
      <4> HIDE DEF free
      <4>2. QED
        BY <3>2, <4>1, FS_Singleton
    <3>4. ASSUME NEW d \in CurrentTierJudges, Waiting(d), CanJudge(d, s, t)
          PROVE  d = c
      <4>1. d \in free
        BY <3>4 DEF Candidates, Waiting
      <4>2. QED
        BY <3>1, <3>3, <4>1
    <3>5. CurrentTierJudges # {c}
      <4>1. SUFFICES ASSUME CurrentTierJudges = {c} PROVE FALSE
        OBVIOUS
      <4>2. cands = {c}
        BY <3>1, <4>1 DEF Candidates
      <4>3. Cardinality({c}) = 1
        BY FS_Singleton
      <4> HIDE DEF cands
      <4>4. QED
        BY <3>2, <4>2, <4>3
    <3>6. QED
      BY <3>2, <3>4, <3>5
  <2>5. ASSUME NEW k \in Priorities, NEW i \in 1..Len(queue'[k]),
               NEW c \in CurrentTierJudges', Waiting(c)', Suits(c, k, i)'
        PROVE  Spared(c, k, i)'
    <3>1. c \in CurrentTierJudges /\ Waiting(c)
      BY <1>3, <2>3, <2>5
    <3>2. \A d \in CurrentTierJudges : \A a, b : CanJudge(d, a, b)' <=> CanJudge(d, a, b)
      BY <1>1 DEF CanJudge
    <3>3. CASE i \in 1..Len(queue[k]) /\ queue'[k][i] = queue[k][i]
      <4>1. \A d \in CurrentTierJudges : Suits(d, k, i)' <=> Suits(d, k, i)
        BY <3>3, <1>1 DEF Suits, CanJudge
      <4>2. Spared(c, k, i)
        BY <2>5, <3>1, <3>3, <4>1 DEF SparedInv
      <4>3. QED
        BY <1>1, <1>3, <2>3, <4>1, <4>2 DEF Spared
    <3>4. CASE k = p /\ queue'[k][i] = e
      <4>1. \A d \in CurrentTierJudges : Suits(d, k, i)' <=> CanJudge(d, s, t)
        BY <1>1, <3>4 DEF Suits, CanJudge
      <4>2. /\ p >= REJUDGE_PRIORITY
            /\ \A d \in CurrentTierJudges : Waiting(d) /\ CanJudge(d, s, t) => d = c
            /\ CurrentTierJudges # {c}
        BY <2>4, <2>5, <3>1, <4>1
      <4>3. QED
        BY <1>3, <2>3, <3>4, <4>1, <4>2 DEF Spared
    <3>5. \/ i \in 1..Len(queue[k]) /\ queue'[k][i] = queue[k][i]
          \/ k = p /\ queue'[k][i] = e
      <4>1. CASE k = p
        <5>1. queue'[k] = Append(queue[p], e)
          BY <1>1, <2>1, <4>1 DEF QueueType
        <5> HIDE DEF e
        <5>2. QED
          BY <2>2, <2>5, <4>1, <5>1
      <4>2. CASE k # p
        <5>1. queue'[k] = queue[k]
          BY <1>1, <2>1, <4>2 DEF QueueType
        <5>2. QED
          BY <2>5, <5>1
      <4>3. QED
        BY <4>1, <4>2
    <3>6. QED
      BY <3>3, <3>4, <3>5
  <2>6. QED
    BY <2>5 DEF SparedInv
<1>6. QED
  <2>1. ASSUME NEW c \in Available(s, t, p) PROVE c \in CurrentTierJudges
    BY <2>1 DEF Available, Candidates
  <2>2. ASSUME NEW c, SubmitRaises(c, s, submission_map, working, sent) PROVE FALSE
    BY <1>1, <2>2 DEF SubmitRaises
  <2>3. QED
    BY <1>3, <1>4, <1>5, <2>1, <2>2 DEF Judge

\* A step that offers the queue to x, or to nobody, and leaves the pool as it is.
LEMMA OfferSpared ==
  ASSUME IInv, CalmInv, Calm, SparedInv, NEW x \in Conns, NEW m, NEW w \in WorkingType, NEW o,
         HandleFreeJudge(x, m, w, o),
         \A d \in Conns : d # x => w[d] = working[d],
         UNCHANGED <<min_tier, is_disabled, problems, closed, row_disabled>>,
         \A d \in CurrentTierJudges : d # x /\ pc'[d] # "updating" => pc[d] # "updating",
         offers \subseteq offers' \cup {x},
         \A d \in CurrentTierJudges : d # x =>
           /\ resume = [op |-> "register", judge |-> d] => resume' = resume
           /\ resume'.op = "remove" \/ resume.op # "remove" \/ CurrentTierJudges # {d},
         offers' # {} => resume'.op = "remove"
  PROVE  CalmInv' /\ SparedInv'
<1>1. /\ UNCHANGED <<judges, faults>>
      /\ OnlyOldEntries
      /\ \A d \in Conns : d # x => working'[d] = w[d]
      /\ \/ working'[x] # NoSub
         \/ working' = w /\ UNCHANGED queue /\ Nothing(x, w)
  BY Offered
<1>2. CalmInv' /\ CurrentTierJudges' = CurrentTierJudges /\ judges \subseteq Conns
  BY <1>1 DEF CalmInv, CurrentTierJudges, IInv, TypeOK, ListTypeOK
<1>3. ASSUME NEW d \in CurrentTierJudges', d # x, Waiting(d)'
      PROVE  Steady(d)
  <2>1. d \in Conns /\ d \in CurrentTierJudges
    BY <1>2, <1>3 DEF CurrentTierJudges
  <2>2. working[d] = NoSub /\ pc[d] # "updating" /\ d \notin offers
    BY <1>1, <1>3, <2>1 DEF Waiting
  <2>3. resume # [op |-> "register", judge |-> d]
    BY <1>3, <2>1 DEF Waiting
  <2>4. QED
    BY <1>2, <1>3, <2>1, <2>2, <2>3 DEF Steady, Waiting
<1>4. ASSUME NEW p \in Priorities, NEW i \in 1..Len(queue'[p]),
             x \in CurrentTierJudges', Waiting(x)', Suits(x, p, i)'
      PROVE  /\ p >= REJUDGE_PRIORITY
             /\ \A d \in CurrentTierJudges' : Waiting(d)' => d = x
             /\ CurrentTierJudges' # {x}
  <2>1. working' = w /\ UNCHANGED queue /\ Nothing(x, w) /\ w[x] = NoSub
    BY <1>1, <1>4 DEF Waiting
  <2>2. Suits(x, p, i)
    BY <1>4, <2>1 DEF Suits, CanJudge
  <2>3. x \in CurrentTierJudges /\ p >= REJUDGE_PRIORITY /\ ShouldReserveJudge(w)
    BY <1>2, <1>4, <2>1, <2>2 DEF Nothing
  <2>4. /\ \A d \in CurrentTierJudges : w[d] = NoSub => d = x
        /\ CurrentTierJudges # {x}
    BY <1>2, <2>1, <2>3, OneReserved, ConstantsAssumption
  <2>5. QED
    BY <1>2, <2>1, <2>3, <2>4 DEF Waiting
<1>5. SparedInv'
  BY <1>1, <1>3, <1>4, SparedStep
<1>6. QED
  BY <1>2, <1>5

\* A step that offers the queue to nobody and leaves the pool as it is: x is a judge
\* whose thread it moves.
LEMMA QuietSpared ==
  ASSUME TypeOK, CalmInv, SparedInv, OnlyOldEntries, NEW x,
         UNCHANGED <<min_tier, judges, working, faults, offers, resume, is_disabled, closed,
                     row_disabled>>,
         \A d \in Conns : d # x => problems'[d] = problems[d],
         \A d \in Conns : d # x /\ pc'[d] # "updating" => pc[d] # "updating",
         x \in Conns => ~Waiting(x)'
  PROVE  CalmInv' /\ SparedInv'
<1>1. CalmInv' /\ CurrentTierJudges' = CurrentTierJudges /\ judges \subseteq Conns
  BY DEF CalmInv, CurrentTierJudges, TypeOK, ListTypeOK
<1>2. ASSUME NEW d \in CurrentTierJudges', d # x, Waiting(d)'
      PROVE  Steady(d)
  <2>1. d \in Conns /\ d \in CurrentTierJudges
    BY <1>1, <1>2 DEF CurrentTierJudges
  <2>2. Waiting(d)
    BY <1>2, <2>1 DEF Waiting
  <2>3. QED
    BY <1>1, <1>2, <2>1, <2>2 DEF Steady
<1>3. x \in CurrentTierJudges' => ~Waiting(x)'
  BY <1>1 DEF CurrentTierJudges
<1>4. QED
  BY <1>1, <1>2, <1>3, SparedStep

\* No handler has read its judge row as disabled.
NoneDisabling == \A c \in Conns : pc[c] # "disabling"

LEMMA NoneDisablingNext ==
  ASSUME TypeOK, CalmInv, NoneDisabling, [Next]_vars
  PROVE  NoneDisabling'
<1>1. pc \in [Conns -> {"off", "handshake", "enabling", "disabling", "up", "updating"}]
  BY DEF TypeOK
<1>2. ASSUME NEW c \in Conns, Connected(c)
      PROVE  NoneDisabling'
  <2>1. row_disabled[NameOf[c]] = FALSE
    BY ConstantsAssumption DEF CalmInv, TypeOK
  <2>2. pc' = [pc EXCEPT ![c] = "enabling"]
    BY <1>2, <2>1 DEF Connected
  <2>3. QED
    BY <1>1, <2>2 DEF NoneDisabling
<1>3. ASSUME NEW c \in Conns, \E v \in {"off", "handshake", "up", "updating"} : pc' = [pc EXCEPT ![c] = v]
      PROVE  NoneDisabling'
  BY <1>1, <1>3 DEF NoneDisabling
<1>4. ASSUME NEW c \in Conns, Handle(c)
      PROVE  NoneDisabling'
  <2>1. CASE \E P \in ProblemSets : Register(c, P)
    BY <1>3, <2>1 DEF Register
  <2>2. CASE \E P \in ProblemSets : SupportedProblems(c, P)
    <3>1. pc' = [pc EXCEPT ![c] = "updating"] \/ pc' = [pc EXCEPT ![c] = "up"]
      BY <2>2 DEF SupportedProblems
    <3>2. QED
      BY <1>3, <3>1
  <2>3. CASE SaveRow(c) \/ UpdateProblems(c) \/ RemoveJudge(c)
    BY <1>3, <2>3 DEF SaveRow, UpdateProblems, RemoveJudge
  <2>4. CASE \E s \in Subs : OnJudgeFree(c, s)
    BY <2>4 DEF OnJudgeFree, connVars, NoneDisabling
  <2>5. QED
    BY <1>2, <1>4, <2>1, <2>2, <2>3, <2>4 DEF Handle
<1>5. ASSUME UNCHANGED pc
      PROVE  NoneDisabling'
  BY <1>5 DEF NoneDisabling
<1>6. QED
  BY <1>4, <1>5 DEF Next, Request, Administer, HoldLock, Judge, Abort, UpdateDisableJudge,
     SaveDisabled, Disconnect, OfferFreeJudge, OfferRegistered, OfferSoleJudge, connVars, vars

\* Every step keeps both invariants.
LEMMA SparedNext ==
  ASSUME IInv, IInv', Calm, CalmInv, SparedInv, NoneDisabling, [Next]_vars
  PROVE  CalmInv' /\ SparedInv'
<1>1. /\ TypeOK /\ TypeOK' /\ queue \in QueueType /\ working \in WorkingType /\ judges \subseteq Conns
      /\ pc \in [Conns -> {"off", "handshake", "enabling", "disabling", "up", "updating"}]
      /\ resume \in {NoResume} \cup [op : {"register", "remove"}, judge : Conns]
      /\ is_disabled \in [Conns -> BOOLEAN] /\ problems \in [Conns -> SUBSET Problems]
      /\ offers \subseteq Conns
  BY DEF IInv, TypeOK, ListTypeOK, QueueType
<1>2. NoConn \notin Conns /\ NoSub \notin Subs
  BY ConstantsAssumption
<1>3. UNCHANGED queue => OnlyOldEntries
  BY DEF OnlyOldEntries
<1>4. ASSUME NEW s \in Subs, NEW t \in Targets, NEW p \in RequestPriorities, Judge(s, t, p)
      PROVE  CalmInv' /\ SparedInv'
  BY <1>4, JudgeSpared
<1>5. ASSUME NEW s \in Subs, Abort(s)
      PROVE  CalmInv' /\ SparedInv'
  <2>1. PICK p \in Priorities : \E i \in 1..Len(queue[p]) :
               queue' = [queue EXCEPT ![p] = RemoveAt(@, i)]
    BY <1>5 DEF Abort
  <2>2. OnlyOldEntries
    BY <1>1, <2>1, TakenOut
  <2>3. UNCHANGED <<min_tier, judges, working, faults, offers, resume, is_disabled, closed,
                    row_disabled, problems, pc>>
    BY <1>5 DEF Abort, connVars, dbVars
  <2>4. QED
    BY <1>1, <1>2, <2>2, <2>3, QuietSpared
<1>6. ASSUME NEW n \in Toggleable
      PROVE  FALSE
  BY <1>6 DEF Calm
<1>7. ASSUME NEW n \in Names, Disconnect(n)
      PROVE  FALSE
  BY <1>7 DEF Disconnect, Calm, CalmInv
<1>8. ASSUME NEW c \in Conns, NEW P \in ProblemSets, Register(c, P)
      PROVE  CalmInv' /\ SparedInv'
  <2>1. /\ CalmInv'
        /\ offers' = {}
        /\ \A d \in CurrentTierJudges' : d # c =>
             d \in CurrentTierJudges /\ (CurrentTierJudges' = {d} => CurrentTierJudges = {d})
    BY <1>1, <1>8, RegisterCalm
  <2>2. /\ UNCHANGED <<queue, working, is_disabled>>
        /\ pc' = [pc EXCEPT ![c] = "handshake"]
        /\ problems' = [problems EXCEPT ![c] = P]
        /\ resume' = [op |-> "register", judge |-> c]
        /\ LockFree
    BY <1>8 DEF Register
  <2>3. resume.op = "none" /\ offers = {}
    BY <2>2 DEF LockFree, NoResume
  <2>4. ASSUME NEW d \in CurrentTierJudges', d # c, Waiting(d)'
        PROVE  Steady(d)
    <3>1. d \in Conns /\ d \in CurrentTierJudges
      BY <1>1, <2>1, <2>4 DEF CurrentTierJudges
    <3>2. working[d] = NoSub /\ pc[d] # "updating"
      BY <1>1, <2>2, <2>4, <3>1 DEF Waiting
    <3>3. Waiting(d)
      BY <2>3, <3>1, <3>2 DEF Waiting
    <3>4. QED
      BY <1>1, <2>1, <2>2, <2>3, <2>4, <3>1, <3>3 DEF Steady
  <2>5. ~Waiting(c)'
    BY <2>2 DEF Waiting
  <2>6. SparedInv'
    BY <1>3, <2>2, <2>4, <2>5, SparedStep
  <2>7. QED
    BY <2>1, <2>6
<1>9. ASSUME NEW c \in Conns, NEW P \in ProblemSets, SupportedProblems(c, P)
      PROVE  CalmInv' /\ SparedInv'
  <2>1. /\ UNCHANGED <<min_tier, judges, working, queue, faults, offers, resume, is_disabled,
                       closed, row_disabled>>
        /\ problems' = [problems EXCEPT ![c] = P]
        /\ pc' = [pc EXCEPT ![c] = IF working[c] = NoSub THEN "updating" ELSE "up"]
    BY <1>9 DEF SupportedProblems, listVars, dbVars
  <2>2. ~Waiting(c)'
    BY <1>1, <2>1 DEF Waiting
  <2>3. \A d \in Conns : d # c => problems'[d] = problems[d] /\ pc'[d] = pc[d]
    BY <1>1, <2>1
  <2>4. QED
    BY <1>1, <1>3, <2>1, <2>2, <2>3, QuietSpared
<1>10. ASSUME NEW c \in Conns, Connected(c)
       PROVE  CalmInv' /\ SparedInv'
  <2>1. /\ UNCHANGED <<min_tier, judges, working, queue, faults, offers, resume, problems,
                       closed, row_disabled>>
        /\ is_disabled' = [is_disabled EXCEPT ![c] = row_disabled[NameOf[c]]]
        /\ pc[c] = "handshake" /\ pc' \in {[pc EXCEPT ![c] = "enabling"], [pc EXCEPT ![c] = "disabling"]}
    BY <1>10 DEF Connected, listVars, dbVars
  <2>2. ~row_disabled[NameOf[c]] /\ row_disabled[NameOf[c]] \in BOOLEAN
    BY <1>1, ConstantsAssumption DEF CalmInv, TypeOK
  <2>3. is_disabled' = is_disabled
    BY <1>1, <2>1, <2>2 DEF CalmInv
  <2>4. \A d \in Conns : pc'[d] # "updating" => pc[d] # "updating"
    BY <1>1, <2>1
  <2>5. QED
    BY <1>1, <1>2, <1>3, <2>1, <2>3, <2>4, QuietSpared
<1>19. ASSUME NEW c \in Conns, SaveRow(c)
       PROVE  CalmInv' /\ SparedInv'
  <2>1. /\ UNCHANGED <<min_tier, judges, working, queue, faults, offers, resume, problems,
                       closed, is_disabled>>
        /\ pc[c] = "enabling" /\ pc' = [pc EXCEPT ![c] = "up"]
        /\ row_disabled' = [row_disabled EXCEPT ![NameOf[c]] = FALSE]
    BY <1>19 DEF SaveRow, listVars, NoneDisabling
  <2>2. row_disabled' = row_disabled
    BY <1>1, <2>1, ConstantsAssumption DEF CalmInv, TypeOK
  <2>3. \A d \in Conns : pc'[d] # "updating" => pc[d] # "updating"
    BY <1>1, <2>1
  <2>4. QED
    BY <1>1, <1>2, <1>3, <2>1, <2>2, <2>3, QuietSpared
<1>11. ASSUME NEW c \in Conns, UpdateProblems(c)
       PROVE  CalmInv' /\ SparedInv'
  <2>1. /\ HandleFreeJudge(c, submission_map, working, sent)
        /\ UNCHANGED <<min_tier, offers, resume, is_disabled, problems, closed, row_disabled>>
        /\ pc' = [pc EXCEPT ![c] = "up"]
    BY <1>11 DEF UpdateProblems, dbVars
  <2>2. \A d \in CurrentTierJudges : d # c => pc'[d] = pc[d]
    BY <1>1, <2>1 DEF CurrentTierJudges
  <2>3. QED
    BY <1>1, <2>1, <2>2, OfferSpared DEF CalmInv
<1>12. ASSUME NEW c \in Conns, NEW s \in Subs, OnJudgeFree(c, s)
       PROVE  CalmInv' /\ SparedInv'
  <2> DEFINE m == [submission_map EXCEPT ![s] = NoConn]
             w == [working EXCEPT ![c] = NoSub]
             o == [sent EXCEPT ![c] = @ \ {s}]
  <2>1. UNCHANGED <<min_tier, offers, resume, is_disabled, problems, pc, closed, row_disabled>>
    BY <1>12 DEF OnJudgeFree, connVars, dbVars
  <2>2. \/ UNCHANGED <<queue, judges, working, faults>>
        \/ HandleFreeJudge(c, m, w, o)
    BY <1>12 DEF OnJudgeFree
  <2>3. w \in WorkingType /\ \A d \in Conns : d # c => w[d] = working[d]
    BY <1>1 DEF WorkingType
  <2> HIDE DEF m, w, o
  <2>4. CASE HandleFreeJudge(c, m, w, o)
    BY <2>1, <2>3, <2>4, OfferSpared DEF CalmInv
  <2>5. CASE UNCHANGED <<queue, judges, working, faults>>
    BY <1>1, <1>2, <1>3, <2>1, <2>5, QuietSpared
  <2>6. QED
    BY <2>2, <2>4, <2>5
<1>13. ASSUME NEW c \in Conns, RemoveJudge(c)
       PROVE  CalmInv' /\ SparedInv'
  <2>1. /\ CalmInv'
        /\ \A d \in CurrentTierJudges' : d # c /\ (d \in offers' \/ d \in CurrentTierJudges)
    BY <1>1, <1>13, RemoveCalm
  <2>2. /\ UNCHANGED queue
        /\ working' = [working EXCEPT ![c] = NoSub]
        /\ pc' = [pc EXCEPT ![c] = "off"]
        /\ problems' = [problems EXCEPT ![c] = {}]
        /\ is_disabled' = [is_disabled EXCEPT ![c] = FALSE]
        /\ resume' = [op |-> "remove", judge |-> c]
        /\ LockFree
    BY <1>13 DEF RemoveJudge
  <2>3. ASSUME NEW d \in CurrentTierJudges', d # c, Waiting(d)'
        PROVE  Steady(d)
    <3>1. d \in CurrentTierJudges /\ d \in Conns
      BY <1>1, <2>1, <2>3 DEF Waiting, CurrentTierJudges
    <3>2. working[d] = NoSub /\ pc[d] # "updating"
      BY <1>1, <2>2, <2>3, <3>1 DEF Waiting, WorkingType
    <3>3. Waiting(d)
      BY <2>2, <3>1, <3>2 DEF Waiting, LockFree, NoResume
    <3>4. QED
      BY <1>1, <2>2, <2>3, <3>1, <3>3 DEF Steady
  <2>4. c \notin CurrentTierJudges'
    BY <2>1
  <2>5. SparedInv'
    BY <1>3, <2>2, <2>3, <2>4, SparedStep
  <2>6. QED
    BY <2>1, <2>5
<1>14. ASSUME NEW c \in Conns, OfferFreeJudge(c)
       PROVE  CalmInv' /\ SparedInv'
  <2>1. /\ c \in offers /\ offers' = offers \ {c}
        /\ UNCHANGED <<min_tier, resume, is_disabled, problems, pc, closed, row_disabled>>
        /\ \/ HandleFreeJudge(c, submission_map, working, sent)
           \/ working[c] # NoSub /\ UNCHANGED <<queue, working, judges, faults>>
    BY <1>14 DEF OfferFreeJudge, connVars, dbVars, listVars
  <2>2. CASE HandleFreeJudge(c, submission_map, working, sent)
    BY <1>1, <2>1, <2>2, OfferSpared DEF CalmInv
  <2>3. CASE working[c] # NoSub /\ UNCHANGED <<queue, working, judges, faults>>
    <3>1. CalmInv' /\ CurrentTierJudges' = CurrentTierJudges
      BY <2>1, <2>3 DEF CalmInv, CurrentTierJudges
    <3>2. ASSUME NEW d \in CurrentTierJudges', d # c, Waiting(d)'
          PROVE  Steady(d)
      <4>1. d \in Conns /\ Waiting(d)
        BY <1>1, <2>1, <2>3, <3>1, <3>2 DEF Waiting, CurrentTierJudges
      <4>2. QED
        BY <2>1, <3>1, <4>1 DEF Steady, CalmInv
    <3>3. ~Waiting(c)'
      BY <2>3 DEF Waiting
    <3>4. SparedInv'
      BY <1>3, <2>3, <3>2, <3>3, SparedStep
    <3>5. QED
      BY <3>1, <3>4
  <2>4. QED
    BY <2>1, <2>2, <2>3
<1>15. ASSUME OfferRegistered
       PROVE  CalmInv' /\ SparedInv'
  <2>1. /\ offers = {} /\ resume.op = "register" /\ resume' = NoResume
        /\ HandleFreeJudge(resume.judge, submission_map, working, sent)
        /\ UNCHANGED <<min_tier, offers, is_disabled, problems, pc, closed, row_disabled>>
    BY <1>15 DEF OfferRegistered, connVars, dbVars
  <2>2. resume.judge \in Conns
    BY <1>1, <2>1 DEF NoResume
  <2>3. QED
    BY <1>1, <2>1, <2>2, OfferSpared
<1>16. ASSUME OfferSoleJudge
       PROVE  CalmInv' /\ SparedInv'
  <2>1. /\ offers = {} /\ resume.op = "remove" /\ resume' = NoResume
        /\ UNCHANGED <<min_tier, offers, is_disabled, problems, pc, closed, row_disabled>>
        /\ \/ \E c \in SoleJudge : HandleFreeJudge(c, submission_map, working, sent)
           \/ SoleJudge = {} /\ UNCHANGED <<queue, working, judges, faults>>
    BY <1>16 DEF OfferSoleJudge, connVars, dbVars, listVars
  <2>2. CASE \E c \in SoleJudge : HandleFreeJudge(c, submission_map, working, sent)
    <3>1. PICK c \in SoleJudge : HandleFreeJudge(c, submission_map, working, sent)
      BY <2>2
    <3>2. c \in Conns /\ CurrentTierJudges = {c}
      BY <1>1, <3>1 DEF SoleJudge, CurrentTierJudges
    <3>3. QED
      BY <1>1, <2>1, <3>1, <3>2, OfferSpared
  <2>3. CASE SoleJudge = {} /\ UNCHANGED <<queue, working, judges, faults>>
    <3>1. CalmInv' /\ CurrentTierJudges' = CurrentTierJudges
      BY <2>1, <2>3 DEF CalmInv, CurrentTierJudges
    <3>2. ASSUME NEW d \in CurrentTierJudges', Waiting(d)'
          PROVE  Steady(d)
      <4>1. Waiting(d)
        BY <2>1, <2>3, <3>1, <3>2 DEF Waiting
      <4>2. CurrentTierJudges' # {d}
        BY <2>3, <3>1, <3>2, <4>1 DEF Waiting, SoleJudge
      <4>3. QED
        BY <2>1, <4>1, <4>2 DEF Steady
    <3>3. SparedInv'
      <4>1. NoConn \notin CurrentTierJudges'
        BY <1>1, <1>2, <3>1 DEF CurrentTierJudges
      <4>2. QED
        BY <1>3, <2>3, <3>2, <4>1, SparedStep
    <3>4. QED
      BY <3>1, <3>3
  <2>4. QED
    BY <2>1, <2>2, <2>3
<1>17. CASE UNCHANGED vars
  BY <1>1, <1>2, <1>3, <1>17, QuietSpared DEF vars, listVars, connVars, dbVars
<1>18. QED
  BY <1>4, <1>5, <1>6, <1>7, <1>8, <1>9, <1>10, <1>11, <1>12, <1>13, <1>14, <1>15, <1>16, <1>17,
     <1>19 DEF Next, Request, Administer, Handle, HoldLock

\* The pool starts empty, in the least tier of no judge.
LEMMA SparedInit ==
  ASSUME Calm, Init
  PROVE  CalmInv /\ SparedInv /\ NoneDisabling
<1>1. CalmInv /\ NoneDisabling
  BY DEF Init, Calm, CalmInv, LeastTier, NoneDisabling
<1>2. SparedInv
  BY DEF Init, SparedInv, CurrentTierJudges
<1>3. QED
  BY <1>1, <1>2

\* What waits beside a free judge is a rejudge that is spared for it.
LEMMA SparedAlways ==
  ASSUME Calm
  PROVE  Spec => [](CalmInv /\ SparedInv)
<1>1. Init => CalmInv /\ SparedInv /\ NoneDisabling
  BY SparedInit
<1>2. /\ IInv /\ IInv' /\ CalmInv /\ SparedInv /\ NoneDisabling /\ [Next]_vars
      => CalmInv' /\ SparedInv' /\ NoneDisabling'
  <2>1. IInv => TypeOK
    BY DEF IInv
  <2>2. QED
    BY <2>1, SparedNext, NoneDisablingNext
<1>3. QED
  BY <1>1, <1>2, Invariance, PTL DEF Spec

\* Without faults and disabled judges, no arrival, end, departure or new problem
\* list loses a wake-up: when the lock is free, a free judge of the serving tier
\* leaves nothing below rejudge priority that it can judge in the queue.
THEOREM NobodyIdles ==
  ASSUME Calm
  PROVE  Spec => []NoIdleWhileQueued
<1>1. CalmInv /\ SparedInv => NoIdleWhileQueued
  <2> SUFFICES ASSUME SparedInv, LockFree, NEW c \in CurrentTierJudges,
                      working[c] = NoSub, pc[c] # "updating",
                      NEW p \in 0..(REJUDGE_PRIORITY - 1), NEW i \in 1..Len(queue[p]),
                      Suits(c, p, i)
               PROVE  FALSE
    BY DEF NoIdleWhileQueued, Suits
  <2>1. Waiting(c) /\ p \in Priorities /\ ~(p >= REJUDGE_PRIORITY)
    BY DEF Waiting, LockFree, NoResume, Priorities, REJUDGE_PRIORITY
  <2>2. QED
    BY <2>1 DEF SparedInv, Spared
<1>2. QED
  BY <1>1, SparedAlways, PTL

\* Without faults and disabled judges, the judge held in reserve does not starve the
\* rejudges for good: when all of the serving tier are free, none of them waits
\* that all could take.
THEOREM RejudgesAreServed ==
  ASSUME Calm
  PROVE  Spec => []RejudgesRunWhenAllIdle
<1>1. CalmInv /\ SparedInv => RejudgesRunWhenAllIdle
  <2> SUFFICES ASSUME SparedInv, LockFree, NEW c \in CurrentTierJudges,
                      \A d \in CurrentTierJudges : working[d] = NoSub /\ pc[d] # "updating",
                      NEW p \in Priorities, NEW i \in 1..Len(queue[p]),
                      \A d \in CurrentTierJudges : Suits(d, p, i)
               PROVE  FALSE
    BY DEF RejudgesRunWhenAllIdle, Suits
  <2>1. \A d \in CurrentTierJudges : Waiting(d)
    BY DEF Waiting, LockFree, NoResume
  <2>2. Spared(c, p, i)
    BY <2>1 DEF SparedInv
  <2>3. CurrentTierJudges = {c}
    BY <2>1, <2>2 DEF Spared
  <2>4. QED
    BY <2>2, <2>3 DEF Spared, LockFree, NoResume
<1>2. QED
  BY <1>1, SparedAlways, PTL

-----------------------------------------------------------------------------
(* The reserve, under any faults.                                          *)

\* A walk of the queue for d gives it no rejudge while it is the last free judge of
\* its tier, and nothing to anybody else.
LEMMA WalkSpares ==
  ASSUME IInv, NEW d \in Conns, NEW m, NEW w, NEW o \in SentType, HandleFreeJudge(d, m, w, o),
         NEW c \in CurrentTierJudges, Cardinality(CurrentTierJudges) > 1,
         \A e \in CurrentTierJudges \ {c} : w[e] # NoSub,
         NEW p \in Priorities, p >= REJUDGE_PRIORITY, NEW i \in 1..Len(queue[p])
  PROVE  queue[p][i].id \notin sent'[c] \ o[c]
<1> SUFFICES ASSUME queue[p][i].id \in sent'[c] \ o[c]
             PROVE  FALSE
  OBVIOUS
<1>1. c \in Conns /\ queue \in QueueType /\ NoDuplicates(queue)
  BY DEF CurrentTierJudges, IInv, TypeOK, ListTypeOK, QueueType
<1>2. d = c
  BY <1>1, HandleFreeJudgeSent
<1>3. PICK k \in Priorities : \E l \in 1..Len(queue[k]) :
             Takes(c, w, k, l) /\ sent' \in {o, [o EXCEPT ![c] = @ \cup {queue[k][l].id}]}
  BY <1>2 DEF HandleFreeJudge, Served, SubmitSucceeds, SubmitRaises
<1>4. PICK l \in 1..Len(queue[k]) :
             Takes(c, w, k, l) /\ sent' \in {o, [o EXCEPT ![c] = @ \cup {queue[k][l].id}]}
  BY <1>3
<1>5. queue[p][i].id = queue[k][l].id
  BY <1>1, <1>4 DEF SentType
<1>6. k = p
  BY <1>1, <1>5 DEF NoDuplicates
<1>7. ShouldReserveJudge(w)
  <2> DEFINE free == {e \in CurrentTierJudges : w[e] = NoSub}
  <2>1. free \in SUBSET {c}
    OBVIOUS
  <2>2. IsFiniteSet({c}) /\ Cardinality({c}) = 1
    BY FS_Singleton
  <2> HIDE DEF free
  <2>3. Cardinality(free) <= 1
    BY <2>1, <2>2, FS_Subset
  <2>4. QED
    BY <2>3 DEF free, ShouldReserveJudge
<1>8. QED
  BY <1>4, <1>6, <1>7 DEF Takes

\* A step gives a queued rejudge to the last free judge of its tier in no way.
LEMMA SparesStep ==
  ASSUME IInv, [Next]_vars, NEW c \in CurrentTierJudges, NEW p \in REJUDGE_PRIORITY..3,
         Cardinality(CurrentTierJudges) > 1,
         \A d \in CurrentTierJudges \ {c} : working[d] # NoSub,
         NEW i \in 1..Len(queue[p])
  PROVE  queue[p][i].id \notin sent'[c] \ sent[c]
<1> DEFINE s == queue[p][i].id
<1>1. /\ c \in Conns /\ sent \in SentType /\ working \in WorkingType
      /\ resume \in {NoResume} \cup [op : {"register", "remove"}, judge : Conns]
  BY DEF CurrentTierJudges, IInv, TypeOK, ListTypeOK
<1>2. p \in Priorities /\ p >= REJUDGE_PRIORITY
  BY DEF Priorities, REJUDGE_PRIORITY
<1>3. Queued(s)
  BY <1>2 DEF Queued, InQueue
<1>4. ASSUME NEW d \in Conns, NEW m, HandleFreeJudge(d, m, working, sent)
      PROVE  s \notin sent'[c] \ sent[c]
  BY <1>1, <1>2, <1>4, WalkSpares
<1>5. ASSUME NEW r \in Subs, NEW t \in Targets, NEW q \in RequestPriorities, Judge(r, t, q)
      PROVE  s \notin sent'[c] \ sent[c]
  <2>1. r # s
    BY <1>3, <1>5 DEF Judge, Known
  <2> HIDE DEF s
  <2>2. \/ sent' = sent
        \/ \E d : sent' = [sent EXCEPT ![d] = @ \cup {r}]
    BY <1>5 DEF Judge, SubmitSucceeds, SubmitRaises, Enqueue
  <2>3. QED
    BY <1>1, <2>1, <2>2 DEF SentType
<1>6. ASSUME NEW d \in Conns, NEW r \in Subs, OnJudgeFree(d, r)
      PROVE  s \notin sent'[c] \ sent[c]
  <2> DEFINE m == [submission_map EXCEPT ![r] = NoConn]
             w == [working EXCEPT ![d] = NoSub]
             o == [sent EXCEPT ![d] = @ \ {r}]
  <2>1. sent' = o \/ HandleFreeJudge(d, m, w, o)
    BY <1>6 DEF OnJudgeFree
  <2>2. o \in SentType /\ o[c] \subseteq sent[c]
    BY <1>1 DEF SentType
  <2>3. d # c => sent'[c] = o[c]
    <3> HIDE DEF m, w, o
    <3>1. QED
      BY <1>1, <2>1, <2>2, HandleFreeJudgeSent
  <2>4. d = c => \A e \in CurrentTierJudges \ {c} : w[e] # NoSub
    BY <1>1 DEF WorkingType
  <2>5. CASE HandleFreeJudge(d, m, w, o) /\ d = c
    <3>1. queue[p][i].id \notin sent'[c] \ o[c]
      <4> HIDE DEF m, w, o, s
      <4>1. QED
        BY <1>2, <2>2, <2>4, <2>5, WalkSpares
    <3> HIDE DEF m, w, o
    <3>2. s \in sent'[c] => s \in o[c]
      BY <3>1
    <3>3. s \in sent[c] \/ s \notin sent'[c]
      BY <2>2, <3>2
    <3>4. QED
      BY <3>3
  <2>6. QED
    <3> HIDE DEF m, w, o, s
    <3>1. QED
      BY <2>1, <2>2, <2>3, <2>5
<1>7. ASSUME NEW d \in Conns, RemoveJudge(d)
      PROVE  s \notin sent'[c] \ sent[c]
  <2> HIDE DEF s
  <2>1. QED
    BY <1>1, <1>7 DEF RemoveJudge, SentType
<1>8. ASSUME OfferRegistered
      PROVE  s \notin sent'[c] \ sent[c]
  <2>1. resume.judge \in Conns
    BY <1>1, <1>8 DEF OfferRegistered, NoResume
  <2>2. QED
    BY <1>4, <1>8, <2>1 DEF OfferRegistered
<1>9. ASSUME OfferSoleJudge
      PROVE  s \notin sent'[c] \ sent[c]
  <2>1. \A d \in SoleJudge : d \in Conns
    BY DEF SoleJudge, CurrentTierJudges, IInv, TypeOK, ListTypeOK
  <2>2. QED
    BY <1>4, <1>9, <2>1 DEF OfferSoleJudge, listVars
<1>10. ASSUME UNCHANGED sent
       PROVE  s \notin sent'[c] \ sent[c]
  BY <1>10
<1>11. ASSUME NEW d \in Conns, UpdateProblems(d) \/ OfferFreeJudge(d)
       PROVE  s \notin sent'[c] \ sent[c]
  BY <1>4, <1>11 DEF UpdateProblems, OfferFreeJudge, listVars
<1> HIDE DEF s
<1>12. s \notin sent'[c] \ sent[c]
  BY <1>5, <1>6, <1>7, <1>8, <1>9, <1>10, <1>11, ConstantsAssumption
     DEF Next, Request, Administer, Handle, HoldLock, Abort, UpdateDisableJudge,
         SaveDisabled, Disconnect, Register, Connected, SaveRow, SupportedProblems, vars, listVars
<1>13. QED
  BY <1>12 DEF s

\* A request whose other candidates are busy leaves the last free judge alone.
LEMMA RequestSpares ==
  ASSUME IInv, NEW c \in CurrentTierJudges, NEW p \in REJUDGE_PRIORITY..3, NEW s \in Subs,
         NEW t \in Targets, \A d \in CurrentTierJudges \ {c} : working[d] # NoSub,
         Judge(s, t, p), Candidates(s, t) # {c}
  PROVE  s \notin sent'[c] \ sent[c]
<1> DEFINE candidates == Candidates(s, t)
           free == {d \in candidates : working[d] = NoSub}
<1>1. /\ c \in Conns /\ sent \in SentType /\ p >= REJUDGE_PRIORITY
      /\ candidates \subseteq CurrentTierJudges /\ CurrentTierJudges \subseteq Conns
  BY DEF CurrentTierJudges, IInv, TypeOK, ListTypeOK, REJUDGE_PRIORITY, Candidates
<1>2. s \in sent'[c] \ sent[c] => c \in Available(s, t, p)
  BY <1>1 DEF Judge, SubmitSucceeds, SubmitRaises, Enqueue, SentType
<1>3. ASSUME c \in Available(s, t, p) PROVE FALSE
  <2>1. c \in free
    BY <1>3 DEF Available
  <2>2. free = {c} /\ c \in candidates
    BY <1>1, <2>1
  <2>3. IsFiniteSet(candidates) /\ Cardinality(free) = 1
    BY <1>1, <2>2, FS_Subset, FS_Singleton, ConstantsAssumption
  <2>4. Cardinality(candidates) > 1
    <3>1. PICK d \in candidates : d # c
      BY <2>2
    <3>2. {c, d} \subseteq candidates /\ Cardinality({c, d}) = 2
      <4>1. IsFiniteSet({c}) /\ Cardinality({c}) = 1
        BY FS_Singleton
      <4>2. {c, d} = {c} \cup {d} /\ d \notin {c}
        BY <3>1
      <4>3. Cardinality({c} \cup {d}) = Cardinality({c}) + 1
        BY <4>1, <4>2, FS_AddElement
      <4>4. QED
        BY <2>2, <3>1, <4>1, <4>2, <4>3
    <3>3. QED
      BY <2>3, <3>2, FS_Subset, FS_CardinalityType
  <2>5. Available(s, t, p) = {}
    BY <1>1, <2>3, <2>4 DEF Available
  <2>6. QED
    BY <1>3, <2>5
<1>4. QED
  BY <1>1, <1>2, <1>3

\* Whatever raises or is switched off, neither the walk of the queue nor a request
\* takes a rejudge into the reserve.
THEOREM LastFreeIsSpared == Spec => RejudgeSparesLastFree
<1> DEFINE A == \A c \in CurrentTierJudges : \A s \in Subs : \A p \in REJUDGE_PRIORITY..3 :
                  /\ Cardinality(CurrentTierJudges) > 1
                  /\ \A d \in CurrentTierJudges \ {c} : working[d] # NoSub /\ working'[d] = working[d]
                  /\ \/ \E i \in 1..Len(queue[p]) : queue[p][i].id = s
                     \/ \E t \in Targets : Judge(s, t, p) /\ Candidates(s, t) # {c}
                  => s \notin sent'[c] \ sent[c]
<1>1. ASSUME IInv, [Next]_vars
      PROVE  [A]_vars
  <2> SUFFICES ASSUME NEW c \in CurrentTierJudges, NEW s \in Subs, NEW p \in REJUDGE_PRIORITY..3,
                      Cardinality(CurrentTierJudges) > 1,
                      \A d \in CurrentTierJudges \ {c} : working[d] # NoSub,
                      \/ \E i \in 1..Len(queue[p]) : queue[p][i].id = s
                      \/ \E t \in Targets : Judge(s, t, p) /\ Candidates(s, t) # {c}
               PROVE  s \notin sent'[c] \ sent[c]
    OBVIOUS
  <2>1. CASE \E i \in 1..Len(queue[p]) : queue[p][i].id = s
    <3>1. PICK i \in 1..Len(queue[p]) : queue[p][i].id = s
      BY <2>1
    <3>2. queue[p][i].id \notin sent'[c] \ sent[c]
      BY <1>1, SparesStep
    <3>3. QED
      BY <3>1, <3>2
  <2>2. CASE \E t \in Targets : Judge(s, t, p) /\ Candidates(s, t) # {c}
    <3>1. PICK t \in Targets : Judge(s, t, p) /\ Candidates(s, t) # {c}
      BY <2>2
    <3>2. QED
      BY <1>1, <3>1, RequestSpares
  <2>3. QED
    BY <2>1, <2>2
<1>2. IInv /\ [Next]_vars => [A]_vars
  BY <1>1
<1> HIDE DEF A
<1>3. Spec => [][A]_vars
  BY Invariance, <1>2, PTL DEF Spec
<1>4. QED
  BY <1>3 DEF A, RejudgeSparesLastFree
=============================================================================
