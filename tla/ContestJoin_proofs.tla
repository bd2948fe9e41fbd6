-------------------------- MODULE ContestJoin_proofs --------------------------
(***************************************************************************)
(* Proofs about ContestJoin, for any users, threads, limits and bounds.    *)
(*                                                                         *)
(* Well-formedness (Wf) says that what requests and profiles refer to      *)
(* exists and that virtual ids have no gap: WellFormed, and from it        *)
(* VirtualIdsAreDense.  On top of it stand four invariants, each of which  *)
(* says what a request that is under way may rely on: the lock it loaded   *)
(* (LockInv: LocksAgree), the number it counted (CountInv: CountIsRight),  *)
(* the ban it tested (OutInv: DisqualifiedStaysOut) and the clock it       *)
(* looked at (TimeInv: LiveNeedsOpen).  LimitInv counts the submissions    *)
(* stored together with the requests that are about to store one:          *)
(* LimitsAreKept.                                                          *)
(***************************************************************************)
EXTENDS ContestJoin, FiniteSetTheorems, TLAPS

-----------------------------------------------------------------------------
(* The states of a request.                                                *)

\* Ids of participations, and what the fields of a request may hold.
Ids == {i \in Int : i >= SPECTATE}
OptId == Ids \cup {None}
Kinds == {"join", "leave", "submit"}
Places == {"join", "leave", "submit", "number", "virtual", "get", "create",
           "get_or_create", "profile", "count", "contest", "store"}
Row == [visible : BOOLEAN, locked : BOOLEAN, count : Nat]
Participation == [user : Users, virtual : Ids, start : Nat]
Submission == [user : Users, virtual : OptId, status : {"QU", "D", "IE"}, locked : BOOLEAN,
               rejudged : BOOLEAN, revived : BOOLEAN]
Request == [at : Places, user : Users, kind : Kinds, prof : OptId, pid : OptId,
            timely : BOOLEAN, row : Row \cup {None}]
Lock == [at : {"lock"}, on : BOOLEAN, row : Row]
Case == [at : {"look", "remove", "ban", "lift"}, key : Users \X Ids]
History == [overlap : BOOLEAN, miscounted : BOOLEAN, strayed : BOOLEAN, slipped : SUBSET Users]

\* The types, among them that the participations are finite in number.
TypeOK ==
  /\ now \in Nat
  /\ parts \in SUBSET Participation /\ IsFiniteSet(parts)
  /\ current \in [Users -> OptId]
  /\ contest \in Row
  /\ disq \subseteq Users \X Ids /\ banned \subseteq Users
  /\ admin \in {Idle} \cup Lock \cup Case
  /\ subs \in Seq(Submission)
  /\ req \in [Threads -> {Idle} \cup Request]
  /\ requests \in Nat /\ edits \in Nat
  /\ raced \in History

\* What a request has loaded and computed by the time it is at its place.
RequestOK(r) ==
  /\ r.kind = CASE r.at \in {"submit", "store"} -> "submit"
                [] r.at = "leave" -> "leave"
                [] r.at = "profile" -> IF r.pid = None THEN "leave" ELSE "join"
                [] OTHER -> "join"
  /\ Loaded(r) => r.row \in Row
  /\ r.at = "virtual" => r.pid \in Ids /\ r.pid >= 1
  /\ r.at \in {"get", "create"} => r.pid \in {LIVE, SPECTATE}
  /\ r.at = "get_or_create" => r.pid = SPECTATE

\* The participations that a request and the profiles refer to exist.
RefersOK(r) ==
  /\ r.prof # None => <<r.user, r.prof>> \in Keys
  /\ r.at = "profile" /\ r.pid # None => <<r.user, r.pid>> \in Keys
  /\ r.at = "virtual" /\ r.pid > 1 => <<r.user, r.pid - 1>> \in Keys

\* A profile refers to a participation that exists.
ProfilesOK == \A u \in Users : current[u] # None => <<u, current[u]>> \in Keys

\* The keys are unique, and the virtual ids of a user are 1, ..., n.
Dense(u, n) == \A i \in Int : i >= 1 => (<<u, i>> \in Keys <=> i <= n)
Numbered ==
  /\ \A p, q \in parts : Key(p) = Key(q) => p = q
  /\ \A u \in Users : \E n \in Nat : Dense(u, n)

\* Well-formedness: types, references and numbers.
Wf ==
  /\ TypeOK /\ ProfilesOK /\ Numbered
  /\ \A t \in Active : RequestOK(req[t]) /\ RefersOK(req[t])
-----------------------------------------------------------------------------
(* How a step changes the request of its thread.                           *)

\* The request of t becomes r.
Becomes(t, r) ==
  /\ req' \in [Threads -> {Idle} \cup Request]
  /\ req'[t] = r
  /\ \A s \in Threads \ {t} : req'[s] = req[s]

\* The fields no step of a request changes.
Same(r, s) == s.user = r.user /\ s.kind = r.kind /\ s.prof = r.prof

\* A request that is idle or not is told by its place.
LEMMA ActiveIs ==
  ASSUME TypeOK
  PROVE  \A t \in Threads : /\ t \in Active <=> req[t] \in Request
                            /\ t \notin Active <=> req[t] = Idle
BY DEF TypeOK, Active, Idle, Request, Places

\* A finished request leaves its thread idle.
LEMMA Finishes ==
  ASSUME TypeOK, NEW t \in Threads, Finish(t)
  PROVE  Becomes(t, Idle)
BY DEF TypeOK, Finish, Becomes

\* Going on to a place keeps what the request has loaded.
LEMMA Goes ==
  ASSUME TypeOK, NEW t \in Active, NEW at \in Places, Goto(t, at)
  PROVE  /\ req'[t] \in Request /\ Becomes(t, req'[t]) /\ Same(req[t], req'[t])
         /\ req'[t].at = at /\ req'[t].pid = req[t].pid
         /\ req'[t].timely = req[t].timely /\ req'[t].row = req[t].row
<1>1. req[t] \in Request /\ t \in Threads
  BY ActiveIs DEF Active
<1>2. req'[t] = [req[t] EXCEPT !.at = at]
  BY <1>1 DEF Goto, TypeOK
<1>3. req'[t] \in Request
  BY <1>1, <1>2 DEF Request
<1>4. QED
  BY <1>1, <1>2, <1>3 DEF Becomes, Same, Goto, TypeOK, Request

\* Going on with an id changes the id and the place only.
LEMMA Uses ==
  ASSUME TypeOK, NEW t \in Active, NEW at \in Places, NEW id \in OptId, Using(t, id, at)
  PROVE  /\ req'[t] \in Request /\ Becomes(t, req'[t]) /\ Same(req[t], req'[t])
         /\ req'[t].at = at /\ req'[t].pid = id
         /\ req'[t].timely = req[t].timely /\ req'[t].row = req[t].row
<1>1. req[t] \in Request /\ t \in Threads
  BY ActiveIs DEF Active
<1>2. req'[t] = [req[t] EXCEPT !.pid = id, !.at = at]
  BY <1>1 DEF Using, TypeOK
<1>3. req'[t] \in Request
  BY <1>1, <1>2 DEF Request
<1>4. QED
  BY <1>1, <1>2, <1>3 DEF Becomes, Same, Using, TypeOK, Request

-----------------------------------------------------------------------------
(* Numbers.                                                                *)

\* The keys are the pairs of user and virtual id of the rows.
LEMMA KeysAre ==
  /\ \A k : k \in Keys <=> \E p \in parts : k = <<p.user, p.virtual>>
  /\ \A k : k \in Keys' <=> \E p \in parts' : k = <<p.user, p.virtual>>
BY DEF Keys, Key

\* Keys are made of users and ids.
LEMMA KeysType ==
  ASSUME TypeOK
  PROVE  Keys \subseteq Users \X Ids
BY KeysAre DEF TypeOK, Participation

\* Without a gap before it, the next id is the first one free.
LEMMA NextIdIs ==
  ASSUME TypeOK, NEW u \in Users, NEW n \in Nat, Dense(u, n)
  PROVE  NextId(u) = n + 1
<1> DEFINE ids == {k[2] : k \in {k \in Keys : k[1] = u}}
           largest == IF ids = {} THEN 0 ELSE CHOOSE i \in ids : \A j \in ids : j <= i
<1>1. NextId(u) = IF largest + 1 > 1 THEN largest + 1 ELSE 1
  BY DEF NextId
<1>2. \A i : i \in ids <=> <<u, i>> \in Keys
  <2>1. \A k \in Keys : k = <<k[1], k[2]>>
    BY KeysType
  <2>2. QED
    BY <2>1
<1>3. \A i \in ids : i \in Int /\ i >= -1
  BY <1>2, KeysType DEF Ids, SPECTATE
<1> HIDE DEF ids
<1>4. \A i \in ids : i <= n
  <2>1. \A i \in ids : i >= 1 => i <= n
    BY <1>2, <1>3 DEF Dense
  <2>2. QED
    BY <1>3, <2>1
<1>5. n >= 1 => n \in ids
  <2>1. n \in Int /\ n <= n
    OBVIOUS
  <2>2. QED
    BY <1>2, <2>1 DEF Dense
<1>6. CASE ids = {}
  <2>1. n = 0
    BY <1>5, <1>6
  <2>2. largest = 0
    BY <1>6
  <2> HIDE DEF largest
  <2>3. QED
    BY <1>1, <2>1, <2>2
<1>7. CASE n >= 1
  <2>1. \A i \in ids : (\A j \in ids : j <= i) => i = n
    BY <1>3, <1>4, <1>5, <1>7
  <2>2. largest = n
    BY <1>4, <1>5, <1>7, <2>1
  <2> HIDE DEF largest
  <2>3. QED
    BY <1>1, <1>7, <2>2
<1>8. CASE ids # {} /\ n = 0
  <2>1. \E i \in ids : \A j \in ids : j <= i
    <3>1. \A i \in ids : i = -1 \/ i = 0
      BY <1>3, <1>4, <1>8
    <3>2. CASE 0 \in ids
      BY <1>4, <1>8, <3>2
    <3>3. CASE 0 \notin ids
      BY <1>8, <3>1, <3>3
    <3>4. QED
      BY <3>2, <3>3
  <2>2. largest \in ids
    BY <1>8, <2>1
  <2> HIDE DEF largest
  <2>3. QED
    BY <1>1, <1>3, <1>4, <1>8, <2>2
<1>9. QED
  BY <1>6, <1>7, <1>8

\* The next id is positive, and the one before it is taken.
LEMMA NextIdOK ==
  ASSUME TypeOK, Numbered, NEW u \in Users
  PROVE  /\ NextId(u) \in Nat \ {0}
         /\ NextId(u) > 1 => <<u, NextId(u) - 1>> \in Keys
<1>1. PICK n \in Nat : Dense(u, n)
  BY DEF Numbered
<1>2. NextId(u) = n + 1
  BY <1>1, NextIdIs
<1>3. n \in Int /\ n <= n
  OBVIOUS
<1>4. QED
  BY <1>1, <1>2, <1>3 DEF Dense

-----------------------------------------------------------------------------
(* Each step of a request leaves it well formed.                           *)

\* The step of t is its own, and its request is idle again or still in order.
StaysOK(t) ==
  /\ t \in Active
  /\ Becomes(t, req'[t])
  /\ \/ req'[t] = Idle
     \/ req'[t] \in Request /\ RequestOK(req'[t]) /\ Same(req[t], req'[t])

\* An active thread has a request.
LEMMA PlacesAre ==
  ASSUME TypeOK, NEW t \in Threads, req[t].at # "idle"
  PROVE  t \in Active /\ req[t] \in Request
BY ActiveIs DEF Active

\* The two reserved ids.
LEMMA IdsAre ==
  /\ LIVE \in Ids /\ SPECTATE \in Ids /\ Ids \subseteq OptId /\ None \in OptId
  /\ None \notin Ids /\ \A i \in Ids : i \in Int
  /\ LIVE # SPECTATE
BY LimitsAssumption DEF Ids, OptId, LIVE, SPECTATE

\* Finishing is always in order.
LEMMA FinishOK ==
  ASSUME TypeOK, NEW t \in Active, Finish(t)
  PROVE  StaysOK(t)
BY Finishes DEF StaysOK, Becomes, Active

\* The request of a user who enters has looked at the clock and loaded the contest.
LEMMA Enters ==
  ASSUME TypeOK, NEW t \in Active, NEW at \in Places, NEW id \in OptId, NEW b \in BOOLEAN,
         req' = [req EXCEPT ![t].timely = b, ![t].row = contest, ![t].at = at, ![t].pid = id]
  PROVE  /\ req'[t] \in Request /\ Becomes(t, req'[t]) /\ Same(req[t], req'[t])
         /\ req'[t].at = at /\ req'[t].pid = id
         /\ req'[t].timely = b /\ req'[t].row = contest
<1>1. req[t] \in Request /\ t \in Threads
  BY ActiveIs DEF Active
<1>2. req'[t] = [req[t] EXCEPT !.timely = b, !.row = contest, !.at = at, !.pid = id]
  BY <1>1 DEF TypeOK
<1>3. req'[t] \in Request
  BY <1>1, <1>2 DEF Request, TypeOK
<1>4. QED
  BY <1>1, <1>2, <1>3 DEF Becomes, Same, TypeOK, Request

\* Entering, by each branch of join_contest.
LEMMA EnterOK ==
  ASSUME Wf, NEW t \in Threads, Enter(t)
  PROVE  StaysOK(t)
<1> DEFINE timely == now \in Open..Close
           to(at, id) == req' = [req EXCEPT ![t].timely = timely,
                                            ![t].row = contest, ![t].at = at, ![t].pid = id]
<1>1. t \in Active /\ req[t] \in Request /\ RequestOK(req[t])
  BY PlacesAre DEF Enter, Wf
<1>2. timely \in BOOLEAN /\ contest \in Row
  BY DEF Wf, TypeOK
<1>3. req[t].kind = "join"
  BY <1>1 DEF Enter, RequestOK, Loaded
<1>4. \/ Finish(t) \/ to("number", None)
      \/ to("get", LIVE) \/ to("get", SPECTATE)
  BY DEF Enter
<1> HIDE DEF timely
<1>5. CASE Finish(t)
  BY <1>1, <1>5, FinishOK DEF Wf
<1>6. ASSUME NEW at \in {"number", "get"}, NEW id \in {None, LIVE, SPECTATE},
             at = "get" => id # None, to(at, id)
      PROVE  StaysOK(t)
  <2>1. /\ req'[t] \in Request /\ Becomes(t, req'[t]) /\ Same(req[t], req'[t])
        /\ req'[t].at = at /\ req'[t].pid = id /\ req'[t].row = contest
    <3>1. at \in Places /\ id \in OptId
      BY IdsAre DEF Places
    <3>2. QED
      BY <1>1, <1>2, <1>6, <3>1, Enters DEF Wf
  <2>2. RequestOK(req'[t])
    BY <1>2, <1>3, <1>6, <2>1 DEF RequestOK, Loaded, Same
  <2>3. QED
    BY <1>1, <2>1, <2>2 DEF StaysOK
<1>7. LIVE # None /\ SPECTATE # None
  BY IdsAre
<1>8. QED
  BY <1>4, <1>5, <1>6, <1>7

\* Computing the next virtual id.
LEMMA NumberOK ==
  ASSUME Wf, NEW t \in Threads, Number(t)
  PROVE  StaysOK(t)
<1>1. t \in Active /\ req[t] \in Request /\ RequestOK(req[t])
  BY PlacesAre DEF Number, Wf
<1>2. CASE Finish(t)
  BY <1>1, <1>2, FinishOK DEF Wf
<1>3. CASE Using(t, NextId(req[t].user), "virtual")
  <2>1. NextId(req[t].user) \in Nat \ {0}
    BY <1>1, NextIdOK DEF Wf, Request
  <2>2. NextId(req[t].user) \in OptId
    BY <2>1 DEF OptId, Ids, SPECTATE
  <2>3. QED
    BY <1>1, <1>3, <2>1, <2>2, Uses DEF Number, StaysOK, RequestOK, Loaded, Same, Wf, Places, Ids, SPECTATE, Ids, SPECTATE
<1>4. QED
  BY <1>2, <1>3 DEF Number

\* Creating the virtual row, or trying the next id.
LEMMA CreateVirtualOK ==
  ASSUME Wf, NEW t \in Threads, CreateVirtual(t)
  PROVE  StaysOK(t)
<1>1. t \in Active /\ req[t] \in Request /\ RequestOK(req[t])
  BY PlacesAre DEF CreateVirtual, Wf
<1>2. QED
  BY <1>1, FinishOK, IdsAre, Goes DEF CreateVirtual, StaysOK, RequestOK, Loaded, Same, Wf, Places

\* Creating the live or spectating row.
LEMMA CreateOK ==
  ASSUME Wf, NEW t \in Threads, Create(t)
  PROVE  StaysOK(t)
<1>1. t \in Active /\ req[t] \in Request /\ RequestOK(req[t])
  BY PlacesAre DEF Create, Wf
<1>2. QED
  BY <1>1, FinishOK, IdsAre, Goes DEF Create, StaysOK, RequestOK, Loaded, Same, Wf, Places

\* Getting the spectating row, or creating it.
LEMMA GetOrCreateOK ==
  ASSUME Wf, NEW t \in Threads, GetOrCreate(t)
  PROVE  StaysOK(t)
<1>1. t \in Active /\ req[t] \in Request /\ RequestOK(req[t])
  BY PlacesAre DEF GetOrCreate, Wf
<1>2. QED
  BY <1>1, FinishOK, IdsAre, Goes DEF GetOrCreate, StaysOK, RequestOK, Loaded, Same, Wf, Places

\* The test of a submission.
LEMMA CheckLimitsOK ==
  ASSUME Wf, NEW t \in Threads, CheckLimits(t)
  PROVE  StaysOK(t)
<1>1. t \in Active /\ req[t] \in Request /\ RequestOK(req[t])
  BY PlacesAre DEF CheckLimits, Wf
<1>2. QED
  BY <1>1, FinishOK, IdsAre, Goes DEF CheckLimits, StaysOK, RequestOK, Loaded, Same, Wf, Places

\* Saving the profile.
LEMMA SaveProfileOK ==
  ASSUME Wf, NEW t \in Threads, SaveProfile(t)
  PROVE  StaysOK(t)
<1>1. t \in Active /\ req[t] \in Request /\ RequestOK(req[t])
  BY PlacesAre DEF SaveProfile, Wf
<1>2. QED
  BY <1>1, FinishOK, IdsAre, Goes DEF SaveProfile, StaysOK, RequestOK, Loaded, Same, Wf, Places

\* Storing a submission.
LEMMA StoreOK ==
  ASSUME Wf, NEW t \in Threads, Store(t)
  PROVE  StaysOK(t)
<1>1. t \in Active /\ req[t] \in Request /\ RequestOK(req[t])
  BY PlacesAre DEF Store, Wf
<1>2. QED
  BY <1>1, FinishOK, IdsAre, Goes DEF Store, StaysOK, RequestOK, Loaded, Same, Wf, Places

\* Saving the contest.
LEMMA SaveContestOK ==
  ASSUME Wf, NEW t \in Threads, SaveContest(t)
  PROVE  StaysOK(t)
<1>1. t \in Active /\ req[t] \in Request /\ RequestOK(req[t])
  BY PlacesAre DEF SaveContest, Wf
<1>2. QED
  BY <1>1, FinishOK, IdsAre, Goes DEF SaveContest, StaysOK, RequestOK, Loaded, Same, Wf, Places

\* Looking for the row.
LEMMA GetOK ==
  ASSUME Wf, NEW t \in Threads, Get(t)
  PROVE  StaysOK(t)
<1>1. t \in Active /\ req[t] \in Request /\ RequestOK(req[t])
  BY PlacesAre DEF Get, Wf
<1>2. CASE Finish(t)
  BY <1>1, <1>2, FinishOK DEF Wf
<1>3. CASE Goto(t, "create") \/ Goto(t, "profile")
  BY <1>1, <1>3, IdsAre, Goes DEF Get, StaysOK, RequestOK, Loaded, Same, Wf, Places
<1>4. CASE Using(t, SPECTATE, "get_or_create")
  BY <1>1, <1>4, IdsAre, Uses DEF Get, StaysOK, RequestOK, Loaded, Same, Wf, Places
<1>5. QED
  BY <1>2, <1>3, <1>4 DEF Get

\* Leaving.
LEMMA LeaveViewOK ==
  ASSUME Wf, NEW t \in Threads, LeaveView(t)
  PROVE  StaysOK(t)
<1>1. t \in Active /\ req[t] \in Request /\ RequestOK(req[t])
  BY PlacesAre DEF LeaveView, Wf
<1>2. QED
  BY <1>1, FinishOK, IdsAre, Goes, Uses DEF LeaveView, StaysOK, RequestOK, Loaded, Same, Wf, Places

\* Unique keys are as many as the rows.
LEMMA KeysFinite ==
  ASSUME TypeOK, Numbered
  PROVE  IsFiniteSet(Keys) /\ Cardinality(Keys) = Cardinality(parts)
<1> DEFINE f == [p \in parts |-> Key(p)]
<1>1. f \in [parts -> Keys]
  BY DEF Keys
<1>2. f \in Surjection(parts, Keys)
  <2>1. \A k \in Keys : \E p \in parts : f[p] = k
    BY DEF Keys
  <2>2. QED
    BY <1>1, <2>1 DEF Surjection
<1>3. f \in Injection(parts, Keys)
  <2>1. \A p, q \in parts : f[p] = f[q] => p = q
    BY DEF Numbered
  <2>2. QED
    BY <1>1, <2>1 DEF Injection, IsInjective
<1>4. IsFiniteSet(parts)
  BY DEF TypeOK
<1> HIDE DEF f
<1>5. QED
  BY <1>2, <1>3, <1>4, FS_Surjection

\* The live rows are finite in number.
LEMMA LiveRowsFinite ==
  ASSUME Wf
  PROVE  IsFiniteSet(LiveRows) /\ Cardinality(LiveRows) \in Nat
<1>1. LiveRows \in SUBSET Keys
  BY DEF LiveRows
<1>2. QED
  BY <1>1, KeysFinite, FS_Subset, FS_CardinalityType DEF Wf

\* The row of a participant who joined carries the count when it is saved.
LEMMA Counts ==
  ASSUME Wf, NEW t \in Threads, Count(t)
  PROVE  /\ StaysOK(t) /\ req'[t].at = "contest" /\ Same(req[t], req'[t])
         /\ req'[t] \in Request
         /\ req'[t].pid = req[t].pid
         /\ req'[t].row = [req[t].row EXCEPT !.count = Cardinality(LiveRows)]
<1>1. t \in Active /\ req[t] \in Request /\ RequestOK(req[t])
  BY PlacesAre DEF Count, Wf
<1> DEFINE n == Cardinality(LiveRows)
           row == [req[t].row EXCEPT !.count = n]
<1>2. req[t].row \in Row /\ n \in Nat
  BY <1>1, LiveRowsFinite DEF Count, RequestOK, Loaded
<1> HIDE DEF n
<1>3. row \in Row
  BY <1>2 DEF Row
<1>4. req'[t] = [req[t] EXCEPT !.row = row, !.at = "contest"]
  BY <1>1 DEF Count, n, Wf, TypeOK
<1> HIDE DEF row
<1>5. /\ req'[t] \in Request /\ req'[t].at = "contest" /\ Same(req[t], req'[t])
      /\ req'[t].pid = req[t].pid /\ req'[t].row = row
  BY <1>1, <1>3, <1>4 DEF Request, Places, Same
<1>6. Becomes(t, req'[t])
  BY <1>5 DEF Count, Becomes, Wf, TypeOK
<1>7. RequestOK(req'[t])
  BY <1>1, <1>3, <1>5 DEF RequestOK, Loaded, Same, Count
<1>8. QED
  BY <1>1, <1>5, <1>6, <1>7 DEF StaysOK, n, row

-----------------------------------------------------------------------------
(* Adding a participation.                                                 *)

\* The unique key of the table and the id of the request keep the numbering.
LEMMA AddPartOK ==
  ASSUME Wf, NEW t \in Active, AddPart(t), ~Taken(t), req[t].at \in {"virtual", "create", "get_or_create"}
  PROVE  /\ Keys' = Keys \cup {<<req[t].user, req[t].pid>>}
         /\ TypeOK' <=> req' \in [Threads -> {Idle} \cup Request]
         /\ Numbered'
<1> DEFINE p == [user |-> req[t].user, virtual |-> req[t].pid, start |-> now]
           k == <<req[t].user, req[t].pid>>
<1>1. req[t] \in Request /\ RequestOK(req[t]) /\ RefersOK(req[t])
  BY ActiveIs DEF Wf, Active
<1>2. req[t].user \in Users /\ req[t].pid \in Ids
  BY <1>1, IdsAre DEF RequestOK, Loaded, Request
<1>3. parts' = parts \cup {p}
  BY DEF AddPart
<1>4. Keys' = Keys \cup {k}
  <2>1. p.user = req[t].user /\ p.virtual = req[t].pid
    OBVIOUS
  <2> HIDE DEF p
  <2>2. \A x : x \in Keys' <=> x \in Keys \/ x = k
    BY <1>3, <2>1, KeysAre
  <2>3. QED
    BY <2>2
<1>5. k \notin Keys
  BY DEF Taken
<1>6. parts' \in SUBSET Participation /\ IsFiniteSet(parts')
  <2>1. p \in Participation
    BY <1>2 DEF Wf, TypeOK, Participation
  <2> HIDE DEF p
  <2>2. QED
    BY <1>3, <2>1, FS_AddElement DEF Wf, TypeOK
<1>7. TypeOK' <=> req' \in [Threads -> {Idle} \cup Request]
  BY <1>6 DEF AddPart, Wf, TypeOK
<1>8. \A q, r \in parts' : Key(q) = Key(r) => q = r
  <2>1. Key(p) = k /\ \A q \in parts : Key(q) \in Keys
    BY DEF Key, Keys
  <2>2. \A q, r \in parts : Key(q) = Key(r) => q = r
    BY DEF Wf, Numbered
  <2> HIDE DEF p, k
  <2>3. QED
    BY <1>3, <1>5, <2>1, <2>2
<1>9. ASSUME NEW u \in Users
      PROVE  \E n \in Nat : \A i \in Int : i >= 1 => (<<u, i>> \in Keys' <=> i <= n)
  <2>1. PICK n \in Nat : Dense(u, n)
    BY DEF Wf, Numbered
  <2>2. CASE req[t].user # u \/ req[t].pid < 1
    <3>1. \A i \in Int : i >= 1 => (<<u, i>> \in Keys' <=> <<u, i>> \in Keys)
      BY <1>2, <1>4, <2>2 DEF Ids
    <3>2. QED
      BY <2>1, <3>1 DEF Dense
  <2>3. CASE req[t].user = u /\ req[t].pid >= 1
    <3>1. req[t].pid > 1 => <<u, req[t].pid - 1>> \in Keys
      BY <1>1, <1>2, <2>3 DEF RefersOK, RequestOK, Loaded, LIVE, SPECTATE
    <3>2. req[t].pid > n
      BY <1>2, <1>5, <2>1, <2>3 DEF Dense, Ids
    <3>3. req[t].pid <= n + 1
      BY <1>2, <2>1, <2>3, <3>1 DEF Dense, Ids
    <3>4. req[t].pid = n + 1
      BY <1>2, <3>2, <3>3 DEF Ids
    <3>5. \A i \in Int : i >= 1 => (<<u, i>> \in Keys' <=> i <= n + 1)
      <4>1. \A i \in Int : i >= 1 => (<<u, i>> \in Keys <=> i <= n)
        BY <2>1 DEF Dense
      <4>2. \A i : <<u, i>> \in Keys' <=> <<u, i>> \in Keys \/ i = n + 1
        BY <1>4, <2>3, <3>4
      <4>3. QED
        BY <4>1, <4>2
    <3>6. n + 1 \in Nat
      OBVIOUS
    <3>7. QED
      BY <3>5, <3>6
  <2>4. req[t].pid \in Int
    BY <1>2, IdsAre
  <2>5. \/ req[t].user # u \/ req[t].pid < 1
        \/ req[t].user = u /\ req[t].pid >= 1
    BY <2>4
  <2>6. QED
    BY <2>2, <2>3, <2>5, Zenon
<1>10. QED
  BY <1>4, <1>7, <1>8, <1>9 DEF Numbered, Dense

\* What a step of one request owes: its own request stays in order, the others are
\* not touched, and no participation goes.
LEMMA ThreadStepWf ==
  ASSUME Wf, NEW t \in Threads, StaysOK(t), TypeOK', ProfilesOK', Numbered',
         Keys \subseteq Keys',
         req'[t] # Idle => RefersOK(req[t])'
  PROVE  Wf'
<1>1. ASSUME NEW s \in Active'
      PROVE  RequestOK(req'[s]) /\ RefersOK(req[s])'
  <2>1. CASE s = t
    BY <2>1 DEF StaysOK, Active, Idle
  <2>2. CASE s # t
    <3>1. s \in Active /\ req'[s] = req[s]
      BY <2>2 DEF Active, StaysOK, Becomes
    <3>2. RequestOK(req[s]) /\ RefersOK(req[s])
      BY <3>1 DEF Wf
    <3>3. QED
      BY <3>1, <3>2 DEF RefersOK
  <2>3. QED
    BY <2>1, <2>2
<1>2. QED
  BY <1>1 DEF Wf

\* A step that changes nothing but its request, and perhaps the history.
LEMMA HistoryWf ==
  ASSUME Wf, NEW t \in Threads, StaysOK(t), raced' \in History,
         UNCHANGED <<now, dataVars, requests, edits>>,
         req'[t] # Idle => RefersOK(req'[t])
  PROVE  Wf'
<1>1. TypeOK' /\ ProfilesOK' /\ Numbered' /\ Keys' = Keys
  BY DEF dataVars, Wf, TypeOK, ProfilesOK, Numbered, Keys, Key, Dense, StaysOK, Becomes
<1>2. req'[t] # Idle => RefersOK(req[t])'
  BY <1>1 DEF RefersOK
<1>3. QED
  BY <1>1, <1>2, ThreadStepWf

\* A step that changes nothing but its request.
LEMMA LocalWf ==
  ASSUME Wf, NEW t \in Threads, StaysOK(t), Local, req'[t] # Idle => RefersOK(req'[t])
  PROVE  Wf'
BY HistoryWf DEF Local, Wf, TypeOK

\* The histories stay histories.
LEMMA Histories ==
  ASSUME Wf, NEW u \in Users
  PROVE  /\ Overlapped \in History /\ BeginsJoin \in History /\ SavesCount \in History
         /\ \A missed \in BOOLEAN : SlipsIf(u, missed) \in History
BY DEF Overlapped, BeginsJoin, SavesCount, SlipsIf, History, Wf, TypeOK

-----------------------------------------------------------------------------
(* Well-formedness is an invariant.                                        *)

\* What well-formedness says of one request.
LEMMA ActWf ==
  ASSUME Wf, NEW t \in Threads, req[t].at # "idle"
  PROVE  /\ t \in Active /\ req[t] \in Request /\ RequestOK(req[t]) /\ RefersOK(req[t])
BY PlacesAre DEF Wf

\* Entering.
LEMMA EnterWf ==
  ASSUME Wf, NEW t \in Threads, Enter(t)
  PROVE  Wf'
<1>1. StaysOK(t)
  BY EnterOK
<1>2. req'[t] # Idle => RefersOK(req'[t])
  <2>1. req[t] \in Request /\ RefersOK(req[t]) /\ t \in Active
    BY ActWf DEF Enter
  <2>2. req'[t] # Idle => /\ req'[t].at \in {"number", "get"}
                          /\ req'[t].prof = req[t].prof /\ req'[t].user = req[t].user
    BY <2>1 DEF Enter, Request, Finish, Wf, TypeOK
  <2>3. QED
    BY <2>1, <2>2 DEF RefersOK
<1>3. raced' \in History /\ UNCHANGED <<now, dataVars, requests, edits>>
  <2>1. req[t].user \in Users /\ raced \in History
    BY ActWf DEF Enter, Request, Wf, TypeOK
  <2>2. UNCHANGED <<now, dataVars, requests, edits>>
    BY DEF Enter
  <2>3. \/ raced' = raced
        \/ raced' = SlipsIf(req[t].user, Disqualifying(req[t].user))
    BY DEF Enter
  <2>4. Disqualifying(req[t].user) \in BOOLEAN
    BY DEF Disqualifying
  <2>5. QED
    BY <2>1, <2>2, <2>3, <2>4, Histories
<1>4. QED
  BY <1>1, <1>2, <1>3, HistoryWf

\* The next id: the one before it is taken.
LEMMA NumberWf ==
  ASSUME Wf, NEW t \in Threads, Number(t)
  PROVE  Wf'
<1>1. StaysOK(t)
  BY NumberOK
<1>2. t \in Active /\ req[t] \in Request /\ RefersOK(req[t])
  BY ActWf DEF Number
<1>3. req[t].user \in Users
  BY <1>2 DEF Request
<1>4. NextId(req[t].user) \in OptId
  <2>1. NextId(req[t].user) \in Nat
    BY <1>3, NextIdOK DEF Wf
  <2>2. QED
    BY <2>1 DEF OptId, Ids, SPECTATE
<1>5. req'[t] # Idle => RefersOK(req'[t])
  <2>1. CASE Using(t, NextId(req[t].user), "virtual")
    BY <1>2, <1>3, <1>4, <2>1, Uses, NextIdOK DEF RefersOK, Same, Wf, Places
  <2>2. CASE Finish(t)
    BY <1>2, <2>2, Finishes DEF Becomes, Wf
  <2>3. QED
    BY <2>1, <2>2 DEF Number
<1>6. QED
  BY <1>1, <1>5, LocalWf DEF Number

\* Looking for the row: the one that is found exists.
LEMMA GetWf ==
  ASSUME Wf, NEW t \in Threads, Get(t)
  PROVE  Wf'
<1>1. StaysOK(t)
  BY GetOK
<1>2. t \in Active /\ req[t] \in Request /\ RefersOK(req[t]) /\ TypeOK
  BY ActWf DEF Get, Wf
<1>3. req'[t] # Idle => RefersOK(req'[t])
  BY <1>2, Goes, Uses, Finishes, IdsAre DEF Get, Taken, RefersOK, Same, Places, Becomes
<1>4. QED
  BY <1>1, <1>3, LocalWf DEF Get

\* Leaving.
LEMMA LeaveViewWf ==
  ASSUME Wf, NEW t \in Threads, LeaveView(t)
  PROVE  Wf'
<1>1. StaysOK(t)
  BY LeaveViewOK
<1>2. t \in Active /\ req[t] \in Request /\ RefersOK(req[t]) /\ TypeOK
  BY ActWf DEF LeaveView, Wf
<1>3. req'[t] # Idle => RefersOK(req'[t])
  BY <1>2, Uses, Finishes, IdsAre DEF LeaveView, RefersOK, Same, Places, Becomes
<1>4. QED
  BY <1>1, <1>3, LocalWf DEF LeaveView

\* The test of a submission.
LEMMA CheckLimitsWf ==
  ASSUME Wf, NEW t \in Threads, CheckLimits(t)
  PROVE  Wf'
<1>1. StaysOK(t)
  BY CheckLimitsOK
<1>2. t \in Active /\ req[t] \in Request /\ RefersOK(req[t]) /\ TypeOK
  BY ActWf DEF CheckLimits, Wf
<1>3. req'[t] # Idle => RefersOK(req'[t])
  BY <1>2, Goes, Finishes DEF CheckLimits, RefersOK, Same, Places, Becomes
<1>4. QED
  BY <1>1, <1>3, LocalWf DEF CheckLimits

\* Counting the participants.
LEMMA CountWf ==
  ASSUME Wf, NEW t \in Threads, Count(t)
  PROVE  Wf'
<1>1. t \in Active /\ req[t] \in Request /\ RefersOK(req[t]) /\ TypeOK
  BY ActWf DEF Count, Wf
<1>2. QED
  BY <1>1, Counts, LocalWf DEF Count, RefersOK, Same

\* The three steps that may add a participation go on with the id they added.
LEMMA AddingWf ==
  ASSUME Wf, NEW t \in Threads, CreateVirtual(t) \/ Create(t) \/ GetOrCreate(t)
  PROVE  Wf'
<1>1. StaysOK(t)
  BY CreateVirtualOK, CreateOK, GetOrCreateOK
<1>2. t \in Active /\ req[t] \in Request /\ RefersOK(req[t]) /\ RequestOK(req[t]) /\ TypeOK
  BY ActWf DEF CreateVirtual, Create, GetOrCreate, Wf
<1>3. \/ Local /\ (Goto(t, "number") \/ (Goto(t, "profile") /\ Taken(t)) \/ Finish(t))
      \/ AddPart(t) /\ Goto(t, "profile") /\ ~Taken(t)
  BY DEF CreateVirtual, Create, GetOrCreate
<1>4. CASE Local /\ (Goto(t, "number") \/ (Goto(t, "profile") /\ Taken(t)) \/ Finish(t))
  <2>1. req'[t] # Idle => RefersOK(req'[t])
    BY <1>2, <1>4, Goes, Finishes DEF RefersOK, Same, Places, Becomes, Taken
  <2>2. QED
    BY <1>1, <1>4, <2>1, LocalWf
<1>5. CASE AddPart(t) /\ Goto(t, "profile") /\ ~Taken(t)
  <2>1. /\ Keys' = Keys \cup {<<req[t].user, req[t].pid>>}
        /\ TypeOK' <=> req' \in [Threads -> {Idle} \cup Request]
        /\ Numbered'
    BY <1>2, <1>5, AddPartOK DEF CreateVirtual, Create, GetOrCreate
  <2>2. TypeOK'
    BY <1>1, <2>1 DEF StaysOK, Becomes
  <2>3. ProfilesOK'
    BY <1>5, <2>1 DEF AddPart, ProfilesOK, Wf
  <2>4. RefersOK(req[t])'
    BY <1>2, <1>5, <2>1, Goes DEF RefersOK, Same, Places
  <2>5. QED
    BY <1>1, <2>1, <2>2, <2>3, <2>4, ThreadStepWf
<1>6. QED
  BY <1>3, <1>4, <1>5

\* The saved profile refers to a participation that exists.
LEMMA SaveProfileWf ==
  ASSUME Wf, NEW t \in Threads, SaveProfile(t)
  PROVE  Wf'
<1>1. StaysOK(t)
  BY SaveProfileOK
<1>2. t \in Active /\ req[t] \in Request /\ RefersOK(req[t]) /\ TypeOK
  BY ActWf DEF SaveProfile, Wf
<1>3. req[t].user \in Users /\ req[t].pid \in OptId
  BY <1>2 DEF Request
<1>4. TypeOK'
  BY <1>1, <1>2, <1>3 DEF SaveProfile, TypeOK, StaysOK, Becomes
<1>5. Keys' = Keys
  BY DEF SaveProfile, Keys
<1>6. ProfilesOK'
  BY <1>2, <1>3, <1>5 DEF SaveProfile, ProfilesOK, RefersOK, Wf, TypeOK
<1>7. Numbered'
  BY <1>5 DEF SaveProfile, Numbered, Dense, Wf
<1>8. req'[t] # Idle => RefersOK(req[t])'
  BY <1>2, <1>5, Goes, Finishes DEF SaveProfile, RefersOK, Same, Places, Becomes
<1>9. QED
  BY <1>1, <1>4, <1>5, <1>6, <1>7, <1>8, ThreadStepWf

\* Saving the contest.
LEMMA SaveContestWf ==
  ASSUME Wf, NEW t \in Threads, SaveContest(t)
  PROVE  Wf'
<1>1. StaysOK(t)
  BY SaveContestOK
<1>2. t \in Active /\ req[t] \in Request /\ RequestOK(req[t]) /\ TypeOK
  BY ActWf DEF SaveContest, Wf
<1>3. req[t].row \in Row
  BY <1>2 DEF RequestOK, Loaded, SaveContest
<1>4. TypeOK'
  <2>1. raced' \in History
    BY <1>2, Histories DEF SaveContest, Request
  <2>2. QED
    BY <1>1, <1>2, <1>3, <2>1 DEF SaveContest, TypeOK, StaysOK, Becomes
<1>5. Keys' = Keys
  BY DEF SaveContest, Keys
<1>6. ProfilesOK' /\ Numbered'
  BY <1>5 DEF SaveContest, ProfilesOK, Numbered, Dense, Wf
<1>7. req'[t] = Idle
  BY <1>2, Finishes DEF SaveContest, Becomes
<1>8. QED
  BY <1>1, <1>4, <1>5, <1>6, <1>7, ThreadStepWf

\* Storing a submission.
LEMMA StoreWf ==
  ASSUME Wf, NEW t \in Threads, Store(t)
  PROVE  Wf'
<1>1. StaysOK(t)
  BY StoreOK
<1>2. t \in Active /\ req[t] \in Request /\ RequestOK(req[t]) /\ TypeOK
  BY ActWf DEF Store, Wf
<1> DEFINE locked == IF req[t].prof = LIVE THEN req[t].row.locked ELSE FALSE
           s == [user |-> req[t].user, virtual |-> req[t].prof, status |-> "QU", locked |-> locked,
                 rejudged |-> FALSE, revived |-> FALSE]
<1>3. locked \in BOOLEAN
  BY <1>2, IdsAre DEF RequestOK, Loaded, Store, Row
<1>4. subs' = Append(subs, s)
  BY DEF Store
<1> HIDE DEF locked
<1>5. s \in Submission
  BY <1>2, <1>3 DEF Submission, Request
<1> HIDE DEF s
<1>6. subs' \in Seq(Submission)
  BY <1>2, <1>4, <1>5 DEF TypeOK
<1>7. TypeOK'
  BY <1>1, <1>2, <1>6 DEF Store, TypeOK, StaysOK, Becomes
<1>8. Keys' = Keys
  BY DEF Store, Keys
<1>9. ProfilesOK' /\ Numbered'
  BY <1>8 DEF Store, ProfilesOK, Numbered, Dense, Wf
<1>10. req'[t] = Idle
  BY <1>2, Finishes DEF Store, Becomes
<1>11. QED
  BY <1>1, <1>7, <1>8, <1>9, <1>10, ThreadStepWf

\* No request changes while the participations stay.
LEMMA QuietWf ==
  ASSUME Wf, TypeOK', UNCHANGED <<parts, current, req>>
  PROVE  Wf'
BY DEF Wf, ProfilesOK, Numbered, Dense, Keys, Key, RefersOK, Active

\* A request begins.
LEMMA BeginWf ==
  ASSUME Wf, NEW t \in Threads, NEW u \in Users, NEW kind \in Kinds, Begin(t, u, kind)
  PROVE  Wf'
<1> DEFINE over == current[u] # None /\ (Ended(<<u, current[u]>>) \/ ~Accessible(u))
           prof == IF over THEN None ELSE current[u]
           row == IF kind = "submit" /\ prof # None THEN contest ELSE None
           r == [at |-> kind, user |-> u, kind |-> kind, prof |-> prof, pid |-> None,
                 timely |-> FALSE, row |-> row]
<1>1. prof \in OptId /\ row \in Row \cup {None}
  BY DEF Wf, TypeOK, OptId
<1>2. prof # None => <<u, prof>> \in Keys
  BY DEF Wf, ProfilesOK
<1>3. kind = "submit" /\ prof # None => row \in Row
  BY DEF Wf, TypeOK
<1>4. req' = [req EXCEPT ![t] = r] /\ current' = [current EXCEPT ![u] = prof]
  BY DEF Begin
<1> HIDE DEF over, prof, row
<1>5. /\ r \in Request /\ r.user = u /\ r.at = kind /\ r.kind = kind
      /\ r.prof = prof /\ r.pid = None /\ r.row = row
  BY <1>1 DEF Request, Places, Kinds, OptId
<1> HIDE DEF r
<1>6. TypeOK'
  <2>1. raced' \in History
    BY Histories DEF Begin, Wf, TypeOK
  <2>2. current' \in [Users -> OptId] /\ req' \in [Threads -> {Idle} \cup Request]
    BY <1>1, <1>4, <1>5 DEF Wf, TypeOK
  <2>3. requests' \in Nat /\ UNCHANGED <<now, parts, contest, disq, banned, subs, admin, edits>>
    BY DEF Begin, Wf, TypeOK
  <2>4. QED
    BY <2>1, <2>2, <2>3 DEF Wf, TypeOK
<1>7. Keys' = Keys
  BY DEF Begin, Keys
<1>8. ProfilesOK'
  BY <1>2, <1>4, <1>7 DEF Wf, ProfilesOK, TypeOK
<1>9. Numbered'
  BY <1>7 DEF Begin, Wf, Numbered, Dense
<1>10. \A s \in Threads : req'[s] = IF s = t THEN r ELSE req[s]
  BY <1>4 DEF Wf, TypeOK
<1>11. ASSUME NEW s \in Active'
       PROVE  RequestOK(req'[s]) /\ RefersOK(req[s])'
  <2>1. s \in Threads
    BY DEF Active
  <2>2. CASE s = t
    <3>1. req'[s] = r
      BY <1>10, <2>2
    <3>2. QED
      BY <1>2, <1>3, <1>5, <1>7, <3>1 DEF RequestOK, Loaded, RefersOK, Kinds
  <2>3. CASE s # t
    <3>1. req'[s] = req[s]
      BY <1>10, <2>1, <2>3
    <3>2. RequestOK(req[s]) /\ RefersOK(req[s])
      BY <2>1, <3>1 DEF Active, Wf
    <3>3. QED
      BY <1>7, <3>1, <3>2 DEF RefersOK
  <2>4. QED
    BY <2>2, <2>3
<1>12. QED
  BY <1>6, <1>8, <1>9, <1>11 DEF Wf

\* A submission is graded.
LEMMA GradeWf ==
  ASSUME Wf, NEW i \in DOMAIN subs, Grade(i)
  PROVE  Wf'
<1>1. PICK s \in {"D", "IE"} : subs' = [subs EXCEPT ![i].status = s]
  BY DEF Grade
<1>2. subs \in Seq(Submission) /\ subs[i] \in Submission
  BY DEF Wf, TypeOK
<1>3. [subs[i] EXCEPT !.status = s] \in Submission
  BY <1>2 DEF Submission
<1>4. subs' = [subs EXCEPT ![i] = [subs[i] EXCEPT !.status = s]]
  BY <1>1, <1>2
<1>5. subs' \in Seq(Submission)
  BY <1>2, <1>3, <1>4
<1>6. TypeOK'
  BY <1>5 DEF Grade, Wf, TypeOK
<1>7. QED
  BY <1>6, QuietWf DEF Grade

\* A submission is judged again.
LEMMA RejudgeWf ==
  ASSUME Wf, NEW i \in DOMAIN subs, Rejudge(i)
  PROVE  Wf'
<1> DEFINE e == [subs[i] EXCEPT !.status = "QU", !.rejudged = TRUE,
                                !.revived = @ \/ subs[i].status = "IE"]
<1>1. subs \in Seq(Submission) /\ subs[i] \in Submission
  BY DEF Wf, TypeOK
<1>2. e \in Submission
  BY <1>1 DEF Submission
<1>3. subs' = [subs EXCEPT ![i] = e]
  BY <1>1 DEF Rejudge
<1> HIDE DEF e
<1>4. subs' \in Seq(Submission)
  BY <1>1, <1>2, <1>3
<1>5. TypeOK'
  BY <1>4 DEF Rejudge, Edit, Wf, TypeOK
<1>6. QED
  BY <1>5, QuietWf DEF Rejudge, Edit

\* The administrator's fields, by what is worked on.
LEMMA AdminIs ==
  ASSUME Wf
  PROVE  /\ admin.at = "idle" <=> admin = Idle
         /\ admin.at = "lock" => admin \in Lock /\ admin.on \in BOOLEAN /\ admin.row \in Row
         /\ admin.at \in {"look", "remove", "ban", "lift"} =>
              /\ admin \in Case /\ admin.key \in Users \X Ids
              /\ admin.key[1] \in Users /\ admin.key = <<admin.key[1], admin.key[2]>>
BY DEF Wf, TypeOK, Idle, Lock, Case

\* Going on with a case.
LEMMA DoesCase ==
  ASSUME NEW at \in {"look", "remove", "ban", "lift"}, NEW k \in Users \X Ids, Does(at, k)
  PROVE  /\ admin' \in Case /\ admin'.at = at /\ admin'.key = k
         /\ k[1] \in Users /\ k = <<k[1], k[2]>>
BY DEF Does, Case

\* The contest's row is loaded to be locked.
LEMMA LoadContestWf ==
  ASSUME Wf, NEW on \in BOOLEAN, LoadContest(on)
  PROVE  Wf'
<1>1. admin' \in Lock
  BY DEF LoadContest, Lock, Wf, TypeOK
<1>2. raced' \in History
  BY DEF LoadContest, Overlapped, History, Wf, TypeOK
<1>3. TypeOK'
  BY <1>1, <1>2 DEF LoadContest, Edit, Wf, TypeOK
<1>4. QED
  BY <1>3, QuietWf DEF LoadContest, Edit

\* Locking the contest and its submissions.
LEMMA LockWf ==
  ASSUME Wf, SetLockedAfter
  PROVE  Wf'
<1>1. subs \in Seq(Submission) /\ contest \in Row
  BY DEF Wf, TypeOK
<1>2. admin.on \in BOOLEAN /\ admin.row \in Row
  BY AdminIs DEF SetLockedAfter
<1> DEFINE e(i) == IF subs[i].virtual = LIVE THEN [subs[i] EXCEPT !.locked = admin.on] ELSE subs[i]
<1>3. ASSUME NEW i \in DOMAIN subs
      PROVE  e(i) \in Submission
  <2>1. subs[i] \in Submission
    BY <1>1
  <2>2. [subs[i] EXCEPT !.locked = admin.on] \in Submission
    BY <1>2, <2>1 DEF Submission
  <2>3. QED
    BY <2>1, <2>2
<1>4. subs' = [i \in 1..Len(subs) |-> e(i)]
  BY <1>1 DEF SetLockedAfter
<1> HIDE DEF e
<1>5. subs' \in Seq(Submission)
  BY <1>1, <1>3, <1>4
<1>6. contest' \in Row
  BY <1>2 DEF SetLockedAfter, SaveLocked, Row
<1>7. raced' \in History
  BY DEF SetLockedAfter, SaveLocked, History, Wf, TypeOK
<1>8. TypeOK'
  BY <1>5, <1>6, <1>7 DEF SetLockedAfter, SaveLocked, Wf, TypeOK
<1>9. QED
  BY <1>8, QuietWf DEF SetLockedAfter, SaveLocked

\* Hiding and showing the contest.
LEMMA SetVisibleWf ==
  ASSUME Wf, SetVisible
  PROVE  Wf'
<1>1. contest' \in Row
  BY DEF SetVisible, Row, Wf, TypeOK
<1>2. TypeOK'
  BY <1>1 DEF SetVisible, Edit, Wf, TypeOK
<1>3. QED
  BY <1>2, QuietWf DEF SetVisible, Edit

\* Disqualifying and reinstating, up to the ban.
LEMMA DisqualifyWf ==
  ASSUME Wf, NEW k \in Keys, Disqualify(k) \/ Reinstate(k)
  PROVE  Wf'
<1>1. k \in Users \X Ids /\ k[1] \in Users
  BY KeysType DEF Wf
<1>2. admin' \in Case
  BY <1>1, DoesCase DEF Disqualify, Reinstate
<1>3. raced' \in History
  <2>1. Entering(k[1]) \in BOOLEAN
    BY DEF Entering
  <2>2. QED
    BY <1>1, <2>1, Histories DEF Disqualify, Reinstate, Wf, TypeOK
<1>4. disq' \subseteq Users \X Ids
  BY <1>1 DEF Disqualify, Reinstate, Wf, TypeOK
<1>5. TypeOK'
  BY <1>2, <1>3, <1>4 DEF Disqualify, Reinstate, Edit, Wf, TypeOK
<1>6. QED
  BY <1>5, QuietWf DEF Disqualify, Reinstate, Edit

\* The look at the profile, the ban and its lifting.
LEMMA CaseWf ==
  ASSUME Wf, Look \/ Ban \/ Lift
  PROVE  Wf'
<1>1. admin.key \in Users \X Ids /\ admin.key[1] \in Users
  BY AdminIs DEF Look, Ban, Lift
<1>2. admin' \in {Idle} \cup Case
  BY <1>1, DoesCase DEF Look, Ban, Lift
<1>3. raced' \in History
  <2>1. (\E d \in disq : d[1] = admin.key[1]) \in BOOLEAN
    OBVIOUS
  <2>2. QED
    BY <1>1, <2>1, Histories DEF Look, Ban, Lift, Wf, TypeOK
<1>4. banned' \subseteq Users
  BY <1>1 DEF Look, Ban, Lift, Wf, TypeOK
<1>5. TypeOK'
  BY <1>2, <1>3, <1>4 DEF Look, Ban, Lift, Wf, TypeOK
<1>6. QED
  BY <1>5, QuietWf DEF Look, Ban, Lift

\* Removing the participation from the profile.
LEMMA RemoveContestWf ==
  ASSUME Wf, RemoveContest
  PROVE  Wf'
<1>1. admin.key \in Users \X Ids /\ admin.key[1] \in Users
  BY AdminIs DEF RemoveContest
<1>2. admin' \in Case
  BY <1>1, DoesCase DEF RemoveContest
<1>3. \A u \in Users : current'[u] = current[u] \/ current'[u] = None
  BY <1>1 DEF RemoveContest, Wf, TypeOK
<1>4. current' \in [Users -> OptId]
  BY <1>1 DEF RemoveContest, Wf, TypeOK, OptId
<1>5. TypeOK'
  BY <1>2, <1>4 DEF RemoveContest, Wf, TypeOK
<1>6. UNCHANGED <<parts, req>>
  BY DEF RemoveContest
<1>7. Keys' = Keys
  BY <1>6 DEF Keys
<1>8. QED
  BY <1>3, <1>5, <1>6, <1>7 DEF Wf, ProfilesOK, Numbered, Dense, Key, RefersOK, Active

\* The clock.
LEMMA OthersWf ==
  ASSUME Wf, Tick \/ UNCHANGED joinVars
  PROVE  Wf'
<1>1. UNCHANGED <<parts, current, req>>
  BY DEF Tick, joinVars, dataVars
<1>2. TypeOK'
  <2>1. CASE Tick
    BY <2>1 DEF Tick, dataVars, Wf, TypeOK
  <2>2. CASE UNCHANGED joinVars
    BY <2>2 DEF joinVars, dataVars, Wf, TypeOK
  <2>3. QED
    BY <2>1, <2>2
<1>3. QED
  BY <1>1, <1>2, QuietWf

\* Initially all is empty.
LEMMA WfInit == Init => Wf
<1> SUFFICES ASSUME Init PROVE Wf
  OBVIOUS
<1>1. Active = {} /\ Keys = {}
  BY DEF Init, Active, Idle, Keys
<1>2. IsFiniteSet(parts)
  BY FS_EmptySet DEF Init
<1>3. <<>> \in Seq(Submission)
  OBVIOUS
<1>4. TypeOK
  BY <1>2, <1>3 DEF Init, TypeOK, Row, OptId, History
<1>5. \A u \in Users : Dense(u, 0)
  BY <1>1 DEF Dense
<1>6. QED
  BY <1>1, <1>4, <1>5 DEF Wf, ProfilesOK, Numbered, Init

\* Every step keeps well-formedness.
LEMMA WfStep == Wf /\ [Next]_joinVars => Wf'
<1> SUFFICES ASSUME Wf, [Next]_joinVars PROVE Wf'
  OBVIOUS
<1>1. ASSUME NEW t \in Threads, RequestStep(t) PROVE Wf'
  BY <1>1, EnterWf, NumberWf, GetWf, LeaveViewWf, CheckLimitsWf, CountWf, AddingWf,
     SaveProfileWf, SaveContestWf, StoreWf DEF RequestStep
<1>2. QED
  BY <1>1, BeginWf, GradeWf, RejudgeWf, LoadContestWf, LockWf, SetVisibleWf, DisqualifyWf, CaseWf,
     RemoveContestWf, OthersWf DEF Next, AdminStep, Reinstate, Kinds

\* Requests, profiles and participations fit together, in every state.
THEOREM WellFormed == Spec => []Wf
BY WfInit, WfStep, PTL DEF Spec

\* Whatever requests overlap, the virtual participations of a user are numbered
\* without a gap: the unique key and the loop of the virtual branch.
THEOREM VirtualIdsAreDense == Spec => []VirtualIdsDense
<1>1. Wf => VirtualIdsDense
  <2> SUFFICES ASSUME Wf, NEW k \in Keys, k[2] > 1
               PROVE  <<k[1], k[2] - 1>> \in Keys
    BY KeysFinite DEF VirtualIdsDense, Wf
  <2>1. k[1] \in Users /\ k[2] \in Int /\ k = <<k[1], k[2]>>
    BY KeysType, IdsAre DEF Wf
  <2>2. PICK n \in Nat : Dense(k[1], n)
    BY <2>1 DEF Wf, Numbered
  <2>3. k[2] <= n
    BY <2>1, <2>2 DEF Dense
  <2>4. k[2] - 1 \in Int /\ k[2] - 1 >= 1 /\ k[2] - 1 <= n
    BY <2>1, <2>3
  <2>5. QED
    BY <2>2, <2>4 DEF Dense
<1>2. QED
  BY <1>1, WellFormed, PTL

-----------------------------------------------------------------------------
(* What the steps of a request do, as far as the other invariants need it. *)

\* The threads that are active after a step of t.
LEMMA ActiveAfter ==
  ASSUME TypeOK, NEW t \in Threads, Becomes(t, req'[t]), req'[t] = Idle \/ req'[t] \in Request
  PROVE  Active' = IF req'[t] = Idle THEN Active \ {t} ELSE Active \cup {t}
BY DEF Becomes, Active, Idle, Request, Places

\* What the beginning of a request looks at.
LEMMA BeginIs ==
  ASSUME Wf, NEW t \in Threads, NEW u \in Users, NEW kind \in Kinds, Begin(t, u, kind)
  PROVE  /\ t \notin Active /\ Active' = Active \cup {t}
         /\ \A s \in Threads \ {t} : req'[s] = req[s]
         /\ req'[t] \in Request /\ req'[t].at = kind /\ req'[t].kind = kind /\ req'[t].user = u
         /\ Loaded(req'[t]) => req'[t].row = contest
         /\ current'[u] \in {current[u], None}
         /\ \A v \in Users \ {u} : current'[v] = current[v]
<1> DEFINE over == current[u] # None /\ (Ended(<<u, current[u]>>) \/ ~Accessible(u))
           prof == IF over THEN None ELSE current[u]
           row == IF kind = "submit" /\ prof # None THEN contest ELSE None
           r == [at |-> kind, user |-> u, kind |-> kind, prof |-> prof, pid |-> None,
                 timely |-> FALSE, row |-> row]
<1>1. req'[t] = r /\ current' = [current EXCEPT ![u] = prof]
      /\ \A s \in Threads \ {t} : req'[s] = req[s]
  BY DEF Begin, Wf, TypeOK
<1>2. prof \in {current[u], None} /\ prof \in OptId /\ row \in {contest, None} /\ row \in Row \cup {None}
  BY DEF Wf, TypeOK, OptId
<1> HIDE DEF over, prof, row
<1>3. r \in Request
  BY <1>2 DEF Request, Places, Kinds, OptId
<1>4. t \notin Active /\ Active' = Active \cup {t}
  BY <1>1 DEF Begin, Active, Kinds
<1>5. Loaded(r) => r.row = contest
  BY DEF Loaded, row, Kinds
<1>6. QED
  BY <1>1, <1>2, <1>3, <1>4, <1>5 DEF Wf, TypeOK

\* What entering goes by: the ban, the clock, the row.
LEMMA EnterIs ==
  ASSUME Wf, NEW t \in Threads, Enter(t)
  PROVE  /\ StaysOK(t) /\ UNCHANGED <<now, dataVars, requests, edits>> /\ req[t].at = "join"
         /\ raced' \in {raced, SlipsIf(req[t].user, Disqualifying(req[t].user))}
         /\ req'[t] # Idle =>
              /\ req'[t].at \in {"number", "get"} /\ req'[t].row = contest
              /\ req'[t].user \notin banned \ Superusers
              /\ raced' = SlipsIf(req[t].user, Disqualifying(req[t].user))
              /\ req'[t].at = "get" /\ req'[t].pid = LIVE =>
                   req'[t].timely /\ req'[t].user \in Joinable \ Staff
<1> DEFINE timely == now \in Open..Close
           slips == SlipsIf(req[t].user, Disqualifying(req[t].user))
           to(at, id) == /\ req' = [req EXCEPT ![t].timely = timely,
                                               ![t].row = contest, ![t].at = at, ![t].pid = id]
                         /\ raced' = slips
<1>1. t \in Active /\ req[t] \in Request /\ TypeOK
  BY PlacesAre DEF Enter, Wf
<1>2. timely \in BOOLEAN
  OBVIOUS
<1>3. now \in Nat /\ Open \in Nat /\ Close \in Nat
  BY ContestAssumption DEF Wf, TypeOK
<1>4. IsLiveJoinable(req[t].user, now) /\ now <= Close =>
        timely /\ req[t].user \in Joinable \ Staff
  BY <1>3 DEF IsLiveJoinable
<1>5. \/ Finish(t) /\ raced' = raced
      \/ /\ req[t].user \notin banned \ Superusers
         /\ \/ to("number", None) \/ to("get", SPECTATE)
            \/ to("get", LIVE) /\ IsLiveJoinable(req[t].user, now) /\ now <= Close
  BY DEF Enter
<1> HIDE DEF timely, slips
<1>6. CASE Finish(t) /\ raced' = raced
  BY <1>1, <1>6, Finishes, EnterOK DEF Becomes, Enter
<1>7. CASE to("number", None) /\ req[t].user \notin banned \ Superusers
  BY <1>1, <1>2, <1>7, Enters, IdsAre, EnterOK DEF Enter, Same, Places, slips
<1>8. CASE to("get", SPECTATE) /\ req[t].user \notin banned \ Superusers
  BY <1>1, <1>2, <1>8, Enters, IdsAre, EnterOK DEF Enter, Same, Places, slips
<1>9. CASE /\ to("get", LIVE) /\ IsLiveJoinable(req[t].user, now) /\ now <= Close
           /\ req[t].user \notin banned \ Superusers
  BY <1>1, <1>2, <1>4, <1>9, Enters, IdsAre, EnterOK DEF Enter, Same, Places, slips
<1>10. QED
  BY <1>5, <1>6, <1>7, <1>8, <1>9

\* The steps between entering and the profile.
Choosing(t) == \/ Number(t) \/ CreateVirtual(t) \/ Get(t) \/ Create(t) \/ GetOrCreate(t)
               \/ LeaveView(t)

\* The steps that choose or make the participation: a live one is only made at "create".
LEMMA ChoosingIs ==
  ASSUME Wf, NEW t \in Threads, Choosing(t)
  PROVE  /\ StaysOK(t)
         /\ UNCHANGED <<now, current, contest, disq, banned, subs, admin, requests, edits, raced>>
         /\ req[t].at \in {"number", "virtual", "get", "create", "get_or_create", "leave"}
         /\ req'[t] # Idle =>
              /\ req'[t].at \in {"number", "virtual", "create", "get_or_create", "profile"}
              /\ req'[t].row = req[t].row /\ req'[t].timely = req[t].timely
              /\ req'[t].at = "create" => req[t].at = "get" /\ req'[t].pid = req[t].pid
         /\ \/ LiveRows' = LiveRows
            \/ /\ req[t].at = "create" /\ req[t].pid = LIVE
               /\ req'[t] \in Request /\ req'[t].at = "profile" /\ req'[t].pid = LIVE
               /\ LiveRows' = LiveRows \cup {<<req[t].user, LIVE>>}
<1>1. t \in Active /\ req[t] \in Request /\ RequestOK(req[t]) /\ TypeOK
  BY ActWf DEF Choosing, Number, CreateVirtual, Get, Create, GetOrCreate, LeaveView, Wf
<1>2. StaysOK(t)
  BY NumberOK, CreateVirtualOK, GetOK, CreateOK, GetOrCreateOK, LeaveViewOK DEF Choosing
<1>3. UNCHANGED <<now, current, contest, disq, banned, subs, admin, requests, edits, raced>>
  BY DEF Choosing, Number, CreateVirtual, Get, Create, GetOrCreate, LeaveView, Local,
         dataVars, AddPart
<1>4. CASE Number(t) \/ Get(t) \/ LeaveView(t)
  <2>1. Local /\ req[t].at \in {"number", "get", "leave"}
    BY <1>4 DEF Number, Get, LeaveView
  <2>2. LiveRows' = LiveRows
    BY <2>1 DEF Local, dataVars, LiveRows, Keys
  <2>3. \/ Finish(t) 
        \/ Using(t, NextId(req[t].user), "virtual") 
        \/ req[t].at = "get" /\ Goto(t, "create")
        \/ Using(t, SPECTATE, "get_or_create") \/ Goto(t, "profile")
        \/ Using(t, None, "profile")
    BY <1>4 DEF Number, Get, LeaveView
  <2>4. NextId(req[t].user) \in OptId
    <3>1. req[t].user \in Users
      BY <1>1 DEF Request
    <3>2. NextId(req[t].user) \in Nat
      BY <3>1, NextIdOK DEF Wf
    <3>3. QED
      BY <3>2 DEF OptId, Ids, SPECTATE
  <2>5. req'[t] # Idle =>
              /\ req'[t].at \in {"number", "virtual", "create", "get_or_create", "profile"}
              /\ req'[t].row = req[t].row /\ req'[t].timely = req[t].timely
              /\ req'[t].at = "create" => req[t].at = "get" /\ req'[t].pid = req[t].pid
    BY <1>1, <2>3, <2>4, Finishes, Goes, Uses, IdsAre DEF Becomes, Places
  <2>6. QED
    BY <1>2, <1>3, <2>1, <2>2, <2>5
<1>5. CASE CreateVirtual(t) \/ Create(t) \/ GetOrCreate(t)
  <2>1. req[t].at \in {"virtual", "create", "get_or_create"}
    BY <1>5 DEF CreateVirtual, Create, GetOrCreate
  <2>2. \/ Local /\ (Finish(t) \/ Goto(t, "number") \/ Goto(t, "profile"))
        \/ AddPart(t) /\ Goto(t, "profile") /\ ~Taken(t)
    BY <1>5 DEF CreateVirtual, Create, GetOrCreate
  <2>3. req'[t] # Idle =>
              /\ req'[t].at \in {"number", "profile"}
              /\ req'[t].row = req[t].row /\ req'[t].timely = req[t].timely
    BY <1>1, <2>2, Finishes, Goes DEF Becomes, Places
  <2>4. CASE Local
    <3>1. LiveRows' = LiveRows
      BY <2>4 DEF Local, dataVars, LiveRows, Keys
    <3>2. QED
      BY <1>2, <1>3, <2>1, <2>3, <3>1
  <2>5. CASE AddPart(t) /\ Goto(t, "profile") /\ ~Taken(t)
    <3>1. Keys' = Keys \cup {<<req[t].user, req[t].pid>>}
      BY <1>1, <2>1, <2>5, AddPartOK
    <3>2. req[t].pid # LIVE => LiveRows' = LiveRows
      BY <3>1 DEF LiveRows
    <3>3. req[t].pid = LIVE => LiveRows' = LiveRows \cup {<<req[t].user, LIVE>>}
      BY <3>1 DEF LiveRows
    <3>4. req[t].pid = LIVE => req[t].at = "create"
      BY <1>1, <2>1 DEF RequestOK, Loaded, LIVE, SPECTATE
    <3>5. req'[t] \in Request /\ req'[t].at = "profile" /\ req'[t].pid = req[t].pid
      BY <1>1, <2>5, Goes DEF Places
    <3>6. QED
      BY <1>2, <1>3, <2>1, <2>3, <3>2, <3>3, <3>4, <3>5
  <2>6. QED
    BY <2>2, <2>4, <2>5
<1>6. QED
  BY <1>4, <1>5 DEF Choosing

\* Saving the profile sets it to what the request holds.
LEMMA SaveProfileIs ==
  ASSUME Wf, NEW t \in Threads, SaveProfile(t)
  PROVE  /\ StaysOK(t) /\ t \in Active /\ req[t].at = "profile" /\ LiveRows' = LiveRows
         /\ UNCHANGED <<now, parts, contest, disq, banned, subs, admin, requests, edits, raced>>
         /\ \/ req'[t] = Idle /\ req[t].pid = None
            \/ /\ req'[t] \in Request /\ req'[t].at = "count" /\ req[t].pid # None
               /\ req'[t].row = req[t].row /\ req'[t].timely = req[t].timely
<1>1. t \in Active /\ req[t] \in Request /\ RequestOK(req[t]) /\ TypeOK
  BY ActWf DEF SaveProfile, Wf
<1>2. (req[t].kind = "join") <=> (req[t].pid # None)
  BY <1>1 DEF RequestOK, Loaded, SaveProfile
<1>3. StaysOK(t) /\ LiveRows' = LiveRows
  BY SaveProfileOK DEF SaveProfile, LiveRows, Keys
<1>4. QED
  BY <1>1, <1>2, <1>3, Finishes, Goes DEF SaveProfile, Becomes, Places

\* The test reads the contest, the clock's verdict and the count.
LEMMA CheckLimitsIs ==
  ASSUME Wf, NEW t \in Threads, CheckLimits(t)
  PROVE  /\ StaysOK(t) /\ Local /\ t \in Active /\ req[t].at = "submit"
         /\ \/ req'[t] = Idle
            \/ /\ req'[t] \in Request /\ req'[t].at = "store"
               /\ WithinLimits(req[t].user, req[t].prof)
               /\ req'[t].row = req[t].row /\ req'[t].timely = req[t].timely
<1>1. t \in Active /\ req[t] \in Request /\ TypeOK
  BY ActWf DEF CheckLimits, Wf
<1>2. QED
  BY <1>1, CheckLimitsOK, Finishes, Goes DEF CheckLimits, Becomes, Places

\* The last step of a request leaves its thread idle.
LEMMA LastStepIs ==
  ASSUME Wf, NEW t \in Threads, SaveContest(t) \/ Store(t)
  PROVE  StaysOK(t) /\ t \in Active /\ req'[t] = Idle
<1>1. t \in Active /\ TypeOK
  BY ActWf DEF SaveContest, Store, Wf
<1>2. QED
  BY <1>1, SaveContestOK, StoreOK, Finishes DEF SaveContest, Store, Becomes

-----------------------------------------------------------------------------
(* The contest and its submissions are locked together.                    *)

\* A request that has begun stays as it is in the steps of others.
LEMMA OthersStay ==
  ASSUME Wf, NEW t \in Threads, StaysOK(t)
  PROVE  /\ \A s \in Active' \ {t} : s \in Active /\ req'[s] = req[s]
         /\ t \in Active' <=> req'[t] # Idle
         /\ t \in Active' => req'[t] \in Request /\ RequestOK(req'[t]) /\ Same(req[t], req'[t])
BY DEF StaysOK, Becomes, Active, Idle, Request, Places

\* A step of a request leaves every other request as it is.
LEMMA RequestStepIs ==
  ASSUME Wf, NEW t \in Threads, RequestStep(t)
  PROVE  /\ StaysOK(t) /\ req[t] \in Request /\ RequestOK(req[t])
         /\ UNCHANGED <<now, disq, banned, admin, requests, edits>>
         /\ \/ Enter(t) \/ Choosing(t) \/ SaveProfile(t) \/ Count(t)
            \/ SaveContest(t) \/ CheckLimits(t) \/ Store(t)
<1>1. \/ Enter(t) \/ Choosing(t) \/ SaveProfile(t) \/ Count(t)
      \/ SaveContest(t) \/ CheckLimits(t) \/ Store(t)
  BY DEF RequestStep, Choosing
<1>2. StaysOK(t)
  BY <1>1, EnterIs, ChoosingIs, SaveProfileIs, Counts, CheckLimitsIs, LastStepIs
<1>3. UNCHANGED <<now, disq, banned, admin, requests, edits>>
  BY <1>1, EnterIs, ChoosingIs, SaveProfileIs, CheckLimitsIs
     DEF Local, dataVars, Count, SaveContest, Store
<1>4. req[t] \in Request /\ RequestOK(req[t])
  BY <1>2, ActWf DEF StaysOK, Active
<1>5. QED
  BY <1>1, <1>2, <1>3, <1>4

\* What each mark in the history leaves alone.
LEMMA Marks ==
  ASSUME Wf, NEW u \in Users, NEW missed \in BOOLEAN
  PROVE  /\ Overlapped.overlap /\ Overlapped.miscounted
         /\ Overlapped.strayed = raced.strayed /\ Overlapped.slipped = raced.slipped
         /\ SavesCount.overlap = raced.overlap /\ SavesCount.strayed = raced.strayed
         /\ SavesCount.slipped = raced.slipped
         /\ SavesCount.miscounted => raced.miscounted
         /\ raced.miscounted /\ ~SavesCount.miscounted => ~raced.overlap
         /\ SlipsIf(u, missed).overlap = raced.overlap
         /\ SlipsIf(u, missed).miscounted = raced.miscounted
         /\ SlipsIf(u, missed).strayed = raced.strayed
         /\ SlipsIf(u, missed).slipped = IF missed THEN raced.slipped \cup {u} ELSE raced.slipped
BY DEF Overlapped, SavesCount, SlipsIf, History, Wf, TypeOK

\* ... and what a request's step does to the history.
LEMMA RequestMarks ==
  ASSUME Wf, NEW t \in Threads, RequestStep(t)
  PROVE  /\ raced'.overlap = raced.overlap /\ raced'.strayed = raced.strayed
         /\ raced.slipped \subseteq raced'.slipped
         /\ ~SaveContest(t) => raced'.miscounted = raced.miscounted
         /\ raced'.miscounted => raced.miscounted
         /\ raced.miscounted /\ ~raced'.miscounted => ~raced.overlap
<1>1. req[t].user \in Users /\ Disqualifying(req[t].user) \in BOOLEAN
  BY RequestStepIs DEF Request, Disqualifying
<1>2. \/ raced' = raced
      \/ Enter(t) /\ raced' = SlipsIf(req[t].user, Disqualifying(req[t].user))
      \/ SaveContest(t) /\ raced' = SavesCount
  BY RequestStepIs, EnterIs, ChoosingIs, SaveProfileIs, CheckLimitsIs
     DEF Local, Count, SaveContest, Store
<1>3. Enter(t) => ~SaveContest(t)
  BY DEF Enter, SaveContest
<1>4. CASE raced' = raced
  BY <1>4
<1>5. CASE Enter(t) /\ raced' = SlipsIf(req[t].user, Disqualifying(req[t].user))
  <2>1. /\ raced'.overlap = raced.overlap /\ raced'.miscounted = raced.miscounted
        /\ raced'.strayed = raced.strayed /\ raced.slipped \subseteq raced'.slipped
    BY <1>1, <1>5, Marks
  <2>2. QED
    BY <1>3, <1>5, <2>1
<1>6. CASE SaveContest(t) /\ raced' = SavesCount
  BY <1>1, <1>6, Marks
<1>7. QED
  BY <1>2, <1>4, <1>5, <1>6

\* Since a lock was saved while no request held the row, every row that a request
\* has loaded is right about the lock.
LockInv ==
  ~raced.strayed =>
    /\ \A t \in Active : Loaded(req[t]) => req[t].row.locked = contest.locked
    /\ \A i \in DOMAIN subs : subs[i].virtual = LIVE => subs[i].locked = contest.locked

\* A request writes the lock it loaded, and stores submissions with it.
LEMMA LockRequestStep ==
  ASSUME Wf, LockInv, NEW t \in Threads, RequestStep(t)
  PROVE  LockInv'
<1> SUFFICES ASSUME ~raced'.strayed
             PROVE  /\ \A s \in Active' : Loaded(req'[s]) => req'[s].row.locked = contest'.locked
                    /\ \A i \in DOMAIN subs' : subs'[i].virtual = LIVE => subs'[i].locked = contest'.locked
  BY DEF LockInv, Loaded
<1>1. StaysOK(t) /\ ~raced.strayed /\ t \in Active
  BY RequestStepIs, RequestMarks DEF StaysOK
<1>2. req[t] \in Request /\ RequestOK(req[t])
  BY RequestStepIs
<1>3. /\ Loaded(req[t]) => req[t].row.locked = contest.locked /\ req[t].row \in Row
      /\ \A s \in Active : Loaded(req[s]) => req[s].row.locked = contest.locked
      /\ \A i \in DOMAIN subs : subs[i].virtual = LIVE => subs[i].locked = contest.locked
  BY <1>1, <1>2 DEF LockInv, RequestOK
<1>4. contest'.locked = contest.locked
  <2>1. CASE SaveContest(t)
    <3>1. Loaded(req[t])
      BY <1>2, <2>1 DEF SaveContest, RequestOK, Loaded
    <3>2. QED
      BY <1>3, <2>1, <3>1 DEF SaveContest
  <2>2. CASE Choosing(t)
    BY <2>2, ChoosingIs
  <2>3. CASE SaveProfile(t)
    BY <2>3 DEF SaveProfile
  <2>4. CASE Enter(t) \/ Count(t) \/ CheckLimits(t) \/ Store(t)
    BY <2>4 DEF Enter, Count, CheckLimits, Store, Local, dataVars
  <2>5. QED
    BY <2>1, <2>2, <2>3, <2>4, RequestStepIs
<1>5. ASSUME t \in Active', Loaded(req'[t])
      PROVE  req'[t].row.locked = contest.locked
  <2>1. /\ req'[t] # Idle /\ req'[t] \in Request /\ RequestOK(req'[t])
        /\ Same(req[t], req'[t])
    BY <1>1, <1>5, OthersStay
  <2>2. CASE Enter(t)
    BY <2>1, <2>2, EnterIs
  <2>3. CASE Choosing(t)
    <3>1. req'[t].row = req[t].row /\ req[t].at # "join"
      BY <2>1, <2>3, ChoosingIs
    <3>2. QED
      BY <1>3, <1>5, <2>1, <3>1 DEF Loaded, Same
  <2>4. CASE SaveProfile(t) \/ CheckLimits(t)
    <3>1. req'[t].row = req[t].row /\ req[t].at # "join"
      BY <2>1, <2>4, SaveProfileIs, CheckLimitsIs
    <3>2. QED
      BY <1>3, <1>5, <2>1, <3>1 DEF Loaded, Same
  <2>5. CASE Count(t)
    <3>1. Loaded(req[t])
      BY <1>2, <2>5 DEF Count, RequestOK, Loaded
    <3>2. req'[t].row.locked = req[t].row.locked
      BY <1>3, <2>5, <3>1, Counts DEF Row
    <3>3. QED
      BY <1>3, <3>1, <3>2
  <2>6. QED
    BY <2>1, <2>2, <2>3, <2>4, <2>5, RequestStepIs, LastStepIs
<1>6. \A s \in Active' : Loaded(req'[s]) => req'[s].row.locked = contest'.locked
  BY <1>1, <1>3, <1>4, <1>5, OthersStay
<1>7. \A i \in DOMAIN subs' : subs'[i].virtual = LIVE => subs'[i].locked = contest'.locked
  <2>1. CASE Store(t)
    <3> DEFINE locked == IF req[t].prof = LIVE THEN req[t].row.locked ELSE FALSE
               sub == [user |-> req[t].user, virtual |-> req[t].prof, status |-> "QU",
                       locked |-> locked, rejudged |-> FALSE, revived |-> FALSE]
    <3>1. subs' = Append(subs, sub) /\ subs \in Seq(Submission)
      BY <2>1 DEF Store, Wf, TypeOK
    <3>2. req[t].prof = LIVE => Loaded(req[t])
      BY <1>2, <2>1, IdsAre DEF Store, RequestOK, Loaded
    <3>3. sub.virtual = LIVE => sub.locked = contest.locked
      BY <1>3, <3>2
    <3> HIDE DEF sub
    <3>4. \A i \in DOMAIN subs' : IF i = Len(subs) + 1 THEN subs'[i] = sub
                                  ELSE i \in DOMAIN subs /\ subs'[i] = subs[i]
      BY <3>1
    <3>5. QED
      BY <1>3, <1>4, <3>3, <3>4
  <2>2. CASE ~Store(t)
    <3>1. subs' = subs
      BY <2>2, RequestStepIs, ChoosingIs, SaveProfileIs
         DEF Enter, Count, CheckLimits, SaveContest, Local, dataVars
    <3>2. QED
      BY <1>3, <1>4, <3>1
  <2>3. QED
    BY <2>1, <2>2
<1>8. QED
  BY <1>6, <1>7

\* So does every step keep the lock's invariant.
LEMMA LockStep == Wf /\ LockInv /\ [Next]_joinVars => LockInv'
<1> SUFFICES ASSUME Wf, LockInv, [Next]_joinVars, ~raced'.strayed
             PROVE  /\ \A s \in Active' : Loaded(req'[s]) => req'[s].row.locked = contest'.locked
                    /\ \A i \in DOMAIN subs' : subs'[i].virtual = LIVE => subs'[i].locked = contest'.locked
  BY DEF LockInv, Loaded
<1> DEFINE Goal == /\ \A s \in Active' : Loaded(req'[s]) => req'[s].row.locked = contest'.locked
                   /\ \A i \in DOMAIN subs' : subs'[i].virtual = LIVE => subs'[i].locked = contest'.locked
<1>1. ASSUME NEW t \in Threads, RequestStep(t) PROVE Goal
  BY <1>1, LockRequestStep DEF LockInv, Loaded
<1>2. ASSUME NEW t \in Threads, NEW u \in Users, NEW kind \in Kinds, Begin(t, u, kind) PROVE Goal
  <2>1. UNCHANGED <<contest, subs>> /\ raced' \in {raced, BeginsJoin}
    BY <1>2 DEF Begin
  <2>2. ~raced.strayed
    BY <2>1, Marks DEF BeginsJoin, History, Wf, TypeOK
  <2>3. QED
    BY <1>2, <2>1, <2>2, BeginIs DEF LockInv, Active
<1>3. ASSUME NEW i \in DOMAIN subs, Grade(i) \/ Rejudge(i) PROVE Goal
  <2>1. UNCHANGED <<contest, req, raced>>
    BY <1>3 DEF Grade, Rejudge, Edit
  <2>2. /\ DOMAIN subs' = DOMAIN subs
        /\ \A j \in DOMAIN subs : subs'[j].virtual = subs[j].virtual /\ subs'[j].locked = subs[j].locked
    <3>1. subs \in Seq(Submission) /\ subs[i] \in Submission
      BY DEF Wf, TypeOK
    <3>2. ASSUME NEW e \in Submission, subs' = [subs EXCEPT ![i] = e],
                 e.virtual = subs[i].virtual, e.locked = subs[i].locked
          PROVE  /\ DOMAIN subs' = DOMAIN subs
                 /\ \A j \in DOMAIN subs : /\ subs'[j].virtual = subs[j].virtual
                                           /\ subs'[j].locked = subs[j].locked
      BY <3>1, <3>2
    <3>3. CASE Grade(i)
      <4>1. PICK s \in {"D", "IE"} : subs' = [subs EXCEPT ![i] = [subs[i] EXCEPT !.status = s]]
        BY <3>3 DEF Grade
      <4>2. QED
        BY <3>1, <3>2, <4>1 DEF Submission
    <3>4. CASE Rejudge(i)
      <4> DEFINE e == [subs[i] EXCEPT !.status = "QU", !.rejudged = TRUE,
                                      !.revived = @ \/ subs[i].status = "IE"]
      <4>1. subs' = [subs EXCEPT ![i] = e]
        BY <3>1, <3>4 DEF Rejudge
      <4>2. e \in Submission /\ e.virtual = subs[i].virtual /\ e.locked = subs[i].locked
        BY <3>1 DEF Submission
      <4> HIDE DEF e
      <4>3. QED
        BY <3>2, <4>1, <4>2
    <3>5. QED
      BY <1>3, <3>3, <3>4
  <2>3. QED
    BY <2>1, <2>2 DEF LockInv, Active
<1>4. CASE SetVisible
  <2>1. contest'.locked = contest.locked /\ UNCHANGED <<subs, req>> /\ ~raced.strayed
    BY <1>4 DEF SetVisible, Edit, Wf, TypeOK, Row
  <2>2. QED
    BY <2>1 DEF LockInv, Active
<1>5. CASE SetLockedAfter
  <2>1. Holding = {} /\ req' = req
    BY <1>5 DEF SetLockedAfter, SaveLocked, Wf, TypeOK, History
  <2>2. \A t \in Active' : ~Loaded(req'[t])
    BY <2>1 DEF Active, Holding
  <2>3. contest'.locked = admin.on
    BY <1>5, AdminIs DEF SetLockedAfter, SaveLocked, Row
  <2>4. \A i \in DOMAIN subs' : subs'[i].virtual = LIVE => subs'[i].locked = admin.on
    <3>1. subs \in Seq(Submission)
      BY DEF Wf, TypeOK
    <3>2. DOMAIN subs' = DOMAIN subs
      BY <1>5 DEF SetLockedAfter
    <3>3. ASSUME NEW i \in DOMAIN subs, subs'[i].virtual = LIVE
          PROVE  subs'[i].locked = admin.on
      <4>1. subs[i] \in Submission
        BY <3>1
      <4>2. subs'[i] = IF subs[i].virtual = LIVE THEN [subs[i] EXCEPT !.locked = admin.on] ELSE subs[i]
        BY <1>5 DEF SetLockedAfter
      <4>3. QED
        BY <3>3, <4>1, <4>2 DEF Submission
    <3>4. QED
      BY <3>2, <3>3
  <2>5. QED
    BY <2>2, <2>3, <2>4
<1>6. ASSUME UNCHANGED <<contest, subs, req>>, raced'.strayed = raced.strayed
      PROVE  Goal
  BY <1>6 DEF LockInv, Active
<1>7. ASSUME NEW on \in BOOLEAN, LoadContest(on) PROVE Goal
  <2>1. raced'.strayed = raced.strayed
    BY <1>7 DEF LoadContest, Overlapped, History, Wf, TypeOK
  <2>2. QED
    BY <1>6, <1>7, <2>1 DEF LoadContest, Edit
<1>8. ASSUME NEW k \in Keys, Disqualify(k) \/ Reinstate(k) PROVE Goal
  <2>1. k[1] \in Users /\ Entering(k[1]) \in BOOLEAN
    BY KeysType DEF Wf, Entering
  <2>2. raced'.strayed = raced.strayed
    <3>1. raced' = raced \/ raced' = SlipsIf(k[1], Entering(k[1]))
      BY <1>8 DEF Disqualify, Reinstate
    <3>2. SlipsIf(k[1], Entering(k[1])).strayed = raced.strayed
      BY <2>1, Marks
    <3>3. QED
      BY <3>1, <3>2
  <2>3. QED
    BY <1>6, <1>8, <2>2 DEF Disqualify, Reinstate, Edit
<1>9. ASSUME Look \/ RemoveContest \/ Ban \/ Lift PROVE Goal
  <2>1. admin.key[1] \in Users /\ (\E d \in disq : d[1] = admin.key[1]) \in BOOLEAN
    BY <1>9, AdminIs DEF Look, RemoveContest, Ban, Lift
  <2>2. raced'.strayed = raced.strayed
    BY <1>9, <2>1, Marks DEF Look, RemoveContest, Ban, Lift
  <2>3. QED
    BY <1>6, <1>9, <2>2 DEF Look, RemoveContest, Ban, Lift
<1>10. ASSUME Tick \/ UNCHANGED joinVars PROVE Goal
  BY <1>6, <1>10 DEF Tick, joinVars, dataVars
<1>11. QED
  BY <1>1, <1>2, <1>3, <1>4, <1>5, <1>7, <1>8, <1>9, <1>10 DEF Next, AdminStep, Kinds, Reinstate

\* After every lock that no request overlapped, a locked contest has no live
\* submission that is open to change, and an open one none that is closed.
THEOREM LocksAgree == Spec => []LockedTogether
<1>1. Init => LockInv
  BY DEF Init, LockInv, Active, Idle
<1>2. LockInv => LockedTogether
  BY DEF LockInv, LockedTogether
<1>3. QED
  BY <1>1, <1>2, LockStep, WellFormed, PTL DEF Spec

-----------------------------------------------------------------------------
(* The count of the participants.                                          *)

\* How many live participations there are.
Live == Cardinality(LiveRows)

\* Requests that have added a live participation and not yet saved the count.
Counting(r) == r.at \in {"count", "contest"} \/ (r.at = "profile" /\ r.pid # None)

\* No count exceeds the number of rows ...
CountBelow ==
  /\ contest.count <= Live
  /\ \A t \in Active : Loaded(req[t]) => req[t].row.count <= Live
  /\ admin.at = "lock" => admin.row.count <= Live

\* ... a join that overlaps nothing is alone and counts right ...
CountAlone ==
  ~raced.overlap =>
    /\ \A s, t \in Joins : s = t
    /\ admin.at = "lock" => Joins = {}
    /\ \A t \in Joins : req[t].at = "contest" => req[t].row.count = Live

\* ... and once it has saved, the count is the number of rows, or a join that is
\* alone again is about to save it.
CountExact ==
  ~raced.miscounted =>
    /\ ~raced.overlap
    /\ contest.count = Live \/ \E t \in Joins : Counting(req[t])
    /\ admin.at = "lock" => admin.row.count = contest.count

CountInv == CountBelow /\ CountAlone /\ CountExact

\* It is a number ...
LEMMA LiveType == Wf => IsFiniteSet(LiveRows) /\ Live \in Nat
BY LiveRowsFinite DEF Live

\* ... in the next state as well.
LEMMA LiveTypeNext == Wf' => (IsFiniteSet(LiveRows) /\ Live \in Nat)'
BY LiveType, PTL

\* Live participations are never removed.
LEMMA LiveGrows ==
  ASSUME Wf, Wf', LiveRows \subseteq LiveRows'
  PROVE  Live \in Nat /\ Live' \in Nat /\ Live <= Live'
BY LiveType, LiveTypeNext, FS_Subset DEF Live

\* A step of a request changes the count only where it saves the contest, and the
\* number of rows only where a join adds its own.
LEMMA CountRows ==
  ASSUME Wf, Wf', NEW t \in Threads, RequestStep(t)
  PROVE  /\ Live \in Nat /\ Live' \in Nat /\ Live <= Live'
         /\ ~Choosing(t) => Live' = Live
         /\ t \notin Joins => Live' = Live /\ ~SaveContest(t)
         /\ contest' = IF SaveContest(t) THEN req[t].row ELSE contest
         /\ Joins' \subseteq Joins /\ \A s \in Joins' \ {t} : req'[s] = req[s]
         /\ \A s \in Joins \ {t} : s \in Joins'
         /\ t \in Joins' <=> t \in Joins /\ req'[t] # Idle
<1>1. /\ StaysOK(t) /\ t \in Active /\ req[t] \in Request /\ RequestOK(req[t])
  BY RequestStepIs DEF StaysOK
<1>2. LiveRows \subseteq LiveRows' /\ (~Choosing(t) => LiveRows' = LiveRows)
  <2>1. CASE Choosing(t)
    BY <2>1, ChoosingIs
  <2>2. CASE ~Choosing(t)
    <3>1. parts' = parts
      BY <2>2, RequestStepIs DEF Enter, SaveProfile, Count, SaveContest, CheckLimits, Store,
         Local, dataVars
    <3>2. QED
      BY <2>2, <3>1 DEF LiveRows, Keys
  <2>3. QED
    BY <2>1, <2>2
<1>3. Live \in Nat /\ Live' \in Nat /\ Live <= Live' /\ (~Choosing(t) => Live' = Live)
  BY <1>2, LiveGrows DEF Live
<1>4. t \notin Joins => LiveRows' = LiveRows /\ ~SaveContest(t)
  <2> SUFFICES ASSUME t \notin Joins PROVE LiveRows' = LiveRows /\ ~SaveContest(t)
    OBVIOUS
  <2>1. req[t].kind # "join"
    BY <1>1 DEF Joins
  <2>2. req[t].at \notin {"create", "contest"}
    BY <1>1, <2>1 DEF RequestOK
  <2>3. QED
    BY <1>2, <2>2, ChoosingIs DEF SaveContest
<1>5. contest' = IF SaveContest(t) THEN req[t].row ELSE contest
  <2>1. CASE Choosing(t)
    BY <1>1, <2>1, ChoosingIs DEF SaveContest
  <2>2. CASE ~Choosing(t)
    BY <1>1, <2>2, RequestStepIs DEF Enter, SaveProfile, Count, SaveContest, CheckLimits, Store,
         Local, dataVars
  <2>3. QED
    BY <2>1, <2>2
<1>6. /\ \A s \in Active' \ {t} : s \in Active /\ req'[s] = req[s]
      /\ \A s \in Active \ {t} : s \in Active' /\ req'[s] = req[s]
      /\ t \in Active' <=> req'[t] # Idle
      /\ t \in Active' => Same(req[t], req'[t])
  BY <1>1, OthersStay DEF StaysOK, Becomes, Active
<1>7. /\ Joins' \subseteq Joins /\ \A s \in Joins' \ {t} : req'[s] = req[s]
      /\ \A s \in Joins \ {t} : s \in Joins'
      /\ t \in Joins' <=> t \in Joins /\ req'[t] # Idle
  BY <1>1, <1>6 DEF Joins, Same
<1>8. QED
  BY <1>3, <1>4, <1>5, <1>7 DEF Live

\* No step of a request takes a count beyond the rows.
LEMMA CountBelowRequest ==
  ASSUME Wf, Wf', CountBelow, NEW t \in Threads, RequestStep(t)
  PROVE  CountBelow'
<1>1. /\ StaysOK(t) /\ t \in Active /\ req[t] \in Request /\ RequestOK(req[t]) /\ admin' = admin
  BY RequestStepIs DEF StaysOK
<1>2. /\ contest.count \in Nat /\ contest.count <= Live
      /\ Loaded(req[t]) => req[t].row \in Row /\ req[t].row.count <= Live
      /\ \A s \in Active : Loaded(req[s]) => req[s].row \in Row /\ req[s].row.count <= Live
      /\ admin.at = "lock" => admin.row \in Row /\ admin.row.count <= Live
  BY <1>1, AdminIs DEF CountBelow, Wf, TypeOK, Row, RequestOK
<1>3. Live \in Nat /\ Live' \in Nat /\ Live <= Live' /\ (~Choosing(t) => Live' = Live)
      /\ contest' = IF SaveContest(t) THEN req[t].row ELSE contest
  BY CountRows
<1>4. SaveContest(t) => Loaded(req[t])
  BY <1>1 DEF SaveContest, RequestOK, Loaded
<1>5. t \in Active' /\ Loaded(req'[t]) => req'[t].row.count <= Live'
  <2> SUFFICES ASSUME t \in Active', Loaded(req'[t]) PROVE req'[t].row.count <= Live'
    OBVIOUS
  <2>1. req'[t] # Idle /\ req'[t] \in Request /\ RequestOK(req'[t]) /\ Same(req[t], req'[t])
    BY <1>1, OthersStay
  <2>2. CASE Enter(t)
    BY <1>2, <1>3, <2>1, <2>2, EnterIs
  <2>3. CASE Choosing(t) \/ SaveProfile(t) \/ CheckLimits(t)
    <3>1. req'[t].row = req[t].row /\ req[t].at # "join"
      BY <2>1, <2>3, ChoosingIs, SaveProfileIs, CheckLimitsIs
    <3>2. Loaded(req[t])
      BY <2>1, <3>1 DEF Loaded, Same
    <3>3. QED
      BY <1>2, <1>3, <3>1, <3>2 DEF Row
  <2>4. CASE Count(t)
    <3>1. Loaded(req[t])
      BY <1>1, <2>4 DEF Count, RequestOK, Loaded
    <3>2. req'[t].row.count = Live
      BY <1>2, <2>4, <3>1, Counts DEF Row, Live
    <3>3. QED
      BY <1>3, <3>2
  <2>5. QED
    BY <2>1, <2>2, <2>3, <2>4, RequestStepIs, LastStepIs
<1>6. \A s \in Active' : Loaded(req'[s]) => req'[s].row.count <= Live'
  BY <1>1, <1>2, <1>3, <1>5, OthersStay DEF Row
<1>7. contest'.count <= Live'
  BY <1>2, <1>3, <1>4 DEF Row
<1>8. admin'.at = "lock" => admin'.row.count <= Live'
  BY <1>1, <1>2, <1>3 DEF Row
<1>9. QED
  BY <1>6, <1>7, <1>8 DEF CountBelow, Loaded, Live

\* A join that is alone when it counts is alone when it saves.
LEMMA CountAloneRequest ==
  ASSUME Wf, Wf', CountAlone, NEW t \in Threads, RequestStep(t)
  PROVE  CountAlone'
<1> SUFFICES ASSUME ~raced'.overlap
             PROVE  /\ \A r, s \in Joins' : r = s
                    /\ admin'.at = "lock" => Joins' = {}
                    /\ \A s \in Joins' : req'[s].at = "contest" => req'[s].row.count = Live'
  BY DEF CountAlone, Live
<1>1. /\ StaysOK(t) /\ req[t] \in Request /\ RequestOK(req[t]) /\ admin' = admin
  BY RequestStepIs
<1>2. /\ \A r, s \in Joins : r = s
      /\ admin.at = "lock" => Joins = {}
      /\ \A s \in Joins : req[s].at = "contest" => req[s].row.count = Live
  BY RequestMarks DEF CountAlone
<1>3. /\ ~Choosing(t) => Live' = Live
      /\ t \notin Joins => Live' = Live
      /\ Joins' \subseteq Joins /\ \A s \in Joins' \ {t} : req'[s] = req[s]
      /\ t \in Joins' => req'[t] # Idle
  BY CountRows
<1>4. t \in Joins' /\ req'[t].at = "contest" => req'[t].row.count = Live'
  <2> SUFFICES ASSUME t \in Joins', req'[t].at = "contest" PROVE req'[t].row.count = Live'
    OBVIOUS
  <2>1. Count(t)
    BY <1>3, RequestStepIs, EnterIs, ChoosingIs, SaveProfileIs, CheckLimitsIs, LastStepIs
  <2>2. req[t].row \in Row /\ Live' = Live
    BY <1>1, <1>3, <2>1 DEF Count, Choosing, Number, CreateVirtual, Get, Create, GetOrCreate,
       LeaveView, RequestOK, Loaded
  <2>3. QED
    BY <2>1, <2>2, Counts DEF Row, Live
<1>5. ASSUME NEW s \in Joins', s # t, req'[s].at = "contest"
      PROVE  req'[s].row.count = Live'
  <2>1. s \in Joins /\ req'[s] = req[s] /\ t \notin Joins
    BY <1>2, <1>3, <1>5
  <2>2. QED
    BY <1>2, <1>3, <1>5, <2>1
<1>6. QED
  BY <1>1, <1>2, <1>3, <1>4, <1>5

\* The save of a join that was alone leaves the count exact.
LEMMA CountExactRequest ==
  ASSUME Wf, Wf', CountInv, NEW t \in Threads, RequestStep(t)
  PROVE  CountExact'
<1> SUFFICES ASSUME ~raced'.miscounted
             PROVE  /\ ~raced'.overlap
                    /\ contest'.count = Live' \/ \E s \in Joins' : Counting(req'[s])
                    /\ admin'.at = "lock" => admin'.row.count = contest'.count
  BY DEF CountExact, Counting, Live
<1>1. /\ StaysOK(t) /\ t \in Active /\ req[t] \in Request /\ RequestOK(req[t]) /\ admin' = admin
  BY RequestStepIs DEF StaysOK
<1>2. ~raced.overlap /\ ~raced'.overlap
  BY RequestMarks DEF CountInv, CountExact
<1>3. /\ \A r, s \in Joins : r = s
      /\ admin.at = "lock" => Joins = {}
      /\ \A s \in Joins : req[s].at = "contest" => req[s].row.count = Live
  BY <1>2 DEF CountInv, CountAlone
<1>4. /\ ~Choosing(t) => Live' = Live
      /\ t \notin Joins => Live' = Live /\ ~SaveContest(t)
      /\ contest' = IF SaveContest(t) THEN req[t].row ELSE contest
      /\ \A s \in Joins' \ {t} : req'[s] = req[s]
      /\ \A s \in Joins \ {t} : s \in Joins'
      /\ t \in Joins' <=> t \in Joins /\ req'[t] # Idle
  BY CountRows
<1>5. CASE SaveContest(t)
  <2>1. t \in Joins /\ req[t].at = "contest" /\ Live' = Live
    BY <1>4, <1>5 DEF SaveContest, Choosing, Number, CreateVirtual, Get, Create, GetOrCreate, LeaveView
  <2>2. QED
    BY <1>1, <1>2, <1>3, <1>4, <1>5, <2>1
<1>6. CASE ~SaveContest(t)
  <2>1. /\ contest.count = Live \/ \E s \in Joins : Counting(req[s])
        /\ admin.at = "lock" => admin.row.count = contest.count
        /\ contest' = contest
    BY <1>4, <1>6, RequestMarks DEF CountInv, CountExact
  <2>2. CASE t \notin Joins
    <3>1. Live' = Live /\ \A s \in Joins : s \in Joins' /\ req'[s] = req[s]
      BY <1>4, <2>2
    <3>2. QED
      BY <1>1, <1>2, <2>1, <3>1
  <2>3. CASE t \in Joins
    <3>1. contest.count = Live \/ Counting(req[t])
      BY <1>3, <2>1, <2>3
    <3>2. contest'.count = Live' \/ (t \in Joins' /\ Counting(req'[t]))
      <4>1. CASE Choosing(t)
        <5>1. contest.count = Live
          BY <3>1, <4>1, ChoosingIs DEF Counting
        <5>2. CASE LiveRows' = LiveRows
          BY <2>1, <5>1, <5>2 DEF Live
        <5>3. CASE LiveRows' # LiveRows
          BY <1>4, <2>3, <4>1, <5>3, ChoosingIs, IdsAre DEF Counting, Idle, Request, Places
        <5>4. QED
          BY <5>2, <5>3
      <4>2. CASE SaveProfile(t)
        <5>1. Live' = Live
          BY <4>2, SaveProfileIs DEF Live
        <5>2. CASE req[t].pid = None
          BY <2>1, <3>1, <4>2, <5>1, <5>2, SaveProfileIs DEF Counting
        <5>3. CASE req[t].pid # None
          BY <1>4, <2>3, <4>2, <5>3, SaveProfileIs DEF Counting, Idle, Request, Places
        <5>4. QED
          BY <5>2, <5>3
      <4>3. CASE Count(t)
        <5>1. req'[t].at = "contest" /\ req'[t] # Idle
          <6>1. Idle.at = "idle"
            BY DEF Idle
          <6>2. req'[t].at = "contest"
            BY <4>3, Counts
          <6>3. QED
            BY <6>1, <6>2
        <5>2. QED
          BY <1>4, <2>3, <5>1 DEF Counting
      <4>4. CASE Enter(t) \/ CheckLimits(t) \/ Store(t)
        <5>1. req[t].at \notin {"count", "contest", "profile"}
          BY <4>4 DEF Enter, CheckLimits, Store
        <5>2. Live' = Live
          BY <1>4, <4>4 DEF Enter, CheckLimits, Store, Choosing, Number, CreateVirtual, Get, Create,
             GetOrCreate, LeaveView
        <5>3. QED
          BY <2>1, <3>1, <5>1, <5>2 DEF Counting
      <4>5. QED
        BY <1>6, <4>1, <4>2, <4>3, <4>4, RequestStepIs
    <3>3. QED
      BY <1>1, <1>2, <2>1, <3>2
  <2>4. QED
    BY <2>2, <2>3
<1>7. QED
  BY <1>5, <1>6

\* Every step keeps the count's invariant.
LEMMA CountStep == Wf /\ Wf' /\ CountInv /\ [Next]_joinVars => CountInv'
<1> SUFFICES ASSUME Wf, Wf', CountInv, [Next]_joinVars PROVE CountInv'
  OBVIOUS
<1>1. ASSUME NEW t \in Threads, NEW u \in Users, NEW kind \in Kinds, Begin(t, u, kind)
      PROVE  CountInv'
  <2>1. /\ t \notin Active /\ Active' = Active \cup {t}
        /\ \A s \in Threads \ {t} : req'[s] = req[s]
        /\ req'[t].at = kind /\ (Loaded(req'[t]) => req'[t].row = contest) /\ req'[t].kind = kind
    BY <1>1, BeginIs
  <2>2. contest' = contest /\ Live' = Live /\ admin' = admin
    BY <1>1 DEF Begin, Live, LiveRows, Keys
  <2>3. \A s \in Active : s \in Threads \ {t}
    BY <2>1 DEF Active
  <2>4. \A s \in Active' : Loaded(req'[s]) => req'[s].row.count <= Live
    BY <2>1, <2>3 DEF CountInv, CountBelow
  <2>5. CountBelow'
    BY <2>2, <2>4 DEF CountInv, CountBelow, Loaded, Live
  <2>6. /\ \A s \in Joins : s \in Joins' /\ req'[s] = req[s]
        /\ Joins' = IF kind = "join" THEN Joins \cup {t} ELSE Joins
    BY <2>1, <2>3 DEF Joins
  <2>7. CASE kind # "join"
    <3>1. raced' = raced /\ Joins' = Joins /\ \A s \in Joins : req'[s] = req[s]
      BY <1>1, <2>6, <2>7 DEF Begin
    <3>2. CountAlone'
      BY <2>2, <3>1 DEF CountInv, CountAlone, Live
    <3>3. CountExact'
      BY <2>2, <3>1 DEF CountInv, CountExact, Counting, Live
    <3>4. QED
      BY <2>5, <3>2, <3>3 DEF CountInv
  <2>8. CASE kind = "join" /\ Joins = {} /\ admin.at # "lock"
    <3>1. raced' = [raced EXCEPT !.overlap = FALSE]
      BY <1>1, <2>8 DEF Begin, BeginsJoin
    <3>2. ~raced'.overlap /\ raced'.miscounted = raced.miscounted
      BY <3>1 DEF Wf, TypeOK, History
    <3>3. CountAlone'
      BY <2>1, <2>2, <2>6, <2>8, <3>2 DEF CountAlone, Live
    <3>4. ~raced'.miscounted => contest'.count = Live'
      BY <2>2, <2>8, <3>2 DEF CountInv, CountExact
    <3>5. CountExact'
      BY <2>2, <2>8, <3>2, <3>4 DEF CountExact, Counting, Live
    <3>6. QED
      BY <2>5, <3>3, <3>5 DEF CountInv
  <2>9. CASE kind = "join" /\ ~(Joins = {} /\ admin.at # "lock")
    <3>1. raced' = Overlapped
      BY <1>1, <2>9 DEF Begin, BeginsJoin
    <3>2. raced'.overlap /\ raced'.miscounted
      BY <3>1 DEF Overlapped, Wf, TypeOK, History
    <3>3. QED
      BY <2>5, <3>2 DEF CountInv, CountAlone, CountExact
  <2>10. QED
    BY <2>7, <2>8, <2>9
<1>2. ASSUME /\ contest'.count = contest.count
             /\ admin'.at = "lock" => admin.at = "lock" /\ admin'.row.count = admin.row.count
             /\ UNCHANGED <<parts, req>>
             /\ raced'.overlap = raced.overlap /\ raced'.miscounted = raced.miscounted
      PROVE  CountInv'
  <2>1. Live' = Live /\ Active' = Active /\ Joins' = Joins
    BY <1>2 DEF Live, LiveRows, Keys, Active, Joins
  <2>2. CountBelow'
    BY <1>2, <2>1 DEF CountInv, CountBelow, Loaded, Live
  <2>3. CountAlone'
    BY <1>2, <2>1 DEF CountInv, CountAlone, Live
  <2>4. CountExact'
    BY <1>2, <2>1 DEF CountInv, CountExact, Counting, Live
  <2>5. QED
    BY <2>2, <2>3, <2>4 DEF CountInv
<1>3. CASE SetVisible
  <2>1. contest'.count = contest.count
    BY <1>3 DEF SetVisible, Wf, TypeOK, Row
  <2>2. QED
    BY <1>2, <1>3, <2>1 DEF SetVisible, Edit
<1>4. ASSUME NEW on \in BOOLEAN, LoadContest(on) PROVE CountInv'
  <2>1. /\ UNCHANGED <<parts, req, contest>> /\ admin'.at = "lock" /\ admin'.row = contest
    BY <1>4 DEF LoadContest, Edit
  <2>2. Live' = Live /\ Active' = Active /\ Joins' = Joins
    BY <2>1 DEF Live, LiveRows, Keys, Active, Joins
  <2>3. CountBelow'
    BY <2>1, <2>2 DEF CountInv, CountBelow, Loaded, Live
  <2>4. CASE Joins = {}
    <3>1. raced' = raced
      BY <1>4, <2>4 DEF LoadContest
    <3>2. CountAlone' /\ CountExact'
      BY <2>1, <2>2, <2>4, <3>1 DEF CountInv, CountAlone, CountExact, Counting, Live
    <3>3. QED
      BY <2>3, <3>2 DEF CountInv
  <2>5. CASE Joins # {}
    <3>1. raced' = Overlapped
      BY <1>4, <2>5 DEF LoadContest
    <3>2. raced'.overlap /\ raced'.miscounted
      BY <3>1 DEF Overlapped, Wf, TypeOK, History
    <3>3. QED
      BY <2>3, <3>2 DEF CountInv, CountAlone, CountExact
  <2>6. QED
    BY <2>4, <2>5
<1>5. CASE SetLockedAfter
  <2>1. /\ UNCHANGED <<parts, req>> /\ admin'.at # "lock" /\ admin.at = "lock"
        /\ contest'.count = admin.row.count
        /\ raced'.overlap = raced.overlap /\ raced'.miscounted = raced.miscounted
    BY <1>5, AdminIs DEF SetLockedAfter, SaveLocked, Idle, Row, Wf, TypeOK, History
  <2>2. Live' = Live /\ Active' = Active /\ Joins' = Joins
    BY <2>1 DEF Live, LiveRows, Keys, Active, Joins
  <2>3. CountBelow'
    BY <2>1, <2>2 DEF CountInv, CountBelow, Loaded, Live
  <2>4. CountAlone'
    BY <2>1, <2>2 DEF CountInv, CountAlone, Live
  <2>5. CountExact'
    BY <2>1, <2>2 DEF CountInv, CountExact, Counting, Live
  <2>6. QED
    BY <2>3, <2>4, <2>5 DEF CountInv
<1>6. ASSUME NEW k \in Keys, Disqualify(k) \/ Reinstate(k) PROVE CountInv'
  <2>1. k \in Users \X Ids /\ k[1] \in Users /\ Entering(k[1]) \in BOOLEAN
    BY KeysType DEF Wf, Entering
  <2>2. raced'.overlap = raced.overlap /\ raced'.miscounted = raced.miscounted
    <3>1. raced' = raced \/ raced' = SlipsIf(k[1], Entering(k[1]))
      BY <1>6 DEF Disqualify, Reinstate
    <3>2. /\ SlipsIf(k[1], Entering(k[1])).overlap = raced.overlap
          /\ SlipsIf(k[1], Entering(k[1])).miscounted = raced.miscounted
      BY <2>1, Marks
    <3>3. QED
      BY <3>1, <3>2
  <2>3. admin'.at # "lock"
    BY <1>6, <2>1, DoesCase DEF Disqualify, Reinstate
  <2>4. QED
    BY <1>2, <1>6, <2>2, <2>3 DEF Disqualify, Reinstate, Edit
<1>7. ASSUME Look \/ RemoveContest \/ Ban \/ Lift PROVE CountInv'
  <2>1. admin.key \in Users \X Ids /\ admin.key[1] \in Users
        /\ (\E d \in disq : d[1] = admin.key[1]) \in BOOLEAN
    BY <1>7, AdminIs DEF Look, RemoveContest, Ban, Lift
  <2>2. raced'.overlap = raced.overlap /\ raced'.miscounted = raced.miscounted
    <3> DEFINE left == \E d \in disq : d[1] = admin.key[1]
    <3>1. raced' = raced \/ raced' = SlipsIf(admin.key[1], left)
      BY <1>7 DEF Look, RemoveContest, Ban, Lift
    <3>2. left \in BOOLEAN
      OBVIOUS
    <3> HIDE DEF left
    <3>3. /\ SlipsIf(admin.key[1], left).overlap = raced.overlap
          /\ SlipsIf(admin.key[1], left).miscounted = raced.miscounted
      BY <2>1, <3>2, Marks
    <3>4. QED
      BY <3>1, <3>3
  <2>3. admin'.at # "lock"
    <3>1. \/ \E at \in {"remove", "ban"} : admin' = [at |-> at, key |-> admin.key]
          \/ admin' = [at |-> "idle"]
      BY <1>7 DEF Look, RemoveContest, Ban, Lift, Does, Idle
    <3>2. QED
      BY <3>1
  <2>4. QED
    BY <1>2, <1>7, <2>2, <2>3 DEF Look, RemoveContest, Ban, Lift
<1>8. ASSUME \/ \E i \in DOMAIN subs : Grade(i) \/ Rejudge(i)
             \/ Tick \/ UNCHANGED joinVars
      PROVE  CountInv'
  BY <1>2, <1>8 DEF Grade, Rejudge, Edit, Tick, joinVars, dataVars
<1>9. ASSUME NEW t \in Threads, RequestStep(t) PROVE CountInv'
  BY <1>9, CountBelowRequest, CountAloneRequest, CountExactRequest DEF CountInv
<1>10. QED
  BY <1>1, <1>3, <1>4, <1>5, <1>6, <1>7, <1>8, <1>9 DEF Next, AdminStep, Kinds, Reinstate

\* user_count never runs ahead of the live participations, and a join that overlaps
\* nothing leaves it exact.
THEOREM CountIsRight == Spec => []CountRight
<1>1. Init => CountInv
  <2> SUFFICES ASSUME Init PROVE CountInv
    OBVIOUS
  <2>1. LiveRows = {} /\ Active = {} /\ Joins = {} /\ admin.at # "lock"
    BY DEF Init, LiveRows, Keys, Active, Joins, Idle
  <2>2. Live = 0
    BY <2>1, FS_EmptySet DEF Live
  <2>3. QED
    BY <2>1, <2>2 DEF CountInv, CountBelow, CountAlone, CountExact, Init
<1>2. CountInv => CountRight
  BY DEF CountInv, CountBelow, CountExact, CountRight, Live
<1>3. QED
  BY <1>1, <1>2, CountStep, WellFormed, PTL DEF Spec

-----------------------------------------------------------------------------
(* Nobody stays in a participation that is disqualified.                   *)

\* A user with a disqualified participation is banned, or about to be, and has no
\* request past the test of the ban; the profile leaves that participation.
OutOf(u) ==
  /\ (\E d \in disq : d[1] = u) => u \in banned \/ Disqualifying(u)
  /\ Entering(u) => \A d \in disq : d[1] # u
  /\ current[u] # None /\ <<u, current[u]>> \in disq =>
       admin.at \in {"look", "remove"} /\ admin.key = <<u, current[u]>>

\* That holds of all but superusers and the users whom the ban has missed.
OutInv == \A u \in Users \ (Superusers \cup raced.slipped) : OutOf(u)

\* A request that has come past the test of the ban was entered by its user, ...
LEMMA EnteringIs ==
  ASSUME Wf, NEW t \in Threads, RequestStep(t), NEW u \in Users, Entering(u)', ~Entering(u)
  PROVE  Enter(t) /\ req'[t] # Idle /\ req[t].user = u /\ req'[t].user = u
<1>1. PICK s \in Joins' : req'[s].user = u /\ req'[s].at \notin {"join", "count", "contest"}
  BY DEF Entering
<1>2. StaysOK(t) /\ s \in Active' /\ s \in Threads /\ req'[s].kind = "join"
  BY <1>1, RequestStepIs DEF Joins, Active
<1>3. s = t
  <2>1. SUFFICES ASSUME s # t PROVE FALSE
    OBVIOUS
  <2>2. s \in Active /\ req'[s] = req[s]
    BY <1>2, <2>1, OthersStay
  <2>3. QED
    BY <1>1, <1>2, <2>2 DEF Entering, Joins
<1>4. t \in Active /\ req'[t] # Idle /\ req[t].user = u /\ req[t].kind = "join"
  BY <1>1, <1>2, <1>3, OthersStay DEF Same, StaysOK
<1>5. ASSUME ~Enter(t) PROVE FALSE
  <2>1. Choosing(t) \/ CheckLimits(t)
    BY <1>1, <1>3, <1>4, <1>5, RequestStepIs, SaveProfileIs, Counts, LastStepIs
  <2>2. req[t].at \notin {"join", "count", "contest"}
    BY <2>1, ChoosingIs, CheckLimitsIs
  <2>3. QED
    BY <1>4, <2>2 DEF Entering, Joins
<1>6. QED
  BY <1>1, <1>3, <1>4, <1>5

\* ... and only the join that does the saving takes its user into a participation.
LEMMA CurrentIs ==
  ASSUME Wf, NEW t \in Threads, RequestStep(t), NEW u \in Users,
         current'[u] # None, current'[u] # current[u]
  PROVE  Entering(u)
<1>1. SaveProfile(t)
  BY RequestStepIs, EnterIs, ChoosingIs, CheckLimitsIs
     DEF Count, SaveContest, Store, Local, dataVars
<1>2. u = req[t].user /\ current'[u] = req[t].pid
  BY <1>1 DEF SaveProfile, Wf, TypeOK
<1>3. t \in Active /\ req[t].at = "profile" /\ RequestOK(req[t])
  BY <1>1, SaveProfileIs, RequestStepIs
<1>4. req[t].kind = "join"
  BY <1>2, <1>3 DEF RequestOK
<1>5. QED
  BY <1>2, <1>3, <1>4 DEF Entering, Joins

\* A request's step.
LEMMA OutRequestStep ==
  ASSUME Wf, OutInv, NEW t \in Threads, RequestStep(t)
  PROVE  OutInv'
<1> SUFFICES ASSUME NEW u \in Users \ (Superusers \cup raced'.slipped)
             PROVE  OutOf(u)'
  BY DEF OutInv
<1>1. OutOf(u) /\ UNCHANGED <<disq, banned, admin>>
  BY RequestMarks, RequestStepIs DEF OutInv
<1>2. Disqualifying(u)' <=> Disqualifying(u)
  BY <1>1 DEF Disqualifying
<1>3. ASSUME Entering(u)' PROVE \A d \in disq : d[1] # u
  <2>1. CASE Entering(u)
    BY <1>1, <2>1 DEF OutOf
  <2>2. CASE ~Entering(u)
    <3>1. Enter(t) /\ req'[t] # Idle /\ req[t].user = u /\ req'[t].user = u
      BY <1>3, <2>2, EnteringIs
    <3>2. u \notin banned /\ raced' = SlipsIf(u, Disqualifying(u))
      BY <3>1, EnterIs
    <3>3. ~Disqualifying(u)
      <4>1. Disqualifying(u) \in BOOLEAN
        BY DEF Disqualifying
      <4>2. Disqualifying(u) => u \in SlipsIf(u, Disqualifying(u)).slipped
        BY <4>1, Marks
      <4>3. QED
        BY <3>2, <4>2
    <3>4. QED
      BY <1>1, <3>2, <3>3 DEF OutOf
  <2>3. QED
    BY <2>1, <2>2
<1>4. ASSUME current'[u] # None, <<u, current'[u]>> \in disq
      PROVE  admin.at \in {"look", "remove"} /\ admin.key = <<u, current'[u]>>
  <2>1. current'[u] = current[u]
    <3>1. <<u, current'[u]>>[1] = u
      OBVIOUS
    <3>2. ~Entering(u)
      BY <1>1, <1>4, <3>1 DEF OutOf
    <3>3. QED
      BY <1>4, <3>2, CurrentIs
  <2>2. QED
    BY <1>1, <1>4, <2>1 DEF OutOf
<1>5. QED
  BY <1>1, <1>2, <1>3, <1>4 DEF OutOf

\* Users whom the ban has missed stay so, and joins are made by requests.
LEMMA OutFrame ==
  ASSUME Wf, OutInv, raced.slipped \subseteq raced'.slipped,
         \A u \in Users : Entering(u)' => Entering(u),
         \A u \in Users : current'[u] \in {current[u], None},
         NEW u \in Users \ (Superusers \cup raced'.slipped)
  PROVE  /\ OutOf(u)
         /\ disq' \subseteq disq => (Entering(u)' => \A d \in disq' : d[1] # u)
         /\ current'[u] # None => current'[u] = current[u]
BY DEF OutInv, OutOf

\* The beginning of a request, and an administrator's steps that concern no case.
LEMMA OutOthers ==
  ASSUME Wf, OutInv, raced'.slipped = raced.slipped, UNCHANGED <<disq, banned>>,
         admin' = admin \/ {admin.at, admin'.at} \subseteq {"idle", "lock"},
         \A u \in Users : Entering(u)' => Entering(u),
         \A u \in Users : current'[u] \in {current[u], None}
  PROVE  OutInv'
<1> SUFFICES ASSUME NEW u \in Users \ (Superusers \cup raced'.slipped) PROVE OutOf(u)'
  BY DEF OutInv
<1>1. /\ OutOf(u)
      /\ Entering(u)' => \A d \in disq' : d[1] # u
      /\ current'[u] # None => current'[u] = current[u]
  BY OutFrame
<1>2. Disqualifying(u)' <=> Disqualifying(u)
  BY DEF Disqualifying
<1>3. admin.at \in {"look", "remove"} => admin' = admin
  OBVIOUS
<1>4. (\E d \in disq' : d[1] = u) => u \in banned' \/ Disqualifying(u)'
  BY <1>1, <1>2 DEF OutOf
<1>5. current'[u] # None /\ <<u, current'[u]>> \in disq' =>
        admin'.at \in {"look", "remove"} /\ admin'.key = <<u, current'[u]>>
  BY <1>1, <1>3 DEF OutOf
<1>6. QED
  BY <1>1, <1>4, <1>5 DEF OutOf

\* Disqualifying and reinstating, step by step.
LEMMA OutCase ==
  ASSUME Wf, OutInv, (\E k \in Keys : Disqualify(k) \/ Reinstate(k)) \/ Look \/ RemoveContest \/ Ban \/ Lift
  PROVE  OutInv'
<1> SUFFICES ASSUME NEW u \in Users \ (Superusers \cup raced'.slipped) PROVE OutOf(u)'
  BY DEF OutInv
<1>1. req' = req
  BY DEF Disqualify, Reinstate, Look, RemoveContest, Ban, Lift, Edit
<1>2. \A v : Entering(v)' <=> Entering(v)
  BY <1>1 DEF Entering, Joins, Active
<1>3. ASSUME NEW k \in Keys, Disqualify(k) PROVE OutOf(u)'
  <2>1. k \in Users \X Ids /\ k[1] \in Users /\ k = <<k[1], k[2]>> /\ Entering(k[1]) \in BOOLEAN
    BY KeysType DEF Wf, Entering
  <2>2. /\ raced' = SlipsIf(k[1], Entering(k[1])) /\ admin = Idle /\ disq' = disq \cup {k}
        /\ admin' = [at |-> "look", key |-> k] /\ UNCHANGED <<current, banned>>
    BY <1>3 DEF Disqualify, Does
  <2>3. raced.slipped \subseteq raced'.slipped /\ (Entering(k[1]) => k[1] \in raced'.slipped)
    BY <2>1, <2>2, Marks
  <2>4. OutOf(u) /\ ~Disqualifying(u) /\ admin.at \notin {"look", "remove"}
    BY <2>2, <2>3 DEF OutInv, Disqualifying, Idle
  <2>5. Disqualifying(u)' <=> k[1] = u
    BY <2>2 DEF Disqualifying
  <2>6. u = k[1] => ~Entering(u)
    BY <2>3
  <2>7. QED
    BY <1>2, <2>1, <2>2, <2>4, <2>5, <2>6 DEF OutOf
<1>4. ASSUME NEW k \in Keys, Reinstate(k) PROVE OutOf(u)'
  <2>1. /\ raced' = raced /\ admin = Idle /\ disq' = disq \ {k}
        /\ UNCHANGED <<current, banned>>
    BY <1>4 DEF Reinstate
  <2>2. OutOf(u) /\ ~Disqualifying(u) /\ admin.at \notin {"look", "remove"}
    BY <2>1 DEF OutInv, Disqualifying, Idle
  <2>3. QED
    BY <1>2, <2>1, <2>2 DEF OutOf
<1>5. CASE Look
  <2>1. /\ raced' = raced /\ UNCHANGED <<current, banned, disq>> /\ admin.at = "look"
        /\ admin'.key = admin.key
        /\ admin'.at = IF current[admin.key[1]] = admin.key[2] THEN "remove" ELSE "ban"
    BY <1>5 DEF Look, Does
  <2>2. OutOf(u)
    BY <2>1 DEF OutInv
  <2>3. Disqualifying(u)' <=> Disqualifying(u)
    BY <2>1 DEF Disqualifying
  <2>4. admin.key = <<u, current[u]>> => admin'.at = "remove"
    BY <2>1
  <2>5. QED
    BY <1>2, <2>1, <2>2, <2>3, <2>4 DEF OutOf
<1>6. CASE RemoveContest
  <2>1. /\ raced' = raced /\ UNCHANGED <<banned, disq>> /\ admin.at = "remove"
        /\ admin'.key = admin.key /\ admin'.at = "ban"
        /\ current' = [current EXCEPT ![admin.key[1]] = None]
    BY <1>6 DEF RemoveContest, Does
  <2>2. OutOf(u)
    BY <2>1 DEF OutInv
  <2>3. Disqualifying(u)' <=> Disqualifying(u)
    BY <2>1 DEF Disqualifying
  <2>4. current'[u] = IF u = admin.key[1] THEN None ELSE current[u]
    BY <2>1 DEF Wf, TypeOK
  <2>5. current'[u] # None => <<u, current'[u]>> \notin disq
    BY <2>2, <2>4 DEF OutOf
  <2>6. QED
    BY <1>2, <2>1, <2>2, <2>3, <2>5 DEF OutOf
<1>7. CASE Ban
  <2>1. /\ raced' = raced /\ UNCHANGED <<current, disq>> /\ admin.at = "ban"
        /\ banned' = banned \cup {admin.key[1]}
    BY <1>7 DEF Ban
  <2>2. OutOf(u)
    BY <2>1 DEF OutInv
  <2>3. (\E d \in disq : d[1] = u) => u \in banned'
    BY <2>1, <2>2 DEF OutOf, Disqualifying
  <2>4. QED
    BY <1>2, <2>1, <2>2, <2>3 DEF OutOf
<1>8. CASE Lift
  <2> DEFINE left == \E d \in disq : d[1] = admin.key[1]
  <2>1. /\ raced' = SlipsIf(admin.key[1], left) /\ UNCHANGED <<current, disq>> /\ admin.at = "lift"
        /\ banned' = banned \ {admin.key[1]}
    BY <1>8 DEF Lift
  <2>2. admin.key[1] \in Users
    BY <2>1, AdminIs
  <2>3. raced.slipped \subseteq raced'.slipped /\ (left => admin.key[1] \in raced'.slipped)
    <3>1. left \in BOOLEAN
      OBVIOUS
    <3> HIDE DEF left
    <3>2. QED
      BY <2>1, <2>2, <3>1, Marks
  <2>4. OutOf(u) /\ ~Disqualifying(u)
    BY <2>1, <2>3 DEF OutInv, Disqualifying
  <2>5. (\E d \in disq : d[1] = u) => u \in banned'
    BY <2>1, <2>3, <2>4 DEF OutOf
  <2>6. QED
    BY <1>2, <2>1, <2>4, <2>5 DEF OutOf
<1>9. QED
  BY <1>3, <1>4, <1>5, <1>6, <1>7, <1>8

\* Every step keeps that invariant.
LEMMA OutStep == Wf /\ OutInv /\ [Next]_joinVars => OutInv'
<1> SUFFICES ASSUME Wf, OutInv, [Next]_joinVars PROVE OutInv'
  OBVIOUS
<1>1. ASSUME NEW t \in Threads, RequestStep(t) PROVE OutInv'
  BY <1>1, OutRequestStep
<1>2. ASSUME NEW t \in Threads, NEW u \in Users, NEW kind \in Kinds, Begin(t, u, kind)
      PROVE  OutInv'
  <2>1. UNCHANGED <<disq, banned, admin>>
    BY <1>2 DEF Begin
  <2>2. raced'.slipped = raced.slipped
    <3>1. raced' \in {raced, BeginsJoin}
      BY <1>2 DEF Begin
    <3>2. BeginsJoin.slipped = raced.slipped
      BY DEF BeginsJoin, Overlapped, History, Wf, TypeOK
    <3>3. QED
      BY <3>1, <3>2
  <2>3. /\ req'[t].at = kind /\ req'[t].kind = kind
        /\ \A s \in Active' : s = t \/ (s \in Active /\ req'[s] = req[s])
    BY <1>2, BeginIs DEF Active
  <2>4. \A v \in Users : Entering(v)' => Entering(v)
    BY <2>3 DEF Entering, Joins
  <2>5. \A v \in Users : current'[v] \in {current[v], None}
    BY <1>2, BeginIs
  <2>6. QED
    BY <2>1, <2>2, <2>4, <2>5, OutOthers
<1>3. ASSUME \/ \E on \in BOOLEAN : LoadContest(on)
             \/ SetLockedAfter
             \/ \E i \in DOMAIN subs : Grade(i) \/ Rejudge(i)
             \/ SetVisible \/ Tick \/ UNCHANGED joinVars
      PROVE  OutInv'
  <2>1. UNCHANGED <<disq, banned, current, req>>
    BY <1>3 DEF LoadContest, SetLockedAfter, SaveLocked, Grade, Rejudge, SetVisible, Edit, Tick,
       joinVars, dataVars
  <2>2. admin' = admin \/ {admin.at, admin'.at} \subseteq {"idle", "lock"}
    <3>1. \/ admin' = admin
          \/ admin = [at |-> "idle"] /\ \E on \in BOOLEAN :
                 admin' = [at |-> "lock", on |-> on, row |-> contest]
          \/ admin.at = "lock" /\ admin' = [at |-> "idle"]
      BY <1>3 DEF LoadContest, SetLockedAfter, SaveLocked, Grade, Rejudge, SetVisible, Edit, Tick,
         joinVars, dataVars, Idle
    <3>2. QED
      BY <3>1
  <2>3. raced'.slipped = raced.slipped
    <3>1. raced' \in {raced, Overlapped, [raced EXCEPT !.strayed = Holding # {}]}
      BY <1>3 DEF LoadContest, SetLockedAfter, SaveLocked, Grade, Rejudge, SetVisible, Edit, Tick,
         joinVars, dataVars
    <3>2. QED
      BY <3>1 DEF Overlapped, History, Wf, TypeOK
  <2>4. \A v \in Users : Entering(v)' => Entering(v)
    BY <2>1 DEF Entering, Joins, Active
  <2>5. QED
    BY <2>1, <2>2, <2>3, <2>4, OutOthers
<1>4. QED
  BY <1>1, <1>2, <1>3, OutCase DEF Next, AdminStep, Kinds

\* The user leaves the participation that is disqualified, and the ban keeps the
\* user from coming back, whatever requests are on their way.
THEOREM DisqualifiedStaysOut == Spec => []DisqualifiedIsOut
<1>1. Init => OutInv
  BY DEF Init, OutInv, OutOf, Entering, Joins, Active, Idle
<1>2. OutInv => DisqualifiedIsOut
  BY DEF OutInv, OutOf, DisqualifiedIsOut
<1>3. QED
  BY <1>1, <1>2, OutStep, WellFormed, PTL DEF Spec

-----------------------------------------------------------------------------
(* Windows.                                                                *)

\* A request that goes by a live participation saw the contest open when it entered.
TimeInv ==
  \A t \in Active :
    req[t].at \in {"get", "create"} /\ req[t].pid = LIVE =>
      req[t].timely /\ req[t].user \in Joinable \ Staff

\* A request goes by the clock it looked at when it entered.
LEMMA TimeRequestStep ==
  ASSUME Wf, TimeInv, NEW t \in Threads, RequestStep(t)
  PROVE  TimeInv'
<1>1. /\ StaysOK(t) /\ t \in Active
      /\ req[t] \in Request /\ RequestOK(req[t])
  BY RequestStepIs DEF StaysOK
<1>2. ASSUME t \in Active'
      PROVE  req'[t].at \in {"get", "create"} /\ req'[t].pid = LIVE =>
               req'[t].timely /\ req'[t].user \in Joinable \ Staff
  <2>1. req'[t] # Idle /\ Same(req[t], req'[t])
    BY <1>1, <1>2, OthersStay
  <2>2. CASE Enter(t)
    BY <2>1, <2>2, EnterIs
  <2>3. CASE Choosing(t)
    BY <1>1, <2>1, <2>3, ChoosingIs DEF TimeInv, Same
  <2>4. CASE SaveProfile(t) \/ Count(t)
    BY <2>1, <2>4, SaveProfileIs, Counts
  <2>5. CASE CheckLimits(t)
    BY <1>1, <2>1, <2>5, CheckLimitsIs DEF TimeInv, Same
  <2>6. QED
    BY <2>1, <2>2, <2>3, <2>4, <2>5, RequestStepIs, LastStepIs
<1>3. QED
  BY <1>1, <1>2, OthersStay DEF TimeInv

\* Every step keeps the windows' invariant.
LEMMA TimeStep == Wf /\ TimeInv /\ [Next]_joinVars => TimeInv'
<1> SUFFICES ASSUME Wf, TimeInv, [Next]_joinVars PROVE TimeInv'
  OBVIOUS
<1>1. ASSUME NEW t \in Threads, RequestStep(t) PROVE TimeInv'
  BY <1>1, TimeRequestStep
<1>2. ASSUME NEW t \in Threads, NEW u \in Users, NEW kind \in Kinds, Begin(t, u, kind)
      PROVE  TimeInv'
  <2>1. \A s \in Active' : s = t \/ (s \in Active /\ req'[s] = req[s])
    BY <1>2, BeginIs DEF Active
  <2>2. req'[t].at \notin {"get", "create"}
    BY <1>2, BeginIs DEF Kinds
  <2>3. QED
    BY <2>1, <2>2 DEF TimeInv
<1>3. CASE UNCHANGED req
  BY <1>3 DEF TimeInv, Active
<1>4. QED
  BY <1>1, <1>2, <1>3 DEF Next, Kinds, Grade, Rejudge, SetVisible, LoadContest, Disqualify, Reinstate,
     Edit, AdminStep, SetLockedAfter, SaveLocked, Look, RemoveContest, Ban, Lift, Tick, joinVars

\* It holds in every state.
LEMMA TimeIsKept == Spec => []TimeInv
<1>1. Init => TimeInv
  BY DEF Init, TimeInv, Active, Idle
<1>2. QED
  BY <1>1, TimeStep, WellFormed, PTL DEF Spec

\* Live participations only come from requests that saw the contest open and were
\* made by users who may take part.
THEOREM LiveNeedsOpen == Spec => LiveOnlyWhileOpen
<1> DEFINE A == \A k \in LiveRows' \ LiveRows :
                  \E t \in Active : /\ req[t].user = k[1]
                                    /\ req[t].timely
                                    /\ k[1] \in Joinable \ Staff
<1>1. Wf /\ TimeInv /\ [Next]_joinVars => [A]_joinVars
  <2> SUFFICES ASSUME Wf, TimeInv, Next PROVE A
    OBVIOUS
  <2>1. ASSUME NEW t \in Threads, Choosing(t) PROVE A
    BY <2>1, ChoosingIs DEF TimeInv, StaysOK
  <2>2. CASE UNCHANGED parts
    BY <2>2 DEF LiveRows, Keys
  <2>3. ASSUME NEW t \in Threads, RequestStep(t), ~Choosing(t) PROVE UNCHANGED parts
    BY <2>3, RequestStepIs DEF Enter, SaveProfile, Count, SaveContest, CheckLimits, Store,
       Local, dataVars
  <2>4. QED
    BY <2>1, <2>2, <2>3 DEF Next, Begin, Grade, Rejudge, SetVisible, LoadContest, Disqualify,
       Reinstate, Edit, AdminStep, SetLockedAfter, SaveLocked, Look, RemoveContest, Ban, Lift, Tick,
       dataVars
<1>2. QED
  BY <1>1, WellFormed, TimeIsKept, PTL DEF Spec, LiveOnlyWhileOpen

-----------------------------------------------------------------------------
(* Limits.                                                                 *)

\* Two finite sets of a bounded number of members: what is stored, and the requests
\* that have passed the test but not stored.  Members may leave both, ...
LEMMA BoundShrinks ==
  ASSUME NEW A, NEW B, NEW C, NEW D, IsFiniteSet(A), IsFiniteSet(B), C \subseteq A, D \subseteq B,
         NEW n \in Nat, Cardinality(A) + Cardinality(B) < n
  PROVE  Cardinality(C) + Cardinality(D) < n
<1>1. Cardinality(C) <= Cardinality(A) /\ Cardinality(D) <= Cardinality(B)
  BY FS_Subset
<1>2. IsFiniteSet(C) /\ IsFiniteSet(D)
  BY FS_Subset
<1>3. QED
  BY <1>1, <1>2, FS_CardinalityType

\* ... a request may store what it has tested, ...
LEMMA BoundMoves ==
  ASSUME NEW A, NEW B, NEW D, NEW x, NEW t \in B, IsFiniteSet(A), IsFiniteSet(B),
         D = B \ {t}, NEW n \in Nat, Cardinality(A) + Cardinality(B) < n
  PROVE  Cardinality(A \cup {x}) + Cardinality(D) < n
<1>1. Cardinality(A \cup {x}) <= Cardinality(A) + 1
  <2>1. Cardinality(A) \in Nat
    BY FS_CardinalityType
  <2>2. Cardinality(A \cup {x}) = IF x \in A THEN Cardinality(A) ELSE Cardinality(A) + 1
    BY FS_AddElement
  <2>3. QED
    BY <2>1, <2>2
<1>2. Cardinality(D) = Cardinality(B) - 1
  BY FS_RemoveElement
<1>3. IsFiniteSet(A \cup {x})
  BY FS_AddElement
<1>4. QED
  BY <1>1, <1>2, <1>3, FS_CardinalityType

\* ... and a request may pass the test when what is stored is below the limit.
LEMMA BoundTests ==
  ASSUME NEW A, NEW D, IsFiniteSet(A), NEW limit \in Nat, Cardinality(A) < limit,
         D \subseteq Threads
  PROVE  Cardinality(A) + Cardinality(D) < limit + Cardinality(Threads)
<1>1. Cardinality(D) <= Cardinality(Threads) /\ IsFiniteSet(D)
  BY FS_Subset, LimitsAssumption
<1>2. QED
  BY <1>1, FS_CardinalityType, LimitsAssumption

\* Requests of a user that have passed the test and not stored, and those of
\* one participation.
Storing(u) == {t \in Active : req[t].at = "store" /\ req[t].user = u}
StoringIn(u, id) == {t \in Storing(u) : req[t].prof = id}

\* The counted submissions that no rejudge has brought back.
Fresh(u, id) == {i \in Counted(u, id) : ~subs[i].revived}

\* What is stored and what will be stored keep within the limit and one more per
\* thread.
LimitInv ==
  /\ \A u \in Users \ Spammers :
       Cardinality(InProgress(u)) + Cardinality(Storing(u))
         < SubmissionLimit + Cardinality(Threads)
  /\ \A u \in Users, id \in Ids :
       Cardinality(Fresh(u, id)) + Cardinality(StoringIn(u, id))
         < MaxSubmissions + Cardinality(Threads)

\* All sets of the limits are finite.
LEMMA LimitTypes ==
  ASSUME Wf
  PROVE  /\ \A u : IsFiniteSet(InProgress(u)) /\ IsFiniteSet(Storing(u)) /\ Storing(u) \subseteq Threads
         /\ \A u, id : /\ IsFiniteSet(Counted(u, id)) /\ IsFiniteSet(Fresh(u, id))
                        /\ IsFiniteSet(StoringIn(u, id))
         /\ SubmissionLimit + Cardinality(Threads) \in Nat
         /\ MaxSubmissions + Cardinality(Threads) \in Nat
<1>1. IsFiniteSet(DOMAIN subs)
  <2>1. DOMAIN subs = 1..Len(subs) /\ Len(subs) \in Nat
    BY DEF Wf, TypeOK
  <2>2. QED
    BY <2>1, FS_Interval
<1>2. \A u, id : /\ InProgress(u) \subseteq DOMAIN subs /\ Counted(u, id) \subseteq DOMAIN subs
                 /\ Fresh(u, id) \subseteq DOMAIN subs
  BY DEF InProgress, Counted, Fresh
<1>3. \A u, id : Storing(u) \subseteq Threads /\ StoringIn(u, id) \subseteq Threads
  BY DEF Storing, StoringIn, Active
<1>4. /\ \A u : IsFiniteSet(InProgress(u)) /\ IsFiniteSet(Storing(u))
      /\ \A u, id : /\ IsFiniteSet(Counted(u, id)) /\ IsFiniteSet(Fresh(u, id))
                     /\ IsFiniteSet(StoringIn(u, id))
  BY <1>1, <1>2, <1>3, FS_Subset, LimitsAssumption
<1>5. Cardinality(Threads) \in Nat
  BY FS_CardinalityType, LimitsAssumption
<1>6. QED
  BY <1>3, <1>4, <1>5, LimitsAssumption

\* A step that stores nothing and passes no test adds to neither set.
LEMMA LimitShrinks ==
  ASSUME Wf, LimitInv,
         \A u \in Users : InProgress(u)' \subseteq InProgress(u) /\ Storing(u)' \subseteq Storing(u),
         \A u \in Users, id \in Ids :
           Fresh(u, id)' \subseteq Fresh(u, id) /\ StoringIn(u, id)' \subseteq StoringIn(u, id)
  PROVE  LimitInv'
<1>1. ASSUME NEW u \in Users \ Spammers
      PROVE  Cardinality(InProgress(u)') + Cardinality(Storing(u)')
               < SubmissionLimit + Cardinality(Threads)
  BY BoundShrinks, LimitTypes DEF LimitInv
<1>2. ASSUME NEW u \in Users, NEW id \in Ids
      PROVE  Cardinality(Fresh(u, id)') + Cardinality(StoringIn(u, id)')
               < MaxSubmissions + Cardinality(Threads)
  BY BoundShrinks, LimitTypes DEF LimitInv
<1>3. QED
  BY <1>1, <1>2 DEF LimitInv

\* The test counts what is stored and lets one request more through.
LEMMA LimitCheck ==
  ASSUME Wf, Wf', LimitInv, NEW t \in Threads, CheckLimits(t)
  PROVE  LimitInv'
<1>1. /\ StaysOK(t) /\ subs' = subs /\ t \in Active /\ req[t] \in Request
      /\ \/ req'[t] = Idle
         \/ req'[t] \in Request /\ req'[t].at = "store" /\ WithinLimits(req[t].user, req[t].prof)
  BY CheckLimitsIs, ActWf DEF CheckLimits, Local, dataVars
<1>2. \A u, id : InProgress(u)' = InProgress(u) /\ Fresh(u, id)' = Fresh(u, id)
  BY <1>1 DEF InProgress, Counted, Fresh
<1>3. \A u : /\ Storing(u)' \subseteq Threads
             /\ \A s \in Storing(u)' : s \in Storing(u) \/ (s = t /\ t \in Active')
  BY <1>1, OthersStay DEF Storing, Active
<1>4. \A u, id : /\ StoringIn(u, id)' \subseteq Storing(u)'
                 /\ \A s \in StoringIn(u, id)' : s \in StoringIn(u, id) \/ (s = t /\ t \in Active')
  BY <1>1, <1>3, OthersStay DEF Storing, StoringIn, Active
<1>5. t \in Active' => /\ WithinLimits(req[t].user, req[t].prof) /\ Same(req[t], req'[t])
                       /\ req[t].user \in Users
  BY <1>1, OthersStay DEF Request
<1>6. ASSUME NEW u \in Users \ Spammers
      PROVE  Cardinality(InProgress(u)') + Cardinality(Storing(u)')
               < SubmissionLimit + Cardinality(Threads)
  <2>1. CASE t \in Active' /\ u = req[t].user
    <3>1. Cardinality(InProgress(u)) < SubmissionLimit
      BY <1>5, <2>1 DEF WithinLimits
    <3>2. QED
      BY <1>2, <1>3, <3>1, BoundTests, LimitTypes, LimitsAssumption
  <2>2. CASE ~(t \in Active' /\ u = req[t].user)
    <3>1. Storing(u)' \subseteq Storing(u)
      BY <1>3, <1>5, <2>2 DEF Storing, Same
    <3>2. QED
      BY <1>2, <3>1, BoundShrinks, LimitTypes DEF LimitInv
  <2>3. QED
    BY <2>1, <2>2
<1>7. ASSUME NEW u \in Users, NEW id \in Ids
      PROVE  Cardinality(Fresh(u, id)') + Cardinality(StoringIn(u, id)')
               < MaxSubmissions + Cardinality(Threads)
  <2>1. CASE t \in Active' /\ u = req[t].user /\ id = req[t].prof
    <3>1. Cardinality(Fresh(u, id)) < MaxSubmissions
      <4>1. Cardinality(Counted(u, id)) < MaxSubmissions
        BY <1>5, <2>1, IdsAre DEF WithinLimits
      <4>2. Cardinality(Fresh(u, id)) <= Cardinality(Counted(u, id))
        BY LimitTypes, FS_Subset DEF Fresh
      <4>3. QED
        BY <4>1, <4>2, LimitTypes, FS_CardinalityType, LimitsAssumption
    <3>2. StoringIn(u, id)' \subseteq Threads
      BY <1>3, <1>4
    <3>3. QED
      BY <1>2, <3>1, <3>2, BoundTests, LimitTypes, LimitsAssumption
  <2>2. CASE ~(t \in Active' /\ u = req[t].user /\ id = req[t].prof)
    <3>1. StoringIn(u, id)' \subseteq StoringIn(u, id)
      BY <1>4, <1>5, <2>2 DEF Storing, StoringIn, Same
    <3>2. QED
      BY <1>2, <3>1, BoundShrinks, LimitTypes DEF LimitInv
  <2>3. QED
    BY <2>1, <2>2
<1>8. QED
  BY <1>6, <1>7 DEF LimitInv

\* Storing moves one request from the tested to the stored.
LEMMA LimitStore ==
  ASSUME Wf, Wf', LimitInv, NEW t \in Threads, Store(t)
  PROVE  LimitInv'
<1> DEFINE sub == [user |-> req[t].user, virtual |-> req[t].prof, status |-> "QU",
                   locked |-> IF req[t].prof = LIVE THEN req[t].row.locked ELSE FALSE,
                   rejudged |-> FALSE, revived |-> FALSE]
           n == Len(subs) + 1
<1>1. /\ StaysOK(t) /\ t \in Active /\ req[t] \in Request /\ req[t].at = "store"
      /\ req'[t] = Idle
  BY LastStepIs, ActWf DEF Store
<1>2. subs' = Append(subs, sub) /\ subs \in Seq(Submission)
  BY DEF Store, Wf, TypeOK
<1>3. sub.user = req[t].user /\ sub.virtual = req[t].prof
  OBVIOUS
<1> HIDE DEF sub
<1>4. /\ DOMAIN subs' = DOMAIN subs \cup {n} /\ subs'[n] = sub
      /\ \A i \in DOMAIN subs : subs'[i] = subs[i]
  BY <1>2
<1>5. \A u : InProgress(u)' \subseteq IF u = req[t].user THEN InProgress(u) \cup {n} ELSE InProgress(u)
  BY <1>3, <1>4 DEF InProgress
<1>6. \A u, id : Fresh(u, id)' \subseteq IF u = req[t].user /\ id = req[t].prof
                                        THEN Fresh(u, id) \cup {n} ELSE Fresh(u, id)
  BY <1>3, <1>4 DEF Counted, Fresh
<1>7. \A u, id : Storing(u)' = Storing(u) \ {t} /\ StoringIn(u, id)' = StoringIn(u, id) \ {t}
  <2>1. Active' = Active \ {t} /\ \A s \in Active' : req'[s] = req[s]
    BY <1>1, OthersStay DEF Active, StaysOK, Becomes
  <2>2. QED
    BY <2>1 DEF Storing, StoringIn
<1>8. ASSUME NEW u \in Users \ Spammers
      PROVE  Cardinality(InProgress(u)') + Cardinality(Storing(u)')
               < SubmissionLimit + Cardinality(Threads)
  <2>1. CASE u = req[t].user
    <3>1. t \in Storing(u)
      BY <1>1, <2>1 DEF Storing
    <3>2. Cardinality(InProgress(u) \cup {n}) + Cardinality(Storing(u)')
            < SubmissionLimit + Cardinality(Threads)
      BY <1>7, <3>1, BoundMoves, LimitTypes DEF LimitInv
    <3>3. IsFiniteSet(InProgress(u) \cup {n}) /\ IsFiniteSet(Storing(u)')
      BY <1>7, LimitTypes, FS_AddElement, FS_RemoveElement
    <3>4. QED
      BY <1>5, <2>1, <3>2, <3>3, BoundShrinks, LimitTypes
  <2>2. CASE u # req[t].user
    BY <1>5, <1>7, <2>2, BoundShrinks, LimitTypes DEF LimitInv
  <2>3. QED
    BY <2>1, <2>2
<1>9. ASSUME NEW u \in Users, NEW id \in Ids
      PROVE  Cardinality(Fresh(u, id)') + Cardinality(StoringIn(u, id)')
               < MaxSubmissions + Cardinality(Threads)
  <2>1. CASE u = req[t].user /\ id = req[t].prof
    <3>1. t \in StoringIn(u, id)
      BY <1>1, <2>1 DEF Storing, StoringIn
    <3>2. Cardinality(Fresh(u, id) \cup {n}) + Cardinality(StoringIn(u, id)')
            < MaxSubmissions + Cardinality(Threads)
      <4>1. /\ IsFiniteSet(Fresh(u, id)) /\ IsFiniteSet(StoringIn(u, id))
            /\ MaxSubmissions + Cardinality(Threads) \in Nat
        BY LimitTypes
      <4>2. Cardinality(Fresh(u, id)) + Cardinality(StoringIn(u, id))
              < MaxSubmissions + Cardinality(Threads)
        BY DEF LimitInv
      <4>3. StoringIn(u, id)' = StoringIn(u, id) \ {t}
        BY <1>7
      <4>4. QED
        BY <3>1, <4>1, <4>2, <4>3, BoundMoves
    <3>3. IsFiniteSet(Fresh(u, id) \cup {n}) /\ IsFiniteSet(StoringIn(u, id)')
      BY <1>7, LimitTypes, FS_AddElement, FS_RemoveElement
    <3>4. QED
      BY <1>6, <2>1, <3>2, <3>3, BoundShrinks, LimitTypes
  <2>2. CASE ~(u = req[t].user /\ id = req[t].prof)
    BY <1>6, <1>7, <2>2, BoundShrinks, LimitTypes DEF LimitInv
  <2>3. QED
    BY <2>1, <2>2
<1>10. QED
  BY <1>8, <1>9 DEF LimitInv

\* Every step keeps within the limits.
LEMMA LimitStep == Wf /\ Wf' /\ LimitInv /\ [Next]_joinVars => LimitInv'
<1> SUFFICES ASSUME Wf, Wf', LimitInv, [Next]_joinVars PROVE LimitInv'
  OBVIOUS
<1>1. ASSUME \A u, id : InProgress(u)' \subseteq InProgress(u) /\ Fresh(u, id)' \subseteq Fresh(u, id),
             NEW t \in Threads, \A s \in Active' \ {t} : s \in Active /\ req'[s] = req[s],
             t \in Active' => req'[t].at # "store"
      PROVE  LimitInv'
  <2>1. \A u, id : Storing(u)' \subseteq Storing(u) /\ StoringIn(u, id)' \subseteq StoringIn(u, id)
    BY <1>1 DEF Storing, StoringIn
  <2>2. QED
    BY <1>1, <2>1, LimitShrinks
<1>2. ASSUME NEW t \in Threads, RequestStep(t), ~CheckLimits(t), ~Store(t) PROVE LimitInv'
  <2>1. subs' = subs
    BY <1>2, RequestStepIs, ChoosingIs
       DEF Enter, SaveProfile, Count, SaveContest, Local, dataVars
  <2>2. /\ \A s \in Active' \ {t} : s \in Active /\ req'[s] = req[s]
        /\ t \in Active' => req'[t] # Idle
    BY <1>2, RequestStepIs, OthersStay
  <2>3. t \in Active' => req'[t].at # "store"
    BY <1>2, <2>2, RequestStepIs, EnterIs, ChoosingIs, SaveProfileIs, Counts, LastStepIs
  <2>4. QED
    BY <1>1, <2>1, <2>2, <2>3 DEF InProgress, Counted, Fresh
<1>3. ASSUME NEW t \in Threads, NEW u \in Users, NEW kind \in Kinds, Begin(t, u, kind)
      PROVE  LimitInv'
  <2>1. subs' = subs
    BY <1>3 DEF Begin
  <2>2. /\ \A s \in Active' \ {t} : s \in Active /\ req'[s] = req[s]
        /\ req'[t].at # "store"
    BY <1>3, BeginIs DEF Kinds, Active
  <2>3. QED
    BY <1>1, <2>1, <2>2 DEF InProgress, Counted, Fresh
<1>4. ASSUME req' = req,
             \A u, id : InProgress(u)' \subseteq InProgress(u) /\ Fresh(u, id)' \subseteq Fresh(u, id)
      PROVE  LimitInv'
  <2>1. \A u, id : Storing(u)' \subseteq Storing(u) /\ StoringIn(u, id)' \subseteq StoringIn(u, id)
    BY <1>4 DEF Storing, StoringIn, Active
  <2>2. QED
    BY <1>4, <2>1, LimitShrinks
<1>5. ASSUME NEW i \in DOMAIN subs, Grade(i) PROVE LimitInv'
  <2>1. subs \in Seq(Submission) /\ subs[i] \in Submission
    BY DEF Wf, TypeOK
  <2>2. PICK s \in {"D", "IE"} : subs' = [subs EXCEPT ![i] = [subs[i] EXCEPT !.status = s]]
    BY <1>5 DEF Grade
  <2>3. /\ DOMAIN subs' = DOMAIN subs /\ subs[i].status = "QU" /\ subs'[i].status \in {"D", "IE"}
        /\ subs'[i].revived = subs[i].revived
        /\ \A j \in DOMAIN subs : /\ subs'[j].user = subs[j].user /\ subs'[j].virtual = subs[j].virtual
                                  /\ j # i => subs'[j] = subs[j]
    BY <1>5, <2>1, <2>2 DEF Submission, Grade
  <2>4. \A u, id : InProgress(u)' \subseteq InProgress(u) /\ Fresh(u, id)' \subseteq Fresh(u, id)
    BY <2>3 DEF InProgress, Counted, Fresh
  <2>5. QED
    BY <1>4, <1>5, <2>4 DEF Grade
<1>6. CASE SetLockedAfter
  <2>1. subs \in Seq(Submission) /\ admin.on \in BOOLEAN
    BY <1>6, AdminIs DEF SetLockedAfter, Wf, TypeOK
  <2>2. /\ DOMAIN subs' = DOMAIN subs
        /\ \A j \in DOMAIN subs :
             subs'[j] = IF subs[j].virtual = LIVE THEN [subs[j] EXCEPT !.locked = admin.on] ELSE subs[j]
    BY <1>6 DEF SetLockedAfter
  <2>3. \A j \in DOMAIN subs : subs[j] \in Submission
    BY <2>1
  <2>4. \A j \in DOMAIN subs : /\ subs'[j].user = subs[j].user /\ subs'[j].virtual = subs[j].virtual
                               /\ subs'[j].status = subs[j].status
                               /\ subs'[j].rejudged = subs[j].rejudged
                               /\ subs'[j].revived = subs[j].revived
    BY <2>2, <2>3 DEF Submission
  <2>5. \A u, id : InProgress(u)' = InProgress(u) /\ Fresh(u, id)' = Fresh(u, id)
    BY <2>2, <2>4 DEF InProgress, Counted, Fresh
  <2>6. QED
    BY <1>4, <1>6, <2>5 DEF SetLockedAfter, SaveLocked
<1>7. ASSUME \/ SetVisible \/ \E on \in BOOLEAN : LoadContest(on)
             \/ \E k \in Keys : Disqualify(k) \/ Reinstate(k)
             \/ Look \/ RemoveContest \/ Ban \/ Lift \/ Tick \/ UNCHANGED joinVars
      PROVE  LimitInv'
  <2>1. UNCHANGED <<subs, req>>
    BY <1>7 DEF SetVisible, LoadContest, Disqualify, Reinstate, Edit, Look, RemoveContest, Ban, Lift,
       Tick, joinVars, dataVars
  <2>2. QED
    BY <1>4, <2>1 DEF InProgress, Counted, Fresh
<1>8. ASSUME NEW i \in DOMAIN subs, Rejudge(i) PROVE LimitInv'
  <2>1. subs \in Seq(Submission) /\ subs[i] \in Submission
    BY DEF Wf, TypeOK
  <2>2. subs' = [subs EXCEPT ![i].status = "QU", ![i].rejudged = TRUE,
                             ![i].revived = @ \/ subs[i].status = "IE"]
    BY <1>8 DEF Rejudge
  <2>3. /\ DOMAIN subs' = DOMAIN subs /\ subs'[i].rejudged
        /\ subs[i].status = "IE" \/ subs[i].revived => subs'[i].revived
        /\ \A j \in DOMAIN subs : /\ subs'[j].user = subs[j].user /\ subs'[j].virtual = subs[j].virtual
                                  /\ j # i => subs'[j] = subs[j]
    BY <2>1, <2>2 DEF Submission
  <2>4. \A u : InProgress(u)' \subseteq InProgress(u)
    BY <2>3 DEF InProgress
  <2>5. \A u, id : Fresh(u, id)' \subseteq Fresh(u, id)
    BY <2>3 DEF Counted, Fresh
  <2>6. QED
    BY <1>4, <1>8, <2>4, <2>5 DEF Rejudge, Edit
<1>9. QED
  BY <1>2, <1>3, <1>5, <1>6, <1>7, <1>8, LimitCheck, LimitStore DEF Next, AdminStep, Kinds

\* However many requests of a user overlap, each of them passes a limit by one
\* submission at most; what a rejudge brings back comes on top.
THEOREM LimitsAreKept == Spec => []LimitsKept
<1>1. Init => LimitInv
  <2> SUFFICES ASSUME Init PROVE LimitInv
    OBVIOUS
  <2>1. \A u, id : InProgress(u) = {} /\ Fresh(u, id) = {} /\ Storing(u) = {} /\ StoringIn(u, id) = {}
    BY DEF Init, InProgress, Counted, Fresh, Storing, StoringIn, Active, Idle
  <2>2. Cardinality(Threads) \in Nat
    BY LimitsAssumption, FS_CardinalityType
  <2>3. /\ 0 + 0 < SubmissionLimit + Cardinality(Threads)
        /\ 0 + 0 < MaxSubmissions + Cardinality(Threads)
    BY <2>2, LimitsAssumption
  <2>4. QED
    BY <2>1, <2>3, FS_EmptySet DEF LimitInv
<1>2. Wf /\ LimitInv => LimitsKept
  <2> SUFFICES ASSUME Wf, LimitInv, NEW u \in Users
               PROVE  /\ u \notin Spammers =>
                           Cardinality(InProgress(u)) < SubmissionLimit + Cardinality(Threads)
                      /\ \A k \in Keys : k[1] = u =>
                           Cardinality(Fresh(u, k[2])) < MaxSubmissions + Cardinality(Threads)
    BY DEF LimitsKept, Fresh
  <2>1. \A A, B, n : IsFiniteSet(A) /\ IsFiniteSet(B) /\ n \in Nat
                     /\ Cardinality(A) + Cardinality(B) < n => Cardinality(A) < n
    BY FS_CardinalityType
  <2>2. \A k \in Keys : k[2] \in Ids
    BY KeysType DEF Wf
  <2>3. QED
    BY <2>1, <2>2, LimitTypes DEF LimitInv
<1>3. QED
  BY <1>1, <1>2, LimitStep, WellFormed, PTL DEF Spec
=============================================================================
