----------------------------- MODULE ContestJoin -----------------------------
(***************************************************************************)
(* Entering, using and leaving one contest.  Every request of a user runs  *)
(* in a thread of its own: the middleware loads the profile, the view      *)
(* loads the contest, and later statements act on these copies and save    *)
(* whole rows (src/judge/views/contests.py, models/contest.py,             *)
(* models/profile.py, middleware.py).  Administrators edit, lock and       *)
(* disqualify meanwhile, time goes on, and submissions are made for the    *)
(* participation that the request believes in (src/judge/views/problem.py).*)
(***************************************************************************)
EXTENDS FiniteSets, Integers, Sequences

CONSTANTS
  Users,           \* profiles
  Superusers,      \* those with is_superuser
  Staff,           \* the editors and testers of the contest
  CanEdit,         \* those who may edit it: editors with edit_own_contest, edit_all_contest
  Seers,           \* those whom access_check lets in although it is not visible
  Spammers,        \* those with spam_submission
  Joinable,        \* users in an organization that may join
  Threads,         \* web threads
  Open, Close,     \* the contest's start_time and end_time
  TimeLimit,       \* its time_limit, 0 for none
  CodeRequired,    \* whether it has an access code
  SubmissionLimit, \* DMOJ_SUBMISSION_LIMIT
  MaxSubmissions,  \* the contest problem's max_submissions
  None,            \* no participation, no user
  MaxTime, MaxRequests, MaxEdits  \* bounds, for TLC

ASSUME ContestAssumption ==
  /\ Staff \subseteq Users /\ Joinable \subseteq Users
  /\ Seers \subseteq Users /\ Staff \cup CanEdit \subseteq Seers
  /\ Superusers \subseteq CanEdit \cap Spammers /\ Spammers \subseteq Users
  /\ Open \in Nat /\ Close \in Nat /\ Open < Close
  /\ TimeLimit \in Nat /\ CodeRequired \in BOOLEAN

\* DMOJ_SUBMISSION_LIMIT is 2 as shipped, and max_submissions is validated to be
\* at least 1.  There are finitely many threads, and None is no user and no id.
ASSUME LimitsAssumption ==
  /\ SubmissionLimit \in Nat \ {0} /\ MaxSubmissions \in Nat \ {0}
  /\ IsFiniteSet(Threads)
  /\ None \notin Users /\ None \notin Int

VARIABLES
  now,      \* the clock
  parts,    \* ContestParticipation: records user, virtual, start
  current,  \* Profile.current_contest, the virtual id, per user
  contest,  \* the row of the contest: is_visible, locked_after, user_count
  disq,     \* <<user, virtual>> of the disqualified participations
  banned,   \* banned_users
  subs,     \* submissions to the contest's problem: user, virtual, status, locked,
            \* rejudged (rejudged_date), revived (history: was rejudged when an IE)
  req,      \* what each thread works on
  admin,    \* what the administrator works on
  requests, edits,  \* counters, for the bounds
  raced     \* history: the races that the properties make an exception of

dataVars == <<parts, current, contest, disq, banned, subs, admin>>
joinVars == <<now, dataVars, req, requests, edits, raced>>

LIVE == 0
SPECTATE == -1
Idle == [at |-> "idle"]

Active == {t \in Threads : req[t].at # "idle"}
Joins == {t \in Active : req[t].kind = "join"}

\* Requests that have loaded the contest's row.
Loaded(r) == \/ r.kind = "join" /\ r.at # "join"
             \/ r.kind = "submit" /\ r.prof # None
Holding == {t \in Active : Loaded(req[t])}
Key(p) == <<p.user, p.virtual>>
Keys == {Key(p) : p \in parts}
Start(k) == (CHOOSE p \in parts : Key(p) = k).start
LiveRows == {k \in Keys : k[2] = LIVE}

Init ==
  /\ now = 0 /\ parts = {} /\ current = [u \in Users |-> None]
  /\ contest = [visible |-> TRUE, locked |-> FALSE, count |-> 0]
  /\ disq = {} /\ banned = {} /\ subs = <<>>
  /\ req = [t \in Threads |-> Idle] /\ admin = Idle
  /\ requests = 0 /\ edits = 0
  /\ raced = [overlap |-> FALSE, miscounted |-> FALSE, strayed |-> FALSE, slipped |-> {}]

-----------------------------------------------------------------------------
(* Histories of the races.                                                 *)

\* A join overlaps another or an administrator's load and save of the contest:
\* until a join has overlapped nothing, the count may be behind.
Overlapped == [raced EXCEPT !.overlap = TRUE, !.miscounted = TRUE]
BeginsJoin == IF Joins = {} /\ admin.at # "lock" THEN [raced EXCEPT !.overlap = FALSE] ELSE Overlapped
SavesCount == IF raced.overlap THEN raced ELSE [raced EXCEPT !.miscounted = FALSE]

\* A ban misses u: a join of u is past the test of the ban while u is disqualified,
\* or the ban is lifted although another participation of u is disqualified.
SlipsIf(u, missed) == IF missed THEN [raced EXCEPT !.slipped = @ \cup {u}] ELSE raced
Entering(u) == \E t \in Joins : req[t].user = u /\ req[t].at \notin {"join", "count", "contest"}
Disqualifying(u) == admin.at \in {"look", "remove", "ban"} /\ admin.key[1] = u

-----------------------------------------------------------------------------
(* Windows.                                                                *)

EndTime(k) ==
  LET limited == Start(k) + TimeLimit
  IN IF k[2] = SPECTATE THEN Close
     ELSE IF k[2] # LIVE THEN (IF TimeLimit > 0 THEN limited ELSE Start(k) + (Close - Open))
     ELSE IF TimeLimit > 0 /\ limited < Close THEN limited ELSE Close

Ended(k) == EndTime(k) < now

Accessible(u) == contest.visible \/ u \in Seers

HasCompleted(u) == <<u, LIVE>> \in Keys /\ Ended(<<u, LIVE>>)

IsLiveJoinable(u, seen) ==
  Open <= seen /\ u \notin Staff /\ ~HasCompleted(u) /\ u \in Joinable

IsSpectatable(u) == u \in Staff \/ u \in Joinable

-----------------------------------------------------------------------------
(* Steps of a request.                                                     *)

Goto(t, at) == req' = [req EXCEPT ![t].at = at]
Finish(t) == req' = [req EXCEPT ![t] = Idle]
Using(t, id, at) == req' = [req EXCEPT ![t].pid = id, ![t].at = at]

\* ContestMiddleware: profile.update_contest leaves a contest that has ended or
\* is no longer accessible.  The record is what the request keeps in memory; timely
\* is a history variable, whether the request saw the contest open.
Begin(t, u, kind) ==
  LET over == current[u] # None /\ (Ended(<<u, current[u]>>) \/ ~Accessible(u))
      prof == IF over THEN None ELSE current[u]
  IN /\ t \notin Active /\ requests < MaxRequests
     /\ requests' = requests + 1
     /\ current' = [current EXCEPT ![u] = prof]
     /\ req' = [req EXCEPT ![t] =
                 [at |-> kind, user |-> u, kind |-> kind, prof |-> prof, pid |-> None,
                  timely |-> FALSE,
                  row |-> IF kind = "submit" /\ prof # None THEN contest ELSE None]]
     /\ raced' = IF kind = "join" THEN BeginsJoin ELSE raced
     /\ UNCHANGED <<now, parts, contest, disq, banned, subs, admin, edits>>

Local == UNCHANGED <<now, dataVars, requests, edits, raced>>

\* ContestMixin.get_object and the first half of join_contest.
Enter(t) ==
  LET r == req[t]
      u == r.user
      to(at, id) ==
        /\ req' = [req EXCEPT ![t].timely = now \in Open..Close,
                              ![t].row = contest, ![t].at = at, ![t].pid = id]
        /\ raced' = SlipsIf(u, Disqualifying(u))
      refused == \/ r.prof = None /\ ~Accessible(u)
                 \/ now < Open /\ u \notin Staff
                 \/ u \in banned \ Superusers
      denied == now <= Close /\ ~IsLiveJoinable(u, now) /\ ~IsSpectatable(u)
  IN /\ r.at = "join" /\ UNCHANGED <<now, dataVars, requests, edits>>
     /\ \/ (refused \/ denied) /\ Finish(t) /\ raced' = raced
        \/ ~refused /\ Close < now /\ to("number", None)
        \/ ~refused /\ now <= Close /\ IsLiveJoinable(u, now) /\ to("get", LIVE)
        \/ /\ ~refused /\ now <= Close
           /\ ~IsLiveJoinable(u, now) /\ IsSpectatable(u) /\ to("get", SPECTATE)

\* Variant with a bug: the number of the user's rows is the next id.
NextIdFromZero(u) == Cardinality({k \in Keys : k[1] = u})

NextId(u) ==
  LET ids == {k[2] : k \in {k \in Keys : k[1] = u}}
      largest == IF ids = {} THEN 0 ELSE CHOOSE i \in ids : \A j \in ids : j <= i
  IN IF largest + 1 > 1 THEN largest + 1 ELSE 1

\* The aggregate of the virtual branch, or the denial for want of the code.
Number(t) ==
  /\ req[t].at = "number" /\ Local
  /\ \/ Using(t, NextId(req[t].user), "virtual")
     \/ CodeRequired /\ req[t].user \notin CanEdit /\ Finish(t)

\* Variant with a bug: without the unique key every attempt succeeds.
TakenNever(t) == FALSE

Taken(t) == <<req[t].user, req[t].pid>> \in Keys

AddPart(t) ==
  /\ parts' = parts \cup {[user |-> req[t].user, virtual |-> req[t].pid, start |-> now]}
  /\ UNCHANGED <<now, current, contest, disq, banned, subs, admin, requests, edits, raced>>

\* An IntegrityError sends the loop back to the aggregate.
CreateVirtual(t) ==
  /\ req[t].at = "virtual"
  /\ \/ Taken(t) /\ Goto(t, "number") /\ Local
     \/ ~Taken(t) /\ Goto(t, "profile") /\ AddPart(t)

Get(t) ==
  LET r == req[t]
      k == <<r.user, r.pid>>
  IN /\ r.at = "get" /\ Local
     /\ \/ ~Taken(t) /\ Goto(t, "create")
        \/ ~Taken(t) /\ CodeRequired /\ r.user \notin CanEdit /\ Finish(t)
        \/ Taken(t) /\ Ended(k) /\ Using(t, SPECTATE, "get_or_create")
        \/ Taken(t) /\ ~Ended(k) /\ Goto(t, "profile")

\* An IntegrityError is not caught here: the request fails.
Create(t) ==
  /\ req[t].at = "create"
  /\ \/ Taken(t) /\ Finish(t) /\ Local
     \/ ~Taken(t) /\ Goto(t, "profile") /\ AddPart(t)

GetOrCreate(t) ==
  /\ req[t].at = "get_or_create"
  /\ Goto(t, "profile")
  /\ \/ Taken(t) /\ Local
     \/ ~Taken(t) /\ AddPart(t)

LeaveView(t) ==
  /\ req[t].at = "leave" /\ Local
  /\ \/ req[t].prof = None /\ Finish(t)
     \/ req[t].prof # None /\ Using(t, None, "profile")

SaveProfile(t) ==
  /\ req[t].at = "profile"
  /\ current' = [current EXCEPT ![req[t].user] = req[t].pid]
  /\ IF req[t].kind = "join" THEN Goto(t, "count") ELSE Finish(t)
  /\ UNCHANGED <<now, parts, contest, disq, banned, subs, admin, requests, edits, raced>>

\* Variant with a bug: virtual participations are counted too.
CountAll(t) ==
  /\ req[t].at = "count" /\ Local
  /\ req' = [req EXCEPT ![t].row.count = Cardinality(Keys), ![t].at = "contest"]

\* update_user_count: count, then save the row as it was loaded.
Count(t) ==
  /\ req[t].at = "count" /\ Local
  /\ req' = [req EXCEPT ![t].row.count = Cardinality(LiveRows), ![t].at = "contest"]

SaveContest(t) ==
  /\ req[t].at = "contest"
  /\ contest' = req[t].row
  /\ raced' = SavesCount
  /\ Finish(t)
  /\ UNCHANGED <<now, parts, current, disq, banned, subs, admin, requests, edits>>

-----------------------------------------------------------------------------
(* Submitting to the contest's problem.                                    *)

InProgress(u) ==
  {i \in DOMAIN subs : subs[i].user = u /\ subs[i].status = "QU" /\ ~subs[i].rejudged}
Counted(u, id) ==
  {i \in DOMAIN subs : subs[i].user = u /\ subs[i].virtual = id /\ subs[i].status # "IE"}

\* Variant with a bug: one more than the limit passes.
WithinLimitsLoosely(u, id) ==
  /\ u \in Spammers \/ Cardinality(InProgress(u)) <= SubmissionLimit
  /\ id # None => Cardinality(Counted(u, id)) < MaxSubmissions

WithinLimits(u, id) ==
  /\ u \in Spammers \/ Cardinality(InProgress(u)) < SubmissionLimit
  /\ id # None => Cardinality(Counted(u, id)) < MaxSubmissions

CheckLimits(t) ==
  /\ req[t].at = "submit" /\ Local
  /\ IF WithinLimits(req[t].user, req[t].prof) THEN Goto(t, "store") ELSE Finish(t)

Store(t) ==
  /\ req[t].at = "store"
  /\ subs' = Append(subs, [user |-> req[t].user, virtual |-> req[t].prof, status |-> "QU",
                           locked |-> IF req[t].prof = LIVE THEN req[t].row.locked ELSE FALSE,
                           rejudged |-> FALSE, revived |-> FALSE])
  /\ Finish(t)
  /\ UNCHANGED <<now, parts, current, contest, disq, banned, admin, requests, edits, raced>>

\* The bridge ends a submission.
Grade(i) ==
  /\ subs[i].status = "QU"
  /\ \E s \in {"D", "IE"} : subs' = [subs EXCEPT ![i].status = s]
  /\ UNCHANGED <<now, parts, current, contest, disq, banned, req, admin, requests, edits, raced>>

-----------------------------------------------------------------------------
(* Administrators.                                                         *)

Edit == edits < MaxEdits /\ edits' = edits + 1 /\ UNCHANGED <<now, parts, req, requests>>

SetVisible ==
  /\ Edit
  /\ contest' = [contest EXCEPT !.visible = ~@]
  /\ UNCHANGED <<current, disq, banned, subs, admin, raced>>

\* A submission that is not locked is judged again, one in internal error too.
Rejudge(i) ==
  /\ Edit /\ ~subs[i].locked
  /\ subs' = [subs EXCEPT ![i].status = "QU", ![i].rejudged = TRUE,
                          ![i].revived = @ \/ subs[i].status = "IE"]
  /\ UNCHANGED <<current, contest, disq, banned, admin, raced>>

\* The rows that set_locked and set_unlocked go through are loaded together.
LoadContest(on) ==
  /\ Edit /\ admin = Idle
  /\ admin' = [at |-> "lock", on |-> on, row |-> contest]
  /\ raced' = IF Joins = {} THEN raced ELSE Overlapped
  /\ UNCHANGED <<current, contest, disq, banned, subs>>

SaveLocked ==
  /\ contest' = [admin.row EXCEPT !.locked = admin.on]
  /\ admin' = Idle
  /\ raced' = [raced EXCEPT !.strayed = Holding # {}]
  /\ UNCHANGED <<now, parts, current, disq, banned, req, requests, edits>>

\* Variant with a bug: the submissions keep their own mark.
LockContestOnly == admin.at = "lock" /\ SaveLocked /\ UNCHANGED subs

\* set_locked_after: the row as it was loaded, and the live submissions, in one
\* transaction.
SetLockedAfter ==
  /\ admin.at = "lock" /\ SaveLocked
  /\ subs' = [i \in DOMAIN subs |->
               IF subs[i].virtual = LIVE THEN [subs[i] EXCEPT !.locked = admin.on] ELSE subs[i]]

Does(at, k) == admin' = [at |-> at, key |-> k]

\* set_disqualified(TRUE) commits the row with the results; then it looks at the
\* profile, removes it from the contest if it is there, and bans.
Disqualify(k) ==
  /\ Edit /\ admin = Idle /\ k \in Keys \ disq
  /\ disq' = disq \cup {k} /\ Does("look", k)
  /\ raced' = SlipsIf(k[1], Entering(k[1]))
  /\ UNCHANGED <<current, contest, banned, subs>>

\* Variant with a bug: the user stays in the contest.
LookAway ==
  /\ admin.at = "look" /\ Does("ban", admin.key)
  /\ UNCHANGED <<now, parts, current, contest, disq, banned, subs, req, requests, edits, raced>>

Look ==
  /\ admin.at = "look"
  /\ Does(IF current[admin.key[1]] = admin.key[2] THEN "remove" ELSE "ban", admin.key)
  /\ UNCHANGED <<now, parts, current, contest, disq, banned, subs, req, requests, edits, raced>>

RemoveContest ==
  /\ admin.at = "remove" /\ Does("ban", admin.key)
  /\ current' = [current EXCEPT ![admin.key[1]] = None]
  /\ UNCHANGED <<now, parts, contest, disq, banned, subs, req, requests, edits, raced>>

Ban ==
  /\ admin.at = "ban" /\ admin' = Idle
  /\ banned' = banned \cup {admin.key[1]}
  /\ UNCHANGED <<now, parts, current, contest, disq, subs, req, requests, edits, raced>>

\* set_disqualified(FALSE) lifts the ban, whatever else is disqualified.
Reinstate(k) ==
  /\ admin = Idle /\ k \in disq
  /\ disq' = disq \ {k} /\ Does("lift", k)
  /\ UNCHANGED <<now, parts, current, contest, banned, subs, req, requests, edits, raced>>

Lift ==
  /\ admin.at = "lift" /\ admin' = Idle
  /\ banned' = banned \ {admin.key[1]}
  /\ raced' = SlipsIf(admin.key[1], \E d \in disq : d[1] = admin.key[1])
  /\ UNCHANGED <<now, parts, current, contest, disq, subs, req, requests, edits>>

AdminStep == SetLockedAfter \/ Look \/ RemoveContest \/ Ban \/ Lift

Tick ==
  /\ now < MaxTime /\ now' = now + 1
  /\ UNCHANGED <<dataVars, req, requests, edits, raced>>

RequestStep(t) ==
  \/ Enter(t) \/ Number(t) \/ CreateVirtual(t) \/ Get(t) \/ Create(t) \/ GetOrCreate(t)
  \/ LeaveView(t) \/ SaveProfile(t) \/ Count(t) \/ SaveContest(t)
  \/ CheckLimits(t) \/ Store(t)

Next ==
  \/ \E t \in Threads, u \in Users, kind \in {"join", "leave", "submit"} : Begin(t, u, kind)
  \/ \E t \in Threads : RequestStep(t)
  \/ \E i \in DOMAIN subs : Grade(i) \/ Rejudge(i)
  \/ SetVisible
  \/ \E on \in BOOLEAN : LoadContest(on)
  \/ \E k \in Keys : Disqualify(k) \/ Reinstate(k)
  \/ AdminStep
  \/ Tick

Spec == Init /\ [][Next]_joinVars
-----------------------------------------------------------------------------
\* Whatever requests overlap, a user's virtual participations are numbered
\* 1, 2, ... without a gap, and the rows have distinct keys.
VirtualIdsDense ==
  /\ Cardinality(Keys) = Cardinality(parts)
  /\ \A k \in Keys : k[2] > 1 => <<k[1], k[2] - 1>> \in Keys

\* A live participation only arises from a request that saw the contest open and
\* the user allowed; after the end every new one is virtual or a spectator's.
LiveOnlyWhileOpen ==
  [][\A k \in LiveRows' \ LiveRows :
       \E t \in Active : /\ req[t].user = k[1]
                         /\ req[t].timely
                         /\ k[1] \in Joinable \ Staff]_joinVars

\* user_count is never ahead of the live participations, and a join that overlaps
\* neither another join nor an administrator's load and save of the contest puts it
\* right, whatever was lost before: then it stays exact, between joins, until the
\* next overlap.
CountRight ==
  /\ contest.count <= Cardinality(LiveRows)
  /\ Joins = {} /\ ~raced.miscounted => contest.count = Cardinality(LiveRows)

\* The contest and its live submissions are locked together, after every locking or
\* unlocking that is saved while no request holds the contest's row: a request's
\* whole-row save, or its copy of locked_after, may undo or miss any other.
LockedTogether ==
  ~raced.strayed =>
    \A i \in DOMAIN subs : subs[i].virtual = LIVE => subs[i].locked = contest.locked

\* Once set_disqualified has had its look at the profile and removed it, the user is
\* out of the participation and stays out, but for superusers, whom no ban stops, and
\* users whom the ban has missed: their join was past its test in the meantime, or it
\* was lifted with another participation.
DisqualifiedIsOut ==
  \A u \in Users \ (Superusers \cup raced.slipped) :
    current[u] # None /\ <<u, current[u]>> \in disq =>
      admin.at \in {"look", "remove"} /\ admin.key = <<u, current[u]>>

\* Overlapping requests exceed the limits by one submission each, at most; rejudged
\* submissions do not count as in progress, and those that a rejudge has brought
\* back from an internal error come on top of the contest's limit.
LimitsKept ==
  \A u \in Users :
    /\ u \notin Spammers =>
         Cardinality(InProgress(u)) < SubmissionLimit + Cardinality(Threads)
    /\ \A k \in Keys : k[1] = u =>
         Cardinality({i \in Counted(u, k[2]) : ~subs[i].revived})
           < MaxSubmissions + Cardinality(Threads)
=============================================================================
