# A verification project for the online judge site

TLA+ models of this repository (a Django site, a bridge daemon that hands
submissions to judges, an event daemon and an event bus), checked by TLC on small
instances, with machine-checked proofs (TLAPS) of the safety properties and of both
refinements for every size.

## Inventory: the system's parts

The site is a Django application; submissions are graded by *judge* processes
on other machines. The *bridge* is a daemon between the two: it listens for
judges on one port and for the site on another, with a thread per connection.

| Part | State | Operations | Modelled |
|---|---|---|---|
| Judge pool and queue (`judge/bridge/judge_list.py`) | priority queue, `submission_map`, `node_map`, `judges`, `min_tier`, one `RLock` | `judge`, `abort`, `register`, `remove`, `on_judge_free`, `update_problems`, `update_disable_judge`, `disconnect` | `JudgeList` |
| Judge connections (`bridge/judge_handler.py`) | `_working`, `problems`, `tier`, `is_disabled`, socket | one handler per packet, connect, disconnect, ping thread | `JudgeList`, `Grading`, `JudgeConnection` |
| Packet framing (`bridge/base_handler.py`) | receive buffer | sized packets, PROXY line, end and timeout | `JudgeConnection` |
| Site side of the bridge (`bridge/django_handler.py`, `judgeapi.py`) | the `Submission` and `SubmissionTestCase` rows | `judge_submission`, `abort_submission`, `update_disable_judge`, `disconnect_judge` | `Grading`, `JudgeList` |
| Daemon (`bridge/daemon.py`, `server.py`) | none that survives | start (resets rows), stop | `Grading`, `JudgeConnection` |
| Submission (`models/submission.py`) | status, result, points, contest row | `judge`, `abort`, `update_contest`, `can_see_detail` | `Lifecycle`, `Grading`, `ContestScoring`, `Visibility` |
| Judge rows (`models/runtime.py`, `admin/runtime.py`) | `online`, `is_disabled`, `is_blocked`, `tier`, versions | `toggle_disabled`, the form | `JudgeList`, `JudgeConnection` |
| Visibility (`models/problem.py`, `contest.py`, `jinja2/submission.py`, `utils/tickets.py`, `views/ticket.py`) | roles, flags, organizations, permissions | tests on an object, queries of lists | `Visibility` |
| Contest participation (`views/contests.py`, `models/contest.py`, `admin/contest.py`) | participation rows, `current_contest`, `user_count`, locks, bans | join, leave, spectate, submit, lock, hide, disqualify | `ContestJoin` |
| Scoring (`on_grading_end`, `contest_format/`, `tasks/submission.py`) | points of cases, submissions, contest rows, participations | grade, fail, rejudge, rescore, disqualify, six formats | `ContestScoring` |
| Submission intake (`views/problem.py`) | rows, limits, the transaction of an upload | `form_valid`, `post` | `ContestJoin`, `EventBus`, `Grading` (partly) |
| Live events (`event_poster_ws.py`, `websocket/daemon.js`, `resources/event.js`, `submission/status.html`) | backlog, followers, pollers, cursor of a page | post, catch up, long poll, update | `LiveEvents`, `EventLog` |
| Event bus (`signals.py`, `judge/events/`) | exclusive queue, `ResultEvent` rows | announce, consume, store | `EventBus` (partly) |
| Ratings, profiles, comments, organizations, caches, problem data, pages, admin, API, settings | rows and files | forms, rendering, I/O | no, see the end |

How they interact: a web thread or a task worker writes the submission's row,
opens a connection to the bridge, and waits for one answer. `DjangoHandler`
calls `JudgeList` under its lock. `JudgeList` calls `JudgeHandler.submit`,
which sends a packet to the judge. The judge's packets are handled by the one
thread of its connection: they write the rows of the submission and of its
contest, post live events, and call back into `JudgeList`. The event daemon hands
these to the pages, which then ask the site again. A stored submission is also
announced on the bus, where an external judge may answer with a result that a
consumer of the site stores. Requests of users and administrators run beside all
this; rows, bridge, daemon and bus share no transaction, and a view saves whole
rows it loaded earlier: that is where most of the hard behaviour comes from.

What is hard: (1) what runs without the pool's lock beside what runs with it; (2)
dispatches that raise half-way; (3) requests as several statements, each racing
the packets of the judge and other requests; (4) a departure that clears the pool
first and the row later, perhaps after a new arrival; (5) lost answers, dying
processes, restarts, bounded backlogs and exclusive queues; (6) arithmetic over
batches, roundings and penalties written several times; (7) rules of visibility
written several times. `PROJECT.json` lists every hazard with its line.

What makes the parts correct: a submission is with at most one judge and an
abort finds it; no free judge idles beside a submission it can take; a status in
progress always ends; a final status rests on complete results; packets come out
of the stream as they were put in, and an end of it is noticed; the copies of the
rules agree; the numbers of participations have no gap, a disqualified user stays out
and the limits hold; a participation's row is what its submissions make it; a page that
subscribes misses nothing it could have been told; an event is stored once.

## Modules

* **`JudgeList`**: the pool and the queue. `queue` is the linked list cut at its
  priority markers (a function from priority to sequence), `node_map` is the set
  of submissions with an entry. Every method of `JudgeList` that serves at most
  one judge is one action, as it holds the lock throughout. `register`, `remove`
  and `update_disable_judge` may serve several in a loop; they are cut at each
  judge (`offers`, `resume`), no other locked method starts in between
  (`LockFree`), while steps without the lock do. `SubmitRaises` is
  `JudgeHandler.submit` raising before or after it sets `_working`. The flag
  `is_disabled` has its three writers in their steps: `toggle_disabled` tells the bridge
  and then saves, `_connected` reads the row (`Connected`) and saves it whole
  (`SaveRow`). `load` and the
  random choice among equal judges are a free choice. `sent`, the submissions a
  judge process holds, is the environment. `RemoveJudge` ends a connection; the
  constant then stands for a new handler, and what still refers to the old one
  becomes `Gone`.
* **`Grading`** extends `JudgeList` with the rows and the messages: `web` is a
  program counter per web thread, with one step per database statement of
  `judge_submission` and `abort_submission`; `prog` counts the packets a judge
  has sent about a submission; `thread` is the write a connection's thread has
  yet to do, because every end packet frees the judge *before* it stores the
  result, and `on_disconnect` clears the pool before it writes `IE`. `Hazards`
  selects what may go wrong.
* **`Lifecycle`** is the abstract specification of a submission's status;
  `Grading` implements it (`FollowsLifecycle`) in the calm configuration.
* **`JudgeConnection`**: one judge's connections below the pool. A byte is the pair
  of its packet and its place, `wire` what the network holds, `handler` the place
  in `handle()` with its buffer; each `recv` returns as much as it pleases.
  `phase` is how far `_connected` and `_disconnected` have come with the judge's
  row, statement by statement; `loaded` is the row as `_connected` read it and
  later saves it whole, `form` the same for the administration.
* **`Visibility`**: the state is the set of rows (roles, permissions, memberships)
  and flags that decide about one problem, one contest, a submission and a ticket.
  `IsAccessibleBy`, `IsEditableBy`, `AccessCheck`, `CanSeeDetail`, `CanOpenTicket`
  are the tests on an object, `InVisibleProblems`, `InEditableProblems`,
  `InVisibleContests`, `InTickets`, `InProblemTickets`, `RowLinks` the copies in
  queries and templates.
* **`ContestJoin`**: requests to join, leave and submit. `req` holds a thread's place
  and the copies it loaded (`prof` from the middleware, `row` of the contest);
  joining is cut at each statement, with the retry over virtual ids and the unique
  key. `admin` is the place of an administrator and what he loaded: locking saves the
  whole row of the contest, disqualifying is cut at each commit. `Superusers`,
  `CanEdit`, `Seers` and `Spammers` are who is exempt from the ban, the access code, the
  hiding and the limit on submissions in progress. `raced` records the overlaps after
  which the code keeps less.
* **`ContestScoring`**: `GradingEnd` computes a submission's points from its cases
  as `on_grading_end` does, `Recomputed` a participation's row by the six formats, of
  which four ask for the best submissions in queries of their own (`DefaultRow`,
  `LegacyIoiRow`, `IcpcRow`, `AtCoderRow`). The bridge and the site run `SetPoints`,
  `Load` and `Save` in threads that overlap, and `Rescore` and `SaveRescored` are the
  read and the write of `rescore_problem`. Points are in thousandths
  (`points_precision` at its default of 3); which way a tie is rounded depends on the
  float and is left to `TiesUp`.
* **`LiveEvents`**: daemon, poster, receiver and page; `log` and `heard` are history. The
  view of a page is three reads: the submission (`Load`), the last id (`TakeLast`), the
  test cases (`ReadCases`); a page whose submission was graded, or whose view could not
  reach the daemon, has no receiver.
  **`EventLog`** is what it promises: a log with a forgotten prefix, of which each
  page is handed its messages in order. `ImplementsEventLog` is the refinement,
  with `floor` computed from the backlog and `cursor` mapped to `last_msg`.
* **`EventBus`**: `step` is the place of the request that stores a submission, in or
  out of its transaction; `queue` is exclusive to a consumer and lost with it;
  `found` is the consumer's view between its look and its write. The handler may raise
  before and after its look (`Refuse`): the event is then rejected for good.
* **`JudgeList_proofs`**, **`Grading_proofs`** (on top of it), **`JudgeConnection_proofs`**,
  **`Visibility_proofs`**, **`ContestJoin_proofs`**, **`ContestScoring_proofs`**,
  **`LiveEvents_proofs`**, **`EventBus_proofs`**: the theorems about these modules, see
  Proofs.
* **`MCJudgeList`**, **`MCGrading`**, **`MCJudgeConnection`**, **`MCVisibility`**,
  **`MCContestJoin`**, **`MCContestScoring`**, **`MCEventBus`**: names for TLC, constant
  functions and symmetry.

Definitions marked *Variant with a bug* are not used by the specifications: each
is a mutation of the definition after it and shows that a property is able to
fail.

## Runs

| Run | Instance | Shows |
|---|---|---|
| `pool_quiet` | 3 judges on 2 tiers, 3 submissions, 2 problems, no fault | no lost wake-up, rejudges do not starve for good, neither the queue nor a request breaks into the reserve |
| `pool_faulty` | 2 judges on 2 tiers, 2 submissions, 1 fault, one row switched on and off, requests for a judge by name | one judge per submission; a second submission for a busy judge only by the two races |
| `pool_live` | 2 judges, 3 submissions, fair | the most urgent class is served |
| `grading_faulty` | 2 judges, 1 submission, every hazard, one row switched on and off | in progress means held by somebody, apart from the submissions known to be lost |
| `grading_race` | 1 judge, 2 submissions, departures, so that the judge may be sent both | held means shown in progress; done means complete |
| `grading_life` | 2 judges, 1 submission, departures, fair | refinement of `Lifecycle`, and every submission ends |
| `judge_connection` | a connection through a proxy with packets of 1 and 2 bytes and a later one, sizes of 2 bytes, 1 crash or form, fair | packets intact, the row's online flag, ends noticed |
| `visibility` | 1 user and the anonymous one, 1 organization, all flags, up to 3 rows | the copies of the rules agree |
| `contest_join` | a contestant and a superuser who edits the contest, 2 threads, 3 requests, 1 edit, clock 0..3 over a contest from 1 to 2 with a time limit of 1 and a code | dense ids, the count, the lock, bans, limits, no live participation outside of the window |
| `contest_scoring` | 2 problems, 3 cases with a batch, 2 submissions, 2 threads, each format | the row, the six formats, the roundings, rescoring beside gradings |
| `live_events` | 1 page, backlog of 2, 4 posts, 2 faults, fair | refinement of `EventLog`, no lost wake-up, the page catches up |
| `event_bus` | a form and an upload, 1 consumer, 2 results, 2 faults, fair | announced under one id, stored once, percentages, every delivery stored or refused |

**Bounds.** Two judges suffice for every hand-over and for the reserve of one
tier; three on two tiers add a tier that empties while the other holds the
queue. Two submissions let one overtake the other, three fill two classes of
the queue behind a busy judge. Two request priorities, one on each side of
`REJUDGE_PRIORITY`, are what the code tells apart. `MaxFaults` = 1 bounds raised
dispatches and forced disconnects (a dispatch to a closed socket always raises
and is not counted). One test case is enough for a row that is missing; the
refinement has two. A size of two bytes and a line of three let a piece end within
either; the code's comparisons do not depend on the width. Each rule of visibility
is about one user at a time and a disjunct reads two rows at most (a membership is
a row of the user and one of the problem), to which a permission may add a third;
the proofs cover the rest. `MaxRequests` = 3 gives a third
request that follows two overlapping ones, `MaxTime` = 3 an instant before, within
and after the contest's window. Four posts overflow a backlog of two twice. The
gradings of `contest_scoring` pass the first case and fail or pass the last: half of
the points, with the batch lost, or all of them; its worths divide evenly, so that no
tie arises (`TiesUp` = {}), while the proofs leave both to the constants.
The other bounds (`MaxEdits`, `MaxSubs`, `MaxRejudges`, `MaxRow`, `MaxResults`)
stand in the cfg files. Runs whose counters are bounded do stop, and say
`CHECK_DEADLOCK FALSE`.

**Configurations without a hazard.** `NoIdleWhileQueued` and
`RejudgesRunWhenAllIdle` are checked without disabled judges and faults, as the
code does not keep them otherwise: enabling the only judge walks no queue,
disabling one of two leaves the other reserved, and a raised dispatch leaves its
entries behind. `HeldIsInProgress`, `DoneIsComplete` and `FollowsLifecycle` hold
without aborts and without rejudges of a submission in progress, and while no two
web threads have the same submission in hand (`Alone` in the proofs): two that
rejudge a finished one delete what the first of them has had graded. `grading_faulty`
and `grading_life` have one submission: with two, a judge may be sent both, and
`grading_race` covers that. `OneRowPerEvent` is checked with one consumer; two would
create a row twice, as there is no unique key.

**Exceptions the properties name.** `MappedToGrader` leaves out `failed`, the
submissions a dispatch of which raised. `InProgressIsHeld` also leaves out `lost`: the
submissions whose end packet met an exception in `on_judge_free`, whose asking
process died or missed the answer to an abort, and those of a judge that had two.
`OnlineIsConnected` excepts the end of an old connection beside a newer one, and a
form that saves what it read before a change (`late`). `EndIsNoticed` excepts a
stream that ends within a body: that thread spins.

In `ContestJoin`, `LockedTogether` excepts a lock that is saved while a request holds the
contest's row, until the next lock that is not. `CountRight` allows a count that is too
low after a join that overlapped another join or a lock, until a join that overlaps
nothing. `DisqualifiedIsOut` excepts superusers, whom no ban stops, and users whose join
was past the test of the ban when they were disqualified or whose ban was lifted with
another participation. `LimitsKept` leaves out the limit on submissions in progress for
who has `spam_submission`, and from the limit of the contest those that a rejudge
brought back from an internal error.

In `ContestScoring`, `RowIsCurrent` excepts overlapping recomputations and a submission
that ended in a compile or internal error, after which nothing is recomputed.
`FullIffComplete` and `ScoreNeverDrops` except a grading that overtakes a rescoring
(`overtaken`); the former asks for a problem whose points are a multiple of a tenth, to
which `rescore_problem` rounds, and make at least a tenth for each case.
`TimeNotNegative` excepts rejudges: the count of earlier attempts is one too low when the
accepted attempt has lost its result. `FormatsAgree` excepts the ioi format with several
cases outside of batches, which it takes for one batch.

`PageCatchesUp` is about pages with a receiver, and about versions of the submission
announced after `event.last()`; it excepts a broken websocket (never opened again), a
failed request (the page stays blocked) and a message the backlog has lost.
`DeliveredIsStored` excepts an event whose handler raised. `RowLinkOpens` excepts users
whose permission to edit all problems comes without the one to edit their own, and
problems whose full marks differ from those of their cases.

Without any one of these TLC finds the property violated on the instance of its run,
but for four that need another one: a problem worth 340, the second case outside of
batches, in `DisqualifiedIsOut` the ban that is lifted with one participation of a user
who has another disqualified one (`MaxEdits` = 3), and in `LimitsKept` the rejudge of an
internal error (`MaxRequests` = 4).

**Fairness.** `JudgeList` and `Grading`: the holder of the lock goes on (weak). A
thread that waits for the lock gets it in the end although others take it in
between (strong): the `RLock` is not fair by contract, but the sections are short
and the threads few. A web thread goes on with its statements. A judge that stays
connected goes on with a submission it has and a judge that left comes back; a judge
that hangs for ever is not covered, and the code has no timeout for it.
`JudgeConnection`: the thread of a connection goes on (weak) whenever `recv` has bytes,
an end or its timeout. `LiveEvents`: the bridge posts what it owes, and the browser
goes on with timers and requests that have an answer; a waiting poll need not time
out. `EventBus`: a connected consumer goes on consuming. Nothing obliges a judge to
leave, a user to ask, an administrator to act, a clock to tick, or a fault to occur.

## Seen while modelling

No run of the project expects a violation. What the code does that a reader may not
expect, each met as a reason for an exception or a bound:

* `register` disconnects no handler of the same name: it passes the new handler where
  `disconnect` compares names (`judge_list.py:96`).
* A submission that is being judged is queued again after a dispatch that raised
  (`judge_list.py:168`); a judge left alone by `update_disable_judge` does not take
  waiting rejudges (`judge_list.py:132`); a disabled judge may be given work between
  `register` and `_connected`.
* A rejudge of a queued submission may delete test cases of the grading that has
  begun meanwhile (`judgeapi.py:79`, against the comment at 74); an abort may mark a
  finished submission aborted (121), or a queued one that is judged afterwards (120).
* A piece behind the PROXY line that ends within a size lets one packet through; the
  next `unpack` raises and the connection is lost (`base_handler.py:156-160`). The end
  of the stream within a body lets the thread spin (86).
* The timer of `JudgeHandler.submit` is never started (`judge_handler.py:232`).
* `update_user_count` saves the whole contest (`models/contest.py:336`), as locking does
  (`admin/contest.py:264`), joining the whole profile (`views/contests.py:446`),
  `update_stats` the whole problem (`models/problem.py:405`), a judge that connects its
  row (`judge_handler.py:136`).
* `rescore_problem` writes the points of what its query read (`tasks/submission.py:49-55`),
  so that a submission graded meanwhile loses its points, in the contest too.
* Reinstating one participation lifts the ban of all (`models/contest.py:549`); a
  submission in internal error that is rejudged may exceed the contest's limit, as
  `views/problem.py:664` says.
* The judge is asked for an upload within the transaction that stores it
  (`views/problem.py:882`); a submission is published in its transaction, which may
  still be rolled back.
* The page of a submission loads it before `event.last()` (`views/submission.py:178`): an
  end in between is on no page until it is loaded again, as no further event comes.
  `status.html` stays blocked after one failed request (31); the receiver never opens
  a closed websocket again.
* A result whose handler raises, for a query that fails too, is rejected for good
  (`events/consumer.py:222`).
* The AMQP poster numbers events by the clock in another unit than the event daemon,
  and nothing relays what it posts to that daemon.

## Proofs

Every safety invariant and action property that a run checks, and both refinements,
are theorems here, for every value of the constants that meets the assumptions of the
module: any number of judges, users, threads, messages, and any bounds. What a
theorem says beyond that, it says as its hypothesis. Each rests on an inductive
invariant, with one lemma or step per action.

**`JudgeList_proofs`.** `MappedToGrader` is not inductive by itself: that a request for
a submission with a judge is ignored needs `submission_map` to be right, that an end
clears the right entry needs `_working` to be among what the judge holds, and that a
served entry is gone needs it to be in the queue once. `IInv` adds these
(`NoDuplicates`, `Consistent`), with the types: `Invariance`, `TypeCorrect`,
`GradedByMappedJudge`; `SecondRequest` and `LastFreeIsSpared` take it for the state in
which a step starts. `NobodyIdles` and `RejudgesAreServed` have the hypothesis `Calm`, no
faults and nobody disabled, as the run has it. Their invariant is about the judges
still to be offered the queue: what waits beside a free judge of the serving tier that
can take it and that is not among `offers` or in `resume` is a rejudge, spared because
nobody else could take it (`SparedInv`, on top of `CalmInv`).

**`Grading_proofs`.** `CareInv` says of every submission in progress, except for those
the code is known to lose, who will end it: a judge, the queue, a web thread or a
connection's thread with the result still to be written; `NothingIsForgotten` is
`InProgressIsHeld` under every hazard. `CycleInv` says in which one place a submission
is and what its status is there; from it follow `HeldOnesAreInProgress`,
`DoneOnesAreComplete`, `StatusGoesAlong` and the refinement `LifeCycleIsFollowed`, under
`Benign` (only judges leave) and `Alone` (no two web threads with one submission in
hand); without either TLC finds the three properties violated. `Lifecycle` has no lost
submissions, so the refinement also asks that none is (`Tracked = Subs`);
`StatusGoesAlong` is the same step by step for each submission that is not lost,
whatever happens to others.

**`JudgeConnection_proofs`.** `NetInv`: what a connection has yet to read, its buffer and
the bytes on the wire, is a run of bytes that follow one another, and the place in
`handle()` says with which byte of which packet it begins (`ReadsInv`, `PacketsInv`); the
end of the stream comes after all of them unless it was cut (`PeerInv`). Hence
`PacketsComeThrough`. `RowInv`: a named connection, or a row that shows the judge
online without one, is on its way to its name, to its versions or into `late`. Hence
`OnlineWhileConnected`.

**`Visibility_proofs`.** The copies of a rule are equivalent in every state, by cases over
logged in or not, so no invariant is needed: `ProblemLists`, `EditLists`, `ContestLists`,
`TicketLists`. Only `RowLinksOpen` needs `TypeCorrect`, as the row of a submission leaves
the third mode of source visibility to the last branch.

**`ContestJoin_proofs`.** `Wf` says that what requests and profiles refer to exists and
that virtual ids have no gap: `WellFormed`, `VirtualIdsAreDense`. On top of it stand
invariants of what a request under way may rely on: the lock it loaded (`LockInv`:
`LocksAgree`), the number it counted (`CountInv`: `CountIsRight`), the ban it tested
(`OutInv`: `DisqualifiedStaysOut`), the clock it looked at (`TimeInv`: `LiveNeedsOpen`),
and the submissions stored or about to be (`LimitInv`: `LimitsAreKept`).

**`ContestScoring_proofs`.** The sums of the formats are folds over a set in an order
that the definition leaves open: the first part proves that the order does not matter,
what an element adds (`SumTakes`) and that sums compare (`SumLeq`), then what `Round`
gives (`RoundIs`, `WholeShare`) and what each format's row is (`ResultsAre`). The
invariant `Inv`: the points of a submission are those of its cases unless it was
overtaken, and a thread that will use an old read has read what is still there
(`ReadOK`); a row and the rows in hand are of the form that `Recomputed` gives; one
thread at a time saves unless `raced`; it then holds what the submissions make it
(`CurrentOK`); no row under way has a lower score than the one it replaces unless
something was rejudged (`ScoresOK`). From it `RowsAreCurrent`, `DisqualifiedIsLowest`,
`TimeStaysPositive`, `ScoresNeverDrop`, `FullOnlyIfComplete` and `FormatsAreConsistent`.

**`LiveEvents_proofs`.** `Inv` says of every message in the log that a page wants and has not
seen where it is: forgotten, on the page's wire, or in the backlog when the daemon does
not know the page. `NoWakeUpLost`, and step by step the refinement `LogIsImplemented`.

**`EventBus_proofs`.** `AnnouncesOnce` follows the request that announces. `RowsAreOfEvents` is
the inductive invariant of the consumers: queues hold what was published, a row is that
of a published event, what a consumer has found is of the event at the head of its
queue; `PercentagesAreRight` follows for any number of consumers. `StoredOnce` has the
hypothesis `OneConsumer`, as two would both find nothing and both create a row
(`UniqueInv`).

**Assumptions on the constants**, each evaluated by TLC on the runs:
`ConstantsAssumption` (functions over the right sets, a finite pool, a handler is no
name), `GradingAssumption`, `VisibilityAssumption`, `ConnectionAssumption` (a size has
at least one byte and a PROXY line is longer than a size, packets have any length),
`ContestAssumption` (the contest ends after it starts; who may edit or test it may see
it, superusers may do all), `LimitsAssumption` (the limits are at least 1:
`settings.py:76` and the validator of `max_submissions`; finitely many threads),
`QueueAssumption` (a backlog of at least one), `BusAssumption` (there is a payload, and
its totals are numbers or absent), and `ScoringAssumption`: a problem and a grading are
worth something, a grading has finitely many cases, each failed or passed, bonuses and
penalties are not negative (`config_validators` of the formats), and submissions are
dated before the end of the participation (`MaxSubs <= End`, the i-th has date i; one
that is stored just after it would get a negative time bonus).

**Out of the prover's reach**, and only checked by TLC: everything temporal under fairness
(`UrgentLeavesQueue`, `EventuallyEnds`, `EndIsNoticed`, `PageCatchesUp`,
`DeliveredIsStored`), and `ENABLED`. The induction theorems of the library take an operator
as a parameter, which the provers cannot instantiate. Where a recursive function or a fold
had to be reasoned about (the walk of the backlog, the first entry a judge can take, the
copies at the end of a sequence, sums), the proof takes the least number at which the
claim would fail, by `WFMin` over `<` of the naturals.

## Plan

Done: every module above, and a theorem for every safety property. What may follow
goes into the modules that exist: variants of the theorems with weaker hypotheses
(`NobodyIdles` with disabled judges that nobody switches, `HeldOnesAreInProgress` with
crashes).

## Not modelled

* **Ratings** (`ratings.py`): floating-point optimisation over a finished ranking.
* **Profiles**: points are a weighted floating-point sum; two-factor login reads and
  writes one profile in one request.
* **Comments and organizations**: forms over rows with a limit; what organizations
  grant is in `Visibility`.
* **Statistics, caches, locks**: `update_stats`, `caching.py` and `dblock.py` act on rows
  and keys no other module reads; two hazards of theirs are listed without a property.
* **Problem data**: archives and files by one request.
* **Rankings, pages, administration, API, settings, migrations, assets**: rendering,
  filters, configuration and generated code.
* Within the modelled parts: the content of packets other than their kind, submission
  and results, compression, latencies and load, compile messages, the throttle of
  updates, `llist` and the database beyond the rows named (each statement is atomic).
