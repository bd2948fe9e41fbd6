--------------------------- MODULE ContestScoring ---------------------------
(***************************************************************************)
(* The results of one participation in a contest.  Threads of the bridge   *)
(* and of the site end, rejudge and rescore its submissions and recompute  *)
(* its row by the contest's format, each in several statements             *)
(* (src/judge/models/submission.py, models/contest.py, contest_format/,    *)
(* bridge/judge_handler.py, tasks/submission.py).  Points are counted in   *)
(* thousandths, to which the code rounds; the i-th submission has date i.  *)
(***************************************************************************)
EXTENDS FiniteSetsExt, Functions, Integers, Sequences

CONSTANTS
  Problems,       \* the contest's problems
  Cases, BatchOf, NoBatch,  \* test cases of a problem, and the batch of each
  Outcomes,       \* the results of the cases that gradings may have
  Worth,          \* Problem.points, in thousandths
  ContestWorth,   \* ContestProblem.points, in thousandths
  Formats,        \* the contest's format, one of these
  WholeFormats,   \* those in whose contests the problems are not partial
  Penalty, FirstAcBonus, TimeBonus,  \* configuration of the formats
  End,            \* end of the participation
  TiesUp,         \* ties <<a, b>> that the floats of Python round up
  Threads,        \* threads of the bridge and the site
  MaxSubs, MaxRejudges, MaxEdits  \* bounds, for TLC

ASSUME ScoringAssumption ==
  /\ Worth \in Nat \ {0} /\ ContestWorth \in Nat \ {0}
  /\ Formats \subseteq {"default", "legacy_ioi", "ioi", "ecoo", "icpc", "atcoder"}
  /\ IsFiniteSet(Cases) /\ Cases # {} /\ Outcomes \subseteq [Cases -> {0, 1}]
  /\ {Penalty, FirstAcBonus, TimeBonus, MaxSubs, MaxRejudges, MaxEdits} \subseteq Nat
  /\ End \in Nat /\ MaxSubs <= End

VARIABLES
  format,   \* Contest.format_name
  subs,     \* the participation's submissions, by date
  part,     \* its row: score, cumtime, tiebreaker, is_disqualified
  thread,   \* what each thread has yet to do
  decided,  \* history: the last decision about the disqualification
  raced,    \* history: two threads were recomputing at a time
  failed,   \* history: a submission ended without points
  overtaken,  \* history: submissions graded while a thread had yet to use an older read
  rejudges, edits  \* counters, for the bounds

scoringVars ==
  <<format, subs, part, thread, decided, raced, failed, overtaken, rejudges, edits>>

Batches == {BatchOf[c] : c \in Cases} \ {NoBatch}
Unbatched == {c \in Cases : BatchOf[c] = NoBatch}
NoTests == [c \in Cases |-> -1]
Idle == [at |-> "idle"]

Init ==
  /\ format \in Formats
  /\ subs = <<>>
  /\ part = [score |-> 0, cumtime |-> 0, tie |-> 0, dq |-> FALSE]
  /\ thread = [t \in Threads |-> Idle]
  /\ decided = FALSE /\ raced = FALSE /\ failed = FALSE /\ overtaken = {}
  /\ rejudges = 0 /\ edits = 0

-----------------------------------------------------------------------------
(* Points of a submission.                                                 *)

\* To the nearest; which way a tie goes depends on the float it is in binary.
Round(a, b) ==
  LET up == (2 * a + b) \div (2 * b) IN
  IF up * (2 * b) = 2 * a + b /\ <<a, b>> \notin TiesUp THEN up - 1 ELSE up

InBatch(tests, b) == {tests[c] : c \in {c \in Cases : BatchOf[c] = b}}

\* on_grading_end: every case is worth one; a batch is worth its worst case.
CasePoints(tests) ==
  SumFunctionOnSet(tests, Unbatched)
    + SumFunction([b \in Batches |-> Min(InBatch(tests, b))])

CaseTotal == Cardinality(Unbatched) + Cardinality(Batches)

\* Problem.partial and ContestProblem.partial.
Partial == format \notin WholeFormats

AllOrNothing(points, worth) == IF ~Partial /\ points # worth THEN 0 ELSE points

Points(tests) == AllOrNothing(Round(CasePoints(tests) * Worth, CaseTotal), Worth)

\* Variant with a bug: the rescoring cuts the digits off.
RescoredDown(tests) ==
  LET points == 1000 * ((CasePoints(tests) * Worth) \div (CaseTotal * 1000))
  IN IF ~Partial /\ points < Worth THEN 0 ELSE points

\* rescore_problem rounds to tenths.  What has no cases, their total being 0, has no
\* points.
Rescored(tests) ==
  LET points == 100 * Round(CasePoints(tests) * Worth, CaseTotal * 100)
  IN IF tests = NoTests \/ (~Partial /\ points < Worth) THEN 0 ELSE points

\* update_contest.
ContestPoints(tests) ==
  IF tests = NoTests THEN 0
  ELSE AllOrNothing(Round(CasePoints(tests) * ContestWorth, CaseTotal), ContestWorth)

-----------------------------------------------------------------------------
(* The formats: from the submissions to the row.                           *)

Result(s) ==
  IF s.status # "D" THEN s.status
  ELSE IF \A c \in Cases : s.tests[c] = 1 THEN "AC" ELSE "WA"

All == {subs[i] : i \in DOMAIN subs}
To(p) == {s \in All : s.problem = p}
Tried == {s.problem : s \in All}

AtLeast0(n) == IF n < 0 THEN 0 ELSE n
Row(score, cumtime, tie) == [score |-> score, cumtime |-> cumtime, tie |-> tie]

\* What the query of a format returns of a problem: the points that count, and a time.
DefaultRow(p) ==
  [points |-> Max({s.points : s \in To(p)}), time |-> Max({s.date : s \in To(p)})]

\* Variant with a bug: the order is not a descending one.
FirstAscending(p) == CHOOSE s \in To(p) : \A r \in To(p) : s.points <= r.points

\* The first by descending points; the query keeps those with as many as it has.
FirstByPoints(p) == CHOOSE s \in To(p) : \A r \in To(p) : r.points <= s.points
LegacyIoiRow(p) ==
  LET kept == {s \in To(p) : s.points = FirstByPoints(p).points}
  IN [points |-> FirstByPoints(p).points, time |-> Min({s.date : s \in kept})]

IcpcRow(p) ==
  LET points == Max({s.points : s \in To(p)})
  IN [points |-> points, time |-> Min({s.date : s \in {s \in To(p) : s.points = points}})]

AtCoderRow(p) ==
  LET score == Max({s.points : s \in To(p)})
  IN [points |-> score, time |-> Min({s.date : s \in {s \in To(p) : s.points = score}})]

Scored(rows) == {p \in Tried : rows[p].points > 0}

\* Variant with a bug: the points of a problem replace the sum before.
PointsOfOne(rows) == Max({rows[p].points : p \in {p \in Tried : p = subs[Len(subs)].problem}} \cup {0})

SumOfPoints(rows) == SumFunction([p \in Tried |-> rows[p].points])
SumOfTimes(rows) == SumFunction([p \in Scored(rows) |-> rows[p].time])
LatestTime(rows) == Max({rows[p].time : p \in Scored(rows)} \cup {0})

Default ==
  LET rows == [p \in Tried |-> DefaultRow(p)] IN Row(SumOfPoints(rows), SumOfTimes(rows), 0)

LegacyIoi ==
  LET rows == [p \in Tried |-> LegacyIoiRow(p)]
  IN Row(SumOfPoints(rows), AtLeast0(SumOfTimes(rows)), 0)

\* The ioi format adds up the best results of the groups, with the latest of
\* their times; the cases without a batch form a group like a batch does.
Graded(p) == {s \in To(p) : s.status = "D"}
Judged == {p \in Tried : Graded(p) # {}}
Groups == {BatchOf[c] : c \in Cases}
Group(s, g) == Min(InBatch(s.tests, g))
Top(p, g) == Max({Group(s, g) : s \in Graded(p)})
FirstTop(p, g) == Min({s.date : s \in {s \in Graded(p) : Group(s, g) = Top(p, g)}})
IoiTotal(p) == 1000 * SumFunction([g \in Groups |-> Top(p, g)])
IoiTime(p) == Max({FirstTop(p, g) : g \in Groups})

Ioi ==
  Row(SumFunction([p \in Judged |-> IoiTotal(p)]),
      SumFunction([p \in {p \in Judged : IoiTotal(p) > 0} |-> IoiTime(p)]), 0)

\* The ecoo format takes the last submission with a result, with two bonuses.
Valid(p) == {s \in To(p) : Result(s) \notin {"CE", "IE"}}
Counted == {p \in Tried : Valid(p) # {}}
LastValid(p) == CHOOSE s \in Valid(p) : \A r \in Valid(p) : r.date <= s.date
FirstAc(p) == Cardinality(Valid(p)) = 1 /\ LastValid(p).points = ContestWorth
Bonus(p) ==
  IF LastValid(p).points = 0 THEN 0
  ELSE (IF FirstAc(p) THEN FirstAcBonus ELSE 0)
       + (IF TimeBonus > 0 THEN 1000 * ((End - LastValid(p).date) \div TimeBonus) ELSE 0)

Ecoo ==
  Row(SumFunction([p \in Counted |-> LastValid(p).points + Bonus(p)]),
      SumFunction([p \in Counted |-> LastValid(p).date]), 0)

\* Variant with a bug: the best submission is not among the tries.
TriesBefore(p, time) ==
  {s \in To(p) : s.date < time /\ Result(s) \notin {"QU", "IE", "CE"}}

\* What the penalty counts: up to the first best submission, that have a result.
Tries(p, time) ==
  {s \in To(p) : s.date <= time /\ Result(s) \notin {"QU", "IE", "CE"}}

Penalties(rows) ==
  SumFunction([p \in Scored(rows) |-> (Cardinality(Tries(p, rows[p].time)) - 1) * Penalty])

Icpc ==
  LET rows == [p \in Tried |-> IcpcRow(p)]
  IN Row(SumOfPoints(rows), SumOfTimes(rows) + Penalties(rows), LatestTime(rows))

AtCoder ==
  LET rows == [p \in Tried |-> AtCoderRow(p)]
  IN Row(SumOfPoints(rows), LatestTime(rows) + Penalties(rows), 0)

\* format.update_participation.
Results ==
  CASE format = "default" -> Default
    [] format = "legacy_ioi" -> LegacyIoi
    [] format = "ioi" -> Ioi
    [] format = "ecoo" -> Ecoo
    [] format = "icpc" -> Icpc
    [] format = "atcoder" -> AtCoder

\* Variant with a bug: a disqualified row keeps its results.
RowAsComputed(dq) ==
  [score |-> Results.score, cumtime |-> Results.cumtime, tie |-> Results.tie, dq |-> dq]

\* What recompute_results leaves in the row.
Recomputed(dq) ==
  IF dq THEN [score |-> -9999, cumtime |-> 0, tie |-> 0, dq |-> TRUE]
  ELSE [score |-> Results.score, cumtime |-> Results.cumtime, tie |-> Results.tie, dq |-> FALSE]

-----------------------------------------------------------------------------
(* Submissions.                                                            *)

Goto(t, step) == thread' = [thread EXCEPT ![t] = step]
NotTheRow == UNCHANGED <<format, part, decided>>

Submit(p) ==
  /\ Len(subs) < MaxSubs
  /\ subs' = Append(subs, [problem |-> p, date |-> Len(subs) + 1, status |-> "QU",
                           tests |-> NoTests, full |-> 0, points |-> 0])
  /\ NotTheRow /\ UNCHANGED <<thread, raced, failed, overtaken, rejudges, edits>>

\* judge_submission: the points in the contest are kept.
Rejudge(i) ==
  /\ rejudges < MaxRejudges /\ rejudges' = rejudges + 1
  /\ subs[i].status # "QU"
  /\ subs' = [subs EXCEPT ![i].status = "QU", ![i].tests = NoTests, ![i].full = 0]
  /\ NotTheRow /\ UNCHANGED <<thread, raced, failed, overtaken, edits>>

\* A thread is between its read of the submission and the last write it makes from it.
UsesOldRead(t, i) == thread[t].at \in {"rescore", "points"} /\ thread[t].sub = i

\* on_grading_end saves the submission, then calls update_contest.
GradingEnd(t, i, tests) ==
  /\ thread[t] = Idle /\ subs[i].status = "QU"
  /\ subs' = [subs EXCEPT ![i].status = "D", ![i].tests = tests, ![i].full = Points(tests)]
  /\ overtaken' = IF \E u \in Threads : UsesOldRead(u, i) THEN overtaken \cup {i} ELSE overtaken
  /\ Goto(t, [at |-> "points", sub |-> i, tests |-> tests])
  /\ NotTheRow /\ UNCHANGED <<raced, failed, rejudges, edits>>

\* on_compile_error, on_internal_error: the contest is not told.
Fail(i, status) ==
  /\ subs[i].status = "QU"
  /\ subs' = [subs EXCEPT ![i].status = status]
  /\ failed' = TRUE
  /\ NotTheRow /\ UNCHANGED <<thread, raced, overtaken, rejudges, edits>>

\* rescore_problem takes the submissions as its query read them, whatever their status,
\* and saves the points of each when its turn comes.
Rescore(t, i) ==
  /\ edits < MaxEdits /\ edits' = edits + 1
  /\ thread[t] = Idle
  /\ Goto(t, [at |-> "rescore", sub |-> i, tests |-> subs[i].tests])
  /\ NotTheRow /\ UNCHANGED <<subs, raced, failed, overtaken, rejudges>>

SaveRescored(t) ==
  /\ thread[t].at = "rescore"
  /\ subs' = [subs EXCEPT ![thread[t].sub].full = Rescored(thread[t].tests)]
  /\ Goto(t, [at |-> "points", sub |-> thread[t].sub, tests |-> thread[t].tests])
  /\ NotTheRow /\ UNCHANGED <<raced, failed, overtaken, rejudges, edits>>

-----------------------------------------------------------------------------
(* The row.                                                                *)

SetPoints(t) ==
  /\ thread[t].at = "points"
  /\ subs' = [subs EXCEPT ![thread[t].sub].points = ContestPoints(thread[t].tests)]
  /\ Goto(t, [at |-> "load"])
  /\ NotTheRow /\ UNCHANGED <<raced, failed, overtaken, rejudges, edits>>

\* The participation is loaded and recomputed in memory.
Compute(t, dq) ==
  /\ Goto(t, [at |-> "save", row |-> Recomputed(dq)])
  /\ raced' = (raced \/ \E u \in Threads : thread[u].at = "save")
  /\ UNCHANGED <<format, part, subs, failed, overtaken, rejudges>>

Load(t) ==
  /\ thread[t].at = "load" /\ Compute(t, part.dq)
  /\ UNCHANGED <<decided, edits>>

\* set_disqualified.
SetDisqualified(t) ==
  /\ edits < MaxEdits /\ edits' = edits + 1
  /\ thread[t] = Idle /\ Compute(t, ~part.dq)
  /\ decided' = ~part.dq

\* Variant with a bug: the time is not saved.
SaveScore(t) ==
  /\ thread[t].at = "save"
  /\ part' = [thread[t].row EXCEPT !.cumtime = part.cumtime]
  /\ Goto(t, Idle)
  /\ UNCHANGED <<format, subs, decided, raced, failed, overtaken, rejudges, edits>>

\* The whole row is written, is_disqualified with it.
Save(t) ==
  /\ thread[t].at = "save"
  /\ part' = thread[t].row
  /\ Goto(t, Idle)
  /\ UNCHANGED <<format, subs, decided, raced, failed, overtaken, rejudges, edits>>

Next ==
  \/ \E p \in Problems : Submit(p)
  \/ \E i \in DOMAIN subs :
       \/ Rejudge(i)
       \/ \E status \in {"CE", "IE"} : Fail(i, status)
       \/ \E t \in Threads : Rescore(t, i) \/ \E tests \in Outcomes : GradingEnd(t, i, tests)
  \/ \E t \in Threads : SaveRescored(t) \/ SetPoints(t) \/ Load(t) \/ SetDisqualified(t) \/ Save(t)

Spec == Init /\ [][Next]_scoringVars
-----------------------------------------------------------------------------
AtRest == \A t \in Threads : thread[t] = Idle
Quiet == AtRest /\ \A s \in All : s.status # "QU"

\* When everything is graded and no thread is at work, the row is what the format
\* makes of the submissions and of the last decision about it, unless two threads
\* recomputed at a time (the later one may have read less, or another flag) or a
\* submission ended without points, which recomputes nothing.
RowIsCurrent ==
  Quiet /\ ~raced /\ ~failed /\ subs # <<>> => part = Recomputed(decided)

\* A disqualified participation has the score of one, in all interleavings, and
\* another has not.
DisqualifiedIsLast == IF part.dq THEN part.score = -9999 ELSE part.score >= 0

\* The time of a participation, a positive integer in the database, only becomes
\* negative while a submission is rejudged or has lost its result by it.
TimeNotNegative == rejudges = 0 => part.cumtime >= 0

\* Another submission never costs points, and rescoring the problem does not either,
\* unless the format counts the last one, something is judged again, recomputations
\* overlap, or a grading overtakes the rescoring: it then writes the points of the
\* submission as it was before.
ScoreNeverDrops ==
  [][part'.score < part.score =>
       \/ format = "ecoo" \/ rejudges > 0 \/ raced \/ overtaken # {}
       \/ part'.dq # part.dq]_scoringVars

\* The four queries for the best submissions to a problem, each written its own way,
\* find the same points, and the three that ask for the first of them the same time.
\* Without rejudges a problem with one case outside of the batches at most (the IOI format
\* takes several for a batch) is worth as much to it as its best submission at least.
FormatsAgree ==
  /\ \A p \in Tried : /\ LegacyIoiRow(p) = IcpcRow(p) /\ LegacyIoiRow(p) = AtCoderRow(p)
                      /\ LegacyIoiRow(p).points = DefaultRow(p).points
  /\ AtRest /\ rejudges = 0 /\ Cardinality(Unbatched) <= 1 /\ ContestWorth = 1000 * CaseTotal
       => Ioi.score >= Default.score

\* Whether graded or rescored, a submission has the problem's points exactly if
\* it passes all cases, where the points of the problem are a multiple of a tenth
\* and at least a tenth for each case.  Excepted is one whose grading ended while a
\* rescoring had read but not saved it, which writes what it was worth before.
FullIffComplete ==
  Worth % 100 = 0 /\ Worth >= 100 * CaseTotal =>
    \A i \in DOMAIN subs : subs[i].status = "D" /\ i \notin overtaken =>
      (subs[i].full >= Worth <=> CasePoints(subs[i].tests) = CaseTotal)
=============================================================================
