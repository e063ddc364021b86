----------------------------- MODULE ScoreHistory -----------------------------
(***************************************************************************)
(* The scores of one position over several sessions: each run of the       *)
(* monitor writes a reading and scores it, the daily job writes a scored   *)
(* reading with the gap carried over.  The raw score is smoothed and the   *)
(* status debounced over sessions, not runs, and the gap's crossing of the *)
(* score is dated.  Runs that overtake one another are PositionMonitor's   *)
(* subject.                                                                *)
(*                                                                         *)
(* Time is in half-days, gaps in percent, smoothed scores in tenths.       *)
(***************************************************************************)
EXTENDS Absent, Integers, Sequences, FiniteSets, SequencesExt, FiniteSetsExt

CONSTANTS RawResults,     \* bound: what a scoring of one run may give
          Gaps,           \* bound: gaps a run may find
          ScoringWindow,  \* _SCORING_WINDOW, in readings
          LastTime,       \* bound on time
          MaxReadings     \* bound on their number
VARIABLE readings         \* snapshots of the position, oldest first

historyVars == <<readings>>

Window == 3               \* _SMOOTHING_WINDOW, in sessions, today included

Session(at) == at \div 2

Unscored(at, gap) ==
    [at |-> at, gap |-> gap, score |-> None, status |-> None, smoothed |-> None,
     debounced |-> None, crossed |-> None, crossAt |-> None]

(* Those of a sequence at some places, in order.                           *)
At(s, places) == LET order == SetToSortSeq(places, <) IN [k \in 1 .. Len(order) |-> s[order[k]]]

LastN(s, n) == SubSeq(s, Max({1, Len(s) - n + 1}), Len(s))

EveryRun(s, today) ==                          \* mutant
    At(s, {i \in DOMAIN s : \A j \in DOMAIN s : j > i => Session(s[j].at) # Session(s[i].at)})

(* _latest_per_session: one reading of each session but today's.           *)
LatestPerSession(s, today) ==
    At(s, {i \in DOMAIN s : /\ Session(s[i].at) # today
                            /\ \A j \in DOMAIN s : j > i => Session(s[j].at) # Session(s[i].at)})

Prior(s, today) ==
    LastN(LatestPerSession(SelectSeq(s, LAMBDA r : r.score # None), today), Window - 1)

(* The mean, to one decimal.                                               *)
Smoothed(s, score, today) ==
    LET scores == Append([k \in DOMAIN Prior(s, today) |-> Prior(s, today)[k].score], score)
        n == Len(scores)
    IN  (20 * FoldLeft(LAMBDA sum, x : sum + x, 0, scores) + n) \div (2 * n)

(* Two sessions of the window agree, or today's status stands.             *)
Debounced(s, status, today) ==
    LET statuses == Append([k \in DOMAIN Prior(s, today) |-> Prior(s, today)[k].status], status)
        agreed == {x \in Range(statuses) : Cardinality({k \in DOMAIN statuses : statuses[k] = x}) >= 2}
    IN  IF agreed # {} THEN CHOOSE x \in agreed : TRUE ELSE status

--------------------------------------------------------------------------
(* detect_dps_gap_divergence: two series, each on the scale of its own     *)
(* range, so both distances have one denominator.                          *)

Values(s) == {s[k] : k \in DOMAIN s}
Span(s) == IF Cardinality(Values(s)) = 1 THEN 2 ELSE Max(Values(s)) - Min(Values(s))
Scaled(s) ==
    [k \in DOMAIN s |-> IF Cardinality(Values(s)) = 1 THEN 1 ELSE s[k] - Min(Values(s))]

Distances(scores, gaps) ==
    [k \in DOMAIN scores |-> Scaled(scores)[k] * Span(gaps) - Scaled(gaps)[k] * Span(scores)]

(* Walks the distances: a crossing is noted when they turn negative.       *)
LastCrossing(d) ==
    FoldLeft(LAMBDA c, k : IF d[k] < 0 /\ c.above THEN [at |-> k, above |-> FALSE]
                           ELSE IF d[k] >= 0 THEN [c EXCEPT !.above = TRUE] ELSE c,
             [at |-> None, above |-> TRUE], [k \in DOMAIN d |-> k]).at

NoSignal == [crossed |-> None, crossAt |-> None]

(* The sessions compared, today with the gap last read.                    *)
Compared(s, smoothed, at) ==
    LET scored == SelectSeq(s, LAMBDA r : r.smoothed # None /\ r.gap # None)
        today == [Unscored(at, Last(s).gap) EXCEPT !.smoothed = smoothed]
    IN  Append(LatestPerSession(scored, Session(at)), today)

DistancesOf(sessions) ==
    Distances([k \in DOMAIN sessions |-> sessions[k].smoothed],
              [k \in DOMAIN sessions |-> sessions[k].gap])

Divergence(s, smoothed, at) ==
    IF s = <<>> THEN NoSignal
    ELSE IF Last(s).gap = None \/ Len(Compared(s, smoothed, at)) < 3 THEN NoSignal
    ELSE LET sessions == Compared(s, smoothed, at)
             d == DistancesOf(sessions)
             c == LastCrossing(d)
         IN  [crossed |-> Last(d) < 0, crossAt |-> IF c = None THEN None ELSE sessions[c].at]

(* run_dps_analysis of a history: smoothing looks at a window of readings, *)
(* the divergence at all of them.                                          *)
Analysis(s, raw, at) ==
    LET recent == LastN(s, ScoringWindow)
        smoothed == Smoothed(recent, raw.score, Session(at))
        signal == Divergence(s, smoothed, at)
    IN  [score |-> raw.score, status |-> raw.status, smoothed |-> smoothed,
         debounced |-> Debounced(recent, raw.status, Session(at)),
         crossed |-> signal.crossed, crossAt |-> signal.crossAt]

--------------------------------------------------------------------------
ScoredReading(r, a) ==
    [r EXCEPT !.score = a.score, !.status = a.status, !.smoothed = a.smoothed,
              !.debounced = a.debounced, !.crossed = a.crossed, !.crossAt = a.crossAt]

Later == (IF readings = <<>> THEN 0 ELSE Last(readings).at + 1) .. LastTime

(* A run of the monitor: its reading is in the history that is scored.     *)
MonitorReads(at, raw, gap) ==
    LET written == Append(readings, Unscored(at, gap))
    IN  readings' = Append(readings, ScoredReading(Unscored(at, gap), Analysis(written, raw, at)))

(* The daily job: the gap is that of the reading before, if any.           *)
JobReads(at, raw) ==
    LET gap == IF readings = <<>> THEN None ELSE Last(readings).gap
    IN  readings' = Append(readings, ScoredReading(Unscored(at, gap), Analysis(readings, raw, at)))

HistoryInit == readings = <<>>

HistoryNext ==
    /\ Len(readings) < MaxReadings
    /\ \E at \in Later, raw \in RawResults :
          \/ \E gap \in Gaps : MonitorReads(at, raw, gap)
          \/ JobReads(at, raw)

--------------------------------------------------------------------------
(* What a run is given of earlier sessions: the last of each among so many *)
(* readings.                                                               *)
Before(k, n) ==
    {i \in Max({1, k - n}) .. k - 1 :
        /\ Session(readings[i].at) < Session(readings[k].at)
        /\ Session(readings[i + 1].at) # Session(readings[i].at)}

(* Running again in one session, with the same raw result, changes neither *)
(* the smoothed score nor the status shown, as long as the window holds    *)
(* the sessions before: a noisy session weighs once however often it ran.  *)
RunsWeighOnce ==
    \A j, k \in DOMAIN readings :
        /\ j < k /\ Session(readings[j].at) = Session(readings[k].at)
        /\ readings[j].score = readings[k].score /\ readings[j].status = readings[k].status
        /\ Cardinality({Before(i, n) : i \in {j, k}, n \in {ScoringWindow - 1, ScoringWindow}}) = 1
        => /\ readings[j].smoothed = readings[k].smoothed
           /\ readings[j].debounced = readings[k].debounced

(* A crossing that lasts is dated by the session since which the gap has   *)
(* been above the score, however often the lines had crossed before.       *)
CrossingDated ==
    LET n == Len(readings)
        before == SubSeq(readings, 1, n - 1)
        d == DistancesOf(Compared(before, readings[n].smoothed, readings[n].at))
        since == Min({m \in DOMAIN d : \A k \in m .. Len(d) : d[k] < 0})
    IN  n > 1 /\ readings[n].crossed = TRUE /\ readings[n].gap = readings[n - 1].gap
        => readings[n].crossAt =
               Compared(before, readings[n].smoothed, readings[n].at)[since].at

(* What is told of a position's past neither counts a day twice nor dates  *)
(* its last crossing wrongly.                                              *)
HistoryTold == RunsWeighOnce /\ CrossingDated
=============================================================================
