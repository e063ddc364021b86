------------------------------ MODULE Decisions ------------------------------
(***************************************************************************)
(* Decisions that are computed from an agent's answer or from a position's *)
(* data, each in one step: the evaluation of the rules, the buy tracker's  *)
(* normalisation, the score of a position, the trend of a series.          *)
(***************************************************************************)
EXTENDS DecisionRules, PositionScore

CONSTANTS RuleInputs,      \* bound: answers evaluated
          TrackerInputs,   \* bound: answers normalised, with their evidence
          ScoreInputs,     \* bound: positions scored, with their market
          SeriesInputs     \* bound: series whose direction is computed

VARIABLES given,           \* what is decided on
          decided          \* the decision, None before

decisionVars == <<given, decided>>

------------------------------------------------------------------------------
(***************************************************************************)
(* The buy tracker's decision.  A model scores five dimensions; what it    *)
(* answers is normalised against the evidence that was fetched: hard gates *)
(* override the score, and only exceptional evidence makes a strong buy.   *)
(* The rules stored with the activity are evaluated afterwards, from what  *)
(* was normalised.                                                         *)
(*                                                                         *)
(* None is a value that is missing or unusable.  The texts (reason, what   *)
(* is waited for) are left out.                                            *)
(***************************************************************************)
Dimensions == {"value_entry", "trend", "momentum", "income", "calendar"}

EvidenceFields ==
    {"price", "high", "sma50", "sma200", "rsi", "macd", "stochastic", "dividend", "latest",
     "growthYears", "cut", "payout", "target", "earnings", "ma", "oscillators"}

NoPages == [f \in EvidenceFields |-> None]

(* build_buy_tracker_evidence: what was adapted before is kept, the pages  *)
(* fill in what is missing.                                                *)
EvidenceOf(seed, pages) ==
    [f \in EvidenceFields |-> IF seed[f] # None THEN seed[f] ELSE pages[f]]

Positive(x) == x # None /\ x > 0

(* _percent_from_baseline: both are there and positive, and the value is   *)
(* at least, above, at most so many percent away from the baseline.        *)
Comparable(value, base) == Positive(value) /\ Positive(base)
PercentOver(value, base, p) == Comparable(value, base) /\ 100 * (value - base) > p * base
PercentFrom(value, base, p) == Comparable(value, base) /\ 100 * (value - base) >= p * base
PercentUpTo(value, base, p) == Comparable(value, base) /\ 100 * (value - base) <= p * base
PercentUnder(value, base, p) == Comparable(value, base) /\ 100 * (value - base) < p * base

--------------------------------------------------------------------------
(* The gates, by the flag that stands for each. *)

AvoidGates == {"dividend_cut_or_suspended", "triple_bearish_breakdown"}
WaitGates == {"earnings_within_2_days", "rsi_over_80", "price_extended_above_mas"}

(* Whether the evidence decides, and how. *)
Available(e, gate) ==
    CASE gate = "dividend_cut_or_suspended" -> e.cut # None
      [] gate = "triple_bearish_breakdown" ->
            e.oscillators # None /\ e.ma # None /\ Comparable(e.price, e.sma200)
      [] gate = "earnings_within_2_days" -> e.earnings # None
      [] gate = "rsi_over_80" -> e.rsi # None
      [] gate = "price_extended_above_mas" ->
            Comparable(e.price, e.sma50) /\ Comparable(e.price, e.sma200)

Shown(e, gate) ==
    CASE gate = "dividend_cut_or_suspended" -> e.cut
      [] gate = "triple_bearish_breakdown" ->
            {e.oscillators, e.ma} = {"STRONG_SELL"} /\ PercentUnder(e.price, e.sma200, -10)
      [] gate = "earnings_within_2_days" -> e.earnings <= 2
      [] gate = "rsi_over_80" -> e.rsi > 80
      [] gate = "price_extended_above_mas" ->
            PercentOver(e.price, e.sma50, 10) /\ PercentOver(e.price, e.sma200, 15)

(* The model's flag counts only where there is no evidence.                *)
Triggered(e, flags, gate) == IF Available(e, gate) THEN Shown(e, gate) ELSE gate \in flags

Closed(e, flags, gates) == {gate \in gates : Triggered(e, flags, gate)}

(* _buy_tracker_exceptional_gate                                           *)
Exceptional(e) ==
    /\ Positive(e.price) /\ Positive(e.high) /\ 100 * (e.high - e.price) \in 8 * e.high .. 20 * e.high
    /\ PercentFrom(e.price, e.sma50, -5) /\ PercentUpTo(e.price, e.sma50, 2)
    /\ Comparable(e.price, e.sma200) /\ e.price >= e.sma200
    /\ Comparable(e.sma50, e.sma200) /\ e.sma50 >= e.sma200
    /\ e.rsi # None /\ e.rsi \in 25 .. 45
    /\ e.macd = "BUY" /\ e.stochastic = "BUY"
    /\ Positive(e.dividend) /\ Positive(e.latest) /\ Positive(e.growthYears)
    /\ e.cut # TRUE
    /\ e.payout # None /\ e.payout <= 75
    /\ PercentFrom(e.target, e.price, 5)
    /\ e.earnings # None /\ e.earnings > 7

--------------------------------------------------------------------------
(* normalize_buy_tracker_activity *)

Invalid(a) == {d \in Dimensions : a.breakdown[d] \notin {-1, 0, 1}}

Breakdown(a) == [d \in Dimensions |-> IF d \in Invalid(a) THEN 0 ELSE a.breakdown[d]]

Score(a) == FoldFunction(+, 0, Breakdown(a))

OfScore(score) ==
    CASE score <= -3 -> "AVOID"
      [] score \in {-2, -1} -> "UNFAVORABLE"
      [] score \in {0, 1} -> "WAIT"
      [] score \in {2, 3} -> "ACCUMULATE"
      [] score >= 4 -> "BUY"

TooLittle(a) == Cardinality(Invalid(a)) >= 3

Base(a) ==
    IF TooLittle(a) /\ OfScore(Score(a)) \in {"ACCUMULATE", "BUY"} THEN "WAIT" ELSE OfScore(Score(a))

(* The gates to avoid come before those to wait, these before the score.   *)
Decided(a, e) ==
    LET waits == Closed(e, a.flags, WaitGates)
    IN  IF Closed(e, a.flags, AvoidGates) # {} THEN "AVOID"
        ELSE IF waits # {} /\ Base(a) \in {"ACCUMULATE", "BUY"} THEN "WAIT"
        ELSE IF Score(a) = 5 /\ waits = {} /\ Exceptional(e) THEN "STRONG_BUY"
        ELSE Base(a)

Entries == {"ACCUMULATE", "BUY", "STRONG_BUY"}

(* What the answer said is taken over only if it says what was decided.    *)
Changed(a, e) == a.activity # Decided(a, e) \/ a.score # Score(a) \/ Invalid(a) # {}

(* The flag that says why, of a decision that differs from the answer.     *)
Why(a, e) ==
    CASE Decided(a, e) = "BUY" /\ Score(a) = 5 /\ ~Exceptional(e) -> {"exceptional_gate_not_met"}
      [] Decided(a, e) = "WAIT" /\ Closed(e, a.flags, WaitGates) = {} /\ ~TooLittle(a) ->
            {"score_below_buy_threshold"}
      [] Decided(a, e) = "UNFAVORABLE" -> {"score_unfavorable"}
      [] Decided(a, e) = "AVOID" /\ Closed(e, a.flags, AvoidGates) = {} ->
            {"score_below_avoid_threshold"}
      [] OTHER -> {}

Flags(a, e) ==
    (IF Changed(a, e) THEN Why(a, e) ELSE a.flags \ (AvoidGates \cup WaitGates))
        \cup (IF TooLittle(a) THEN {"insufficient_data"} ELSE {})
        \cup Closed(e, a.flags, AvoidGates \cup WaitGates)
        \cup {d \o "_invalid" : d \in Invalid(a)}

(* An entry zone is kept when the price is in it; otherwise one is made    *)
(* around the price, if there is one.                                      *)
ZoneHolds(zone, e) == zone # None /\ 0 < zone[1] /\ zone[1] < zone[2] /\ e.price \in zone[1] .. zone[2]

Zone(a, e) ==
    IF Decided(a, e) \notin Entries \/ ~Positive(e.price) THEN None
    ELSE IF ZoneHolds(a.zone, e) THEN a.zone ELSE <<(98 * e.price) \div 100, (102 * e.price) \div 100>>

Normalised(a, e) ==
    [breakdown |-> Breakdown(a), score |-> Score(a), activity |-> Decided(a, e),
     flags |-> Flags(a, e), zone |-> Zone(a, e)]

--------------------------------------------------------------------------
(* build_buy_tracker_rules *)

DimensionRule(d, n) ==
    Mild(d, CASE n.breakdown[d] = 1 -> "pass" [] n.breakdown[d] = 0 -> "warning"
              [] n.breakdown[d] = -1 -> "fail" [] OTHER -> "unknown")

GateRule(gate, n, e) ==
    LET closed == Triggered(e, n.flags, gate)
    IN  Rule(gate, IF closed THEN "blocked" ELSE IF Available(e, gate) THEN "not_applicable"
                   ELSE "unknown", closed)

(* The evidence handed over is adapted once more.                          *)
TrackerRules(n, evidence) ==
    LET e == EvidenceOf(evidence, NoPages)
    IN  {DimensionRule(d, n) : d \in Dimensions} \cup
        {GateRule(gate, n, e) : gate \in AvoidGates \cup WaitGates}

(* _is_alert                                                               *)
Alerts(activity) ==
    activity \notin {"WAIT", "HOLD", "DO_NOTHING", "DOING_NOTHING", "SKIPPED", "UNFAVORABLE", "AVOID"}

------------------------------------------------------------------------------
(* The four decisions. *)

Given(kind, x) == [kind |-> kind, of |-> x]

Inputs ==
    {Given("rules", x) : x \in RuleInputs} \cup {Given("tracker", x) : x \in TrackerInputs} \cup
    {Given("score", x) : x \in ScoreInputs} \cup {Given("series", x) : x \in SeriesInputs}

Evaluated(x) == Evaluation(x.agent, x.category, x.answer, x.rolled)

Scored(x) == [put |-> Analysed("put", x.position, x.market, TRUE, 100),
              call |-> Analysed("call", x.position, x.market, TRUE, 100)]

Evaluates == given.kind = "rules" /\ decided' = Evaluated(given.of)

Normalises ==
    given.kind = "tracker" /\ decided' = Normalised(given.of.answer, given.of.evidence)

Scores == given.kind = "score" /\ decided' = Scored(given.of)

Trends == given.kind = "series" /\ decided' = TrendOf(given.of)

DecideInit == given \in Inputs /\ decided = None

DecideNext ==
    /\ decided = None
    /\ Evaluates \/ Normalises \/ Scores \/ Trends
    /\ UNCHANGED given

Decisive(kind) == given.kind = kind /\ decided # None

--------------------------------------------------------------------------
(* The fields the rules read as data; None is one the answer left out.     *)
Removable ==
    {"gate", "dte", "delta", "premium", "ivRank", "riskRating", "technical", "strike", "support",
     "moneyness", "takeProfit", "bias", "assignment", "newStrike", "newExpiration", "tier",
     "optimization", "earnings"}

(* What the answer says of a quote to buy the option back at.              *)
QuoteFields == {"ask", "rollAvailable", "available"}

With(a, field, value) == IF a = None THEN None ELSE [a EXCEPT ![field] = value]

Answered(input, field, value) ==
    Evaluated([input EXCEPT !.answer = With(@, field, value), !.rolled = With(@, field, value)])

Verdicts(evaluation) == Range(FlattenSeq(evaluation.phases))

Undecided(v) == v.status \in {"unknown", "not_applicable"} /\ ~v.blocking

(* Data the rules read may be missing: every verdict that depends on it    *)
(* becomes an unknown, or a rule that does not apply, never a pass and     *)
(* never a blocker; the rest stays.  But a quote that is no longer spoken  *)
(* of counts as one that is there, unless the answer denies it elsewhere:  *)
(* then the verdicts may also be those of an answer with a quote.          *)
Degrades ==
    /\ \A field \in Removable :
          \A v \in Verdicts(Answered(given.of, field, None)) \ Verdicts(decided) : Undecided(v)
    /\ \A field \in QuoteFields :
          \A v \in Verdicts(Answered(given.of, field, None)) \ Verdicts(decided) :
             Undecided(v) \/ v \in Verdicts(Answered(given.of, "ask", 1))

(* The two rules that pass where nothing is said, against the docstring    *)
(* of build_rule_evaluation ("missing data degrades individual rules to    *)
(* status unknown"): the fundamentals of a position, and the premium of a  *)
(* roll or a close.                                                        *)
PassOnSilence == {"fundamental_check", "premium_cross_check"}

(* The answer of which only the activity can be read.                      *)
Emptied(a) ==
    IF a = None THEN None
    ELSE [f \in DOMAIN a |->
             CASE f = "activity" -> a.activity
               [] f = "flags" -> {}
               [] f = "checks" -> [rule \in DOMAIN a.checks |-> None]
               [] f \in {"incomplete", "corrected"} -> FALSE
               [] OTHER -> None]

(* With everything missing at once every verdict is undecided, those two   *)
(* rules apart.                                                            *)
SilenceIsUnknown ==
    LET empty == [given.of EXCEPT !.answer = Emptied(@), !.rolled = Emptied(@)]
    IN  \A v \in Verdicts(Evaluated(empty)) : v.rule \in PassOnSilence \/ Undecided(v)

(* The blocker named is one of the verdicts that block, and there is one   *)
(* whenever a verdict blocks; of a roll it is the assessment's if it had   *)
(* one.                                                                    *)
NamesBlocker ==
    LET blockers == {v.rule : v \in {u \in Verdicts(decided) : u.blocking}}
        first == {v.rule : v \in {u \in Range(Head(decided.phases)) : u.blocking}}
    IN  /\ blockers = {} <=> decided.blocker = None
        /\ blockers # {} => decided.blocker \in blockers
        /\ first # {} => decided.blocker \in first

(* The explanation stored with an activity does not invent: data that is   *)
(* missing decides no rule, and an answer that says nothing decides only   *)
(* the two of PassOnSilence; the first blocker is one that blocks.         *)
RulesExplain == Decisive("rules") => Degrades /\ SilenceIsUnknown /\ NamesBlocker

(* The explanation of a buy tracker's decision names the gates that made   *)
(* it, though it is computed afterwards, from the flags the normalisation  *)
(* left: the gates blocked are those that were closed for the decision,    *)
(* none of them when the decision is to buy, and the gates to avoid force  *)
(* AVOID.  A zone to enter at is stored with entries only, and holds the   *)
(* price.                                                                  *)
GatesExplain ==
    Decisive("tracker") =>
    LET answer == given.of.answer
        e == given.of.evidence
        blocked == {v.rule : v \in {u \in TrackerRules(decided, e) : u.status = "blocked"}}
    IN  /\ blocked = Closed(e, answer.flags, AvoidGates \cup WaitGates)
        /\ Alerts(decided.activity) => blocked = {}
        /\ blocked \cap AvoidGates # {} => decided.activity = "AVOID"
        /\ decided.zone # None => Alerts(decided.activity) /\ ZoneHolds(decided.zone, e)

(* The market as the other side sees it.                                   *)
Opposite(trend) ==
    Trend(CASE trend.way = "improving" -> "worsening" [] trend.way = "worsening" -> "improving"
            [] OTHER -> "flat", trend.strength)

Mirror(m) ==
    [m EXCEPT !.rsi = 100 - m.rsi, !.rsiTrend = Opposite(m.rsiTrend),
              !.macdTrend = Opposite(m.macdTrend)]

(* Closer to the money, or with less profit at hand.                       *)
Worse(p) ==
    {[p EXCEPT !.delta = d] : d \in {x \in {30, 45, 55} : p.delta # None /\ x > p.delta}} \cup
    {[p EXCEPT !.pnl = x] : x \in {x \in {-30, 0, 75} : p.pnl # None /\ x < p.pnl}}

(* Puts and calls are scored by two functions that must be each other's    *)
(* image: a put's score in a market is the call's in the mirrored market.  *)
(* (RSI 50 apart, README.)  And no position is scored higher for being     *)
(* closer to the money or at a greater loss.                               *)
SidesAgree ==
    LET p == given.of.position
        m == given.of.market
    IN  /\ m.rsi # 50 => decided.put = Analysed("call", p, Mirror(m), TRUE, 100)
        /\ \A q \in Worse(p) : /\ PutScore(q, m) <= decided.put.score
                               /\ CallScore(q, m) <= decided.call.score

(* A series that never falls is not seen as falling, one that never rises  *)
(* not as rising, below zero as above it.                                  *)
TrendFollows ==
    LET s == SelectSeq(given.of, LAMBDA v : v # None)
    IN  /\ (\A i \in 1 .. Len(s) - 1 : s[i] <= s[i + 1]) => decided.way # "worsening"
        /\ (\A i \in 1 .. Len(s) - 1 : s[i] >= s[i + 1]) => decided.way # "improving"

ScoresFair ==
    /\ Decisive("score") => SidesAgree
    /\ Decisive("series") => TrendFollows

(* What is stored as the explanation of a decision is why it was made.     *)
ExplanationsHold == RulesExplain /\ GatesExplain
=============================================================================
