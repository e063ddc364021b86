---------------------------- MODULE PositionScore ----------------------------
(***************************************************************************)
(* The score of an open short option: points for the Greeks, the time that *)
(* is left, the profit at hand and the market's trends; and the status     *)
(* that follows.  A put and a call are scored by two functions, one        *)
(* written after the other.                                                *)
(*                                                                         *)
(* Deltas, gammas, volatilities and profits are in hundredths, None is a   *)
(* value that is missing or not finite.  Reasons, drivers and summaries    *)
(* are left out.                                                           *)
(***************************************************************************)
EXTENDS Absent, Integers, Sequences, FiniteSets, SequencesExt, FiniteSetsExt

--------------------------------------------------------------------------
(* _compute_trend: the direction of a series.  The slope is a quotient of  *)
(* integers, taken relative to the range of the values.                    *)

TrendWindow == 21

Trend(way, strength) == [way |-> way, strength |-> strength]

Flat0 == Trend("flat", None)

Absolute(x) == IF x < 0 THEN -x ELSE x

Total(s) == FoldLeft(LAMBDA sum, x : sum + x, 0, s)

Weighted(s) == Total([i \in 1 .. Len(s) |-> (i - 1) * s[i]])

(* Slope relative to the range: n*Sxy over (n*Sxx * range).                *)
SlopeOver(s) == Len(s) * Weighted(s) - Total([i \in 1 .. Len(s) |-> i - 1]) * Total(s)
SlopeUnder(s) ==
    LET places == [i \in 1 .. Len(s) |-> i - 1]
    IN  (Len(s) * Total([i \in 1 .. Len(s) |-> (i - 1) * (i - 1)]) - Total(places) * Total(places))
            * (Max({s[i] : i \in 1 .. Len(s)}) - Min({s[i] : i \in 1 .. Len(s)}))

SteeperThan(s, percent) == 100 * Absolute(SlopeOver(s)) > percent * SlopeUnder(s)

(* The change is in percent of the size of the first value.                *)
RisesBy(s, percent) == s[1] # 0 /\ 100 * (s[Len(s)] - s[1]) > percent * Absolute(s[1])

MovesBy(s, percent) ==
    s[1] # 0 /\ 100 * Absolute(s[Len(s)] - s[1]) > percent * Absolute(s[1])

TrendOf(series) ==
    LET valid == SelectSeq(series, LAMBDA v : v # None)
        s == SubSeq(valid, Max({1, Len(valid) - TrendWindow + 1}), Len(valid))
    IN  IF Len(valid) < 3 \/ ~(SteeperThan(s, 8) \/ MovesBy(s, 3)) THEN Flat0
        ELSE Trend(IF SlopeOver(s) > 0 \/ RisesBy(s, 3) THEN "improving" ELSE "worsening",
                   IF SteeperThan(s, 30) \/ MovesBy(s, 15) THEN "strong"
                   ELSE IF SteeperThan(s, 15) \/ MovesBy(s, 8) THEN "moderate" ELSE "weak")

LastOr(series, default) ==
    IF series # <<>> /\ Last(series) # None THEN Last(series) ELSE default

(* What is read of the snapshots taken on weekdays, oldest first.          *)
MarketOf(rsis, macds, adxs) ==
    [rsi |-> LastOr(rsis, 50), rsiTrend |-> TrendOf(rsis), macdTrend |-> TrendOf(macds),
     adx |-> LastOr(adxs, 15), adxTrend |-> TrendOf(adxs)]

--------------------------------------------------------------------------
(* Points both functions give alike. *)

Points(strength, strong, moderate, weak, other) ==
    CASE strength = "strong" -> strong [] strength = "moderate" -> moderate
      [] strength = "weak" -> weak [] OTHER -> other

RiskZone(delta) ==
    CASE delta = None -> "UNKNOWN" [] delta # None /\ delta < 30 -> "SAFE"
      [] delta # None /\ delta \in 30 .. 44 -> "MONITOR" [] OTHER -> "ATM_CRITICAL"

DeltaPoints(delta) ==
    CASE RiskZone(delta) = "SAFE" -> 13 [] RiskZone(delta) = "ATM_CRITICAL" -> -13 [] OTHER -> 0

DtePoints(dte, delta) ==
    IF dte > 21 THEN 7
    ELSE CASE RiskZone(delta) = "SAFE" -> 8 [] RiskZone(delta) = "MONITOR" -> -4
           [] RiskZone(delta) = "ATM_CRITICAL" -> -10 [] OTHER -> 0

GammaPoints(gamma, delta) ==
    IF gamma # None /\ RiskZone(delta) = "ATM_CRITICAL" /\ gamma > 5 THEN -8 ELSE 0

IvPoints(iv) ==
    IF iv = None THEN 0
    ELSE CASE iv > 50 -> 7 [] iv \in 36 .. 50 -> 4 [] iv \in 21 .. 35 -> 0
           [] iv \in 11 .. 20 -> -4 [] OTHER -> -7

PnlPoints(pnl) ==
    IF pnl = None THEN 0
    ELSE CASE pnl >= 80 -> 10 [] pnl \in 60 .. 79 -> 7 [] pnl \in 40 .. 59 -> 4
           [] pnl \in 20 .. 39 -> 2 [] pnl \in 0 .. 19 -> 0 [] pnl \in -20 .. -1 -> -4 [] OTHER -> -8

(* Near the greatest profit and near expiry; at a loss and short of time.  *)
PnlDtePoints(pnl, dte) ==
    CASE pnl # None /\ pnl >= 70 /\ dte <= 7 -> 5
      [] pnl # None /\ pnl < -20 /\ dte <= 14 -> -5
      [] OTHER -> 0

IvDtePoints(iv, dte, delta) ==
    IF iv # None /\ delta # None /\ iv > 35 /\ dte <= 14 /\ delta < 45 THEN 6 ELSE 0

(* The profit at the price the contract could be bought back for.          *)
PnlOf(premium, ask) ==
    IF premium # None /\ premium > 0 /\ ask # None /\ ask > 0
    THEN (100 * (premium - ask)) \div premium ELSE None

Alike(p) ==
    50 + DeltaPoints(p.delta) + DtePoints(p.dte, p.delta) + GammaPoints(p.gamma, p.delta)
       + IvPoints(p.iv) + PnlPoints(p.pnl) + PnlDtePoints(p.pnl, p.dte)
       + IvDtePoints(p.iv, p.dte, p.delta)

(* ADX above 25, by its own trend and by whether the price moves away.     *)
AdxPoints(adx, trend, favourable) ==
    CASE adx < 20 -> 8
      [] adx \in 20 .. 25 -> 4
      [] adx > 25 /\ trend.way = "worsening" -> Points(trend.strength, 5, 3, 2, 3)
      [] adx > 25 /\ trend.way = "flat" -> -4
      [] adx > 25 /\ trend.way = "improving" /\ favourable -> Points(trend.strength, -4, -3, -2, -3)
      [] OTHER -> Points(trend.strength, -13, -10, -7, -8)

(* Two trends that agree: three times the mean of their strengths, rounded *)
(* to even.                                                                *)
Strength(trend) == Points(trend.strength, 3, 2, 1, 1)
Agreement(a, b) == <<3, 4, 6, 8, 9>>[Strength(a) + Strength(b) - 1]

Rising(adx, trend) == adx > 25 /\ trend.way = "improving"

Clamped(score) == Max({0, Min({100, score})})

Forced(forced, score) ==
    IF forced # None THEN forced
    ELSE IF score >= 70 THEN "HOLD" ELSE IF score >= 50 THEN "WATCH" ELSE "ROLL"

(* _data_quality_block: without delta or volatility there is no status.    *)
Insufficient(p) == p.delta = None \/ p.iv = None

--------------------------------------------------------------------------
(* score_short_put *)

PutRsi(rsi) == IF rsi < 35 THEN 10 ELSE IF rsi < 50 THEN 4 ELSE IF rsi <= 60 THEN 0 ELSE -4

PutTrend(trend, strong, moderate, weak) ==
    CASE trend.way = "improving" -> Points(trend.strength, strong, moderate, weak, weak)
      [] trend.way = "worsening" -> -Points(trend.strength, strong, moderate, weak, weak)
      [] OTHER -> 0

PutConcordance(m) ==
    IF m.macdTrend.way # m.rsiTrend.way \/ m.macdTrend.way = "flat" THEN 0
    ELSE IF m.macdTrend.way = "improving" THEN Agreement(m.macdTrend, m.rsiTrend)
    ELSE -Agreement(m.macdTrend, m.rsiTrend)

PutScore(p, m) ==
    LET favourable == m.macdTrend.way = "improving"
    IN  Clamped(Alike(p) + PutRsi(m.rsi) + PutTrend(m.rsiTrend, 10, 7, 3)
                + PutTrend(m.macdTrend, 13, 8, 4) + AdxPoints(m.adx, m.adxTrend, favourable)
                + PutConcordance(m)
                + (IF RiskZone(p.delta) = "ATM_CRITICAL" /\ Rising(m.adx, m.adxTrend) /\ ~favourable
                   THEN -5 ELSE 0))

PutForced(p, m) ==
    CASE p.delta # None /\ p.delta >= 45 /\ m.rsi < 35 /\ m.rsiTrend.way = "improving"
            /\ m.macdTrend.way = "improving" /\ m.adxTrend.way = "worsening" -> "HOLD"
      [] p.delta # None /\ p.delta >= 55 /\ Rising(m.adx, m.adxTrend)
            /\ m.macdTrend.way = "worsening" -> "ROLL"
      [] OTHER -> None

PutStatus(p, m) ==
    IF Insufficient(p) THEN "NO_DATA" ELSE Forced(PutForced(p, m), PutScore(p, m))

--------------------------------------------------------------------------
(* score_short_call *)

CallRsi(rsi) == IF rsi > 65 THEN 10 ELSE IF rsi >= 50 THEN 4 ELSE IF rsi >= 40 THEN 0 ELSE -4

CallTrend(trend, strong, moderate, weak) ==
    CASE trend.way = "worsening" -> Points(trend.strength, strong, moderate, weak, weak)
      [] trend.way = "improving" -> -Points(trend.strength, strong, moderate, weak, weak)
      [] OTHER -> 0

CallConcordance(m) ==
    IF m.macdTrend.way # m.rsiTrend.way \/ m.macdTrend.way = "flat" THEN 0
    ELSE IF m.macdTrend.way = "worsening" THEN Agreement(m.macdTrend, m.rsiTrend)
    ELSE -Agreement(m.macdTrend, m.rsiTrend)

CallFavourableCopied(m) == m.macdTrend.way = "improving"           \* mutant
CallFavourable(m) == m.macdTrend.way = "worsening"

CallScore(p, m) ==
    Clamped(Alike(p) + CallRsi(m.rsi) + CallTrend(m.rsiTrend, 10, 7, 3)
            + CallTrend(m.macdTrend, 13, 8, 4) + AdxPoints(m.adx, m.adxTrend, CallFavourable(m))
            + CallConcordance(m)
            + (IF RiskZone(p.delta) = "ATM_CRITICAL" /\ Rising(m.adx, m.adxTrend) /\ ~CallFavourable(m)
               THEN -5 ELSE 0))

CallForced(p, m) ==
    CASE p.delta # None /\ p.delta >= 45 /\ m.rsi > 65 /\ m.rsiTrend.way = "worsening"
            /\ m.macdTrend.way = "worsening" /\ m.adxTrend.way = "worsening" -> "HOLD"
      [] p.delta # None /\ p.delta >= 55 /\ Rising(m.adx, m.adxTrend)
            /\ m.macdTrend.way = "improving" -> "ROLL"
      [] OTHER -> None

CallStatus(p, m) ==
    IF Insufficient(p) THEN "NO_DATA" ELSE Forced(CallForced(p, m), CallScore(p, m))

--------------------------------------------------------------------------
(* run_dps_analysis, without the history: no contract in the chain or no   *)
(* price of the underlying is an error.                                    *)
Analysed(side, p, m, found, price) ==
    IF ~found \/ price = None THEN [status |-> "ERROR", score |-> None]
    ELSE IF side = "put" THEN [status |-> PutStatus(p, m), score |-> PutScore(p, m)]
    ELSE [status |-> CallStatus(p, m), score |-> CallScore(p, m)]
=============================================================================
