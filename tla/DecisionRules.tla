---------------------------- MODULE DecisionRules ----------------------------
(***************************************************************************)
(* The rules by which a stored activity is explained: for every agent a    *)
(* list of verdicts computed from what the model answered, without asking  *)
(* it again.  An answer is a record of the fields the rules read; None is  *)
(* a field that is absent or not a number.                                 *)
(*                                                                         *)
(* Deltas and percentages of premium are in hundredths.  Labels, observed  *)
(* texts and references to the data are left out.                          *)
(***************************************************************************)
EXTENDS Absent, Integers, Sequences, FiniteSets, SequencesExt

CONSTANT NoDate     \* text that is no date

Statuses == {"blocked", "fail", "warning", "unknown", "pass", "not_applicable", "informational"}

(* _STATUS_ORDER: as the verdicts are shown.                               *)
StatusOrder == <<"blocked", "fail", "warning", "unknown", "pass", "not_applicable",
                 "informational">>

Band(lo, hi, floor, wait, rank) ==
    [lo |-> lo, hi |-> hi, floor |-> floor, wait |-> wait, rank |-> rank]

(* CATEGORY_THRESHOLDS_CC and CATEGORY_THRESHOLDS_CSP.                     *)
CallThresholds ==
    [aristocrat  |-> Band(20, 30, 50, 30, None), compounder  |-> Band(15, 25, 60, 40, 30),
     balanced    |-> Band(20, 30, 80, 50, 35),   high_yield  |-> Band(25, 35, 80, 50, 30),
     rising_star |-> Band(10, 20, 80, 50, 40)]

PutThresholds ==
    [aristocrat  |-> Band(25, 35, 80, 50, None), compounder  |-> Band(20, 30, 100, 60, 30),
     balanced    |-> Band(20, 30, 120, 70, 35),  high_yield  |-> Band(25, 35, 100, 60, 25),
     rising_star |-> Band(15, 25, 120, 80, 40)]

(* resolve_category: what is no category counts as balanced.               *)
Category(raw) == IF raw \in DOMAIN CallThresholds THEN raw ELSE "balanced"

Thresholds(agent, raw) ==
    IF agent = "covered_call" THEN CallThresholds[Category(raw)] ELSE PutThresholds[Category(raw)]

--------------------------------------------------------------------------
(* The result of one rule. *)

Rule(rule, status, blocking) == [rule |-> rule, status |-> status, blocking |-> blocking]

Mild(rule, status) == Rule(rule, status, FALSE)

(* _rule_check_for: the model's own verdict on a rule, if it is one.       *)
Checked(a, rule) == IF a.checks[rule] \in Statuses THEN a.checks[rule] ELSE None

(* The model's verdict before the signal the caller found in the answer.   *)
FromChecks(a, rule, fallback, blockingWhen) ==
    LET status == IF Checked(a, rule) # None THEN Checked(a, rule) ELSE fallback
    IN  Rule(rule, status, status \in blockingWhen)

Negative == {"fail", "blocked"}

Flagged(a, flag, status) == IF flag \in a.flags THEN status ELSE "unknown"

SellGate(rule, a) ==
    CASE a.gate = "BLOCKED" -> Rule(rule, "blocked", TRUE)
      [] a.gate = "ALLOWED_WITH_CAUTION" -> Mild(rule, "warning")
      [] a.gate \in {"OPEN_NORMALLY", "ALLOWED", "IDEAL", "CONSERVATIVE_DTE"} -> Mild(rule, "pass")
      [] OTHER -> Mild(rule, "unknown")

MonitorGateUnknown(rule, a) ==                 \* mutant
    IF a.gate \in {"HOLD", "CONSERVATIVE"} THEN Mild(rule, "pass")
    ELSE Rule(rule, "fail", TRUE)

(* A gate the monitors do not know is a failure; an absent one is not.     *)
MonitorGate(rule, a) ==
    CASE a.gate \in {"ROLL_RECOMMENDED", "ROLL_URGENTLY", "CLOSE_OR_ROLL"} -> Rule(rule, "fail", TRUE)
      [] a.gate \in {"FLAG", "FLAG_MEDIUM", "FLAG_HIGH", "HOLD_WITH_CAUTION"} -> Mild(rule, "warning")
      [] a.gate \in {"HOLD", "CONSERVATIVE"} -> Mild(rule, "pass")
      [] a.gate = None -> Mild(rule, "unknown")
      [] OTHER -> Rule(rule, "fail", TRUE)

(* Rules on the contract that is sold apply when one is.                   *)
OfSale(rule, a, value, holds, blocking) ==
    IF a.activity # "SELL" THEN Mild(rule, "not_applicable")
    ELSE IF value = None THEN Mild(rule, "unknown")
    ELSE IF holds THEN Mild(rule, "pass")
    ELSE Rule(rule, "fail", blocking)

DteCap(rule, a) == OfSale(rule, a, a.dte, a.dte # None /\ a.dte <= 45, TRUE)

Size(delta) == IF delta < 0 THEN -delta ELSE delta

DeltaRange(rule, a, band, useAbs) ==
    LET delta == IF a.delta # None /\ useAbs THEN Size(a.delta) ELSE a.delta
    IN  OfSale(rule, a, delta, delta # None /\ band.lo <= delta /\ delta <= band.hi, FALSE)

PremiumFloor(rule, a, band) ==
    OfSale(rule, a, a.premium, a.premium # None /\ a.premium >= band.floor, FALSE)

IvRank(rule, a, band) ==
    CASE a.ivRank = None -> Mild(rule, "unknown")
      [] a.ivRank # None /\ band.rank # None /\ a.ivRank < band.rank -> Mild(rule, "warning")
      [] OTHER -> Mild(rule, "informational")

(* Of a field that is only reported.                                       *)
Reported(rule, value) == Mild(rule, IF value = None THEN "unknown" ELSE "informational")

RiskRating(rule, a) == Reported(rule, a.riskRating)

TechnicalBias(rule, a) == Reported(rule, a.technical)

SupportLevel(rule, a) ==
    IF Checked(a, rule) # None THEN Mild(rule, Checked(a, rule))
    ELSE IF a.strike = None \/ a.support = None THEN Mild(rule, "unknown")
    ELSE Mild(rule, IF a.strike <= a.support THEN "pass" ELSE "fail")

CoveredCallRules(a, band) ==
    <<SellGate("earnings_gate", a), DteCap("dte_cap", a),
      DeltaRange("delta_range", a, band, FALSE), PremiumFloor("premium_floor", a, band),
      IvRank("iv_rank", a, band),
      FromChecks(a, "ex_div_check", Flagged(a, "ex_dividend_risk", "warning"), {}),
      FromChecks(a, "catalyst_check", Flagged(a, "catalyst_pending", "fail"), Negative),
      FromChecks(a, "breakout_check", Flagged(a, "breakout_momentum", "fail"), Negative),
      TechnicalBias("technical_bias", a), RiskRating("risk_rating", a)>>

CashSecuredPutRules(a, band) ==
    <<SellGate("earnings_gate", a), DteCap("dte_cap", a),
      FromChecks(a, "investment_worthiness", "unknown", Negative),
      DeltaRange("delta_range", a, band, TRUE), PremiumFloor("premium_floor", a, band),
      SupportLevel("support_level", a), IvRank("iv_rank", a, band),
      FromChecks(a, "ex_div_check", Flagged(a, "ex_dividend_risk", "warning"), {}),
      FromChecks(a, "catalyst_check", Flagged(a, "catalyst_pending", "fail"), Negative),
      FromChecks(a, "freefall_check", Flagged(a, "breakdown_momentum", "fail"), Negative),
      RiskRating("risk_rating", a)>>

--------------------------------------------------------------------------
(* The monitors: the assessment of a position. *)

Moneyness(rule, a) ==
    Mild(rule, CASE a.moneyness = None -> "unknown"
                     [] a.moneyness = "OTM" -> "pass"
                     [] a.moneyness = "ATM" -> "warning"
                     [] OTHER -> "fail")

DeltaRisk(rule, a) ==
    Mild(rule, IF a.delta = None THEN "unknown"
                   ELSE IF Size(a.delta) < 30 THEN "pass"
                   ELSE IF Size(a.delta) <= 50 THEN "warning" ELSE "fail")

(* _buyback_quote_available: a field for the ask decides, before what the  *)
(* answer says of it; 0 stands for one that nothing can be bought at.      *)
(* None when nothing is said.                                              *)
QuoteAvailable(a) ==
    CASE a.ask # None -> a.ask > 0
      [] a.ask = None /\ a.rollAvailable # None -> a.rollAvailable
      [] a.ask = None /\ a.rollAvailable = None /\ a.available # None -> a.available
      [] OTHER -> IF a.incomplete \/ "incomplete_data" \in a.flags THEN FALSE ELSE None

NoQuote(a) == QuoteAvailable(a) = FALSE

ProfitTarget(rule, a) ==
    Mild(rule, IF NoQuote(a) \/ a.takeProfit = None THEN "unknown"
                   ELSE IF a.takeProfit THEN "pass" ELSE "not_applicable")

NearAtm(rule, a) ==
    Mild(rule, CASE "near_atm_stability" \in a.flags -> "pass"
                     [] "near_atm_stability" \notin a.flags /\ a.moneyness \in {"OTM", "ATM"} -> "not_applicable"
                     [] "near_atm_stability" \notin a.flags /\ a.moneyness = "ITM" -> "fail"
                     [] OTHER -> "unknown")

ExDivRisk(rule, a, applicable) ==
    IF ~applicable THEN Mild(rule, "not_applicable")
    ELSE FromChecks(a, rule, Flagged(a, "ex_dividend_risk", "fail"), Negative)

(* A rule that takes silence for a pass.                                   *)
FundamentalCheck(rule, a) ==
    FromChecks(a, rule,
               IF {"fundamental_deterioration", "analyst_downgrade"} \cap a.flags # {}
               THEN "fail" ELSE "pass", Negative)

MarketBias(rule, a) == Reported(rule, a.bias)

AssignmentRisk(rule, a) ==
    IF Checked(a, rule) # None THEN Mild(rule, Checked(a, rule))
    ELSE Reported(rule, a.assignment)

AssessmentRules(agent, a) ==
    <<MonitorGate("earnings_gate", a), ProfitTarget("profit_target", a),
      Moneyness("moneyness", a), DeltaRisk("delta_risk", a), NearAtm("near_atm_stability", a),
      ExDivRisk("ex_div_risk", a, agent = "open_call_monitor"),
      FundamentalCheck("fundamental_check", a), MarketBias("technical_bias", a),
      AssignmentRisk("assignment_risk", a)>>

--------------------------------------------------------------------------
(* The monitors: a roll. *)

IsRoll(a) == a.activity = "ROLL_OUT"       \* stands for every word that begins with ROLL

RollCandidate(rule, a) ==
    IF NoQuote(a) THEN Mild(rule, "not_applicable")
    ELSE IF IsRoll(a) /\ a.newStrike # None /\ a.newExpiration # None THEN Mild(rule, "pass")
    ELSE IF a.activity = "CLOSE" /\ a.tier = "no_viable_roll" THEN Rule(rule, "fail", TRUE)
    ELSE Mild(rule, IF a.activity = "WAIT" THEN "not_applicable" ELSE "unknown")

RollTier(rule, a) ==
    Mild(rule, CASE NoQuote(a) -> "unknown"
                     [] ~NoQuote(a) /\ a.tier = "credit" -> "pass"
                     [] ~NoQuote(a) /\ a.tier = "ultra_defensive" -> "warning"
                     [] ~NoQuote(a) /\ a.tier \in {None, "no_viable_roll"} -> "not_applicable"
                     [] OTHER -> "unknown")

ProfitOptimization(rule, a) ==
    Mild(rule, IF NoQuote(a) \/ a.optimization # "eligible" THEN "not_applicable"
                   ELSE IF "profit_optimization" \in a.flags THEN "pass" ELSE "fail")

(* So does this one: a premium nothing is known of counts as verified.     *)
PremiumCrossCheck(rule, a) ==
    LET trades == IsRoll(a) \/ a.activity = "CLOSE"
    IN  Mild(rule, IF ~trades THEN "not_applicable"
                       ELSE IF NoQuote(a) THEN "unknown"
                       ELSE IF a.corrected THEN "warning" ELSE "pass")

(* Days from the activity to the new expiration.                           *)
NewDte(rule, a) ==
    Mild(rule, IF a.newExpiration = None THEN "not_applicable"
                   ELSE IF a.newExpiration = NoDate THEN "unknown"
                   ELSE IF 21 <= a.newExpiration /\ a.newExpiration <= 45 THEN "pass"
                   ELSE "warning")

EarningsClear(rule, a) ==
    IF {a.newExpiration, a.earnings} \cap {None, NoDate} # {} THEN Mild(rule, "unknown")
    ELSE IF a.newExpiration - a.earnings \in 0 .. 7 THEN Rule(rule, "fail", TRUE)
    ELSE Mild(rule, "pass")

RollRules(a) ==
    <<RollCandidate("roll_candidate", a), RollTier("roll_tier", a),
      ProfitOptimization("profit_opt_validation", a), PremiumCrossCheck("premium_cross_check", a),
      NewDte("dte_target", a), EarningsClear("earnings_clear", a)>>

--------------------------------------------------------------------------
(* build_rule_evaluation and merge_phase_evaluations. *)

Blocking(rules) == SelectSeq(rules, LAMBDA v : v.blocking)

FirstBlocker(rules) == IF Blocking(rules) = <<>> THEN None ELSE Head(Blocking(rules)).rule

(* Sorted by status, otherwise in their order.                             *)
ForDisplay(rules) ==
    FlattenSeq([i \in 1 .. Len(StatusOrder) |->
                   SelectSeq(rules, LAMBDA v : v.status = StatusOrder[i])])

SummaryCounts(rules) ==
    [s \in Statuses |-> Len(SelectSeq(rules, LAMBDA v : v.status = s))]

(* The blocker of a flat list is the first that is shown, that of a phase  *)
(* the first that is checked.                                              *)
Flat(rules) ==
    LET shown == ForDisplay(rules)
    IN  [phases |-> <<shown>>, blocker |-> FirstBlocker(shown), counts |-> SummaryCounts(shown)]

Phase(rules) ==
    [phases |-> <<ForDisplay(rules)>>, blocker |-> FirstBlocker(rules),
     counts |-> SummaryCounts(rules)]

Merged(assessment, roll) ==
    LET phases == assessment.phases \o roll.phases
    IN  [phases |-> phases, blocker |-> FirstBlocker(FlattenSeq(phases)),
         counts |-> SummaryCounts(FlattenSeq(phases))]

Monitors == {"open_call_monitor", "open_put_monitor"}

(* The evaluation stored with an activity.  A monitor evaluates the        *)
(* answer of the assessment and, when it handed over, the activity the     *)
(* roll agent made of it.                                                  *)
Evaluation(agent, category, a, rolled) ==
    CASE agent = "covered_call" -> Flat(CoveredCallRules(a, Thresholds(agent, category)))
      [] agent = "cash_secured_put" -> Flat(CashSecuredPutRules(a, Thresholds(agent, category)))
      [] agent \in Monitors /\ rolled = None -> Phase(AssessmentRules(agent, a))
      [] agent \in Monitors /\ rolled # None ->
            Merged(Phase(AssessmentRules(agent, a)), Phase(RollRules(rolled)))
=============================================================================
