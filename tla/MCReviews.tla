------------------------------ MODULE MCReviews ------------------------------
(* A small instance, for TLC, of what comes of the agents' answers: the    *)
(* stream of activities with the reviews and validations of one contract,  *)
(* the history of a position's scores, and the decisions computed in one   *)
(* step.  A behaviour is about one of the three, the others rest.          *)
EXTENDS ContractValidation, ScoreHistory, Decisions, TLC

CONSTANTS t1, t2, v1, v2, c1, here, everywhere

vars == <<validationVars, historyVars, decisionVars>>

OneContract == [v \in Validations |-> c1]
Symmetric == Permutations(Runners) \cup Permutations(Keys) \cup Permutations(Validations)

GivenResults == {[score |-> 80, status |-> "HOLD"], [score |-> 55, status |-> "WATCH"],
                 [score |-> 30, status |-> "ROLL"]}

--------------------------------------------------------------------------
(* Inputs of the decisions.                                                *)

(* A record, and it with one or two of its fields given other values.      *)
Varied(base, values) ==
    {base} \cup
    UNION {{[base EXCEPT ![f] = x, ![g] = y] : x \in values[f], y \in values[g]} :
              f, g \in DOMAIN values}

Unchecked == [r \in {"ex_div_check", "catalyst_check", "breakout_check", "freefall_check",
                     "investment_worthiness", "support_level", "ex_div_risk",
                     "fundamental_check", "assignment_risk"} |-> None]

Silent == [activity |-> "WAIT", gate |-> None, dte |-> None, delta |-> None, premium |-> None,
           ivRank |-> None, riskRating |-> None, technical |-> None, strike |-> None,
           support |-> None, flags |-> {}, checks |-> Unchecked, moneyness |-> None, ask |-> None,
           rollAvailable |-> None, available |-> None, incomplete |-> FALSE, takeProfit |-> None,
           bias |-> None, assignment |-> None, newStrike |-> None, newExpiration |-> None,
           tier |-> None, optimization |-> None, corrected |-> FALSE, earnings |-> None]

Sale == [Silent EXCEPT !.activity = "SELL", !.gate = "ALLOWED", !.dte = 30, !.delta = 25,
                       !.premium = 90, !.ivRank = 50, !.riskRating = 3, !.technical = "BUY",
                       !.strike = 95, !.support = 100]

SaleFields ==
    [activity |-> {"WAIT"}, gate |-> {"BLOCKED", "ALLOWED_WITH_CAUTION", "OTHER"}, dte |-> {45, 46},
     delta |-> {-25, 19, 36}, premium |-> {30, 50}, ivRank |-> {20}, strike |-> {105},
     flags |-> {{"ex_dividend_risk"}, {"catalyst_pending", "breakout_momentum", "breakdown_momentum"}},
     checks |-> {[Unchecked EXCEPT !["catalyst_check"] = "fail", !["support_level"] = "warning"],
                 [Unchecked EXCEPT !["ex_div_check"] = "blocked", !["investment_worthiness"] = "pass"]}]

Held == [Silent EXCEPT !.gate = "HOLD", !.delta = 25, !.moneyness = "OTM", !.takeProfit = FALSE,
                       !.bias = "NEUTRAL", !.ask = 10]

HeldFields ==
    [gate |-> {"CLOSE_OR_ROLL", "FLAG_HIGH", "OTHER"}, delta |-> {-40, 51}, moneyness |-> {"ATM", "ITM"},
     takeProfit |-> {TRUE}, ask |-> {None, 0}, available |-> {TRUE, FALSE}, incomplete |-> {TRUE},
     flags |-> {{"near_atm_stability", "ex_dividend_risk"}, {"incomplete_data", "analyst_downgrade"}},
     checks |-> {[Unchecked EXCEPT !["ex_div_risk"] = "fail", !["assignment_risk"] = "warning"]}]

Rolled == [Held EXCEPT !.activity = "ROLL_OUT", !.newStrike = 105, !.newExpiration = 30,
                       !.tier = "credit", !.optimization = "eligible", !.earnings = 40]

RolledFields ==
    [activity |-> {"CLOSE", "WAIT"}, ask |-> {None, 0}, rollAvailable |-> {TRUE, FALSE},
     tier |-> {"ultra_defensive", "no_viable_roll", "other"}, newExpiration |-> {14, 21, 46, NoDate},
     earnings |-> {30, 22, NoDate}, corrected |-> {TRUE}, optimization |-> {"none"},
     flags |-> {{"profit_optimization"}, {"incomplete_data"}}]

Asked(agent, category, answer, rolled) ==
    [agent |-> agent, category |-> category, answer |-> answer, rolled |-> rolled]

GivenAnswers ==
    {Asked(agent, category, answer, None) : agent \in {"covered_call", "cash_secured_put"},
         category \in {None, "aristocrat", "rising_star"}, answer \in Varied(Sale, SaleFields)} \cup
    {Asked(agent, None, answer, rolled) : agent \in Monitors, answer \in Varied(Held, HeldFields),
         rolled \in {None}} \cup
    {Asked(agent, None, answer, rolled) : agent \in Monitors,
         answer \in {Held, [Held EXCEPT !.gate = "OTHER"], [Held EXCEPT !.moneyness = "ITM"]},
         rolled \in Varied(Rolled, RolledFields)}

--------------------------------------------------------------------------
Excellent ==
    [price |-> 100, high |-> 110, sma50 |-> 100, sma200 |-> 95, rsi |-> 45, macd |-> "BUY",
     stochastic |-> "BUY", dividend |-> 2, latest |-> 1, growthYears |-> 5, cut |-> FALSE,
     payout |-> 75, target |-> 105, earnings |-> 8, ma |-> "BUY", oscillators |-> "BUY"]

EvidenceValues ==
    [price |-> {None, 112, 80}, high |-> {None, 130}, sma50 |-> {None, 90}, sma200 |-> {None, 80, 120},
     rsi |-> {None, 46, 81}, macd |-> {None}, dividend |-> {0}, cut |-> {None, TRUE}, payout |-> {76},
     target |-> {104}, earnings |-> {None, 2, 7}, ma |-> {None, "STRONG_SELL"}]

Breakdowns ==
    {[value_entry |-> s[1], trend |-> s[2], momentum |-> s[3], income |-> s[4], calendar |-> s[5]] :
        s \in {<<1, 1, 1, 1, 1>>, <<1, 1, 1, 1, 0>>, <<1, 1, 1, 0, 0>>, <<1, 0, 0, 0, None>>,
               <<1, 1, None, 7, None>>, <<0, -1, 0, 0, 0>>, <<-1, -1, -1, 0, 0>>}}

Said(breakdown, score, activity, flags, zone) ==
    [breakdown |-> breakdown, score |-> score, activity |-> activity, flags |-> flags, zone |-> zone]

Scored5(b) == [Said(b, 0, "WAIT", {}, None) EXCEPT !.score = Score(Said(b, 0, "WAIT", {}, None))]

(* What the model says, consistent with its scores or not.                 *)
GivenTrackers ==
    {[answer |-> Said(b, score, activity, flags, zone), evidence |-> e] :
        b \in Breakdowns, score \in {4, None}, activity \in {"BUY", "WAIT", "AVOID"},
        flags \in {{}, AvoidGates, WaitGates}, zone \in {<<99, 101>>},
        e \in {[Excellent EXCEPT !.price = p, !.rsi = r, !.earnings = d] :
                   p \in {None, 100, 112}, r \in {None, 45, 81}, d \in {None, 2, 8}}} \cup
    {[answer |-> Said(b, Scored5(b).score, "BUY", flags, zone), evidence |-> e] :
        b \in Breakdowns, flags \in {{}, {"triple_bearish_breakdown"}}, zone \in {None, <<101, 99>>},
        e \in Varied(Excellent, EvidenceValues)}

--------------------------------------------------------------------------
SomeTrends == {Flat0, Trend("improving", "strong"), Trend("worsening", "weak")}

GivenScores ==
    {[position |-> [delta |-> delta, gamma |-> gamma, iv |-> iv, dte |-> dte, pnl |-> pnl],
      market |-> [rsi |-> rsi, rsiTrend |-> r, macdTrend |-> m, adx |-> adx, adxTrend |-> x]] :
        delta \in {None, 29, 30, 45, 55}, gamma \in {6}, iv \in {None, 36}, dte \in {7, 22},
        pnl \in {None, -30, 0, 75}, rsi \in {34, 51, 66}, r \in SomeTrends,
        m \in SomeTrends, adx \in {24, 26}, x \in SomeTrends}

GivenSeries == UNION {[1 .. n -> {None, -10, -5, 0, 5, 100, 104}] : n \in 0 .. 4}

--------------------------------------------------------------------------
Subject == given.kind

(* What touches no slot: while a thread of the dashboard waits for its     *)
(* turn, users and validations do nothing; while one is through and has    *)
(* its slot still, nobody does.  These steps commute with the thread's.    *)
Waits(p) == asked[p] # Nobody /\ ~asked[p].begun
IsThrough(p) == asked[p] # Nobody /\ asked[p].begun /\ run[p] = Idle

Undisturbed ==
    UNCHANGED <<now, slotVars>> =>
        \A p \in Runners : ~IsThrough(p) /\ (Waits(p) => run' # run)

(* Beside validations, which take no slot, the dashboard starts one thread *)
(* at most, and it neither waits for its turn nor keeps its slot after.    *)
Validating == \E v \in Validations : validation[v].phase # "none"

FewThreads ==
    /\ Validating' => Cardinality({p \in Runners : asked'[p] # Nobody}) <= 1
    /\ Validating => \A p \in Runners : /\ Waits(p) => run'[p] # run[p]
                                        /\ IsThrough(p) => asked'[p] = Nobody

Init ==
    /\ ValidationInit
    /\ HistoryInit
    /\ \/ DecideInit
       \/ given \in {Given("stream", None), Given("history", None)} /\ decided = None

Next ==
    \/ /\ Subject = "stream" /\ ValidationNext
       /\ Undisturbed /\ FewThreads
       /\ UNCHANGED <<historyVars, decisionVars>>
    \/ Subject = "history" /\ HistoryNext /\ UNCHANGED <<validationVars, decisionVars>>
    \/ Subject \notin {"stream", "history"} /\ DecideNext /\ UNCHANGED <<validationVars, historyVars>>

Spec == Init /\ [][Next]_vars

=============================================================================
