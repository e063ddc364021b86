------------------------------ MODULE BestRows ------------------------------
(***************************************************************************)
(* best_options.py: the rows of a symbol's Best Options page, computed     *)
(* from one chain.  Days count from today in New York; a percentage of     *)
(* premium is in hundredths, a component of the score in thousandths.      *)
(* Wording and the echo of the parameters are left out.                    *)
(***************************************************************************)
EXTENDS ContractView, DecisionRules, FiniteSetsExt

CONSTANT MaxRowsPerSide    \* _MAX_ROWS_PER_SIDE

Confine(x, lo, hi) == Max({lo, Min({hi, x})})
Distance(x, y) == IF x < y THEN y - x ELSE x - y

--------------------------------------------------------------------------
(* The gates.  A page p has its side, category, earnings (the days of the  *)
(* next ones), exDividend, support, shares and the chain's spot.           *)

BandOf(p) == IF p.side = "call" THEN CallThresholds[Category(p.category)]
             ELSE PutThresholds[Category(p.category)]

(* _dte, with _gate_delta_band: a delta that is missing is outside.        *)
AbsDelta(c) == IF Greek(c) = None THEN None ELSE Size(Greek(c))
InBand(c, band) == AbsDelta(c) # None /\ band.lo <= AbsDelta(c) /\ AbsDelta(c) <= band.hi

(* _gate_earnings_span: to expire after the next earnings fails; not to    *)
(* know when they are does not.                                            *)
SpansEarnings(c, p) == p.earnings # None /\ c.exp > p.earnings

FailedGates(c, band, p) ==
    {g \in {"tradability", "delta_band", "earnings_span"} :
        CASE g = "tradability" -> ~Eligible(c)
          [] g = "delta_band" -> ~InBand(c, band)
          [] g = "earnings_span" -> SpansEarnings(c, p)}

--------------------------------------------------------------------------
(* The components, of a contract that passes them.                         *)

Premium(v, p) ==
    LET basis == IF p.side = "call" THEN p.spot ELSE v.strike
    IN  IF v.bid = None \/ basis = None \/ basis <= 0 THEN None ELSE (100 * v.bid) \div basis

(* A floor for thirty days, for the days of the contract.                  *)
FloorFor(percent, c) == (percent * c.exp) \div 30

AnnualReturn(v, p) ==
    IF Premium(v, p) = None \/ v.exp <= 0 THEN None ELSE (Premium(v, p) * 365) \div v.exp

ReturnPart(v, band, premium) ==
    IF premium = None \/ v.exp <= 0 THEN None
    ELSE Confine((1000 * 30 * premium) \div (v.exp * band.floor), 0, 2000) \div 2

(* The root of a share of a year, in thousandths.                          *)
RootOfYear(days) == CHOOSE r \in 0 .. 1000 : 365 * r * r <= days * 1000000
                                              /\ 365 * (r + 1) * (r + 1) > days * 1000000

CushionPart(v, p) ==
    IF p.spot = None \/ p.spot <= 0 \/ v.iv = None \/ v.exp <= 0 THEN None
    ELSE LET sigma == (p.spot * v.iv * RootOfYear(v.exp)) \div 100
             away == IF p.side = "call" THEN v.strike - p.spot ELSE p.spot - v.strike
         IN  Confine((1000000 * 2 * away) \div (3 * sigma), 0, 1000)

DeltaPart(v, band) ==
    Confine(1000 - (500 * Distance(2 * AbsDelta(v), band.lo + band.hi)) \div (band.hi - band.lo),
            0, 1000)

(* The open interest counts by its order of magnitude.                     *)
InterestPart(interest) ==
    IF interest < 9 THEN 0 ELSE IF interest < 99 THEN 333 ELSE IF interest < 999 THEN 667 ELSE 1000

LiquidityPart(v) ==
    IF v.interest = None \/ v.bid = None \/ v.ask = None \/ v.mid = None THEN None
    ELSE LET spread == Confine(1000 - (4000 * (v.ask - v.bid)) \div v.mid, 0, 1000)
         IN  (InterestPart(v.interest) + spread) \div 2

Weights == [annualized |-> 45, cushion |-> 25, delta |-> 20, liquidity |-> 10]

Components(v, band, p) ==
    [annualized |-> ReturnPart(v, band, Premium(v, p)), cushion |-> CushionPart(v, p),
     delta |-> DeltaPart(v, band), liquidity |-> LiquidityPart(v)]

(* What is missing is renormalised away, down to half of the weight.       *)
ScoreOf(parts) ==
    LET known == {n \in DOMAIN parts : parts[n] # None}
        basis == MapThenSumSet(LAMBDA n : Weights[n], known)
    IN  IF basis < 50 THEN None
        ELSE (MapThenSumSet(LAMBDA n : parts[n] * Weights[n], known) + 5 * basis) \div (10 * basis)

--------------------------------------------------------------------------
BelowWaitFloor(v, band, premium) == premium # None /\ premium < FloorFor(band.wait, v)

ColourForgetsFloor(safe, below, score) ==                        \* mutant
    IF ~safe THEN "red" ELSE IF score = None THEN "yellow"
    ELSE IF score >= 65 THEN "green" ELSE IF score >= 40 THEN "yellow" ELSE "red"

Colour(safe, below, score) ==
    CASE ~safe \/ below -> "red"
      [] safe /\ ~below /\ score = None -> "yellow"
      [] OTHER -> IF score >= 65 THEN "green" ELSE IF score >= 40 THEN "yellow" ELSE "red"

(* Flags are shown, they change no colour.                                 *)
Badges(v, band, p, premium) ==
    {f \in {"earnings_date_unknown", "stale_quote", "very_short_dte", "exceeds_system_dte_cap",
            "below_category_floor", "ex_div_within_dte", "below_support"} :
            CASE f = "earnings_date_unknown" -> p.earnings = None
              [] f = "stale_quote" -> v.stale
              [] f = "very_short_dte" -> v.exp < 7
              [] f = "exceeds_system_dte_cap" -> v.exp > 45
              [] f = "below_category_floor" -> premium # None /\ premium < FloorFor(band.floor, v)
              [] f = "ex_div_within_dte" ->
                    /\ p.side = "call" /\ p.exDividend # None
                    /\ 0 <= p.exDividend /\ p.exDividend <= v.exp
                    /\ p.spot # None /\ p.spot > 0 /\ 10 * v.strike < 11 * p.spot
              [] f = "below_support" ->
                    p.side = "put" /\ p.support # None /\ v.strike <= p.support}

(* _build_row *)
Judged(c, v, band, p, failed, score) ==
    LET below == BelowWaitFloor(v, band, Premium(v, p))
    IN  [contract |-> c, dte |-> c.exp, strike |-> c.strike, delta |-> AbsDelta(c),
         interest |-> v.interest, annual |-> AnnualReturn(v, p), premium |-> Premium(v, p),
         failed |-> failed, below |-> failed = {} /\ below, score |-> score,
         colour |-> Colour(failed = {}, below, score), flags |-> Badges(v, band, p, Premium(v, p))]

Scored(c, v, band, p, failed) ==
    Judged(c, v, band, p, failed, IF failed = {} THEN ScoreOf(Components(v, band, p)) ELSE None)

RowIn(c, band, p) == Scored(c, View(c, p.now), band, p, FailedGates(c, band, p))
Row(c, p) == RowIn(c, BandOf(p), p)

--------------------------------------------------------------------------
(* The first place where two lists of numbers differ decides.              *)
Lexically(a, b) ==
    \E i \in 1 .. Len(a) : a[i] < b[i] /\ \A j \in 1 .. i - 1 : a[j] = b[j]

Far == 1000000             \* of what is missing: after everything

(* _row_sort_key *)
RowKey(row, band) ==
    <<IF row.score = None THEN Far ELSE -row.score, row.dte,
      IF row.delta = None THEN Far ELSE Distance(2 * row.delta, band.lo + band.hi)>>

(* A stable sort of rows by their keys.                                    *)
SortedBy(rows, keys) ==
    LET keyed == [i \in 1 .. Len(rows) |-> <<Append(keys[i], i), rows[i]>>]
        sorted == SortSeq(keyed, LAMBDA a, b : Lexically(a[1], b[1]))
    IN  [n \in 1 .. Len(rows) |-> sorted[n][2]]

(* _nearest_miss: how far a row is from being preferred, the tier first.   *)
MissKey(row, band) ==
    CASE "tradability" \in row.failed -> <<5, 0, row.dte>>
      [] row.failed \cap {"tradability", "delta_band"} = {"delta_band"} ->
            <<3, IF row.delta = None THEN 99900
                 ELSE Min({Distance(row.delta, band.lo), Distance(row.delta, band.hi)}), row.dte>>
      [] row.failed = {"earnings_span"} -> <<4, 0, row.dte>>
      [] row.failed = {} /\ row.below ->
            <<0, FloorFor(band.wait, row.contract) - row.premium, row.dte>>
      [] row.failed = {} /\ ~row.below /\ row.score = None -> <<2, 100, row.dte>>
      [] OTHER -> <<1, 65 - row.score, row.dte>>

NearestMiss(missed, band) ==
    IF missed = <<>> THEN None
    ELSE Head(SortedBy(missed, [i \in DOMAIN missed |-> MissKey(missed[i], band)]))

(* filter_options_chain_by_dte: a date that is none is dropped.            *)
InWindow(c, from, to) == c.exp # NoDate /\ from <= c.exp /\ c.exp <= to

Window(contracts, p) ==
    SelectSeq(contracts, LAMBDA c : InWindow(c, Min({p.from, p.to}), Max({p.from, p.to})))

(* _evaluate_side, of the contracts in the window.                         *)
Shown(all, inside, band) ==
    LET ordered == SortedBy(inside, [i \in DOMAIN inside |-> RowKey(inside[i], band)])
    IN  [rows |-> SubSeq(ordered, 1, Min({Len(inside), MaxRowsPerSide})),
         miss |-> NearestMiss(SelectSeq(all, LAMBDA row : row.colour # "green"), band),
         truncated |-> Len(inside) > MaxRowsPerSide, total |-> Len(inside),
         excluded |-> Len(all) - Len(inside)]

Inside(all, band) == Shown(all, SelectSeq(all, LAMBDA row : "delta_band" \notin row.failed), band)

EvaluatedSide(contracts, p) ==
    Inside([i \in DOMAIN contracts |-> Row(contracts[i], p)], BandOf(p))
        @@ [noShares |-> p.side = "call" /\ p.shares < 100]

(* _atm_iv: of the nearest expiration, of the strike nearest to the spot.  *)
AtmIv(contracts, p) ==
    LET known == SelectSeq(contracts, LAMBDA c : Usable(c.iv) # None)
        away(c) == IF p.spot = None THEN 0 ELSE Distance(c.strike, p.spot)
    IN  IF known = <<>> THEN None
        ELSE Head(SortedBy(known, [i \in DOMAIN known |-> <<known[i].exp, away(known[i])>>])).iv

(* evaluate_best_options, of the side asked for.                           *)
BestRowsOf(contracts, p) ==
    LET window == Window(contracts, p)
    IN  [side |-> EvaluatedSide(window, p), atmIv |-> AtmIv(window, p),
         contracts |-> Len(window),
         stale |-> Len(SelectSeq(window, LAMBDA c : StaleQuote(c.asof, p.now)))]
=============================================================================
