------------------------------ MODULE RollTable ------------------------------
(***************************************************************************)
(* What it would cost to roll a short position, computed three times from  *)
(* one chain: the table of roll_table.py, its simulation of one roll, and  *)
(* the candidates that options_chain_filters.py offers the agents.  A      *)
(* chain is [status, error, calls, puts], a side a sequence of contracts.  *)
(***************************************************************************)
EXTENDS ContractView, DecisionRules, FiniteSetsExt, Functions

CONSTANTS Garbled,         \* a count that is no whole number
          NumStrikes,      \* strikes kept on each side of the position's
          NumExpiries      \* expirations shown after the position's

Apart(x, y) == IF x < y THEN y - x ELSE x - y

--------------------------------------------------------------------------
(* position_contracts.py: how many contracts a position has open.  A       *)
(* position has two names for what remains, two for the original count.    *)

Present(counts) == {x \in Range(counts) : x # None}

BadCount(x, short) == x = Garbled \/ x = 0 \/ (x # Garbled /\ x < 0 /\ ~short)

CountOf(x) == IF x < 0 THEN -x ELSE x

OpenOf(count, code) == [count |-> count, code |-> code]

(* The counts of one precedence must be counts and agree.                  *)
Resolved(counts, short) ==
    LET sizes == {CountOf(x) : x \in Present(counts)}
    IN  IF \E x \in Present(counts) : BadCount(x, short) THEN OpenOf(None, "invalid")
        ELSE IF Cardinality(sizes) # 1 THEN OpenOf(None, "conflict")
        ELSE OpenOf(CHOOSE n \in sizes : TRUE, None)

(* More is open than there was.                                            *)
Exceeds(count, base, short) ==
    /\ ~ \E x \in Present(base) : BadCount(x, short)
    /\ Cardinality({CountOf(x) : x \in Present(base)}) = 1
    /\ \E x \in Present(base) : count > CountOf(x)

(* resolve_open_contract_count.  legacy is what _valid_legacy_position     *)
(* finds: written before counts were stored.                               *)
OpenContracts(pos) ==
    LET short == pos.type \in {"call", "put"}
        remaining == Resolved(pos.remaining, short)
    IN  IF pos.partial /\ Present(pos.remaining) = {} THEN OpenOf(None, "missing")
        ELSE IF Present(pos.remaining) # {}
             THEN IF remaining.code = None /\ Exceeds(remaining.count, pos.base, short)
                  THEN OpenOf(None, "conflict") ELSE remaining
        ELSE IF Present(pos.base) # {} THEN Resolved(pos.base, short)
        ELSE IF pos.legacy /\ short /\ pos.status = "active" /\ ~pos.partial THEN OpenOf(1, None)
        ELSE OpenOf(None, "missing")

(* position_contract_counts: the count that remains, for display.          *)
RemainingContracts(pos) ==
    IF pos.status \in {"closed", "rolled"} THEN 0
    ELSE IF pos.status = "active" THEN OpenContracts(pos).count ELSE None

--------------------------------------------------------------------------
(* get_contract: of a strike and an expiration, the first.                 *)
Find(contracts, strike, exp) ==
    LET found == SelectSeq(contracts, LAMBDA c : c.strike = strike /\ c.exp = exp)
    IN  IF found = <<>> \/ exp = NoDate THEN None ELSE Head(found)

SideOf(chain, type) == IF type = "call" THEN chain.calls ELSE chain.puts

MidpointUnchecked(c) ==                                          \* mutant
    IF c = None \/ Usable(c.ask) = None THEN None ELSE RobustMid(c.bid, c.ask)

(* _two_sided_midpoint: only of a market with both sides, not crossed.     *)
Midpoint(c) ==
    IF c = None \/ Usable(c.bid) = None \/ Usable(c.ask) = None \/ c.ask < c.bid THEN None
    ELSE RobustMid(c.bid, c.ask)

(* _validate_chain_status: of the statuses that are known an error is only *)
(* tolerated beside data that is kept from before.                         *)
ChainUsable(chain, type) ==
    /\ chain.status \in {None, "ok", "stale", "carried"}
    /\ chain.error => chain.status \in {"stale", "carried"}
    /\ SideOf(chain, type) # <<>>

Failure(code) == [code |-> code, net |-> None]

(* compute_roll_simulation: in cents, of contracts of a hundred shares.    *)
Simulation(chain, pos, count, strike, exp) ==
    LET side == SideOf(chain, pos.type)
        current == Midpoint(Find(side, pos.strike, pos.exp))
        target == Midpoint(Find(side, strike, exp))
    IN  IF ~ChainUsable(chain, pos.type) THEN Failure("chain_unavailable")
        ELSE IF pos.exp = NoDate \/ exp = NoDate THEN Failure("invalid_input")
        ELSE IF pos.exp = exp /\ pos.strike = strike THEN Failure("same_contract")
        ELSE IF Find(side, pos.strike, pos.exp) = None THEN Failure("current_contract_not_found")
        ELSE IF Find(side, strike, exp) = None THEN Failure("target_contract_not_found")
        ELSE IF current = None THEN Failure("current_midpoint_unavailable")
        ELSE IF target = None THEN Failure("target_midpoint_unavailable")
        ELSE [code |-> None, net |-> (target - current) * 100 * count]

--------------------------------------------------------------------------
(* compute_roll_table *)

Strikes(contracts) == {c.strike : c \in Range(contracts)}

Nearest(set, x) ==
    CHOOSE s \in set : \A t \in set : Apart(s, x) < Apart(t, x) \/ (Apart(s, x) = Apart(t, x) /\ s <= t)

(* _select_strike, of an offset in percent; prices times a hundred.        *)
SelectStrike(set, price, offset) ==
    LET target == price * (100 + offset)
        above == {s \in set : 100 * s >= target}
        below == {s \in set : 100 * s <= target}
    IN  CASE offset = 0 -> Nearest(set, price)
          [] offset > 0 -> IF above # {} THEN Min(above) ELSE Max(set)
          [] offset < 0 -> IF below # {} THEN Max(below) ELSE Min(set)

(* The expiration before the position's, its own, and the next ones.       *)
Expirations(contracts, exp) ==
    LET dated == {c.exp : c \in {x \in Range(contracts) : x.exp # NoDate}}
        ahead == {e \in dated : e > 0}
        before == {e \in ahead : e < exp}
        after == SetToSortSeq({e \in ahead : e > exp}, <)
    IN  (IF before = {} THEN <<>> ELSE <<Max(before)>>) \o <<exp>>
        \o SubSeq(after, 1, Min({Len(after), NumExpiries}))

OfExpiration(contracts, exp) == SelectSeq(contracts, LAMBDA c : c.exp = exp)

(* One strike for a row: from the first expiration that has strikes.       *)
ChosenStrike(contracts, expirations, price, offset) ==
    LET listed == SelectSeq(expirations, LAMBDA e : OfExpiration(contracts, e) # <<>>)
    IN  IF listed = <<>> THEN None
        ELSE SelectStrike(Strikes(OfExpiration(contracts, Head(listed))), price, offset)

Cell(strike, exp, net) ==
    [strike |-> strike, exp |-> exp, net |-> net,
     colour |-> IF net = None THEN "gray" ELSE IF net > 0 THEN "green" ELSE "red"]

CellOf(contracts, strike, exp, buyback, count) ==
    LET c == Find(contracts, strike, exp)
    IN  IF strike = None \/ c = None THEN Cell(None, exp, None)
        ELSE IF Usable(c.bid) = None \/ buyback = None THEN Cell(strike, exp, None)
        ELSE Cell(strike, exp, c.bid * 100 * count - buyback)

(* Profit captured, of the premium received, in percent.                   *)
Captured(premium, mid) ==
    IF mid = None THEN None
    ELSE IF premium # None /\ premium > 0 THEN (100 * (premium - mid)) \div premium ELSE 0

Table(chain, pos, count, price) ==
    LET side == SideOf(chain, pos.type)
        mid == Midpoint(Find(side, pos.strike, pos.exp))
        buyback == IF mid = None THEN None ELSE mid * 100 * count
        expirations == Expirations(side, pos.exp)
        rows == [offset \in {-3, 0, 3} |-> ChosenStrike(side, expirations, price, offset)]
    IN  [buyback |-> buyback, incomplete |-> buyback = None,
         captured |-> Captured(pos.premium, mid),
         target |-> mid # None /\ Captured(pos.premium, mid) >= 70,
         strikes |-> rows,
         cells |-> {CellOf(side, rows[o], expirations[i], buyback, count) :
                       o \in DOMAIN rows, i \in DOMAIN expirations}]

--------------------------------------------------------------------------
(* options_chain_filters.py: the chain as the agents see it.               *)

(* filter_options_chain_by_delta *)
WithinDelta(contracts, type) ==
    LET lo == IF type = "call" THEN 15 ELSE -60
        hi == IF type = "call" THEN 90 ELSE -15
    IN  SelectSeq(contracts, LAMBDA c : c.delta # None /\ lo <= c.delta /\ c.delta <= hi)

(* filter_options_chain_for_position: around the strike, per expiration.   *)
AroundStrike(contracts, strike) ==
    SelectSeq(contracts, LAMBDA c :
        LET strikes == Strikes(OfExpiration(contracts, c.exp))
            center == Nearest(strikes, strike)
            between == {s \in strikes : (center < s /\ s <= c.strike) \/ (c.strike <= s /\ s < center)}
        IN  Cardinality(between) <= NumStrikes)

(* exclude_contract *)
Excluding(contracts, pos) ==
    SelectSeq(contracts, LAMBDA c : ~(c.strike = pos.strike /\ c.exp = pos.exp))

(* The strikes next to the one nearest to the position's, and itself.      *)
Adjacent(strikes, strike) ==
    LET center == Nearest(strikes, strike)
        below == {s \in strikes : s < center}
        above == {s \in strikes : s > center}
    IN  {center} \cup (IF below = {} THEN {} ELSE {Max(below)})
                 \cup (IF above = {} THEN {} ELSE {Min(above)})

RollTypes == {"ROLL_DOWN", "ROLL_UP", "ROLL_OUT", "ROLL_UP_AND_OUT", "ROLL_DOWN_AND_OUT"}

(* filter_options_chain_by_roll_direction: a roll it does not know passes. *)
InDirection(contracts, pos, roll) ==
    SelectSeq(contracts, LAMBDA c :
        roll \in RollTypes =>
            /\ CASE roll = "ROLL_DOWN" -> c.strike < pos.strike
                 [] roll = "ROLL_UP" -> c.strike > pos.strike
                 [] roll = "ROLL_OUT" -> c.strike \in Adjacent(Strikes(contracts), pos.strike)
                 [] roll = "ROLL_UP_AND_OUT" -> c.strike >= pos.strike
                 [] roll = "ROLL_DOWN_AND_OUT" -> c.strike <= pos.strike
            /\ IF roll \in {"ROLL_UP", "ROLL_DOWN"} THEN c.exp >= pos.exp ELSE c.exp > pos.exp)

Candidate(c, ask) ==
    [strike |-> c.strike, exp |-> c.exp, net |-> IF ask = None THEN None ELSE c.bid - ask]

(* format_roll_candidates_table: the ask of the held contract is looked up *)
(* before the filters, which may drop it.                                  *)
Candidates(contracts, pos, held) ==
    {Candidate(c, IF held = None THEN None ELSE Usable(held.ask)) :
        c \in {x \in Range(Excluding(contracts, pos)) : Eligible(x)}}

Seen(contracts) == [i \in DOMAIN contracts |-> View(contracts[i], 0)]

(* run_position_monitor *)
AgentCandidates(chain, pos, roll) ==
    LET side == Seen(SideOf(chain, pos.type))
        around == WithinDelta(AroundStrike(side, pos.strike), pos.type)
    IN  Candidates(InDirection(around, pos, roll), pos, Find(side, pos.strike, pos.exp))

(* api_debug_agent_chain filters by delta first.                           *)
DebugCandidates(chain, pos, roll) ==
    LET side == Seen(SideOf(chain, pos.type))
        around == WithinDelta(AroundStrike(WithinDelta(side, pos.type), pos.strike), pos.type)
    IN  Candidates(InDirection(around, pos, roll), pos, Find(side, pos.strike, pos.exp))

(* _build_alpha_options_chain *)
AlphaChain(chain, pos) ==
    Range(Excluding(WithinDelta(Seen(SideOf(chain, pos.type)), pos.type), pos))

--------------------------------------------------------------------------
(* The handlers.  The document of a symbol holds its positions.            *)

Named(positions, id) == SelectSeq(positions, LAMBDA pos : pos.id = id)

Refusal(positions, id) ==
    LET named == Named(positions, id)
    IN  IF named = <<>> THEN "not_found"
        ELSE IF Len(named) > 1 THEN "ambiguous_position"
        ELSE IF named[1].status # "active" THEN "inactive_position"
        ELSE IF named[1].type \notin {"call", "put"} THEN "invalid_position"
        ELSE OpenContracts(named[1]).code

(* api_roll_table, of a price it has. *)
TableAnswer(positions, id, chain, price) ==
    IF Refusal(positions, id) # None THEN [code |-> Refusal(positions, id)]
    ELSE [code |-> None,
          table |-> Table(chain, Named(positions, id)[1],
                          OpenContracts(Named(positions, id)[1]).count, price)]

(* api_roll_simulation *)
SimulationAnswer(positions, id, chain, strike, exp) ==
    IF Refusal(positions, id) # None THEN Failure(Refusal(positions, id))
    ELSE Simulation(chain, Named(positions, id)[1],
                    OpenContracts(Named(positions, id)[1]).count, strike, exp)
=============================================================================
