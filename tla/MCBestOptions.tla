--------------------------- MODULE MCBestOptions ---------------------------
(***************************************************************************)
(* A small instance of the published pages, and of what is read from       *)
(* chains and pages: two symbols, a burst of refresh requests, a cycle of  *)
(* the scheduler beside them; or one reading.  A behaviour is about one of *)
(* the two, the other rests.                                               *)
(***************************************************************************)
EXTENDS BestOptions, ChainReadings

CONSTANTS s1, s2, r1, r2, r3

TwoSymbols == [r \in Requests |-> IF r = r3 THEN s2 ELSE s1]

(* A record, and it with one or two of its fields given other values.      *)
Varied(base, values) ==
    {base} \cup
    UNION {{[base EXCEPT ![f] = x, ![g] = y] : x \in values[f], y \in values[g]} :
              f, g \in DOMAIN values}

Contract ==
    [exp |-> 30, strike |-> 105, bid |-> 120, ask |-> 140, last |-> 130, iv |-> 30, mid |-> 130,
     delta |-> 25, greeksValid |-> TRUE, interest |-> 500, carried |-> FALSE, asof |-> 0,
     stale |-> FALSE, tradable |-> TRUE, status |-> None]

ContractFields ==
    [exp |-> {0, 5, 46, 60, NoDate}, bid |-> {None, 0, 60}, ask |-> {None, 900}, last |-> {0},
     iv |-> {None, 0}, delta |-> {None, 20, 31}, greeksValid |-> {None, FALSE},
     interest |-> {None, 0, 5}, asof |-> {None}, carried |-> {TRUE}]

CallPage ==
    [side |-> "call", category |-> None, earnings |-> 40, exDividend |-> 10, support |-> None,
     shares |-> 100, spot |-> 100, from |-> 0, to |-> 50, now |-> 1]

PutPage ==
    [CallPage EXCEPT !.side = "put", !.support = 104, !.shares = 0, !.earnings = 20]

Pages == {CallPage, PutPage, [CallPage EXCEPT !.spot = None, !.earnings = None],
          [CallPage EXCEPT !.category = "rising_star", !.from = 50, !.to = 0, !.now = 9]}

(* Safe and liquid, for little premium.                                    *)
Remote == [Contract EXCEPT !.strike = 115, !.iv = 20, !.bid = 45, !.ask = 46, !.mid = 45,
                           !.interest = 1000]

Neighbours == {<<>>, <<[Contract EXCEPT !.strike = 110, !.delta = 21]>>,
               <<[Contract EXCEPT !.strike = 110, !.bid = 60, !.ask = 65, !.mid = 62],
                 [Contract EXCEPT !.strike = 102, !.delta = 30, !.exp = 45]>>,
               <<Remote>>}

GivenRows == {[contracts |-> <<c>> \o others, page |-> p] :
                 c \in Varied(Contract, ContractFields), others \in Neighbours, p \in Pages}

--------------------------------------------------------------------------
Held ==
    [id |-> 1, status |-> "active", type |-> "call", strike |-> 105, exp |-> 30, premium |-> 300,
     remaining |-> <<2, None>>, base |-> <<2, None>>, partial |-> FALSE, legacy |-> FALSE,
     paper |-> FALSE]

HeldFields ==
    [status |-> {"rolled"}, strike |-> {100}, exp |-> {60}, premium |-> {None, 0, 500},
     remaining |-> {<<None, None>>, <<-3, 3>>, <<1, 2>>, <<0, None>>, <<Garbled, None>>},
     base |-> {<<None, None>>, <<4, None>>, <<1, None>>}, partial |-> {TRUE}, legacy |-> {TRUE}]

At(strike, exp, delta, bid, ask) ==
    [Contract EXCEPT !.strike = strike, !.exp = exp, !.delta = delta, !.bid = bid, !.ask = ask]

Grid(current) ==
    <<current, At(100, 30, 40, 300, 320), At(97, 30, 95, 420, 500), At(110, 30, 14, 40, 60),
      At(100, 60, 45, 380, 400), At(105, 60, 35, 260, 280), At(110, 60, None, 150, 170),
      At(105, 5, 10, 20, 30), At(104, 60, 33, 290, 250), At(115, 60, 20, 90, 100),
      At(115, 90, 30, 210, 230)>>

Grids == {[status |-> "ok", error |-> FALSE, calls |-> Grid(c), puts |-> <<>>] :
             c \in {At(105, 30, d, b, a) : d \in {25, None}, b \in {120, 0, None}, a \in {140, 100, 5000, None}}}

Stalled == {[status |-> t, error |-> e, calls |-> cs, puts |-> <<>>] :
               t \in {None, "ok", "stale", "error"}, e \in BOOLEAN, cs \in {<<>>, Grid(Contract)}}

Kinds == RollTypes \cup {"CLOSE"}

Rolling(chain, pos, price, roll) == [chain |-> chain, pos |-> pos, price |-> price, roll |-> roll]

GivenRolls ==
    {Rolling(g, pos, price, roll) : g \in Grids, price \in {100, 108}, roll \in Kinds,
         pos \in {Held, [Held EXCEPT !.strike = 100], [Held EXCEPT !.exp = 60]}} \cup
    {Rolling(g, pos, 100, "ROLL_OUT") : g \in Stalled \cup {CHOOSE g \in Grids : TRUE},
         pos \in Varied(Held, HeldFields)}

--------------------------------------------------------------------------
Published(contracts, p) ==
    LET side == BestRowsOf(contracts, p).side
    IN  [status |-> "ok", rows |-> side.rows, miss |-> side.miss, total |-> side.total,
         spot |-> p.spot, category |-> p.category]

Blank == [status |-> "warming", rows |-> <<>>, miss |-> None, total |-> 0, spot |-> None,
          category |-> None]

Full == Published(<<Contract, [Contract EXCEPT !.strike = 110, !.exp = 45, !.ask = None],
                    [Contract EXCEPT !.strike = 102, !.bid = 60]>>, CallPage)

GivenEntries ==
    {<<Full, other>> : other \in {None, Blank, [Blank EXCEPT !.status = "error"], Full,
        [Full EXCEPT !.status = "stale", !.category = "rising_star"],
        Published(<<[Contract EXCEPT !.delta = 60]>>, CallPage)}}

Document(symbol, positions) ==
    [symbol |-> symbol, exchange |-> "XNYS", watched |-> FALSE, positions |-> positions]

GivenDocs ==
    {{Document(1, <<pos>>), other} :
        pos \in {Held, [Held EXCEPT !.type = "put"], [Held EXCEPT !.paper = TRUE],
                 [Held EXCEPT !.remaining = <<1, 2>>]},
        other \in {Document(2, <<Held, [Held EXCEPT !.remaining = <<1, None>>]>>),
                   [Document(2, <<>>) EXCEPT !.watched = TRUE],
                   [Document(2, <<>>) EXCEPT !.exchange = "XLON"],
                   Document(2, <<[Held EXCEPT !.remaining = <<Garbled, None>>]>>)}}

Request ==
    [side |-> "call", symbols |-> None, colours |-> {"green", "yellow", "red"}, annual |-> None,
     minDelta |-> None, maxDelta |-> None, from |-> 0, to |-> 45, interest |-> None,
     minGap |-> None, maxGap |-> None, shares |-> None, sort |-> "default", dir |-> "asc",
     offset |-> 0, limit |-> 1]

RequestFields ==
    [symbols |-> {{1}}, colours |-> {{"green"}}, annual |-> {1000}, minDelta |-> {26},
     to |-> {30}, maxGap |-> {6}, shares |-> {{"available"}, {"unknown", "no_shares"}},
     sort |-> {"annual", "strike"}, dir |-> {"desc"}, from |-> {50}, offset |-> {1, 9}, limit |-> {2}]

GivenPages ==
    {[entries |-> known, docs |-> docs, shares |-> shares, request |-> r] :
        known \in GivenEntries, docs \in GivenDocs, shares \in {<<300, 0>>, <<99, 500>>},
        r \in {Request, [Request EXCEPT !.shares = {"available"}], [Request EXCEPT !.sort = "annual"]}} \cup
    {[entries |-> <<Full, Full>>, docs |-> docs, shares |-> <<300, 500>>, request |-> r] :
        docs \in GivenDocs, r \in Varied(Request, RequestFields)}

--------------------------------------------------------------------------
vars == <<pageVars, readingVars>>

PagesOnly == asked.kind = "none"

Init == /\ PageInit
        /\ \/ asked = Reading("none", None) /\ answered = None /\ s2 \in present
           \/ ReadInit /\ present = {}

Next == \/ PagesOnly /\ PageNext /\ UNCHANGED readingVars
        \/ ~PagesOnly /\ ReadNext /\ UNCHANGED pageVars

FairSpec == Init /\ [][Next]_vars /\ PageFairness
=============================================================================
