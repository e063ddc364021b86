---------------------------- MODULE ChainReadings ----------------------------
(***************************************************************************)
(* Readings of a chain, each computed in one step from what was asked: the *)
(* rows of a symbol's page, what one of its positions can be rolled to,    *)
(* and a page of the screener over the entries published.                  *)
(***************************************************************************)
EXTENDS BestRows, RollTable

CONSTANTS RowReadings,     \* bound: contracts and the page they are shown on
          RollReadings,    \* bound: chains, a position, a price, a kind of roll
          PageReadings     \* bound: entries, documents, shares and a request

VARIABLES asked,           \* what is read
          answered         \* the answer, None before

readingVars == <<asked, answered>>

------------------------------------------------------------------------------
(***************************************************************************)
(* The screener: api_screener_options reads the published entries of Best  *)
(* Options, options_screener.py narrows, orders and cuts their rows, and   *)
(* the handler adds what shares are free for calls.  A symbol is a number, *)
(* for its place in the alphabet.                                          *)
(***************************************************************************)
(* An entry is [status, rows, miss, total, spot, category], a document of  *)
(* a symbol [symbol, exchange, watched, positions].                        *)
Usables == {"ok", "stale"}

Loaded(entry) == entry # None /\ entry.status \in Usables

(* compute_options_screener_universe: an exchange that is not known is     *)
(* not eligible.                                                           *)
Universe(docs, shares) ==
    {d \in docs : d.exchange \in {"XNYS", "XNAS", "NYSE", "NASDAQ"}
                  /\ (shares[d.symbol] > 0 \/ d.watched)}

--------------------------------------------------------------------------
(* _build_share_availability_map *)

ReservesShares(pos) == pos.status = "active" /\ pos.type = "call" /\ ~pos.paper

UncommittedUnknown(counts) == FoldSeq(LAMBDA n, sum : IF n = None THEN sum ELSE sum + n, 0, counts)   \* mutant

(* None as soon as one of the counts is not known.                         *)
Committed(counts) ==
    IF \E i \in DOMAIN counts : counts[i] = None THEN None
    ELSE FoldSeq(LAMBDA n, sum : n + sum, 0, counts)

Remains(total, open) ==
    LET free == IF open = None THEN None ELSE Max({total - 100 * open, 0})
    IN  [total |-> total, free |-> free,
         status |-> CASE open = None -> "unknown"
                      [] open # None /\ total < 100 -> "no_shares"
                      [] open # None /\ total >= 100 /\ free < 100 -> "shares_committed"
                      [] OTHER -> "available"]

Availability(doc, shares) ==
    LET calls == SelectSeq(doc.positions, ReservesShares)
    IN  Remains(Max({shares[doc.symbol], 0}),
                Committed([i \in DOMAIN calls |-> RemainingContracts(calls[i])]))

--------------------------------------------------------------------------
(* _passes_min_max: a value that is missing passes no bound that is set.   *)
Between(x, lo, hi) ==
    /\ lo # None => x # None /\ x >= lo
    /\ hi # None => x # None /\ x <= hi

(* _compute_gap_pct *)
GapOf(strike, spot) ==
    IF spot = None \/ spot = 0 THEN None ELSE (100 * (strike - spot)) \div spot

(* _row_passes_filters *)
Passes(row, r) ==
    /\ row.colour \in r.colours
    /\ Between(row.annual, r.annual, None)
    /\ Between(row.delta, r.minDelta, r.maxDelta)
    /\ Between(row.dte, r.from, r.to)
    /\ Between(row.interest, r.interest, None)
    /\ Between(row.gap, r.minGap, r.maxGap)

(* _sort_key: the fit of delta is to the band of the row's own category.   *)
ScreenKey(row) ==
    <<IF row.score = None THEN Far ELSE -row.score, row.dte,
      IF row.delta = None THEN Far ELSE Distance(2 * row.delta, row.band), row.symbol,
      row.strike>>

(* The rows of one symbol's envelope, as the aggregator tags them.         *)
Tagged(symbol, entry, side) ==
    LET band == BandOf([side |-> side, category |-> entry.category])
    IN  [i \in DOMAIN entry.rows |->
            [symbol |-> symbol, strike |-> entry.rows[i].strike, dte |-> entry.rows[i].dte,
             score |-> entry.rows[i].score, delta |-> entry.rows[i].delta,
             annual |-> entry.rows[i].annual, interest |-> entry.rows[i].interest,
             colour |-> entry.rows[i].colour, gap |-> GapOf(entry.rows[i].strike, entry.spot),
             band |-> band.lo + band.hi]]

(* evaluate_options_screener, of the symbols considered, to the last row.  *)
Screened(symbols, entries, r) ==
    LET ready == {s \in symbols : Loaded(entries[s])}
        rows == UNION {Range(Tagged(s, entries[s], r.side)) : s \in ready}
        passing == SetToSeq({row \in rows : Passes(row, r)})
    IN  SortedBy(passing, [i \in DOMAIN passing |-> ScreenKey(passing[i])])

(* _resort_screener_rows: what is missing comes last, whatever the         *)
(* direction.                                                              *)
Resorted(rows, field, dir) ==
    SortedBy(rows, [i \in DOMAIN rows |->
        <<IF rows[i][field] = None THEN Far
          ELSE IF dir = "desc" THEN -rows[i][field] ELSE rows[i][field]>>])

Cut(rows, r) == SubSeq(rows, r.offset + 1, Min({Len(rows), r.offset + r.limit}))

(* The bounds of a request must not be the wrong way round.                *)
ValidRequest(r) ==
    /\ r.from <= r.to
    /\ r.minDelta # None /\ r.maxDelta # None => r.minDelta <= r.maxDelta
    /\ r.minGap # None /\ r.maxGap # None => r.minGap <= r.maxGap

(* api_screener_options: when the rows are filtered by the shares that are *)
(* free, or in another order, the page is cut afterwards.                  *)
Offered(rows, universe, shares, r) ==
    LET of(row) == Availability(CHOOSE d \in universe : d.symbol = row.symbol, shares)
    IN  IF r.side = "call" /\ r.shares # None
        THEN SelectSeq(rows, LAMBDA row : of(row).status \in r.shares) ELSE rows

Ordered(rows, r) == IF r.sort = "default" THEN rows ELSE Resorted(rows, r.sort, r.dir)

Page(ordered, considered, entries, r) ==
    LET Count(Is(_)) == Cardinality({s \in considered : Is(entries[s])})
        Failed(entry) == entry # None /\ entry.status = "error"
    IN  [invalid |-> FALSE, rows |-> Cut(ordered, r), matching |-> Len(ordered),
         more |-> r.offset + Len(Cut(ordered, r)) < Len(ordered),
         misses |-> {s \in considered : /\ Loaded(entries[s]) /\ entries[s].total = 0
                                        /\ entries[s].miss # None},
         counts |-> [total |-> Cardinality(considered), loaded |-> Count(Loaded),
                     error |-> Count(Failed),
                     pending |-> Count(LAMBDA entry : ~Loaded(entry) /\ ~Failed(entry))]]

Answer(universe, shares, entries, r) ==
    LET considered == {d.symbol : d \in universe}
    IN  Page(Ordered(Offered(Screened(considered, entries, r), universe, shares, r), r),
             considered, entries, r)

PageOf(docs, shares, entries, r) ==
    IF ~ValidRequest(r) THEN [invalid |-> TRUE]
    ELSE Answer({d \in Universe(docs, shares) : r.symbols = None \/ d.symbol \in r.symbols},
                shares, entries, r)

------------------------------------------------------------------------------
(* The three readings. *)

Reading(kind, x) == [kind |-> kind, of |-> x]

Readings ==
    {Reading("rows", x) : x \in RowReadings} \cup {Reading("roll", x) : x \in RollReadings} \cup
    {Reading("screen", x) : x \in PageReadings}

ReadsRows == asked.kind = "rows" /\ answered' = BestRowsOf(asked.of.contracts, asked.of.page)

(* The table, and the candidates of the agent and of the debug page.       *)
ReadsRolls ==
    LET x == asked.of
    IN  /\ asked.kind = "roll"
        /\ answered' = [table |-> TableAnswer(<<x.pos>>, x.pos.id, x.chain, x.price),
                        agent |-> AgentCandidates(x.chain, x.pos, x.roll),
                        debug |-> DebugCandidates(x.chain, x.pos, x.roll),
                        alpha |-> AlphaChain(x.chain, x.pos)]

ReadsPage ==
    LET x == asked.of
    IN  asked.kind = "screen" /\ answered' = PageOf(x.docs, x.shares, x.entries, x.request)

ReadInit == asked \in Readings /\ answered = None

ReadNext ==
    /\ answered = None
    /\ ReadsRows \/ ReadsRolls \/ ReadsPage
    /\ UNCHANGED asked

Answered(kind) == asked.kind = kind /\ answered # None

--------------------------------------------------------------------------
Rank(colour) == CASE colour = "red" -> 0 [] colour = "yellow" -> 1 [] colour = "green" -> 2

(* The same contract with a higher bid.                                    *)
Richer(c) == {[c EXCEPT !.bid = b] : b \in {x \in {60, 120, 180} : c.bid # None /\ x > c.bid}}

(* The rows of a page, of the contracts in its window and its band.        *)
RowsHonestIn(window, band) ==
    LET p == asked.of.page
        side == answered.side
        shown == {row.contract : row \in Range(side.rows)}
        all == {RowIn(c, band, p) : c \in window}
    IN  /\ answered.contracts = side.total + side.excluded
        /\ \A row \in all :
              /\ InBand(row.contract, band) /\ row.contract \notin shown =>
                    side.truncated /\ \A other \in Range(side.rows) :
                        ~Lexically(RowKey(row, band), RowKey(other, band))
              /\ row.colour = "green" =>
                    /\ FailedGates(row.contract, band, p) = {}
                    /\ row.premium * 30 >= (band.wait * row.dte) - 30
              /\ \A c \in Richer(row.contract) :
                    /\ Rank(RowIn(c, band, p).colour) >= Rank(row.colour)
                    /\ row.score # None => RowIn(c, band, p).score >= row.score
              /\ side.miss # None /\ side.miss.failed # {} => row.colour = "green" \/ row.failed # {}
        /\ \A c \in window : View(View(c, p.now), p.now) = View(c, p.now)

(* The rows of a page and what is left out add up to the window, and what  *)
(* is cut is no better than what is shown.  A green row passes every gate  *)
(* and pays the floor of its own days; a higher bid makes no row look      *)
(* worse; the near miss offered does not pass over a contract that fails   *)
(* no gate for one that does.  The view may be taken of a view: the cache  *)
(* applies it and the simulation of a roll applies it again.               *)
RowsHonest ==
    Answered("rows") =>
        RowsHonestIn(Range(Window(asked.of.contracts, asked.of.page)), BandOf(asked.of.page))

(* Three calculations of one roll, which agree on which side they err: a   *)
(* cell of the table never promises more than the simulation of the same   *)
(* roll, nor a candidate of the agent more than the cell.  Staying where   *)
(* one is never pays, and is offered to no agent; the rows of the table    *)
(* are in the order of their offsets; the debug page hides no candidate    *)
(* that the agent sees.                                                    *)
RollsAgree ==
    Answered("roll") =>
    LET x == asked.of
        count == OpenContracts(x.pos).count
        simulated(o) == SimulationAnswer(<<x.pos>>, x.pos.id, x.chain, o.strike, o.exp)
        ordered(a, b) == a # None /\ b # None => a <= b
        held == {o \in answered.agent \cup answered.alpha : o.strike = x.pos.strike /\ o.exp = x.pos.exp}
    IN  /\ held = {}
        /\ answered.agent \subseteq answered.debug
        /\ answered.table.code = None =>
           LET table == answered.table.table
           IN  /\ \A cell \in {y \in table.cells : y.net # None} :
                     /\ simulated(cell).code = None => cell.net <= simulated(cell).net
                     /\ cell.strike = x.pos.strike /\ cell.exp = x.pos.exp => cell.colour # "green"
                     /\ \A o \in answered.agent :
                           o.strike = cell.strike /\ o.exp = cell.exp /\ o.net # None =>
                               o.net * 100 * count <= cell.net
               /\ ordered(table.strikes[-3], table.strikes[0])
               /\ ordered(table.strikes[0], table.strikes[3])

(* The rows that a request may show.                                       *)
Wanted(x) ==
    LET r == x.request
        watched == {d \in Universe(x.docs, x.shares) : r.symbols = None \/ d.symbol \in r.symbols}
    IN  UNION {{row \in Range(Tagged(d.symbol, x.entries[d.symbol], r.side)) : Passes(row, r)} :
                  d \in {e \in watched :
                            /\ Loaded(x.entries[e.symbol])
                            /\ r.side = "call" /\ r.shares # None =>
                                  Availability(e, x.shares).status \in r.shares}}

Walk(x, limit, pages) ==
    FlattenSeq([n \in 1 .. pages |->
        PageOf(x.docs, x.shares, x.entries,
               [x.request EXCEPT !.offset = (n - 1) * limit, !.limit = limit]).rows])

(* Of a request: all its rows, and those that are wanted.                  *)
WalksAgree(x, whole, wanted) ==
    LET counts == answered.counts
    IN  /\ Range(whole) = wanted /\ Len(whole) = Cardinality(wanted)
        /\ \A limit \in 1 .. 2 : Walk(x, limit, 4) = whole
        /\ answered.matching = Len(whole)
        /\ answered.more <=> x.request.offset + Len(answered.rows) < Len(whole)
        /\ counts.total = counts.loaded + counts.pending + counts.error
        /\ x.request.side = "call" /\ x.request.shares = {"available"} =>
              \A row \in Range(whole) : \A d \in {e \in x.docs : e.symbol = row.symbol} :
                  LET calls == SelectSeq(d.positions, ReservesShares)
                  IN  \A n \in 1 .. Len(calls) : RemainingContracts(calls[n]) # None
                         /\ x.shares[d.symbol] >= 100 * (RemainingContracts(calls[n]) + 1)

(* Whatever the length of the pages, going through them shows every row    *)
(* that is wanted once, in the same order, and "more" is true until the    *)
(* last; every symbol considered is loaded, pending or in error.  Shares   *)
(* are called available only when each call that is open has a known count *)
(* and a hundred remain.                                                   *)
PagesAgree ==
    Answered("screen") /\ ~answered.invalid =>
        WalksAgree(asked.of, Walk(asked.of, 100, 1), Wanted(asked.of))
=============================================================================
