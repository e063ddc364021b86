-------------------------------- MODULE Income --------------------------------
(***************************************************************************)
(* The reports on income: what each option position brought, by the        *)
(* movements of the ledger that are linked to it                           *)
(* (option_linkage_service.py, app.py), the dividends in cash and in       *)
(* shares (dividends_economics.py), and the overview that adds them up.    *)
(*                                                                         *)
(* Abstracted, beside what Holdings says: native amounts and euros are one *)
(* number, rates are whole percents, the filter by currency and the days   *)
(* held are left out.                                                      *)
(***************************************************************************)
EXTENDS Holdings

Admits(filter, x) == filter = None \/ x \in filter
SumOf(field, records) == Total([r \in records |-> r[field]], records)

Opening(type) == IF type = "call" THEN "CALL_SELL" ELSE "PUT_SELL"
Closing(type) == IF type = "call" THEN "CALL_BUY" ELSE "PUT_BUY"
Delivery(type) == IF type = "call" THEN "SELL" ELSE "BUY"

--------------------------------------------------------------------------
(* _resolve_security_ids: by the ticker, when only one active security has *)
(* it.                                                                     *)
Resolved(p, securities) ==
    LET matches == {s \in securities : s.active /\ s.ticker = p.symbol}
    IN  IF Known(p.security) THEN p.security
        ELSE IF Cardinality(matches) = 1 THEN (CHOOSE s \in matches : TRUE).id
        ELSE None

LinkedInAll(p, ms, kinds, ids, accounts) ==                   \* mutant
    {m \in ms : m.position = p.id /\ m.kind \in kinds /\ m.security \in ids}

LinkedTo(p, ms, kinds, ids, accounts) ==
    {m \in ms : /\ m.position = p.id /\ m.kind \in kinds /\ m.security \in ids
                /\ Admits(accounts, m.account)}

(* _build_position_warnings *)
LinkageWarnings(p, resolved, options, stocks) ==
    LET has(kind) == \E m \in options \cup stocks : m.kind = kind
    IN  IF p.paper THEN {}
        ELSE IF ~Known(resolved) THEN {"SECURITY_UNRESOLVED"}
        ELSE {w \in {"OPENING_SELL_MISSING", "CLOSE_BUY_MISSING", "ASSIGNMENT_STOCK_MISSING"} :
                 \/ w = "OPENING_SELL_MISSING" /\ p.premium /\ ~has(Opening(p.type))
                 \/ /\ w = "CLOSE_BUY_MISSING" /\ (p.status = "rolled" \/ p.reason = "manual")
                    /\ ~has(Closing(p.type))
                 \/ /\ w = "ASSIGNMENT_STOCK_MISSING" /\ p.reason = "assigned"
                    /\ ~has(Delivery(p.type))}

CoverageStatus(p, linked, accounts, resolved) ==
    LET scoped == {m \in linked : Admits(accounts, m.account)}
    IN  CASE p.paper -> "paper"
          [] ~p.paper /\ ~Known(resolved) -> "unresolved_security"
          [] ~p.paper /\ Known(resolved) /\ scoped # {} -> "linked"
          [] ~p.paper /\ Known(resolved) /\ scoped = {} /\ linked # {} -> "account_filtered_out"
          [] OTHER -> "unlinked"

(* A position with what the movements of the accounts asked for say of it: *)
(* build_option_position_linkage and the loop of _build_economics_report.  *)
Economics(p, positions, ms, securities, accounts) ==
    LET ids == {Resolved(q, securities) : q \in positions} \ {None}
        options == LinkedTo(p, ms, OptionKinds, ids, None)
        stocks == LinkedTo(p, ms, {"BUY", "SELL"}, ids, None)
        scoped == LinkedTo(p, ms, OptionKinds, ids, accounts)
        of(kind) == {m \in scoped : m.kind = kind}
        premium == SumOf("gross", of(Opening(p.type)))
        buyback == SumOf("gross", of(Closing(p.type)))
        roc == IF p.strike \in {None, 0} THEN None ELSE HalfUp(100 * (premium - buyback), p.strike)
    IN  [id |-> p.id, symbol |-> p.symbol, type |-> p.type, status |-> p.status, reason |-> p.reason,
         paper |-> p.paper, opened |-> p.opened, premium |-> premium, buyback |-> buyback,
         net |-> premium - buyback, commission |-> SumOf("fees", scoped),
         income |-> SumOf("net", of(Opening(p.type))) - SumOf("net", of(Closing(p.type))),
         roc |-> roc, capital |-> IF p.strike = 0 THEN None ELSE p.strike,
         annual |-> IF Known(roc) /\ Known(p.dte) /\ p.dte > 0 THEN HalfUp(roc * 365, p.dte) ELSE None,
         coverage |-> CoverageStatus(p, options \cup stocks, accounts, Resolved(p, securities)),
         warnings |-> LinkageWarnings(p, Resolved(p, securities), options, stocks),
         sold |-> of(Opening(p.type)) # {}, bought |-> of(Closing(p.type)) # {}]

(* _build_position_economics_group: sums, and returns weighted by the      *)
(* capital of the linked positions.                                        *)
Group(rows) ==
    LET linked == {r \in rows : Known(r.capital) /\ r.coverage = "linked"}
        yearly == {r \in linked : Known(r.annual)}
        capital == SumOf("capital", linked)
        roc == IF capital > 0 THEN HalfUp(100 * SumOf("net", linked), capital) ELSE 0
    IN  [premium |-> SumOf("premium", rows), buyback |-> SumOf("buyback", rows),
         net |-> SumOf("net", rows), income |-> SumOf("income", rows),
         commission |-> SumOf("commission", rows), count |-> Cardinality(rows), roc |-> roc,
         annual |-> IF SumOf("capital", yearly) > 0
                    THEN HalfUp(Total([r \in yearly |-> r.annual * r.capital], yearly),
                                SumOf("capital", yearly))
                    ELSE roc]

(* _classify_position_win: None when it is not settled.                    *)
Won(r) ==
    LET closed == r.status = "rolled" \/ r.reason = "manual"
        ran == r.status \in {"assigned", "expired"} \/ r.reason \in {"assigned", "expired"}
    IN  IF r.coverage # "linked" \/ ~r.sold THEN None
        ELSE IF closed THEN (IF r.bought THEN r.net > 0 ELSE None)
        ELSE IF ran /\ ~r.bought THEN TRUE
        ELSE None

(* _build_economics_report; f holds the filters, None for those not given. *)
Reported(asked, rows) ==
    LET settled == {r \in rows : Known(Won(r))}
        counted(status) == Cardinality({r \in rows : r.coverage = status})
    IN  [rows |-> asked, summary |-> Group(rows),
         winRate |-> IF settled = {} THEN 0
                     ELSE HalfUp(100 * Cardinality({r \in settled : Won(r)}), Cardinality(settled)),
         coverage |-> [linked |-> counted("linked"), total |-> Cardinality(rows),
                       unresolved |-> Cardinality({r \in rows : "SECURITY_UNRESOLVED" \in r.warnings}),
                       unlinked |-> counted("unlinked"), outside |-> counted("account_filtered_out"),
                       paper |-> Cardinality(asked \ rows)],
         monthly |-> [d \in {r.opened : r \in rows} \ {None} |-> Group({r \in rows : r.opened = d})],
         bySymbol |-> [s \in {r.symbol : r \in rows} |-> Group({r \in rows : r.symbol = s})],
         byType |-> [t \in {"call", "put"} |-> Group({r \in rows : r.type = t})]]

Reporting(asked) == Reported(asked, {r \in asked : ~r.paper})

OptionReport(positions, ms, securities, f) ==
    Reporting({r \in {Economics(p, positions, ms, securities, f.accounts) : p \in positions} :
                  /\ f.year # None => r.opened # None /\ YearOf(r.opened) = f.year
                  /\ Admits(f.symbols, r.symbol) /\ Admits(f.types, r.type)})

--------------------------------------------------------------------------
(* Dividends: an event is a movement of its own, or the legs of a group.   *)

IsCash(m) == m.kind = "DIVIDEND" /\ (m.group # 0 => m.leg = "CASH_DIVIDEND")

Usable0(n) == Known(n) /\ n >= 0

(* A share leg whose worth is known.                                       *)
Valued(m) == m.qty > 0 /\ m.status \in {"COMPLETE", "ZERO_COST"} /\ Usable0(m.fmv) /\ Usable0(m.gross)

(* _event_from_legs.  What is paid on top is not income; the date is that  *)
(* of the share legs, if they have one, else of the first cash.            *)
Event(legs) ==
    LET cash == {m \in legs : IsCash(m)}
        shares == {m \in legs : m.kind = "BUY" /\ m.leg = "SHARE_ACQUISITION" /\ m.group # 0}
        topUps == IF shares = {} THEN {} ELSE {m \in legs : m.leg = "CASH_TOP_UP"}
        telling == {m \in legs : m.leg \in {"CASH_DIVIDEND", "SHARE_ACQUISITION", "CASH_TOP_UP"}}
        owners == {<<m.account, m.security>> : m \in (IF telling = {} THEN legs ELSE telling)}
        days == {m.date : m \in shares}
        valued == /\ shares # {} /\ Cardinality(owners) = 1 /\ Cardinality(days) = 1
                  /\ \A m \in shares : Valued(m)
                  /\ \A m \in topUps : Usable0(m.gross)
    IN  [legs |-> {m.id : m \in legs}, cash |-> cash, owned |-> Cardinality(owners) = 1,
         account |-> (CHOOSE o \in owners : TRUE)[1], symbol |-> (CHOOSE o \in owners : TRUE)[2],
         date |-> IF Cardinality(days) = 1 THEN CHOOSE d \in days : TRUE
                  ELSE IF cash # {} THEN Min({m.date : m \in cash}) ELSE None,
         net |-> SumOf("net", cash), scrip |-> shares # {},
         worth |-> IF valued
                   THEN SumOf("fmv", shares) - SumOf("gross", shares \cup topUps)
                           - SumOf("fees", shares \cup topUps)
                   ELSE None]

(* _build_events *)
Events(ms) ==
    {e \in {Event({m}) : m \in {n \in ms : n.group = 0 /\ IsCash(n)}} \cup
           {Event({m \in ms : m.group = g}) : g \in {m.group : m \in ms} \ {0}} :
        e.cash # {} \/ e.scrip}

(* _aggregate with _coverage: what is known of the shares is added, and    *)
(* the sum is partial when something is not.                               *)
Aggregate(events) ==
    LET scrip == {e \in events : e.scrip}
        known == {e \in scrip : Known(e.worth)}
    IN  [net |-> SumOf("net", events), total |-> SumOf("net", events) + SumOf("worth", known),
         scrip |-> IF scrip # {} /\ known = {} THEN None ELSE SumOf("worth", known),
         partial |-> known # scrip, count |-> Cardinality(events),
         status |-> IF scrip = {} THEN "NOT_APPLICABLE"
                    ELSE IF known = scrip THEN "COMPLETE"
                    ELSE IF known = {} THEN "UNAVAILABLE" ELSE "PARTIAL"]

(* build_dividends_economics_report *)
Dividends(scoped, f) ==
    LET shown == {e \in scoped : f.year # None => Known(e.date) /\ YearOf(e.date) = f.year}
        dated == {e \in scoped : Known(e.date)}
    IN  [summary |-> Aggregate(shown),
         monthly |-> [d \in {e.date : e \in shown} \ {None} |-> Aggregate({e \in shown : e.date = d})],
         bySymbol |-> [s \in {e.symbol : e \in shown} |-> Aggregate({e \in shown : e.symbol = s})],
         yearly |-> [y \in {YearOf(e.date) : e \in dated} |->
                        Aggregate({e \in dated : YearOf(e.date) = y})],
         cumulative |-> [d \in {e.date : e \in dated} |-> Aggregate({e \in dated : e.date <= d})]]

DividendReport(ms, f) ==
    Dividends({e \in Events(ms) : /\ f.symbols # None => e.owned /\ e.symbol \in f.symbols
                                  /\ f.accounts # None => e.owned /\ e.account \in f.accounts}, f)

--------------------------------------------------------------------------
(* infer_dividend_frequency: payments a year, by the median gap in months. *)
Frequency(dates) ==
    LET days == SetToSortSeq(dates, <)
        gaps == SortSeq([i \in 1 .. Len(days) - 1 |-> days[i + 1] - days[i]], <)
        twice == gaps[(Len(gaps) + 1) \div 2] + gaps[Len(gaps) \div 2 + 1]
    IN  IF Len(days) < 2 THEN None
        ELSE IF twice < 4 THEN 12 ELSE IF twice < 9 THEN 4 ELSE IF twice < 18 THEN 2 ELSE 1

(* build_dividend_yoc_snapshot: what the last payments of a year brought.  *)
Trailing(ms, symbol, accounts) ==
    LET mine == {m \in ms : IsCash(m) /\ m.security = symbol /\ Admits(accounts, m.account)}
        dates == {m.date : m \in mine}
        n == Frequency(dates)
        last == {d \in dates : Cardinality({x \in dates : x > d}) < n}
    IN  [basis |-> IF Known(n) /\ Cardinality(dates) >= n THEN "annualized" ELSE "insufficient_history",
         every |-> n,
         amount |-> IF Known(n) /\ Cardinality(dates) >= n
                    THEN SumOf("net", {m \in mine : m.date \in last}) ELSE None]

(* _build_holdings_snapshot_by_ticker: of each account asked for, summed.  *)
HeldIn(ms, symbol, accounts) ==
    LET asked == IF accounts = None THEN {None} ELSE accounts
        held == [a \in asked |-> HoldingsOf(ms, a).holdings]
        holds == {a \in asked : symbol \in DOMAIN held[a]}
        of(field) == Total([a \in holds |-> held[a][symbol][field]], holds)
    IN  [shares |-> of("shares"), cost |-> of("remaining")]

(* _apply_dividends_yoc: yields on the cost of what is held, None if there *)
(* is none to tell.                                                        *)
Yielded(symbols, paid, held) ==
    LET telling == {s \in symbols : paid[s].basis = "annualized" /\ held[s].shares > 0 /\ held[s].cost > 0}
        cost == Total([s \in telling |-> held[s].cost], telling)
    IN  [bySymbol |-> [s \in symbols |-> IF s \in telling THEN HalfUp(100 * paid[s].amount, held[s].cost)
                                         ELSE None],
         whole |-> IF cost > 0 THEN HalfUp(100 * Total([s \in telling |-> paid[s].amount], telling), cost)
                   ELSE None]

Yields(ms, f) ==
    LET symbols == DOMAIN DividendReport(ms, f).bySymbol
    IN  Yielded(symbols, [s \in symbols |-> Trailing(ms, s, f.accounts)],
                [s \in symbols |-> HeldIn(ms, s, f.accounts)])

(* _build_economics_overview_report: a row for every month or symbol of    *)
(* either report, and the sum of both.                                     *)
Overview(options, dividends) ==
    LET both(o, d) == [r \in DOMAIN o \cup DOMAIN d |->
                          (IF r \in DOMAIN o THEN o[r].income ELSE 0) +
                          (IF r \in DOMAIN d THEN d[r].total ELSE 0)]
    IN  [combined |-> options.summary.income + dividends.summary.total,
         partial |-> dividends.summary.partial,
         monthly |-> both(options.monthly, dividends.monthly),
         bySymbol |-> both(options.bySymbol, dividends.bySymbol)]
=============================================================================
