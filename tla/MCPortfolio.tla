---------------------------- MODULE MCPortfolio ----------------------------
(***************************************************************************)
(* Small instances of the portfolio.  A behaviour is about one of two      *)
(* things, the other rests: the documents of the ledger, with two          *)
(* accounts, a CSV row and trades entered by hand; or the reports over a   *)
(* ledger of a few entries, which are about shares, options or dividends.  *)
(* Three shares cost ten cents or, where two were bought, ten and a half   *)
(* each; so lines, sums and carried costs do not come out in cents.        *)
(***************************************************************************)
EXTENDS ImportSession, LedgerReports

CONSTANTS a1, a2, t1, t2, t3, r1

RowTrade == [r \in Rows |-> t1]
RowAccount == [r \in Rows |-> a1]

--------------------------------------------------------------------------
(* A record, and it with one or two of its fields given other values.      *)
Varied(base, values) ==
    {base} \cup
    UNION {{[base EXCEPT ![f] = x, ![g] = y] : x \in values[f], y \in values[g]} :
              f, g \in DOMAIN values}

Blank ==
    [id |-> 0, group |-> 0, seq |-> 0, kind |-> "BUY", date |-> 1, account |-> 1, security |-> 1,
     qty |-> 1, gross |-> 0, fees |-> 0, net |-> 0, status |-> "COMPLETE", leg |-> None,
     carried |-> 0, position |-> None, fmv |-> None]

Buying(qty, gross, fees) ==
    [Blank EXCEPT !.qty = qty, !.gross = gross, !.fees = fees, !.net = gross + fees]
Cashing(kind, gross, fees) ==
    [Blank EXCEPT !.kind = kind, !.gross = gross, !.fees = fees, !.net = gross - fees]
Leg(name, m) == [m EXCEPT !.leg = name]

Incomplete == [Buying(1, 0, 0) EXCEPT !.status = "INCOMPLETE"]
Free == [Buying(2, 0, 0) EXCEPT !.status = "ZERO_COST"]
Dear == Buying(1, 120, 0)
Thirds == Buying(3, 54, 6)
Halves == Buying(2, 114, 12)
Sale == Cashing("SELL", 90, 6)
Dividend == Cashing("DIVIDEND", 10, 2)

At(date, account, ms) == {[m EXCEPT !.date = date, !.account = account] : m \in ms}

ShareEntries ==
    At(1, 1, {Thirds, Incomplete}) \cup
    At(2, 1, {Halves, [Sale EXCEPT !.qty = 2]}) \cup
    At(1, 2, {Free}) \cup At(13, 2, {Thirds, [Sale EXCEPT !.qty = 2]})

Moving(qty, from, to, date) ==
    [security |-> 1, qty |-> qty, from |-> from, to |-> to, date |-> date]
ShareTransfers == {Moving(1, 1, 2, 2), Moving(1, 2, 1, 13)}

--------------------------------------------------------------------------
OfOption(p, kind, gross, fees, account) ==
    [Cashing(kind, gross, fees) EXCEPT !.position = p, !.account = account,
        !.net = IF kind \in {"CALL_BUY", "PUT_BUY", "BUY"} THEN gross + fees ELSE gross - fees]

OptionEntries ==
    {OfOption(1, "CALL_SELL", 60, 6, 1), OfOption(1, "CALL_BUY", 24, 6, 1),
     OfOption(2, "CALL_SELL", 30, 0, 2), OfOption(2, "PUT_SELL", 48, 6, 2),
     OfOption(2, "CALL_BUY", 36, 0, 1), OfOption(2, "BUY", 60, 0, 2)}

Position ==
    [id |-> 1, symbol |-> 1, security |-> None, type |-> "call", status |-> "active",
     reason |-> None, paper |-> FALSE, opened |-> 1, strike |-> 50, dte |-> 30, premium |-> TRUE]

PositionFields ==
    [symbol |-> {2, 3}, security |-> {1, 2}, type |-> {"put"}, status |-> {"rolled", "expired"},
     reason |-> {"manual", "assigned"}, paper |-> {TRUE}, opened |-> {2, 13}, strike |-> {None, 0},
     dte |-> {0, 365}]

(* The second position varies in one field.                                *)
OptionPortfolios ==
    {{Position, q} : q \in {[Position EXCEPT !.id = 2]} \cup
        UNION {{[Position EXCEPT !.id = 2, ![f] = x] : x \in PositionFields[f]} :
                  f \in DOMAIN PositionFields}} \cup
    {{[Position EXCEPT !.status = status, !.reason = "manual"],
      [Position EXCEPT !.id = 2, !.type = "put", !.status = "assigned", !.opened = 13]} :
        status \in {"closed", "rolled"}} \cup
    {{[Position EXCEPT !.status = "assigned"], [Position EXCEPT !.id = 2, !.reason = "manual"]}}

--------------------------------------------------------------------------
Scrip(date, fmv) ==
    <<Leg("CASH_DIVIDEND", [Dividend EXCEPT !.date = date]),
      Leg("SHARE_ACQUISITION", [Free EXCEPT !.date = date, !.fmv = fmv]),
      Leg("CASH_TOP_UP", [Buying(0, 6, 0) EXCEPT !.date = date, !.status = "INCOMPLETE"])>>

CorporateActions ==
    {Scrip(1, 30), Scrip(2, None), SubSeq(Scrip(13, 30), 2, 2), SubSeq(Scrip(2, 30), 1, 1)}

DividendEntries ==
    At(1, 1, {Dividend, Dear}) \cup At(2, 1, {Dividend, Buying(2, 60, 0)}) \cup
    At(13, 2, {Dividend, Dear}) \cup At(14, 2, {Cashing("DIVIDEND", 36, 0)}) \cup
    {OfOption(1, "CALL_SELL", 60, 6, 1), [Dear EXCEPT !.security = 2]}

(* Two payments of either share, half a year apart.                        *)
HalfYears ==
    {[Dividend EXCEPT !.id = 0, !.date = 1], [Dividend EXCEPT !.id = 1, !.date = 7],
     [Dividend EXCEPT !.id = 2, !.date = 2, !.security = 2],
     [Dividend EXCEPT !.id = 3, !.date = 8, !.security = 2, !.net = 3]}

--------------------------------------------------------------------------
Topics == {"shares", "options", "dividends"}
PerTopic(shares, options, dividends) ==
    [t \in Topics |-> CASE t = "shares" -> shares [] t = "options" -> options
                        [] t = "dividends" -> dividends]

TopicRecorded == PerTopic({{}}, {{}}, {{}, HalfYears})
TopicEntries == PerTopic(ShareEntries, OptionEntries, DividendEntries)
TopicActions == PerTopic({}, {}, CorporateActions)
TopicTransfers == PerTopic(ShareTransfers, {}, {})
TopicPortfolios == PerTopic({{}}, OptionPortfolios, {{Position}})
MostEntries == PerTopic(4, 3, 3)
NoEntries == PerTopic(0, 0, 0)

(* The ticker of the last two is the same.                                 *)
Securities == {[id |-> id, ticker |-> IF id = 3 THEN 2 ELSE id, active |-> TRUE] : id \in 1 .. 3}

--------------------------------------------------------------------------
vars == <<importVars, reportVars>>

NoReport == [topic |-> "none", entries |-> {}, positions |-> {}, done |-> 0]

Init == /\ ImportInit
        /\ kept = NoReport \/ ReportInit

Next == \/ kept = NoReport /\ ImportNext /\ UNCHANGED reportVars
        \/ kept.topic \in Topics /\ ReportNext /\ UNCHANGED importVars

Spec == Init /\ [][Next]_vars
=============================================================================
