---------------------------- MODULE LedgerReports ----------------------------
(***************************************************************************)
(* The reports over a ledger that grows: trades in any order of their      *)
(* dates, transfers between accounts that carry a cost, corporate actions  *)
(* of several legs, a leg that is moved to another account.  The reports   *)
(* are computed from scratch whenever they are asked for, so what they say *)
(* of a ledger is a property of the state.                                 *)
(***************************************************************************)
EXTENDS Income

CONSTANTS Recorded,       \* topic -> ledgers to begin with
          Entries,        \* topic -> the trades that may be recorded
          Actions,        \* topic -> corporate actions: sequences of legs
          Transfers,      \* topic -> transfers: [security, from, to, qty, date]
          Portfolios,     \* topic -> sets of option positions
          Listed,         \* the securities: [id, ticker, active]
          MaxEntries      \* bound: topic -> operations on the ledger

ASSUME LedgerReportsAssumption ==
    /\ MaxEntries \in [DOMAIN Entries -> Nat]
    /\ DOMAIN Entries = DOMAIN Actions /\ DOMAIN Entries = DOMAIN Transfers
    /\ DOMAIN Entries = DOMAIN Portfolios /\ DOMAIN Entries = DOMAIN Recorded

VARIABLE kept    \* [topic, entries, positions, done]

reportVars == <<kept>>

ReportInit ==
    \E topic \in DOMAIN Entries :
        \E before \in Recorded[topic], positions \in Portfolios[topic] :
            kept = [topic |-> topic, entries |-> before, positions |-> positions, done |-> 0]

Numbered(new, group) ==
    LET first == Cardinality(kept.entries)
    IN  {[new[i] EXCEPT !.id = first + i, !.group = group, !.seq = IF group = 0 THEN 0 ELSE i] :
            i \in DOMAIN new}

Keep(new, group) ==
    /\ kept.done < MaxEntries[kept.topic]
    /\ kept' = [kept EXCEPT !.entries = @ \cup Numbered(new, group), !.done = @ + 1]

(* create_movement                                                         *)
RecordEntry(e) == Keep(<<e>>, 0)

(* create_corporate_action: all its legs in one account.                   *)
RecordAction(legs) == Keep(legs, Cardinality(kept.entries) + 1)

(* create_transfer_pair: of shares the account has on that day.            *)
RecordTransfer(t) ==
    LET cost == CarriedCost(kept.entries, t.from, t.security, t.date, t.qty)
        leg(kind, account) ==
            [id |-> 0, group |-> 0, seq |-> 0, kind |-> kind, date |-> t.date, account |-> account,
             security |-> t.security, qty |-> t.qty, gross |-> 0, fees |-> 0, net |-> 0,
             status |-> "COMPLETE", leg |-> None, carried |-> cost, position |-> None, fmv |-> None]
    IN  /\ SharesAt(kept.entries, t.from, t.security, t.date) >= t.qty
        /\ Keep(<<leg("TRANSFER_OUT", t.from), leg("TRANSFER_IN", t.to)>>, 0)

(* reassign_movement of one leg of a group                                 *)
MoveLeg(m, account) ==
    /\ kept.done < MaxEntries[kept.topic]
    /\ m.group # 0 /\ account # m.account
    /\ kept' = [kept EXCEPT !.entries = (@ \ {m}) \cup {[m EXCEPT !.account = account]},
                            !.done = @ + 1]

ReportNext ==
    \/ \E e \in Entries[kept.topic] : RecordEntry(e)
    \/ \E legs \in Actions[kept.topic] : RecordAction(legs)
    \/ \E t \in Transfers[kept.topic] : RecordTransfer(t)
    \/ \E m \in kept.entries : \E e \in Entries[kept.topic] : MoveLeg(m, e.account)

--------------------------------------------------------------------------
LedgerAccounts == {m.account : m \in kept.entries}
Unfiltered == [year |-> None, symbols |-> None, types |-> None, accounts |-> None]
Only(a) == [Unfiltered EXCEPT !.accounts = {a}]
Summed(f, domain, field) == Total([x \in domain |-> f[x][field]], domain)

Options(f) == OptionReport(kept.positions, kept.entries, Listed, f)

(* No sale or transfer ever took more than its account had.                *)
NeverShort(ms) ==
    \A m \in ms :
        Total([n \in ms |-> IF Earlier(m, n) \/ n.account # m.account \/ n.security # m.security
                            THEN 0 ELSE Signed(n)], ms) >= 0

(* Two sums, when one has been rounded to cents at so many places.         *)
Near(x, y, places) == Max({x, y}) - Min({x, y}) <= places * (Cent \div 2)

(* What is held in all accounts is what is held in each: shares exactly,   *)
(* amounts but for half a cent of every line that is compared, as each is  *)
(* rounded by itself; so is the summary against its lines.  Costs do not   *)
(* come from nowhere: what was paid or carried in is sold, left, or was    *)
(* carried out.  Where no account was ever short, no line warns of it; and *)
(* shares bought at one price keep it, wherever they were transferred      *)
(* (test_portfolio_summary_cost_basis.py, S8), but for half a cent of each *)
(* cost that a transfer carries.  The years of the invested capital add up *)
(* to the purchases of the holdings.                                       *)
HoldingsAddUp ==
    LET ms == kept.entries
        answer == HoldingsOf(ms, None)
        whole == answer.holdings
        mine == [a \in LedgerAccounts |-> HoldingsOf(ms, a).holdings]
        owning(s) == {a \in LedgerAccounts : s \in DOMAIN mine[a]}
        of(s, kinds) == {m \in ms : m.security = s /\ m.kind \in kinds}
        everywhere(s, f) == Total([a \in owning(s) |-> mine[a][s][f]], owning(s))
    IN  /\ \A f \in Amounts :
              Near(answer.summary[f], Total([s \in DOMAIN whole |-> whole[s][f]], DOMAIN whole),
                   1 + Cardinality(DOMAIN whole))
        /\ \A s \in DOMAIN whole :
            LET h == whole[s]
                bought == of(s, {"BUY"})
                moved == of(s, {"TRANSFER_IN"})
                paid == h.outflow + SumOf("carried", moved)
                prices == {UnitCost(m) : m \in bought}
                years == Invested(ms, s, None).cumulative
            IN  /\ h.shares = everywhere(s, "shares") /\ h.incomplete = everywhere(s, "incomplete")
                /\ \A f \in Amounts : Near(h[f], everywhere(s, f), 1 + Cardinality(owning(s)))
                /\ h.sold + h.remaining <= paid \/ Near(h.sold + h.remaining, paid, 3)
                /\ of(s, {"TRANSFER_OUT"}) = {} => Near(h.sold + h.remaining, paid, 3)
                /\ NeverShort(ms) =>
                      /\ "NEGATIVE_INVENTORY" \notin h.warnings
                      /\ prices \subseteq Nat /\ Cardinality(prices) = 1 =>
                            Near(h.remaining, h.shares * CHOOSE p \in prices : TRUE,
                                 1 + Cardinality(moved))
                /\ h.incomplete = 0 =>
                      \A y \in DOMAIN years :
                          (\A z \in DOMAIN years : z <= y) => Near(years[y].buys, h.outflow, 1)

(* Whether every position that counts has the month it was opened in.      *)
Dated(rows) == \A r \in rows : r.paper \/ Known(r.opened)

OptionsAddUp(o, of) ==
    /\ \A f \in {"premium", "buyback", "net", "income", "commission", "count"} :
          /\ o.summary[f] = Summed(o.bySymbol, DOMAIN o.bySymbol, f)
          /\ o.summary[f] = Summed(o.byType, DOMAIN o.byType, f)
          /\ Dated(o.rows) => o.summary[f] = Summed(o.monthly, DOMAIN o.monthly, f)
          /\ f # "count" =>
                o.summary[f] = Total([a \in DOMAIN of |-> of[a].summary[f]], DOMAIN of)
    /\ \A a \in DOMAIN of : LET c == of[a].coverage IN
          c.linked + c.unresolved + c.unlinked + c.outside = c.total

DividendsAddUp(d, of, split) ==
    /\ \A f \in {"net", "total", "count"} :
          /\ d.summary[f] = Summed(d.bySymbol, DOMAIN d.bySymbol, f)
          /\ d.summary[f] = Summed(d.monthly, DOMAIN d.monthly, f)
          /\ d.summary[f] = Summed(d.yearly, DOMAIN d.yearly, f)
          /\ d.summary[f] = split[f] + Total([a \in DOMAIN of |-> of[a].summary[f]], DOMAIN of)
    /\ d.summary.partial <=> \E m \in DOMAIN d.monthly : d.monthly[m].partial
    /\ ToCents(d.summary.net) = HoldingsOf(kept.entries, None).summary.dividends
    /\ \A m \in DOMAIN d.cumulative :
          (\A n \in DOMAIN d.cumulative : n <= m) => d.cumulative[m] = d.summary

OverviewAddsUp(rows, v) ==
    /\ v.combined = Total(v.bySymbol, DOMAIN v.bySymbol)
    /\ Dated(rows) => v.combined = Total(v.monthly, DOMAIN v.monthly)

YieldsBetween(y) ==
    LET told == {s \in DOMAIN y.bySymbol : Known(y.bySymbol[s])}
    IN  Known(y.whole) => /\ y.whole >= Min({y.bySymbol[s] : s \in told})
                          /\ y.whole <= Max({y.bySymbol[s] : s \in told})

(* Every way to group a report adds up to its summary, and the reports of  *)
(* each account to the report of all: for dividends, but for the events    *)
(* whose legs are in several accounts.  A position is counted under one    *)
(* coverage.  Dividends are the same in the holdings and in their report,  *)
(* a sum is partial when it lacks something, and the last cumulative month *)
(* has all years.  A yield of the whole lies between those of its parts.   *)
ReportsAddUp ==
    LET options == [f \in {Unfiltered} \cup {Only(a) : a \in LedgerAccounts} |-> Options(f)]
        dividends == [f \in DOMAIN options |-> DividendReport(kept.entries, f)]
        whole == options[Unfiltered]
        earned == dividends[Unfiltered]
    IN  kept.entries # {} =>
            /\ OptionsAddUp(whole, [a \in LedgerAccounts |-> options[Only(a)]])
            /\ DividendsAddUp(earned, [a \in LedgerAccounts |-> dividends[Only(a)]],
                              Aggregate({e \in Events(kept.entries) : ~e.owned}))
            /\ OverviewAddsUp(whole.rows, Overview(whole, earned))
            /\ YieldsBetween(Yields(kept.entries, Unfiltered))
=============================================================================
