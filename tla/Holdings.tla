------------------------------- MODULE Holdings -------------------------------
(***************************************************************************)
(* What is held, computed from the ledger: holdings_service.py depletes    *)
(* the lots of each account first in, first out.  A transfer between       *)
(* accounts carries a cost that cosmos_portfolio.py computes when it is    *)
(* recorded, and app.py adds up what was invested year by year.            *)
(*                                                                         *)
(* Money is counted in sixths of a cent, so that a share of three may cost *)
(* a third of what was paid; the instances choose amounts that divide by   *)
(* the numbers of shares that occur.  Costs per share are exact, what is   *)
(* shown and what a transfer carries is rounded to cents.                  *)
(*                                                                         *)
(* Abstracted: a date is the number of a month.  Corporate actions carry a *)
(* group number, 0 for none.  Read repair of symbol documents and names    *)
(* are left out, and so is the rounding of the invested capital.           *)
(***************************************************************************)
EXTENDS Absent, Integers, Sequences, FiniteSets, SequencesExt

OptionKinds == {"CALL_SELL", "CALL_BUY", "PUT_SELL", "PUT_BUY"}
YearOf(date) == (date - 1) \div 12

Total(of, ms) == MapThenSumSet(LAMBDA m : of[m], ms)
NonNegative(n) == Max({n, 0})

(* ROUND_HALF_UP: a half goes away from zero.                              *)
HalfUp(n, d) == IF n < 0 THEN -((d - 2 * n) \div (2 * d)) ELSE (2 * n + d) \div (2 * d)
Cent == 6
ToCents(n) == Cent * HalfUp(n, Cent)

(* The order in which movements take effect.                               *)
Place(m) == <<m.date, m.group, m.seq, m.id>>
Earlier(m, n) ==
    \E i \in 1 .. 4 : Place(m)[i] < Place(n)[i] /\ \A j \in 1 .. i - 1 : Place(m)[j] = Place(n)[j]
Ordered(ms) ==
    [i \in 1 .. Cardinality(ms) |->
        CHOOSE m \in ms : Cardinality({n \in ms : Earlier(n, m)}) = i - 1]

(* acquisition_lot_unit_cost: None when it is not known.                   *)
UnitCost(m) ==
    IF m.leg \notin {None, "SHARE_ACQUISITION"} \/ m.qty <= 0 \/ m.status = "INCOMPLETE" THEN None
    ELSE IF m.status = "ZERO_COST" THEN 0
    ELSE IF m.net < 0 THEN None
    ELSE m.net \div m.qty

--------------------------------------------------------------------------
(* Lots: sequences of a quantity left and its cost per share.              *)

InLots(lots, n) == Total([i \in 1 .. n |-> NonNegative(lots[i].qty)], 1 .. n)

(* _consume_lots: how much of each lot q shares take.                      *)
Taken(lots, q) ==
    [i \in DOMAIN lots |-> Min({NonNegative(lots[i].qty), NonNegative(q - InLots(lots, i - 1))})]

Depleted(lots, q) == [i \in DOMAIN lots |-> [lots[i] EXCEPT !.qty = @ - Taken(lots, q)[i]]]
CostTaken(lots, q) ==
    Total([i \in DOMAIN lots |-> IF Known(lots[i].cost) THEN Taken(lots, q)[i] * lots[i].cost ELSE 0],
          DOMAIN lots)
Overdraws(lots, q) == q > InLots(lots, Len(lots))

(* The accumulators of one security.                                       *)
NothingHeld(accounts) ==
    [seen |-> FALSE, lots |-> [a \in accounts |-> <<>>], accounts |-> {}, shares |-> 0,
     outflow |-> 0, sold |-> 0, proceeds |-> 0, dividends |-> 0, incomplete |-> 0,
     overdrawn |-> FALSE]

Acquired(h, m, cost) ==
    [h EXCEPT !.shares = @ + m.qty, !.lots[m.account] = Append(@, [qty |-> m.qty, cost |-> cost])]

Removed(h, m) == [h EXCEPT !.shares = @ - m.qty, !.lots[m.account] = Depleted(@, m.qty)]

SharesOnly(h, m) == [h EXCEPT !.shares = @ - m.qty]           \* mutant

TransferredOut(h, m) == Removed(h, m)

Bought(h, m) ==
    [Acquired(h, m, UnitCost(m)) EXCEPT
        !.outflow = @ + (IF m.status = "COMPLETE" THEN m.net ELSE 0),
        !.incomplete = @ + (IF m.status = "INCOMPLETE" THEN 1 ELSE 0)]

Sold(h, m) ==
    [Removed(h, m) EXCEPT
        !.proceeds = @ + m.gross - m.fees,
        !.sold = @ + CostTaken(h.lots[m.account], m.qty),
        !.overdrawn = @ \/ Overdraws(h.lots[m.account], m.qty)]

(* One movement: a cash flow of options changes nothing, and what has only *)
(* those is not held.                                                      *)
Booked(h, m) ==
    LET g == [h EXCEPT !.seen = TRUE, !.accounts = @ \cup {m.account}]
    IN  CASE m.kind \in OptionKinds -> IF h.seen THEN g ELSE h
          [] m.kind = "BUY" -> Bought(g, m)
          [] m.kind = "SELL" -> Sold(g, m)
          [] m.kind = "DIVIDEND" -> [g EXCEPT !.dividends = @ + m.net]
          [] m.kind = "TRANSFER_IN" -> Acquired(g, m, IF m.qty > 0 THEN m.carried \div m.qty ELSE 0)
          [] m.kind = "TRANSFER_OUT" -> TransferredOut(g, m)

(* What is left of the lots, and the amounts of a security before rounding.*)
Left(h) == UNION {{<<a, i>> : i \in {j \in DOMAIN h.lots[a] : h.lots[a][j].qty > 0}} :
                     a \in DOMAIN h.lots}
Priced(h) == {p \in Left(h) : Known(h.lots[p[1]][p[2]].cost)}
Pool(h) == Total([p \in Priced(h) |-> h.lots[p[1]][p[2]].qty], Priced(h))
Sums(h) ==
    [outflow |-> h.outflow, sold |-> h.sold, proceeds |-> h.proceeds,
     remaining |-> Total([p \in Priced(h) |-> LET lot == h.lots[p[1]][p[2]] IN lot.qty * lot.cost],
                         Priced(h)),
     realized |-> h.proceeds - h.sold, dividends |-> h.dividends]
Amounts == {"outflow", "sold", "remaining", "proceeds", "realized", "dividends"}

(* A line of the answer: every amount of it is rounded by itself (_fmt2).  *)
Line(h, account) ==
    LET blurred == account = None /\ Cardinality(h.accounts) > 1 /\ Priced(h) # Left(h)
        sums == Sums(h)
    IN  [f \in Amounts |-> ToCents(sums[f])] @@
        [shares |-> h.shares,
         average |-> IF Pool(h) > 0 /\ ~blurred THEN Cent * HalfUp(sums.remaining, Cent * Pool(h))
                     ELSE None,
         incomplete |-> h.incomplete,
         status |-> IF h.incomplete > 0 THEN "INCOMPLETE" ELSE "COMPLETE", accounts |-> h.accounts,
         warnings |-> {w \in {"NEGATIVE_INVENTORY", "INCOMPLETE_COST_BASIS"} :
                          \/ w = "NEGATIVE_INVENTORY" /\ (h.shares < 0 \/ h.overdrawn)
                          \/ w = "INCOMPLETE_COST_BASIS" /\ h.incomplete > 0}]

InAccount(ms, account) == {m \in ms : account \in {None, m.account}}

(* compute_holdings, of one account or of all: the lines, and the summary  *)
(* that adds up what they are before they are rounded.                     *)
BooksOf(ms, account) ==
    LET mine == InAccount(ms, account)
    IN  [s \in {m.security : m \in {n \in mine : n.kind \notin OptionKinds}} |->
            FoldLeft(Booked, NothingHeld({m.account : m \in mine}),
                     Ordered({m \in mine : m.security = s}))]

SummaryOf(sums) ==
    [f \in Amounts |-> ToCents(Total([s \in DOMAIN sums |-> sums[s][f]], DOMAIN sums))]

HoldingsOf(ms, account) ==
    LET books == BooksOf(ms, account)
    IN  [holdings |-> [s \in DOMAIN books |-> Line(books[s], account)],
         summary |-> SummaryOf([s \in DOMAIN books |-> Sums(books[s])])]

--------------------------------------------------------------------------
(* Transfers. *)

UpTo(ms, account, security, date) ==
    {m \in ms : m.account = account /\ m.security = security /\ m.date <= date}

Signed(m) == CASE m.kind \in {"BUY", "TRANSFER_IN"} -> m.qty
               [] m.kind \in {"SELL", "TRANSFER_OUT"} -> -m.qty
               [] OTHER -> 0

(* _compute_shares_at_date *)
SharesAt(ms, account, security, date) ==
    LET held == UpTo(ms, account, security, date) IN Total([m \in held |-> Signed(m)], held)

(* _compute_cost_basis_at_date: the average of all that came in, whether   *)
(* or not it is still there, to the cent.                                  *)
CarriedCost(ms, account, security, date, qty) ==
    LET in == {m \in UpTo(ms, account, security, date) :
                  \/ m.kind = "BUY" /\ m.status # "INCOMPLETE"
                  \/ m.kind = "TRANSFER_IN" /\ m.qty > 0}
        cost == Total([m \in in |-> IF m.kind = "BUY" THEN m.gross + m.fees ELSE m.carried], in)
        paid == Total([m \in in |-> m.qty], in)
    IN  IF paid <= 0 THEN 0 ELSE Cent * HalfUp(cost * qty, Cent * paid)

--------------------------------------------------------------------------
(* _build_invested_capital_report: purchases and sales year by year, and   *)
(* all up to a year.                                                       *)
Invested(ms, security, account) ==
    LET mine == {m \in InAccount(ms, account) :
                    security \in {None, m.security} /\ m.kind \in {"BUY", "SELL"}}
        in(years, kind) == LET them == {m \in mine : YearOf(m.date) \in years /\ m.kind = kind}
                           IN  Total([m \in them |-> NonNegative(m.net) + NonNegative(-m.net)], them)
        years == {YearOf(m.date) : m \in mine}
    IN  [yearly |-> [y \in years |-> in({y}, "BUY") - in({y}, "SELL")],
         cumulative |-> [y \in years |-> [buys |-> in(0 .. y, "BUY"), sells |-> in(0 .. y, "SELL")]]]
=============================================================================
