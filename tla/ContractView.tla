---------------------------- MODULE ContractView ----------------------------
(***************************************************************************)
(* options_chain_view.py and options_math.py: what of a stored contract an *)
(* agent, a score or a page may use.  The store keeps a bid of zero as a   *)
(* fact; the view turns every quote that is no price into None and says    *)
(* why in a status.  A contract is a record of its expiration, in days     *)
(* from today, its strike in dollars, quotes in cents, delta in            *)
(* hundredths; None is a field that is absent or not a number.             *)
(***************************************************************************)
EXTENDS Absent, Integers

CONSTANT StaleAfter        \* hours after which a quote is stale

(* usable_quote *)
Usable(x) == IF x # None /\ x > 0 THEN x ELSE None

(* usable_greek: only an explicit FALSE takes the greeks away.             *)
Greek(c) == IF c.greeksValid = FALSE THEN None ELSE c.delta

(* is_candidate_eligible *)
Eligible(c) ==
    /\ Usable(c.bid) # None
    /\ c.interest # None /\ c.interest >= 1
    /\ c.greeksValid # FALSE

(* robust_mid_optional: an ask that is implausibly wide is not trusted, nor *)
(* is a market without a bid worth half its ask.                           *)
RobustMid(bid, ask) ==
    LET b == Usable(bid)
        a == Usable(ask)
    IN  CASE b # None /\ a # None -> IF a > b * 8 + 20 THEN b ELSE (b + a) \div 2
          [] b # None /\ a = None -> b
          [] b = None /\ a # None -> IF a < 10 THEN a ELSE 10
          [] OTHER -> None

(* _is_stale: without evidence a quote is not fresh.                       *)
StaleQuote(asof, now) == asof = None \/ now - asof > StaleAfter

(* _fresh_field_status *)
FieldStatus(c) ==
    LET live == IF c.carried THEN "last_known_good" ELSE "live"
        Quoted(x, zero) ==
            IF Usable(x) # None THEN live ELSE IF x = 0 THEN zero ELSE "unavailable"
        Derived(x) == IF x # None THEN "live" ELSE "unavailable"
    IN  [bid |-> Quoted(c.bid, "no_market"), ask |-> Quoted(c.ask, "unavailable"),
         last |-> Quoted(c.last, "no_trades"), iv |-> Quoted(c.iv, "unavailable"),
         mid |-> Derived(Usable(c.mid)), greeks |-> Derived(Greek(c))]

(* contract_view: a status derived before is kept, the values it was       *)
(* derived from are gone.                                                  *)
View(c, now) ==
    [c EXCEPT !.bid = Usable(@), !.ask = Usable(@), !.last = Usable(@), !.iv = Usable(@),
              !.mid = Usable(@), !.delta = Greek(c),
              !.stale = StaleQuote(c.asof, now),
              !.tradable = Usable(c.bid) # None /\ Usable(c.ask) # None,
              !.status = IF @ # None THEN @ ELSE FieldStatus(c)]
=============================================================================
