------------------------- MODULE ChainAccumulation -------------------------
(***************************************************************************)
(* The accumulated options chain of one symbol through its refresh cycles  *)
(* (_refresh_locked of options_chain_cache.py), with the log of everything *)
(* the two providers ever answered, against which the accumulated chain is *)
(* judged.  The first half has the merge semantics of                      *)
(* options_chain_merge.py: pure operators, no state.  A contract is a      *)
(* record of its observed fields, with Absent for a key that is missing or *)
(* None; a bucket maps strikes to contracts; a chain maps expirations      *)
(* (days) to buckets.  One side (calls) is modelled, the code treats both  *)
(* alike.                                                                  *)
(***************************************************************************)
EXTENDS Integers, Sequences, FiniteSets, FiniteSetsExt

CONSTANTS
    QuoteFields,        \* the fields of _QUOTE_GROUP_FIELDS that are modelled
    ObservedFields,     \* those of _OTHER_OBSERVED_FIELDS
    OccSymbols,         \* values of contractSymbol in OCC format
    DegeneracyMin       \* _DEGENERACY_MIN_CONTRACTS

ASSUME MergeAssumption ==
    /\ QuoteFields \subseteq {"bid", "ask", "iv", "lastPrice", "lastTradeDate"}
    /\ ObservedFields \subseteq {"volume", "openInterest", "inTheMoney", "contractSymbol"}
    /\ "contractSymbol" \in ObservedFields
    /\ OccSymbols \subseteq Nat \ {0}
    /\ DegeneracyMin \in Nat \ {0}

Fields == QuoteFields \cup ObservedFields
ZeroSensitive == {"bid", "lastPrice", "volume", "openInterest"}

Absent == -2        \* no key, or None: no opinion
Bad == -1           \* a value no field accepts (NaN, negative, empty, "n/a")
Empty == [s \in {} |-> Absent]

(* is_accepted: ask and iv must be positive; the others admit zero.        *)
IsAccepted(f, v) == IF f \in {"ask", "iv", "contractSymbol"} THEN v > 0 ELSE v >= 0

IsMeaningful(f, v) == IsAccepted(f, v) /\ ~(f \in ZeroSensitive /\ v = 0)

(* gate_contract, gate_bucket: a source that quotes neither an ask nor an  *)
(* iv is not quoting, nor is a source whose whole bucket does not.         *)
GateContract(c) == \E f \in Fields \cap {"ask", "iv"} : IsAccepted(f, c[f])

GateBucket(b) ==
    Cardinality(DOMAIN b) >= DegeneracyMin => \E s \in DOMAIN b : GateContract(b[s])

Trusted(b, s) == s \in DOMAIN b /\ GateBucket(b) /\ GateContract(b[s])
Offer(b, s, f) == IF s \in DOMAIN b THEN b[s][f] ELSE Absent

AcceptSymbolLast(existing, candidate) ==                           \* mutant
    IF IsAccepted("contractSymbol", candidate) THEN candidate ELSE existing

AcceptContractSymbol(existing, candidate) ==
    IF \/ ~IsAccepted("contractSymbol", candidate)
       \/ existing \in OccSymbols /\ candidate \notin OccSymbols
    THEN existing
    ELSE candidate

(* merge_sources for one strike of one bucket: a quote field from the      *)
(* first trusted source, TradingView before yfinance, that offers an       *)
(* accepted value; an observed field from yfinance before TradingView,     *)
(* trusted or not.                                                         *)
MergedQuote(yf, tv, s, f) ==
    IF Trusted(tv, s) /\ IsAccepted(f, tv[s][f]) THEN tv[s][f]
    ELSE IF Trusted(yf, s) /\ IsAccepted(f, yf[s][f]) THEN yf[s][f]
    ELSE Absent

MergedObserved(yf, tv, s, f) ==
    IF f = "contractSymbol"
    THEN AcceptContractSymbol(AcceptContractSymbol(Absent, Offer(yf, s, f)), Offer(tv, s, f))
    ELSE IF IsAccepted(f, Offer(yf, s, f)) THEN Offer(yf, s, f)
    ELSE IF IsAccepted(f, Offer(tv, s, f)) THEN Offer(tv, s, f)
    ELSE Absent

(* quote_source, the hand-off to merge_prior.                              *)
QuoteSource(yf, tv, s) ==
    IF Trusted(tv, s) /\ \E f \in QuoteFields : IsAccepted(f, tv[s][f]) THEN "tradingview"
    ELSE "yfinance"

MergeSources(yf, tv) ==
    [s \in DOMAIN yf \cup DOMAIN tv |->
        [fields |-> [f \in Fields |-> IF f \in QuoteFields THEN MergedQuote(yf, tv, s, f)
                                      ELSE MergedObserved(yf, tv, s, f)],
         source |-> QuoteSource(yf, tv, s)]]

-----------------------------------------------------------------------------
(* merge_prior.  An accumulated contract adds the provenance of _meta.     *)

SelectQuoteAnyDate(f, live, prior) ==                              \* mutant
    LET v == live[f]
    IN  CASE ~IsAccepted(f, v) \/ ~GateContract(live) -> [value |-> prior, accepted |-> FALSE]
          [] OTHER -> [value |-> v, accepted |-> TRUE]

(* _select_quote_field.  Comparing with Absent or Bad, which are negative, *)
(* makes any parseable lastTradeDate newer than an absent one.             *)
SelectQuote(f, live, prior) ==
    LET v == live[f]
    IN  CASE \/ ~IsAccepted(f, v)
             \/ ~GateContract(live)
             \/ f = "lastTradeDate" /\ v < prior ->
                  [value |-> prior, accepted |-> FALSE]
          [] IsAccepted(f, v) /\ GateContract(live) /\ f \in ZeroSensitive /\ v = 0 ->
                  [value |-> IF IsMeaningful(f, prior) THEN prior ELSE Absent,
                   accepted |-> FALSE]
          [] OTHER -> [value |-> v, accepted |-> TRUE]

SelectObserved(f, live, prior) ==
    IF f = "contractSymbol" THEN AcceptContractSymbol(prior, live[f])
    ELSE IF ~IsAccepted(f, live[f]) THEN prior
    ELSE IF IsMeaningful(f, live[f]) THEN live[f]
    ELSE IF IsMeaningful(f, prior) THEN prior ELSE Absent

NoPrior(now) ==
    [fields |-> [f \in Fields |-> Absent], carried |-> FALSE, asof |-> 0,
     source |-> "none", first |-> now, last |-> now, greeks |-> FALSE]

MergePriorContractTouches(prior, live, now) ==                     \* mutant
    [prior EXCEPT
       !.fields = [f \in Fields |->
                     IF f \in QuoteFields
                     THEN SelectQuote(f, live.fields, prior.fields[f]).value
                     ELSE SelectObserved(f, live.fields, prior.fields[f])],
       !.carried = FALSE, !.last = now, !.asof = now, !.source = live.source]

(* _merge_prior_contract: no live contract carries the prior forward as it *)
(* is; asof and source advance only with an accepted quote field.          *)
MergePriorContract(prior, live, now) ==
    LET sel == [f \in QuoteFields |-> SelectQuote(f, live.fields, prior.fields[f])]
        updated == \E f \in QuoteFields : sel[f].accepted
    IN  [prior EXCEPT
           !.fields = [f \in Fields |-> IF f \in QuoteFields THEN sel[f].value
                                        ELSE SelectObserved(f, live.fields, prior.fields[f])],
           !.carried = FALSE,
           !.last = now,
           !.asof = IF updated THEN now ELSE @,
           !.source = IF updated THEN live.source ELSE @]

MergePrior(prior, live, now) ==
    [s \in DOMAIN prior \cup DOMAIN live |->
        IF s \notin DOMAIN live
        THEN [prior[s] EXCEPT !.carried = TRUE]
        ELSE MergePriorContract(IF s \in DOMAIN prior THEN prior[s] ELSE NoPrior(now),
                                live[s], now)]

(* recompute_derived: greeks_valid, by which the five greeks are numbers   *)
(* or None together; strikes are positive.                                 *)
RecomputeDerived(bucket, priceOk) ==
    [s \in DOMAIN bucket |->
        [bucket[s] EXCEPT !.greeks = /\ priceOk
                                     /\ "iv" \in Fields
                                     /\ IsAccepted("iv", bucket[s].fields["iv"])]]

PruneByExpirationEarly(chain, today) ==                            \* mutant
    [e \in {x \in DOMAIN chain : x > today} |-> chain[e]]

(* prune_by_expiration: the whole expiration day is retained.              *)
PruneByExpiration(chain, today) ==
    [e \in {x \in DOMAIN chain : x >= today} |-> chain[e]]

-----------------------------------------------------------------------------

CONSTANTS
    Strikes,        \* strikes the providers list
    Expirations,    \* expiration days
    YfBuckets,      \* what yfinance may answer for an expiration
    TvBuckets,      \* what TradingView may answer
    LastDay,        \* bound: last trading day of the model
    MaxCycles       \* bound: refresh cycles

(* A provider answers a strike of the expiration with a number, or with    *)
(* Absent or Bad, for every field.                                         *)
ASSUME AccumulationAssumption ==
    /\ Expirations \subseteq Int
    /\ \A b \in YfBuckets \cup TvBuckets :
          DOMAIN b \subseteq Strikes /\ \A s \in DOMAIN b : b[s] \in [Fields -> Int]

VARIABLES
    chain,          \* accumulated, as served: expiration -> bucket
    today,          \* the date in New York
    log             \* every cycle's answers: [exp, yf, tv, up]

vars == <<chain, today, log>>

Prior(e) == IF e \in DOMAIN chain THEN chain[e] ELSE Empty
Keep(f, D) == [e \in {x \in D : f[x] # Empty} |-> f[e]]

Init == chain = Empty /\ today = 1 /\ log = <<>>

(* _extract_underlying_price: this cycle's price, else the last known one. *)
PriceKnown(up) == up \/ \E k \in 1..Len(log) : log[k].up

(* One refresh cycle; the sources answer for one expiration that has not   *)
(* passed.  yfinance is up when it has a price; if not it lists nothing.   *)
Refresh(e, yf, tv, up) ==
    /\ Len(log) < MaxCycles
    /\ e >= today
    /\ up \/ yf = Empty
    /\ LET now == Len(log) + 1
           live == [x \in {e} |-> MergeSources(yf, tv)]
           D == DOMAIN chain \cup {e}
           merged == [x \in D |-> MergePrior(Prior(x), IF x = e THEN live[x] ELSE Empty, now)]
           derived == [x \in D |-> RecomputeDerived(merged[x], PriceKnown(up))]
       IN  /\ chain' = PruneByExpiration(Keep(derived, D), today)
           /\ log' = Append(log, [exp |-> e, yf |-> yf, tv |-> tv, up |-> up])
    /\ UNCHANGED today

(* Midnight in New York.  A read after it serves a pruned chain            *)
(* (_hydrate_into_memory) or waits for the next refresh to prune.          *)
NextDay ==
    /\ today < LastDay
    /\ today' = today + 1
    /\ UNCHANGED <<chain, log>>

Next ==
    \/ NextDay
    \/ \E e \in Expirations, yf \in YfBuckets, tv \in TvBuckets,
          up \in BOOLEAN : Refresh(e, yf, tv, up)

Spec == Init /\ [][Next]_vars

-----------------------------------------------------------------------------
(* Cycles in which a source listed the contract.                           *)
Listed(e, s) == {k \in 1..Len(log) : log[k].exp = e /\ s \in DOMAIN log[k].yf \cup DOMAIN log[k].tv}

(* A contract is in the chain exactly when some cycle listed it, for as    *)
(* long as its expiration has not passed; providers that stop listing it   *)
(* never remove it ("never drops a contract").                             *)
NeverDropped ==
    \A e \in Expirations, s \in Strikes :
        /\ e >= today /\ Listed(e, s) # {} => e \in DOMAIN chain /\ s \in DOMAIN chain[e]
        /\ e \in DOMAIN chain /\ s \in DOMAIN chain[e] => Listed(e, s) # {}

(* The value the cycle's sources give a quote field between them.          *)
Given(k, s, f) ==
    IF f \in QuoteFields THEN MergedQuote(log[k].yf, log[k].tv, s, f)
    ELSE MergedObserved(log[k].yf, log[k].tv, s, f)
Informative(e, s, f) == {k \in Listed(e, s) : IsMeaningful(f, Given(k, s, f))}

(* Last known good, judged from the log alone: a field holds the value of  *)
(* the last cycle that gave it a meaningful one, whatever zeros, gaps and  *)
(* untrusted quotes came after (rule Z12); a trade date holds the latest   *)
(* date given.                                                             *)
LastKnownGood ==
    \A e \in DOMAIN chain : \A s \in DOMAIN chain[e] :
      \A f \in Fields \ {"contractSymbol"} :
        LET K == Informative(e, s, f)
            v == chain[e][s].fields[f]
        IN  IF K = {} THEN v = Absent
            ELSE IF f = "lastTradeDate" THEN v = Max({Given(k, s, f) : k \in K})
            ELSE v = Given(Max(K), s, f)

(* Provenance: quote_asof is the last cycle whose quotes were taken over,  *)
(* and quote_source names TradingView exactly when it was trusted then.    *)
ProvenanceHonest ==
    \A e \in DOMAIN chain : \A s \in DOMAIN chain[e] :
        LET c == chain[e][s]
            K == {k \in Listed(e, s) : Trusted(log[k].yf, s) \/ Trusted(log[k].tv, s)}
        IN  /\ c.asof = (IF K = {} THEN 0 ELSE Max(K))
            /\ K # {} => (c.source = "tradingview" <=> Trusted(log[Max(K)].tv, s))
            /\ c.last = Max(Listed(e, s)) /\ c.first = Min(Listed(e, s))
            /\ c.carried <=> c.last < Len(log)

(* Greeks are numbers exactly when some cycle learnt the underlying price  *)
(* and the contract has a usable iv: an outage of yfinance does not blank  *)
(* the greeks of carried contracts (_extract_underlying_price).            *)
GreeksFresh ==
    \A e \in DOMAIN chain : \A s \in DOMAIN chain[e] :
        chain[e][s].greeks <=>
            /\ \E k \in 1..Len(log) : log[k].up
            /\ "iv" \in Fields /\ chain[e][s].fields["iv"] > 0

(* An OCC symbol is never downgraded, whatever the sources report later.   *)
OccNeverDowngraded ==
    [][\A e \in DOMAIN chain : \A s \in DOMAIN chain[e] :
         chain[e][s].fields["contractSymbol"] \in OccSymbols =>
            \/ e \notin DOMAIN chain'
            \/ chain'[e][s].fields["contractSymbol"] \in OccSymbols]_vars

(* What is stored of a contract is what its cycles say, whichever source   *)
(* was down in which of them: where the quote is from, how old it is,      *)
(* whether there are Greeks.                                               *)
FieldsHonest == ProvenanceHonest /\ GreeksFresh
=============================================================================
