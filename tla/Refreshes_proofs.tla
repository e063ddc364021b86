-------------------------- MODULE Refreshes_proofs --------------------------
(***************************************************************************)
(* Proofs about the two refreshes.  ChainAccumulation, for any strikes,    *)
(* expirations and answers of the two providers and any number of refresh  *)
(* cycles: the chain that is accumulated is the one its log of answers     *)
(* says it should be.  BestOptions, for any symbols, requests and cycles   *)
(* of the precompute: none of them blanks a page.                          *)
(***************************************************************************)
EXTENDS ChainAccumulation, BestOptions, TLAPS

Answer == [exp : Expirations, yf : YfBuckets, tv : TvBuckets, up : BOOLEAN]

Sources == {"none", "tradingview", "yfinance"}

Contract ==
    [fields : [Fields -> Int], carried : BOOLEAN, asof : Nat, source : Sources,
     first : Nat, last : Nat, greeks : BOOLEAN]

TypeOK ==
    /\ today \in Int
    /\ log \in Seq(Answer)
    /\ DOMAIN chain \subseteq Expirations
    /\ \A e \in DOMAIN chain :
          /\ DOMAIN chain[e] \subseteq Strikes
          /\ \A s \in DOMAIN chain[e] : chain[e][s] \in Contract

-----------------------------------------------------------------------------
(* The invariant: the properties, with the greatest and least cycles given *)
(* by what they are instead of as Max and Min.                             *)

Greatest(k, K) == k \in K /\ \A j \in K : j <= k

FieldGood(e, s, f, v) ==
    LET K == Informative(e, s, f)
    IN  IF K = {} THEN v = Absent
        ELSE \E k \in K :
                /\ v = Given(k, s, f)
                /\ IF f = "lastTradeDate" THEN \A j \in K : Given(j, s, f) <= v
                   ELSE \A j \in K : j <= k

Quoted(e, s) == {k \in Listed(e, s) : Trusted(log[k].yf, s) \/ Trusted(log[k].tv, s)}

QuoteGood(e, s, c) ==
    IF Quoted(e, s) = {} THEN c.asof = 0
    ELSE /\ Greatest(c.asof, Quoted(e, s))
         /\ c.source = "tradingview" <=> Trusted(log[c.asof].tv, s)

CyclesGood(e, s, c) ==
    /\ Greatest(c.last, Listed(e, s))
    /\ c.first \in Listed(e, s) /\ \A j \in Listed(e, s) : c.first <= j
    /\ c.carried <=> c.last < Len(log)

GreeksGood(c) ==
    c.greeks <=> (\E k \in 1..Len(log) : log[k].up) /\ "iv" \in Fields /\ c.fields["iv"] > 0

ContractGood(e, s, c) ==
    /\ \A f \in Fields \ {"contractSymbol"} : FieldGood(e, s, f, c.fields[f])
    /\ QuoteGood(e, s, c)
    /\ CyclesGood(e, s, c)
    /\ GreeksGood(c)

AllGood == \A e \in DOMAIN chain : \A s \in DOMAIN chain[e] : ContractGood(e, s, chain[e][s])

(* NeverDropped, of all strikes there are.                                 *)
IInv == TypeOK /\ NeverDropped /\ AllGood

-----------------------------------------------------------------------------
(* A number above all others of a set is its maximum.                      *)
LEMMA GreatestIsMax ==
    ASSUME NEW K \in SUBSET Int, NEW k, Greatest(k, K) PROVE Max(K) = k
<1>1. \A x \in K : (\A y \in K : x >= y) <=> x = k
  BY DEF Greatest
<1> QED BY <1>1 DEF Max, Greatest

LEMMA LeastIsMin ==
    ASSUME NEW K \in SUBSET Int, NEW k \in K, \A j \in K : k <= j PROVE Min(K) = k
<1>1. \A x \in K : (\A y \in K : x <= y) <=> x = k
  OBVIOUS
<1> QED BY <1>1 DEF Min

(* The fields of a merge are integers, and of the quote fields one is given*)
(* only by a trusted source.                                               *)
LEMMA FieldNames ==
    /\ "ask" \in Fields => "ask" \in QuoteFields
    /\ "iv" \in Fields => "iv" \in QuoteFields
    /\ "contractSymbol" \notin QuoteFields /\ "lastTradeDate" \notin ObservedFields
    /\ QuoteFields \subseteq Fields /\ ObservedFields \subseteq Fields
    /\ Fields = QuoteFields \cup ObservedFields
  BY MergeAssumption DEF Fields

Bucket(b) == DOMAIN b \subseteq Strikes /\ \A s \in DOMAIN b : b[s] \in [Fields -> Int]

LEMMA AnswersAreBuckets ==
    (\A b \in YfBuckets \cup TvBuckets : Bucket(b)) /\ Expirations \subseteq Int
  BY AccumulationAssumption DEF Bucket

LEMMA MergedType ==
    ASSUME NEW yf, NEW tv, Bucket(yf), Bucket(tv), NEW s \in DOMAIN yf \cup DOMAIN tv
    PROVE  LET live == MergeSources(yf, tv)[s]
           IN  /\ live.fields \in [Fields -> Int] /\ live.source \in Sources
               /\ \A f \in QuoteFields : live.fields[f] = MergedQuote(yf, tv, s, f)
               /\ \A f \in Fields \ QuoteFields : live.fields[f] = MergedObserved(yf, tv, s, f)
               /\ live.source = QuoteSource(yf, tv, s)
<1>1. \A f \in Fields : MergedQuote(yf, tv, s, f) \in Int
  BY DEF MergedQuote, Absent, Trusted, Bucket
<1>2. \A f \in Fields : Offer(yf, s, f) \in Int /\ Offer(tv, s, f) \in Int
  BY DEF Offer, Absent, Bucket
<1>3. \A f \in Fields : MergedObserved(yf, tv, s, f) \in Int
  BY <1>2 DEF MergedObserved, AcceptContractSymbol, Absent
<1> QED BY <1>1, <1>3, FieldNames DEF MergeSources, QuoteSource, Sources

(* The merged contract is quoting exactly when one of the sources is       *)
(* trusted, and then it has an accepted ask or iv.                         *)
LEMMA QuotingIsTrusted ==
    ASSUME NEW yf, NEW tv, Bucket(yf), Bucket(tv), NEW s \in DOMAIN yf \cup DOMAIN tv
    PROVE  LET live == MergeSources(yf, tv)[s].fields
               trusted == Trusted(yf, s) \/ Trusted(tv, s)
           IN  /\ GateContract(live) <=> trusted
               /\ \A f \in QuoteFields : IsAccepted(f, live[f]) => trusted
               /\ QuoteSource(yf, tv, s) = "tradingview" <=> Trusted(tv, s)
<1> DEFINE live == MergeSources(yf, tv)[s].fields
<1>1. \A f \in QuoteFields : live[f] = MergedQuote(yf, tv, s, f)
  BY MergedType
<1>2. \A f \in QuoteFields : IsAccepted(f, live[f]) => Trusted(yf, s) \/ Trusted(tv, s)
  BY <1>1 DEF MergedQuote, Absent, IsAccepted
<1>3. ASSUME Trusted(tv, s) PROVE \E f \in Fields \cap {"ask", "iv"} : IsAccepted(f, tv[s][f])
  BY <1>3 DEF Trusted, GateContract
<1>4. ASSUME Trusted(yf, s) PROVE \E f \in Fields \cap {"ask", "iv"} : IsAccepted(f, yf[s][f])
  BY <1>4 DEF Trusted, GateContract
<1>5. ASSUME Trusted(yf, s) \/ Trusted(tv, s) PROVE GateContract(live)
  BY <1>1, <1>3, <1>4, <1>5, FieldNames DEF MergedQuote, GateContract
<1>6. GateContract(live) => Trusted(yf, s) \/ Trusted(tv, s)
  BY <1>2, FieldNames DEF GateContract
<1>7. QuoteSource(yf, tv, s) = "tradingview" <=> Trusted(tv, s)
  BY <1>3, FieldNames DEF QuoteSource
<1> QED BY <1>2, <1>5, <1>6, <1>7


-----------------------------------------------------------------------------
(* What one cycle adds to the log, and what it leaves as it was.           *)
ListedBy(a, e, s) == a.exp = e /\ s \in DOMAIN a.yf \cup DOMAIN a.tv

GivenBy(a, s, f) ==
    IF f \in QuoteFields THEN MergedQuote(a.yf, a.tv, s, f) ELSE MergedObserved(a.yf, a.tv, s, f)

LEMMA LogGrows ==
    ASSUME NEW a \in Answer, log \in Seq(Answer), log' = Append(log, a), NEW now, now = Len(log) + 1
    PROVE  /\ Len(log') = now /\ Len(log) \in Nat
           /\ \A k \in 1..Len(log) : log'[k] = log[k]
           /\ log'[now] = a
  OBVIOUS

LEMMA ListedGrows ==
    ASSUME NEW a \in Answer, log \in Seq(Answer), log' = Append(log, a), NEW now, now = Len(log) + 1, NEW e, NEW s
    PROVE  /\ Listed(e, s)' = Listed(e, s) \cup (IF ListedBy(a, e, s) THEN {now} ELSE {})
           /\ Listed(e, s) \subseteq 1..Len(log) /\ Len(log) \in Nat
<1>1. /\ Len(log') = now /\ Len(log) \in Nat
      /\ \A k \in 1..Len(log) : log'[k] = log[k]
      /\ log'[now] = a
  BY LogGrows
<1>2. 1..Len(log') = 1..Len(log) \cup {now}
  BY <1>1
<1>3. Listed(e, s)' = {k \in 1..Len(log') : ListedBy(log'[k], e, s)}
  BY DEF Listed, ListedBy
<1>4. Listed(e, s) = {k \in 1..Len(log) : ListedBy(log[k], e, s)}
  BY DEF Listed, ListedBy
<1>5. ASSUME NEW k PROVE k \in Listed(e, s)' <=> k \in Listed(e, s) \/ (k = now /\ ListedBy(a, e, s))
  BY <1>1, <1>2, <1>3, <1>4
<1> QED BY <1>1, <1>4, <1>5

LEMMA GivenStays ==
    ASSUME NEW a \in Answer, log \in Seq(Answer), log' = Append(log, a), NEW now, now = Len(log) + 1, NEW s, NEW f
    PROVE  /\ \A k \in 1..Len(log) : Given(k, s, f)' = Given(k, s, f)
           /\ Given(now, s, f)' = GivenBy(a, s, f)
<1>1. /\ \A k \in 1..Len(log) : log'[k] = log[k]
      /\ log'[now] = a
  BY LogGrows
<1>2. ASSUME NEW k PROVE Given(k, s, f) = GivenBy(log[k], s, f) /\ Given(k, s, f)' = GivenBy(log'[k], s, f)
  BY DEF Given, GivenBy
<1> QED BY <1>1, <1>2

LEMMA InformativeGrows ==
    ASSUME NEW a \in Answer, log \in Seq(Answer), log' = Append(log, a), NEW now, now = Len(log) + 1, NEW e, NEW s, NEW f
    PROVE  /\ ListedBy(a, e, s) /\ IsMeaningful(f, GivenBy(a, s, f))
                 => Informative(e, s, f)' = Informative(e, s, f) \cup {now}
           /\ ~(ListedBy(a, e, s) /\ IsMeaningful(f, GivenBy(a, s, f)))
                 => Informative(e, s, f)' = Informative(e, s, f)
           /\ Informative(e, s, f) \subseteq Listed(e, s)
<1>1. Informative(e, s, f)' = {k \in Listed(e, s)' : IsMeaningful(f, Given(k, s, f)')}
  BY DEF Informative
<1>2. Informative(e, s, f) = {k \in Listed(e, s) : IsMeaningful(f, Given(k, s, f))}
  BY DEF Informative
<1>3. ASSUME NEW k
      PROVE  k \in Informative(e, s, f)' <=>
                \/ k \in Informative(e, s, f)
                \/ k = now /\ ListedBy(a, e, s) /\ IsMeaningful(f, GivenBy(a, s, f))
  <2>1. /\ k \in Listed(e, s)' <=> (k \in Listed(e, s) \/ (k = now /\ ListedBy(a, e, s)))
        /\ now \notin Listed(e, s)
    BY ListedGrows
  <2>2. k \in Listed(e, s) => Given(k, s, f)' = Given(k, s, f)
    BY ListedGrows, GivenStays
  <2>3. Given(now, s, f)' = GivenBy(a, s, f)
    BY GivenStays
  <2> QED BY <1>1, <1>2, <2>1, <2>2, <2>3
<1> QED BY <1>2, <1>3

LEMMA QuotedGrows ==
    ASSUME NEW a \in Answer, log \in Seq(Answer), log' = Append(log, a), NEW now, now = Len(log) + 1, NEW e, NEW s
    PROVE  /\ Quoted(e, s)' = Quoted(e, s) \cup
                 (IF ListedBy(a, e, s) /\ (Trusted(a.yf, s) \/ Trusted(a.tv, s))
                  THEN {now} ELSE {})
           /\ Quoted(e, s) \subseteq Listed(e, s)
<1> DEFINE T(b) == Trusted(b.yf, s) \/ Trusted(b.tv, s)
<1>1. Quoted(e, s)' = {k \in Listed(e, s)' : T(log'[k])}
  BY DEF Quoted
<1>2. Quoted(e, s) = {k \in Listed(e, s) : T(log[k])}
  BY DEF Quoted
<1> HIDE DEF T
<1>3. ASSUME NEW k
      PROVE  k \in Quoted(e, s)' <=> k \in Quoted(e, s) \/ (k = now /\ ListedBy(a, e, s) /\ T(a))
  BY <1>1, <1>2, ListedGrows, LogGrows
<1>4. Quoted(e, s)' = Quoted(e, s) \cup (IF ListedBy(a, e, s) /\ T(a) THEN {now} ELSE {})
  BY <1>3
<1> QED BY <1>2, <1>4 DEF T

-----------------------------------------------------------------------------
(* One field of one contract through a cycle.                              *)
LEMMA GivenByType ==
    ASSUME NEW a \in Answer, NEW s \in DOMAIN a.yf \cup DOMAIN a.tv, NEW f \in Fields
    PROVE  /\ GivenBy(a, s, f) \in Int
           /\ MergeSources(a.yf, a.tv)[s].fields[f] = GivenBy(a, s, f)
<1>1. Bucket(a.yf) /\ Bucket(a.tv)
  BY AnswersAreBuckets DEF Answer
<1> QED BY <1>1, MergedType DEF GivenBy

LEMMA GivenType ==
    ASSUME log \in Seq(Answer), NEW e, NEW s, NEW f \in Fields, NEW k \in Listed(e, s)
    PROVE  Given(k, s, f) \in Int
<1>1. k \in 1..Len(log) /\ s \in DOMAIN log[k].yf \cup DOMAIN log[k].tv
  BY DEF Listed
<1>2. log[k] \in Answer
  BY <1>1
<1>3. Given(k, s, f) = GivenBy(log[k], s, f)
  BY DEF Given, GivenBy
<1> QED BY <1>1, <1>2, <1>3, GivenByType

(* A field is Absent or meaningful.                                        *)
LEMMA FieldKnown ==
    ASSUME NEW e, NEW s, NEW f, NEW v, FieldGood(e, s, f, v)
    PROVE  v = Absent \/ IsMeaningful(f, v)
  BY DEF FieldGood, Informative

(* A cycle that says nothing meaningful of it leaves it right.             *)
LEMMA FieldStays ==
    ASSUME NEW a \in Answer, log \in Seq(Answer), log' = Append(log, a),
           NEW now, now = Len(log) + 1, NEW e, NEW s, NEW f, NEW v,
           FieldGood(e, s, f, v),
           ~(ListedBy(a, e, s) /\ IsMeaningful(f, GivenBy(a, s, f)))
    PROVE  FieldGood(e, s, f, v)'
<1>1. Informative(e, s, f)' = Informative(e, s, f)
  BY InformativeGrows
<1>2. Informative(e, s, f) \subseteq Listed(e, s) /\ Listed(e, s) \subseteq 1..Len(log)
  BY InformativeGrows, ListedGrows
<1>3. \A k \in Informative(e, s, f) : Given(k, s, f)' = Given(k, s, f)
  BY <1>2, GivenStays
<1> QED BY <1>1, <1>3 DEF FieldGood

(* One that says something meaningful gives it its value,                  *)
LEMMA FieldTaken ==
    ASSUME NEW a \in Answer, log \in Seq(Answer), log' = Append(log, a),
           NEW now, now = Len(log) + 1, NEW e, NEW s, NEW f, f # "lastTradeDate",
           ListedBy(a, e, s), NEW v, v = GivenBy(a, s, f), IsMeaningful(f, v)
    PROVE  FieldGood(e, s, f, v)'
<1>1. /\ Informative(e, s, f)' = Informative(e, s, f) \cup {now}
      /\ Informative(e, s, f) \subseteq 1..Len(log) /\ Len(log) \in Nat
  BY InformativeGrows, ListedGrows
<1>2. Given(now, s, f)' = v
  BY GivenStays
<1>3. now \in Informative(e, s, f)' /\ \A j \in Informative(e, s, f)' : j <= now
  BY <1>1
<1> QED BY <1>2, <1>3 DEF FieldGood

(* and a trade date stays the latest of those given.                       *)
LEMMA DateTaken ==
    ASSUME NEW a \in Answer, log \in Seq(Answer), log' = Append(log, a),
           NEW now, now = Len(log) + 1, NEW e, NEW s, NEW f \in Fields, f = "lastTradeDate",
           ListedBy(a, e, s), NEW g, g = GivenBy(a, s, f), IsMeaningful(f, g),
           NEW p \in Int, FieldGood(e, s, f, p), NEW v, v = IF g < p THEN p ELSE g
    PROVE  FieldGood(e, s, f, v)'
<1> DEFINE K == Informative(e, s, f)
<1>1. /\ K' = K \cup {now}
      /\ K \subseteq Listed(e, s) /\ K \subseteq 1..Len(log) /\ Len(log) \in Nat
  BY InformativeGrows, ListedGrows
<1>2. Given(now, s, f)' = g /\ g \in Int /\ g >= 0
  BY GivenStays, GivenByType DEF ListedBy, IsMeaningful, IsAccepted
<1>3. \A k \in K : Given(k, s, f)' = Given(k, s, f) /\ Given(k, s, f) \in Int
  BY <1>1, GivenStays, GivenType
<1>4. /\ K = {} => p = Absent
      /\ K # {} => (\E k \in K : p = Given(k, s, f)) /\ (\A j \in K : Given(j, s, f) <= p)
  BY DEF FieldGood
<1>5. CASE g < p
  <2>1. K # {}
    BY <1>2, <1>4, <1>5 DEF Absent
  <2>2. PICK k \in K : p = Given(k, s, f)
    BY <1>4, <2>1
  <2>3. k \in K' /\ v = Given(k, s, f)'
    BY <1>1, <1>3, <1>5, <2>2
  <2>4. \A j \in K' : Given(j, s, f)' <= v
    BY <1>1, <1>2, <1>3, <1>4, <1>5, <2>1
  <2> QED BY <2>3, <2>4 DEF FieldGood
<1>6. CASE ~(g < p)
  <2>1. now \in K' /\ v = Given(now, s, f)'
    BY <1>1, <1>2, <1>6
  <2>2. \A j \in K' : Given(j, s, f)' <= v
    BY <1>1, <1>2, <1>3, <1>4, <1>6
  <2> QED BY <2>1, <2>2 DEF FieldGood
<1> QED BY <1>5, <1>6

(* What _merge_prior_contract keeps of a field is what the log says.       *)
LEMMA LiveField ==
    ASSUME NEW a \in Answer, log \in Seq(Answer), log' = Append(log, a),
           NEW now, now = Len(log) + 1, NEW e, NEW s, ListedBy(a, e, s),
           NEW f \in Fields \ {"contractSymbol"},
           NEW p \in Contract, FieldGood(e, s, f, p.fields[f]),
           NEW v, v = MergePriorContract(p, MergeSources(a.yf, a.tv)[s], now).fields[f]
    PROVE  FieldGood(e, s, f, v)'
<1> DEFINE live == MergeSources(a.yf, a.tv)[s].fields
           g == GivenBy(a, s, f)
           old == p.fields[f]
<1>1. live[f] = g /\ g \in Int /\ old \in Int
  BY GivenByType DEF ListedBy, Contract
<1>2. old = Absent \/ IsMeaningful(f, old)
  BY FieldKnown
<1>3. CASE f \in QuoteFields
  <2>1. IsAccepted(f, g) => GateContract(live)
    <3>1. Bucket(a.yf) /\ Bucket(a.tv)
      BY AnswersAreBuckets DEF Answer
    <3> QED BY <1>1, <1>3, <3>1, QuotingIsTrusted DEF ListedBy
  <2>2. v = SelectQuote(f, live, old).value
    BY <1>3 DEF MergePriorContract, Contract
  <2>3. CASE ~IsMeaningful(f, g)
    <3>1. v = old
      BY <1>1, <1>2, <2>1, <2>2, <2>3 DEF SelectQuote, IsMeaningful
    <3> QED BY <2>3, <3>1, FieldStays
  <2>4. CASE IsMeaningful(f, g) /\ f # "lastTradeDate"
    <3>1. v = g
      BY <1>1, <2>1, <2>2, <2>4 DEF SelectQuote, IsMeaningful
    <3> QED BY <2>4, <3>1, FieldTaken
  <2>5. CASE IsMeaningful(f, g) /\ f = "lastTradeDate"
    <3>1. v = IF g < old THEN old ELSE g
      BY <1>1, <2>1, <2>2, <2>5 DEF SelectQuote, IsMeaningful
    <3> QED BY <1>1, <2>5, <3>1, DateTaken
  <2> QED BY <2>3, <2>4, <2>5
<1>4. CASE f \notin QuoteFields
  <2>1. v = SelectObserved(f, live, old)
    BY <1>4 DEF MergePriorContract, Contract
  <2>2. f # "lastTradeDate"
    BY <1>4, FieldNames
  <2>3. CASE ~IsMeaningful(f, g)
    <3>1. v = old
      BY <1>1, <1>2, <2>1, <2>3 DEF SelectObserved, IsMeaningful
    <3> QED BY <2>3, <3>1, FieldStays
  <2>4. CASE IsMeaningful(f, g)
    <3>1. v = g
      BY <1>1, <2>1, <2>4 DEF SelectObserved, IsMeaningful
    <3> QED BY <2>2, <2>4, <3>1, FieldTaken
  <2> QED BY <2>3, <2>4
<1> QED BY <1>3, <1>4

-----------------------------------------------------------------------------
(* The provenance of one contract through a cycle.                         *)
LEMMA UpdatedIsTrusted ==
    ASSUME NEW a \in Answer, NEW s \in DOMAIN a.yf \cup DOMAIN a.tv, NEW p \in Contract
    PROVE  (\E f \in QuoteFields :
                SelectQuote(f, MergeSources(a.yf, a.tv)[s].fields, p.fields[f]).accepted)
           <=> Trusted(a.yf, s) \/ Trusted(a.tv, s)
<1> DEFINE live == MergeSources(a.yf, a.tv)[s].fields
           T == Trusted(a.yf, s) \/ Trusted(a.tv, s)
<1>1. /\ GateContract(live) <=> T
      /\ \A f \in QuoteFields : IsAccepted(f, live[f]) => T
  <2>1. Bucket(a.yf) /\ Bucket(a.tv)
    BY AnswersAreBuckets DEF Answer
  <2> QED BY <2>1, QuotingIsTrusted
<1>2. ASSUME NEW f \in QuoteFields, SelectQuote(f, live, p.fields[f]).accepted PROVE T
  BY <1>1, <1>2 DEF SelectQuote
<1>3. ASSUME T PROVE \E f \in QuoteFields : SelectQuote(f, live, p.fields[f]).accepted
  <2>1. PICK f \in Fields \cap {"ask", "iv"} : IsAccepted(f, live[f])
    BY <1>1, <1>3 DEF GateContract
  <2>2. f \in QuoteFields
    BY FieldNames
  <2>3. SelectQuote(f, live, p.fields[f]).accepted
    BY <1>1, <1>3, <2>1 DEF SelectQuote, ZeroSensitive
  <2> QED BY <2>2, <2>3
<1> QED BY <1>2, <1>3

LEMMA QuoteStays ==
    ASSUME NEW a \in Answer, log \in Seq(Answer), log' = Append(log, a),
           NEW now, now = Len(log) + 1, NEW e, NEW s, NEW p \in Contract, QuoteGood(e, s, p),
           ~(ListedBy(a, e, s) /\ (Trusted(a.yf, s) \/ Trusted(a.tv, s))),
           NEW c, c.asof = p.asof, c.source = p.source
    PROVE  QuoteGood(e, s, c)'
<1>1. Quoted(e, s)' = Quoted(e, s)
  BY QuotedGrows
<1>2. Quoted(e, s) \subseteq 1..Len(log)
  BY QuotedGrows, ListedGrows
<1>3. \A k \in Quoted(e, s) : log'[k] = log[k]
  BY <1>2, LogGrows
<1> QED BY <1>1, <1>3 DEF QuoteGood, Greatest

LEMMA QuoteTaken ==
    ASSUME NEW a \in Answer, log \in Seq(Answer), log' = Append(log, a),
           NEW now, now = Len(log) + 1, NEW e, NEW s,
           ListedBy(a, e, s), Trusted(a.yf, s) \/ Trusted(a.tv, s),
           NEW c, c.asof = now, c.source = MergeSources(a.yf, a.tv)[s].source
    PROVE  QuoteGood(e, s, c)'
<1>1. /\ Quoted(e, s)' = Quoted(e, s) \cup {now}
      /\ Quoted(e, s) \subseteq 1..Len(log) /\ Len(log) \in Nat
  BY QuotedGrows, ListedGrows
<1>2. log'[now] = a
  BY LogGrows
<1>3. c.source = "tradingview" <=> Trusted(a.tv, s)
  <2>1. Bucket(a.yf) /\ Bucket(a.tv)
    BY AnswersAreBuckets DEF Answer
  <2>2. MergeSources(a.yf, a.tv)[s].source = QuoteSource(a.yf, a.tv, s)
    BY <2>1, MergedType DEF ListedBy
  <2> QED BY <2>1, <2>2, QuotingIsTrusted DEF ListedBy
<1> QED BY <1>1, <1>2, <1>3 DEF QuoteGood, Greatest

(* A price known is one some cycle brought.                                *)
PricedBy(ok, now) == ok \in BOOLEAN /\ (ok <=> \E k \in 1..now : log'[k].up)

Derived(c, ok) ==
    [c EXCEPT !.greeks = ok /\ "iv" \in Fields /\ IsAccepted("iv", c.fields["iv"])]

LEMMA DerivedGood ==
    ASSUME NEW a \in Answer, log \in Seq(Answer), log' = Append(log, a),
           NEW now, now = Len(log) + 1, NEW ok, PricedBy(ok, now),
           NEW c \in Contract, NEW d, d = Derived(c, ok)
    PROVE  /\ d \in Contract /\ GreeksGood(d)'
           /\ d.fields = c.fields /\ d.carried = c.carried /\ d.asof = c.asof
           /\ d.source = c.source /\ d.first = c.first /\ d.last = c.last
<1>1. /\ d.fields = c.fields /\ d.carried = c.carried /\ d.asof = c.asof
      /\ d.source = c.source /\ d.first = c.first /\ d.last = c.last
      /\ d.greeks = (ok /\ "iv" \in Fields /\ IsAccepted("iv", c.fields["iv"]))
      /\ d \in Contract
  BY DEF Derived, Contract, PricedBy
<1>2. Len(log') = now
  BY LogGrows
<1>3. d.greeks <=> (\E k \in 1..now : log'[k].up) /\ "iv" \in Fields /\ d.fields["iv"] > 0
  BY <1>1 DEF PricedBy, IsAccepted
<1> QED BY <1>1, <1>2, <1>3 DEF GreeksGood

(* A contract no source lists is carried, and nothing else about it moves. *)
LEMMA CarriedContract ==
    ASSUME NEW a \in Answer, log \in Seq(Answer), log' = Append(log, a),
           NEW now, now = Len(log) + 1, NEW ok, PricedBy(ok, now), NEW e, NEW s,
           ~ListedBy(a, e, s), NEW p \in Contract, ContractGood(e, s, p),
           NEW d, d = Derived([p EXCEPT !.carried = TRUE], ok)
    PROVE  d \in Contract /\ ContractGood(e, s, d)'
<1> DEFINE q == [p EXCEPT !.carried = TRUE]
<1>1. /\ q \in Contract /\ q.carried = TRUE
      /\ q.fields = p.fields /\ q.asof = p.asof
      /\ q.source = p.source /\ q.first = p.first /\ q.last = p.last
  BY DEF Contract
<1> HIDE DEF q
<1>2. /\ d \in Contract /\ GreeksGood(d)'
      /\ d.fields = p.fields /\ d.carried = TRUE /\ d.asof = p.asof
      /\ d.source = p.source /\ d.first = p.first /\ d.last = p.last
  <2>1. d = Derived(q, ok)
    BY DEF q
  <2> QED BY <1>1, <2>1, DerivedGood
<1>3. \A f \in Fields \ {"contractSymbol"} : FieldGood(e, s, f, d.fields[f])'
  <2> SUFFICES ASSUME NEW f \in Fields \ {"contractSymbol"} PROVE FieldGood(e, s, f, d.fields[f])'
    OBVIOUS
  <2>1. FieldGood(e, s, f, d.fields[f])
    BY <1>2 DEF ContractGood
  <2> QED BY <2>1, FieldStays
<1>4. QuoteGood(e, s, d)'
  BY <1>2, QuoteStays DEF ContractGood
<1>5. CyclesGood(e, s, d)'
  <2>1. /\ Listed(e, s)' = Listed(e, s) /\ Listed(e, s) \subseteq 1..Len(log)
        /\ Len(log) \in Nat /\ Len(log') = now
    BY ListedGrows, LogGrows
  <2>2. CyclesGood(e, s, p)
    BY DEF ContractGood
  <2>3. /\ p.last \in Listed(e, s) /\ \A j \in Listed(e, s) : j <= p.last
        /\ p.first \in Listed(e, s) /\ \A j \in Listed(e, s) : p.first <= j
    BY <2>2 DEF CyclesGood, Greatest
  <2>4. d.last < now
    BY <1>2, <2>1, <2>3
  <2> QED BY <1>2, <2>1, <2>3, <2>4 DEF CyclesGood, Greatest
<1> QED BY <1>2, <1>3, <1>4, <1>5 DEF ContractGood

(* What merge_prior starts from: the contract the chain has, or nothing,   *)
(* when no cycle listed it.                                                *)
PriorGood(e, s, p, now) ==
    /\ p \in Contract
    /\ \/ ContractGood(e, s, p)
       \/ p = NoPrior(now) /\ Listed(e, s) = {}

LEMMA LiveContract ==
    ASSUME NEW a \in Answer, log \in Seq(Answer), log' = Append(log, a),
           NEW now, now = Len(log) + 1, NEW ok, PricedBy(ok, now), NEW e, NEW s,
           ListedBy(a, e, s), NEW p, PriorGood(e, s, p, now),
           NEW d, d = Derived(MergePriorContract(p, MergeSources(a.yf, a.tv)[s], now), ok)
    PROVE  d \in Contract /\ ContractGood(e, s, d)'
<1> DEFINE live == MergeSources(a.yf, a.tv)[s]
           m == MergePriorContract(p, live, now)
           updated == \E f \in QuoteFields : SelectQuote(f, live.fields, p.fields[f]).accepted
<1>1. /\ p \in Contract /\ now \in Nat /\ s \in DOMAIN a.yf \cup DOMAIN a.tv
      /\ live.fields \in [Fields -> Int] /\ live.source \in Sources
  <2>1. Bucket(a.yf) /\ Bucket(a.tv)
    BY AnswersAreBuckets DEF Answer
  <2>2. s \in DOMAIN a.yf \cup DOMAIN a.tv
    BY DEF ListedBy
  <2> QED BY <2>1, <2>2, MergedType DEF PriorGood
<1>2. /\ m.carried = FALSE /\ m.last = now /\ m.first = p.first
      /\ updated => m.asof = now /\ m.source = live.source
      /\ ~updated => m.asof = p.asof /\ m.source = p.source
      /\ m \in Contract
  <2>1. \A f \in Fields : (IF f \in QuoteFields THEN SelectQuote(f, live.fields, p.fields[f]).value
                           ELSE SelectObserved(f, live.fields, p.fields[f])) \in Int
    BY <1>1 DEF SelectQuote, SelectObserved, AcceptContractSymbol, Absent, Contract
  <2> QED BY <1>1, <2>1, FieldNames DEF MergePriorContract, Contract
<1>3. /\ d \in Contract /\ GreeksGood(d)'
      /\ d.fields = m.fields /\ d.carried = m.carried /\ d.asof = m.asof
      /\ d.source = m.source /\ d.first = m.first /\ d.last = m.last
  BY <1>2, DerivedGood
<1>4. \A f \in Fields \ {"contractSymbol"} : FieldGood(e, s, f, d.fields[f])'
  <2> SUFFICES ASSUME NEW f \in Fields \ {"contractSymbol"} PROVE FieldGood(e, s, f, d.fields[f])'
    OBVIOUS
  <2>1. FieldGood(e, s, f, p.fields[f])
    BY InformativeGrows DEF PriorGood, ContractGood, FieldGood, NoPrior
  <2> QED BY <1>1, <1>3, <2>1, LiveField
<1>5. QuoteGood(e, s, d)'
  <2>1. updated <=> Trusted(a.yf, s) \/ Trusted(a.tv, s)
    BY <1>1, UpdatedIsTrusted
  <2>2. QuoteGood(e, s, p)
    BY QuotedGrows DEF PriorGood, ContractGood, QuoteGood, NoPrior
  <2>3. CASE updated
    BY <1>2, <1>3, <2>1, <2>3, QuoteTaken
  <2>4. CASE ~updated
    BY <1>1, <1>2, <1>3, <2>1, <2>2, <2>4, QuoteStays
  <2> QED BY <2>3, <2>4
<1>6. CyclesGood(e, s, d)'
  <2>1. /\ Listed(e, s)' = Listed(e, s) \cup {now} /\ Listed(e, s) \subseteq 1..Len(log)
        /\ Len(log) \in Nat /\ Len(log') = now
    BY ListedGrows, LogGrows
  <2>2. d.carried = FALSE /\ d.last = now /\ d.first = p.first
    BY <1>2, <1>3
  <2>3. \/ p.first = now /\ Listed(e, s) = {}
        \/ p.first \in Listed(e, s) /\ \A j \in Listed(e, s) : p.first <= j
    BY DEF PriorGood, ContractGood, CyclesGood, NoPrior
  <2> QED BY <2>1, <2>2, <2>3 DEF CyclesGood, Greatest
<1> QED BY <1>3, <1>4, <1>5, <1>6 DEF ContractGood

-----------------------------------------------------------------------------
(* A whole cycle: which expirations are left, and of which contracts.      *)
Answers(a, x) == IF x = a.exp THEN DOMAIN a.yf \cup DOMAIN a.tv ELSE {}

Merged(p, a, x, s, now) ==
    IF ListedBy(a, x, s)
    THEN MergePriorContract(IF s \in DOMAIN p THEN p[s] ELSE NoPrior(now),
                            MergeSources(a.yf, a.tv)[s], now)
    ELSE [p[s] EXCEPT !.carried = TRUE]

LEMMA PriceIsKnown ==
    ASSUME NEW a \in Answer, log \in Seq(Answer), log' = Append(log, a),
           NEW now, now = Len(log) + 1, NEW ok, ok = PriceKnown(a.up)
    PROVE  PricedBy(ok, now)
<1>1. /\ \A k \in 1..Len(log) : log'[k] = log[k]
      /\ log'[now] = a /\ Len(log) \in Nat
  BY LogGrows
<1>2. (\E k \in 1..now : log'[k].up) <=> (a.up \/ \E k \in 1..Len(log) : log[k].up)
  BY <1>1
<1>3. ok \in BOOLEAN
  BY DEF PriceKnown, Answer
<1> QED BY <1>2, <1>3 DEF PriceKnown, PricedBy

(* Keep drops the expirations that have no contract.                       *)
LEMMA RefreshShape ==
    ASSUME TypeOK, NEW a \in Answer, Refresh(a.exp, a.yf, a.tv, a.up),
           NEW now, now = Len(log) + 1, NEW ok, ok = PriceKnown(a.up), NEW x, NEW s
    PROVE  /\ log' = Append(log, a) /\ today' = today
           /\ x \in DOMAIN chain' <=>
                 /\ x \in DOMAIN chain \cup {a.exp} /\ x >= today
                 /\ DOMAIN Prior(x) \cup Answers(a, x) # {}
           /\ x \in DOMAIN chain' => DOMAIN chain'[x] = DOMAIN Prior(x) \cup Answers(a, x)
           /\ x \in DOMAIN chain' /\ s \in DOMAIN chain'[x]
                 => chain'[x][s] = Derived(Merged(Prior(x), a, x, s, now), ok)
<1> DEFINE D == DOMAIN chain \cup {a.exp}
           live == MergeSources(a.yf, a.tv)
           given(y) == IF y = a.exp THEN live ELSE Empty
           merged == [y \in D |-> MergePrior(Prior(y), given(y), now)]
           derived == [y \in D |-> RecomputeDerived(merged[y], ok)]
<1>1. /\ chain' = PruneByExpiration(Keep(derived, D), today)
      /\ log' = Append(log, [exp |-> a.exp, yf |-> a.yf, tv |-> a.tv, up |-> a.up])
      /\ today' = today
  <2>1. \A y \in D : (IF y = a.exp THEN [z \in {a.exp} |-> live][y] ELSE Empty) = given(y)
    OBVIOUS
  <2> QED BY <2>1 DEF Refresh
<1>2. [exp |-> a.exp, yf |-> a.yf, tv |-> a.tv, up |-> a.up] = a
  BY DEF Answer
<1>3. \A y \in D : DOMAIN given(y) = Answers(a, y)
  BY DEF MergeSources, Empty, Answers
<1>4. ASSUME x \in D
      PROVE  /\ DOMAIN derived[x] = DOMAIN Prior(x) \cup Answers(a, x)
             /\ s \in DOMAIN derived[x] =>
                   derived[x][s] = Derived(Merged(Prior(x), a, x, s, now), ok)
             /\ derived[x] = Empty <=> DOMAIN derived[x] = {}
  <2>1. /\ derived[x] = RecomputeDerived(merged[x], ok)
        /\ merged[x] = MergePrior(Prior(x), given(x), now)
    BY <1>4
  <2>2. /\ DOMAIN merged[x] = DOMAIN Prior(x) \cup Answers(a, x)
        /\ DOMAIN derived[x] = DOMAIN merged[x]
    BY <1>3, <1>4, <2>1 DEF MergePrior, RecomputeDerived
  <2>3. ASSUME s \in DOMAIN derived[x]
        PROVE  derived[x][s] = Derived(Merged(Prior(x), a, x, s, now), ok)
    <3>1. s \in DOMAIN given(x) <=> ListedBy(a, x, s)
      BY <1>3, <1>4 DEF Answers, ListedBy
    <3>2. merged[x][s] = Merged(Prior(x), a, x, s, now)
      <4>1. CASE ListedBy(a, x, s)
        <5>1. given(x) = live
          BY <4>1 DEF ListedBy
        <5> QED BY <2>1, <2>2, <2>3, <3>1, <4>1, <5>1 DEF MergePrior, Merged
      <4>2. CASE ~ListedBy(a, x, s)
        BY <2>1, <2>2, <2>3, <3>1, <4>2 DEF MergePrior, Merged
      <4> QED BY <4>1, <4>2
    <3>3. derived[x][s] = Derived(merged[x][s], ok)
      BY <2>1, <2>2, <2>3 DEF RecomputeDerived, Derived
    <3> QED BY <3>2, <3>3
  <2>4. derived[x] = Empty <=> DOMAIN derived[x] = {}
    BY <2>1 DEF RecomputeDerived, Empty
  <2> QED BY <2>2, <2>3, <2>4
<1> HIDE DEF derived
<1>5. /\ x \in DOMAIN chain' <=> x \in D /\ derived[x] # Empty /\ x >= today
      /\ x \in DOMAIN chain' => chain'[x] = derived[x]
  BY <1>1 DEF PruneByExpiration, Keep
<1> QED BY <1>1, <1>2, <1>4, <1>5

-----------------------------------------------------------------------------
(* Every contract left by a cycle is right, whether it is new, live or     *)
(* carried.                                                                *)
LEMMA ContractsRight ==
    ASSUME IInv, NEW a \in Answer, Refresh(a.exp, a.yf, a.tv, a.up),
           NEW x \in DOMAIN chain', NEW s \in DOMAIN chain'[x], NEW d, d = chain'[x][s]
    PROVE  d \in Contract /\ ContractGood(x, s, d)'
<1> USE DEF IInv
<1>1. PICK now : now = Len(log) + 1
  OBVIOUS
<1>2. PICK ok : ok = PriceKnown(a.up)
  OBVIOUS
<1>3. PICK old : old = Prior(x)
  OBVIOUS
<1>4. /\ log \in Seq(Answer) /\ log' = Append(log, a) /\ now \in Nat
      /\ x \in DOMAIN chain \cup {a.exp} /\ x >= today
      /\ s \in DOMAIN old \cup Answers(a, x)
      /\ d = Derived(Merged(old, a, x, s, now), ok)
  <2>1. log \in Seq(Answer) /\ now \in Nat
    BY <1>1 DEF TypeOK
  <2>2. TypeOK
    OBVIOUS
  <2>3. log' = Append(log, a)
    BY <1>1, <1>2, <2>2, RefreshShape
  <2>4. x \in DOMAIN chain \cup {a.exp} /\ x >= today
    BY <1>1, <1>2, <2>2, RefreshShape
  <2>5. DOMAIN chain'[x] = DOMAIN Prior(x) \cup Answers(a, x)
    BY <1>1, <1>2, <2>2, RefreshShape
  <2>6. chain'[x][s] = Derived(Merged(Prior(x), a, x, s, now), ok)
    BY <1>1, <1>2, <2>2, RefreshShape
  <2> QED BY <1>3, <2>1, <2>3, <2>4, <2>5, <2>6
<1>5. PricedBy(ok, now)
  BY <1>1, <1>2, <1>4, PriceIsKnown
<1>6. ASSUME s \in DOMAIN old PROVE old[s] \in Contract /\ ContractGood(x, s, old[s])
  <2>1. x \in DOMAIN chain /\ old = chain[x]
    BY <1>3, <1>6 DEF Prior, Empty
  <2> QED BY <1>6, <2>1 DEF TypeOK, AllGood
<1>7. CASE ListedBy(a, x, s)
  <2>1. PICK p : p = IF s \in DOMAIN old THEN old[s] ELSE NoPrior(now)
    OBVIOUS
  <2>2. PriorGood(x, s, p, now)
    <3>1. CASE s \in DOMAIN old
      BY <1>6, <2>1, <3>1 DEF PriorGood
    <3>2. CASE s \notin DOMAIN old
      <4>1. p = NoPrior(now) /\ p \in Contract
        BY <1>4, <2>1, <3>2 DEF NoPrior, Contract, Sources, Absent
      <4>2. x \in Expirations /\ s \in Strikes
        BY <1>7, AnswersAreBuckets DEF ListedBy, Answer, Bucket
      <4>3. ~(x \in DOMAIN chain /\ s \in DOMAIN chain[x])
        BY <1>3, <3>2 DEF Prior
      <4>4. Listed(x, s) = {}
        BY <1>4, <4>2, <4>3 DEF NeverDropped
      <4> QED BY <4>1, <4>4 DEF PriorGood
    <3> QED BY <3>1, <3>2
  <2>3. d = Derived(MergePriorContract(p, MergeSources(a.yf, a.tv)[s], now), ok)
    BY <1>4, <1>7, <2>1 DEF Merged
  <2> QED BY <1>1, <1>4, <1>5, <1>7, <2>2, <2>3, LiveContract
<1>8. CASE ~ListedBy(a, x, s)
  <2>1. PICK p : p = old[s]
    OBVIOUS
  <2>2. s \in DOMAIN old
    BY <1>4, <1>8 DEF Answers, ListedBy
  <2>3. d = Derived([p EXCEPT !.carried = TRUE], ok)
    BY <1>4, <1>8, <2>1 DEF Merged
  <2>4. p \in Contract /\ ContractGood(x, s, p)
    BY <1>6, <2>1, <2>2
  <2> QED BY <1>1, <1>4, <1>5, <1>8, <2>3, <2>4, CarriedContract
<1> QED BY <1>7, <1>8

LEMMA RefreshKeeps ==
    ASSUME IInv, NEW a \in Answer, Refresh(a.exp, a.yf, a.tv, a.up)
    PROVE  IInv'
<1>1. PICK now : now = Len(log) + 1
  OBVIOUS
<1>2. /\ log \in Seq(Answer) /\ log' = Append(log, a) /\ today' = today
      /\ \A x : x \in DOMAIN chain' <=>
                   /\ x \in DOMAIN chain \cup {a.exp} /\ x >= today
                   /\ DOMAIN Prior(x) \cup Answers(a, x) # {}
      /\ \A x \in DOMAIN chain' : DOMAIN chain'[x] = DOMAIN Prior(x) \cup Answers(a, x)
  <2>1. PICK ok : ok = PriceKnown(a.up)
    OBVIOUS
  <2>2. TypeOK /\ log \in Seq(Answer)
    BY DEF IInv, TypeOK
  <2> QED BY <1>1, <2>1, <2>2, RefreshShape
<1>3. /\ a.exp \in Expirations /\ Bucket(a.yf) /\ Bucket(a.tv)
  BY AnswersAreBuckets DEF Answer
<1>4. TypeOK'
  <2>1. today' \in Int /\ log' \in Seq(Answer)
    BY <1>2 DEF IInv, TypeOK
  <2>2. DOMAIN chain' \subseteq Expirations
    BY <1>2, <1>3 DEF IInv, TypeOK
  <2>3. ASSUME NEW x \in DOMAIN chain' PROVE DOMAIN chain'[x] \subseteq Strikes
    <3>1. DOMAIN Prior(x) \subseteq Strikes
      BY DEF IInv, TypeOK, Prior, Empty
    <3>2. Answers(a, x) \subseteq Strikes
      BY <1>3 DEF Answers, Bucket
    <3> QED BY <1>2, <3>1, <3>2
  <2>4. ASSUME NEW x \in DOMAIN chain', NEW s \in DOMAIN chain'[x] PROVE chain'[x][s] \in Contract
    <3>1. PICK d : d = chain'[x][s]
      OBVIOUS
    <3> QED BY <3>1, ContractsRight
  <2> QED BY <2>1, <2>2, <2>3, <2>4 DEF TypeOK
<1>5. AllGood'
  <2> SUFFICES ASSUME NEW x \in DOMAIN chain', NEW s \in DOMAIN chain'[x]
               PROVE  ContractGood(x, s, chain[x][s])'
    BY DEF AllGood
  <2>1. PICK d : d = chain'[x][s]
    OBVIOUS
  <2>2. ContractGood(x, s, d)'
    BY <2>1, ContractsRight
  <2> QED BY <2>1, <2>2 DEF ContractGood
<1>6. NeverDropped'
  <2> SUFFICES ASSUME NEW x \in Expirations, NEW s \in Strikes
               PROVE  /\ x >= today' /\ Listed(x, s)' # {}
                            => x \in DOMAIN chain' /\ s \in DOMAIN chain'[x]
                      /\ x \in DOMAIN chain' /\ s \in DOMAIN chain'[x] => Listed(x, s)' # {}
    BY DEF NeverDropped
  <2>1. ASSUME x >= today', Listed(x, s)' # {}
        PROVE  x \in DOMAIN chain' /\ s \in DOMAIN chain'[x]
    <3>1. Listed(x, s) # {} \/ ListedBy(a, x, s)
      BY <1>1, <1>2, <2>1, ListedGrows
    <3>2. s \in DOMAIN Prior(x) \cup Answers(a, x) /\ x \in DOMAIN chain \cup {a.exp}
      <4>1. CASE Listed(x, s) # {}
        BY <1>2, <2>1, <4>1 DEF IInv, NeverDropped, Prior
      <4>2. CASE ListedBy(a, x, s)
        BY <4>2 DEF ListedBy, Answers
      <4> QED BY <3>1, <4>1, <4>2
    <3> QED BY <1>2, <2>1, <3>2
  <2>2. ASSUME x \in DOMAIN chain', s \in DOMAIN chain'[x] PROVE Listed(x, s)' # {}
    <3>1. PICK d : d = chain'[x][s]
      OBVIOUS
    <3>2. ContractGood(x, s, d)'
      BY <2>2, <3>1, ContractsRight
    <3> QED BY <3>2 DEF ContractGood, CyclesGood
  <2> QED BY <2>1, <2>2
<1> QED BY <1>4, <1>5, <1>6 DEF IInv

LEMMA InitIInv == Init => IInv
<1> SUFFICES ASSUME Init PROVE IInv
  OBVIOUS
<1>1. chain = Empty /\ today = 1 /\ log = <<>> /\ DOMAIN chain = {}
  BY DEF Init, Empty
<1>2. TypeOK /\ AllGood
  BY <1>1 DEF TypeOK, AllGood
<1>3. \A x, s : Listed(x, s) = {}
  BY <1>1 DEF Listed
<1> QED BY <1>1, <1>2, <1>3 DEF IInv, NeverDropped

(* A new day, or nothing: the log stands, and fewer expirations are due.   *)
LEMMA NextDayKeeps ==
    ASSUME IInv, NextDay \/ UNCHANGED vars
    PROVE  IInv'
<1>1. UNCHANGED <<chain, log>> /\ today' \in Int /\ today' >= today
  BY DEF NextDay, vars, IInv, TypeOK
<1>2. TypeOK'
  BY <1>1 DEF IInv, TypeOK
<1>3. \A x, s : Listed(x, s)' = Listed(x, s)
  BY <1>1 DEF Listed
<1>4. NeverDropped'
  <2>1. today \in Int /\ \A x \in Expirations : x >= today' => x >= today
    BY <1>1, AnswersAreBuckets DEF IInv, TypeOK
  <2> QED BY <1>1, <1>3, <2>1 DEF IInv, NeverDropped
<1>5. AllGood'
  <2>1. \A x, s, f : Informative(x, s, f)' = Informative(x, s, f)
    BY <1>1 DEF Informative, Listed, Given
  <2>2. \A k, s, f : Given(k, s, f)' = Given(k, s, f)
    BY <1>1 DEF Given
  <2>3. \A x, s : Quoted(x, s)' = Quoted(x, s)
    BY <1>1 DEF Quoted, Listed
  <2> SUFFICES ASSUME NEW x \in DOMAIN chain, NEW s \in DOMAIN chain[x]
               PROVE  ContractGood(x, s, chain[x][s])'
    BY <1>1 DEF AllGood
  <2>4. PICK c : c = chain[x][s]
    OBVIOUS
  <2>5. ContractGood(x, s, c)
    BY <2>4 DEF IInv, AllGood
  <2>6. \A f \in Fields \ {"contractSymbol"} : FieldGood(x, s, f, c.fields[f])'
    BY <2>1, <2>2, <2>5 DEF ContractGood, FieldGood
  <2>7. QuoteGood(x, s, c)'
    BY <1>1, <2>3, <2>5 DEF ContractGood, QuoteGood
  <2>8. CyclesGood(x, s, c)' /\ GreeksGood(c)'
    BY <1>1, <1>3, <2>5 DEF ContractGood, CyclesGood, GreeksGood
  <2>9. ContractGood(x, s, c)'
    BY <2>6, <2>7, <2>8 DEF ContractGood
  <2>10. chain'[x][s] = c
    BY <1>1, <2>4
  <2> QED BY <2>9, <2>10 DEF ContractGood
<1> QED BY <1>2, <1>4, <1>5 DEF IInv

LEMMA NextKeeps == IInv /\ [Next]_vars => IInv'
<1> SUFFICES ASSUME IInv, [Next]_vars PROVE IInv'
  OBVIOUS
<1>1. CASE NextDay \/ UNCHANGED vars
  BY <1>1, NextDayKeeps
<1>2. CASE \E e \in Expirations, yf \in YfBuckets, tv \in TvBuckets, up \in BOOLEAN :
             Refresh(e, yf, tv, up)
  <2>1. PICK e \in Expirations, yf \in YfBuckets, tv \in TvBuckets, up \in BOOLEAN :
               Refresh(e, yf, tv, up)
    BY <1>2
  <2>2. PICK a : a = [exp |-> e, yf |-> yf, tv |-> tv, up |-> up]
    OBVIOUS
  <2>3. a \in Answer /\ Refresh(a.exp, a.yf, a.tv, a.up)
    BY <2>1, <2>2 DEF Answer
  <2> QED BY <2>3, RefreshKeeps
<1> QED BY <1>1, <1>2 DEF Next

-----------------------------------------------------------------------------
(* What the invariant says in the terms of the properties.                 *)
LEMMA GoodMeansKnown == IInv => LastKnownGood
<1> SUFFICES ASSUME IInv, NEW e \in DOMAIN chain, NEW s \in DOMAIN chain[e],
                    NEW f \in Fields \ {"contractSymbol"}
             PROVE  IF Informative(e, s, f) = {} THEN chain[e][s].fields[f] = Absent
                    ELSE IF f = "lastTradeDate"
                    THEN chain[e][s].fields[f] = Max({Given(k, s, f) : k \in Informative(e, s, f)})
                    ELSE chain[e][s].fields[f] = Given(Max(Informative(e, s, f)), s, f)
  BY Zenon DEF LastKnownGood
<1> DEFINE K == Informative(e, s, f)
           v == chain[e][s].fields[f]
<1>1. FieldGood(e, s, f, v)
  BY DEF IInv, AllGood, ContractGood
<1>2. log \in Seq(Answer) /\ K \subseteq Listed(e, s) /\ K \subseteq Int
  BY DEF IInv, TypeOK, Informative, Listed
<1>3. CASE K = {}
  BY <1>1, <1>3 DEF FieldGood
<1>4. CASE K # {}
  <2>1. PICK k \in K :
            /\ v = Given(k, s, f)
            /\ IF f = "lastTradeDate" THEN \A j \in K : Given(j, s, f) <= v
               ELSE \A j \in K : j <= k
    BY <1>1, <1>4 DEF FieldGood
  <2>2. CASE f = "lastTradeDate"
    <3>1. {Given(j, s, f) : j \in K} \subseteq Int
      BY <1>2, GivenType
    <3>2. Greatest(v, {Given(j, s, f) : j \in K})
      BY <2>1, <2>2 DEF Greatest
    <3> QED BY <1>4, <2>2, <3>1, <3>2, GreatestIsMax
  <2>3. CASE f # "lastTradeDate"
    <3>1. Max(K) = k
      BY <1>2, <2>1, <2>3, GreatestIsMax DEF Greatest
    <3> QED BY <1>4, <2>1, <2>3, <3>1
  <2> QED BY <2>2, <2>3
<1> QED BY <1>3, <1>4

LEMMA GoodMeansHonest == IInv => FieldsHonest
<1> SUFFICES ASSUME IInv, NEW e \in DOMAIN chain, NEW s \in DOMAIN chain[e],
                    NEW c, c = chain[e][s], NEW K, K = Quoted(e, s)
             PROVE  /\ c.asof = (IF K = {} THEN 0 ELSE Max(K))
                    /\ K # {} => (c.source = "tradingview" <=> Trusted(log[Max(K)].tv, s))
                    /\ c.last = Max(Listed(e, s)) /\ c.first = Min(Listed(e, s))
                    /\ c.carried <=> c.last < Len(log)
                    /\ GreeksGood(c)
  BY DEF FieldsHonest, ProvenanceHonest, GreeksFresh, GreeksGood, Quoted
<1>1. QuoteGood(e, s, c) /\ CyclesGood(e, s, c) /\ GreeksGood(c)
  BY DEF IInv, AllGood, ContractGood
<1>2. Listed(e, s) \in SUBSET Int /\ K \in SUBSET Int
  BY DEF Listed, Quoted
<1>3. K # {} => Max(K) = c.asof
  BY <1>1, <1>2, GreatestIsMax DEF QuoteGood
<1>4. Max(Listed(e, s)) = c.last
  BY <1>1, <1>2, GreatestIsMax DEF CyclesGood
<1>5. Min(Listed(e, s)) = c.first
  BY <1>1, <1>2, LeastIsMin DEF CyclesGood
<1>6. /\ K = {} => c.asof = 0
      /\ K # {} => (c.source = "tradingview" <=> Trusted(log[c.asof].tv, s))
      /\ c.carried <=> c.last < Len(log)
  BY <1>1 DEF QuoteGood, CyclesGood
<1> QED BY <1>1, <1>3, <1>4, <1>5, <1>6

(* A cycle keeps an OCC symbol or gives another one.                       *)
LEMMA SymbolKept ==
    ASSUME NEW p \in Contract, NEW live, NEW now,
           p.fields["contractSymbol"] \in OccSymbols
    PROVE  MergePriorContract(p, live, now).fields["contractSymbol"] \in OccSymbols
<1>1. "contractSymbol" \in Fields /\ "contractSymbol" \notin QuoteFields
  BY MergeAssumption DEF Fields
<1>2. MergePriorContract(p, live, now).fields["contractSymbol"]
        = AcceptContractSymbol(p.fields["contractSymbol"], live.fields["contractSymbol"])
  BY <1>1 DEF MergePriorContract, SelectObserved, Contract
<1> QED BY <1>2 DEF AcceptContractSymbol

LEMMA SymbolsKeptStep ==
    ASSUME IInv, [Next]_vars, NEW e \in DOMAIN chain, NEW s \in DOMAIN chain[e],
           chain[e][s].fields["contractSymbol"] \in OccSymbols, e \in DOMAIN chain'
    PROVE  chain'[e][s].fields["contractSymbol"] \in OccSymbols
<1>1. CASE UNCHANGED chain
  BY <1>1
<1>2. CASE \E a \in Answer : Refresh(a.exp, a.yf, a.tv, a.up)
  <2>1. PICK a \in Answer : Refresh(a.exp, a.yf, a.tv, a.up)
    BY <1>2
  <2>2. PICK now : now = Len(log) + 1
    OBVIOUS
  <2>3. PICK ok : ok = PriceKnown(a.up)
    OBVIOUS
  <2>4. PICK p : p = chain[e][s]
    OBVIOUS
  <2>5. p \in Contract /\ TypeOK /\ Prior(e) = chain[e]
    BY <2>4 DEF IInv, TypeOK, Prior
  <2>6. chain'[e][s] = Derived(Merged(Prior(e), a, e, s, now), ok)
    BY <2>1, <2>2, <2>3, <2>5, RefreshShape
  <2>7. PICK q : q = Merged(Prior(e), a, e, s, now)
    OBVIOUS
  <2>8. q.fields["contractSymbol"] \in OccSymbols
    <3>1. CASE ListedBy(a, e, s)
      BY <2>4, <2>5, <2>7, <3>1, SymbolKept DEF Merged
    <3>2. CASE ~ListedBy(a, e, s)
      <4>1. q = [p EXCEPT !.carried = TRUE]
        BY <2>4, <2>5, <2>7, <3>2 DEF Merged
      <4>2. q.fields = p.fields
        BY <2>5, <4>1 DEF Contract
      <4> QED BY <2>4, <4>2
    <3> QED BY <3>1, <3>2
  <2>9. Derived(q, ok).fields = q.fields
    BY <2>4, <2>5, <2>7 DEF Derived, Merged, MergePriorContract, Contract
  <2> QED BY <2>6, <2>7, <2>8, <2>9
<1>3. UNCHANGED chain \/ \E a \in Answer : Refresh(a.exp, a.yf, a.tv, a.up)
  <2>1. CASE \E x \in Expirations, yf \in YfBuckets, tv \in TvBuckets, up \in BOOLEAN :
               Refresh(x, yf, tv, up)
    <3>1. PICK x \in Expirations, yf \in YfBuckets, tv \in TvBuckets, up \in BOOLEAN :
                 Refresh(x, yf, tv, up)
      BY <2>1
    <3>2. PICK a : a = [exp |-> x, yf |-> yf, tv |-> tv, up |-> up]
      OBVIOUS
    <3>3. a \in Answer /\ Refresh(a.exp, a.yf, a.tv, a.up)
      BY <3>1, <3>2 DEF Answer
    <3> QED BY <3>3
  <2> QED BY <2>1 DEF Next, NextDay, vars
<1> QED BY <1>1, <1>2, <1>3

-----------------------------------------------------------------------------
(* Chain, date and log keep their types, for any providers and calendar.   *)
THEOREM TypeCorrect == Spec => []TypeOK
<1>1. IInv => TypeOK
  BY DEF IInv
<1> QED BY InitIInv, NextKeeps, <1>1, PTL DEF Spec

(* The accumulated chain holds exactly the contracts some cycle listed and *)
(* whose day has not passed, for any strikes, expirations and cycles.      *)
THEOREM ContractsKept == Spec => []NeverDropped
<1>1. IInv => NeverDropped
  BY DEF IInv
<1> QED BY InitIInv, NextKeeps, <1>1, PTL DEF Spec

(* Every field is the last known good one, whatever zeros, gaps, stale     *)
(* trade dates and untrusted quotes the two providers answered since.      *)
THEOREM FieldsAreLastKnownGood == Spec => []LastKnownGood
  BY InitIInv, NextKeeps, GoodMeansKnown, PTL DEF Spec

(* Source, age and carrying of a quote, the cycles it was listed in and    *)
(* its Greeks are what the answers of all cycles say.                      *)
THEOREM ProvenanceIsHonest == Spec => []FieldsHonest
  BY InitIInv, NextKeeps, GoodMeansHonest, PTL DEF Spec

(* No cycle replaces an OCC symbol by another spelling.                    *)
THEOREM SymbolsKept == Spec => OccNeverDowngraded
<1>1. IInv /\ [Next]_vars =>
        [\A e \in DOMAIN chain : \A s \in DOMAIN chain[e] :
           chain[e][s].fields["contractSymbol"] \in OccSymbols =>
              \/ e \notin DOMAIN chain'
              \/ chain'[e][s].fields["contractSymbol"] \in OccSymbols]_vars
  BY SymbolsKeptStep
<1> QED BY InitIInv, NextKeeps, <1>1, PTL DEF Spec, OccNeverDowngraded

-----------------------------------------------------------------------------
(* What no cycle and no request breaks, for any symbols, requests and      *)
(* cycles.                                                                 *)

Publishable(time) ==
    [status : EntryStatuses, envelope : 0 .. time, refreshing : BOOLEAN] \cup {Nobody}

PageTypeOK ==
    /\ clock \in Nat
    /\ entries \in [Symbols -> Publishable(clock)]
    /\ seen \in [Symbols -> Publishable(clock)]
    /\ built \in [Symbols -> Publishable(clock)]
    /\ result \in [Requests -> Publishable(clock)]
    /\ present \subseteq Symbols
    /\ touched \subseteq Symbols
    /\ cycle \in {"idle", "running"}
    /\ cycles \in 0 .. MaxPrecomputes
    /\ pc \in [Requests -> {"new", "conflict", "enter", "shield", "await", "cleanup", "done"}]
    /\ task \in [Requests -> {"none", "ready", "fetch", "publish", "done"}]
    /\ queue \in Seq(Requests)
    /\ lock \in Requests \cup {Nobody}
    /\ registry \in [Symbols -> Requests \cup {Nobody}]

(* What a cycle works from is what is published, but for the symbols that  *)
(* were refreshed; and what it has built is not older.                     *)
Follows ==
    cycle = "running" =>
        \A s \in Symbols :
            /\ s \notin touched => entries[s] = seen[s]
            /\ built[s] # Nobody /\ seen[s] # Nobody => built[s].envelope >= seen[s].envelope

PageIInv == PageTypeOK /\ Follows

-----------------------------------------------------------------------------
LEMMA Older == ASSUME NEW t \in Nat, NEW u \in Nat, t <= u
               PROVE  Publishable(t) \subseteq Publishable(u)
BY DEF Publishable

LEMMA EntryPublished ==
    ASSUME NEW t \in Nat, NEW e \in 0 .. t, NEW status \in EntryStatuses
    PROVE  Entry(status, e) \in Publishable(t) /\ Entry(status, e).envelope = e
BY DEF Entry, Publishable

LEMMA CarriesEnvelope ==
    ASSUME NEW t \in Nat, NEW old \in Publishable(t), NEW status \in EntryStatuses
    PROVE  /\ CarryForward(old, status) \in Publishable(t)
           /\ old # Nobody => CarryForward(old, status).envelope = old.envelope
<1>1. CASE old = Nobody
  BY <1>1, EntryPublished DEF CarryForward
<1>2. CASE old # Nobody
  BY <1>2 DEF CarryForward, Publishable
<1> QED BY <1>1, <1>2

LEMMA InitHolds == PageInit => PageIInv
BY BestOptionsAssumption DEF PageInit, PageIInv, PageTypeOK, Follows, Publishable

-----------------------------------------------------------------------------
(* Cycles. *)
LEMMA StartKeeps == PageIInv /\ StartCycle => PageIInv'
<1> SUFFICES ASSUME PageIInv, StartCycle PROVE PageIInv'
  OBVIOUS
<1>1. PageTypeOK'
  BY BestOptionsAssumption DEF PageIInv, PageTypeOK, StartCycle, Publishable, requestVars
<1>2. Follows'
  BY DEF PageIInv, PageTypeOK, StartCycle, Follows
<1> QED BY <1>1, <1>2 DEF PageIInv

LEMMA EvaluateSymbolKeeps == ASSUME PageIInv, NEW s \in Symbols, EvaluateSymbol(s) PROVE PageIInv'
<1>1. /\ clock' \in Nat /\ clock <= clock'
      /\ Publishable(clock) \subseteq Publishable(clock')
  <2>1. clock' \in Nat /\ clock <= clock'
    BY DEF PageIInv, PageTypeOK, EvaluateSymbol
  <2> QED BY <2>1, Older DEF PageIInv, PageTypeOK
<1>2. PICK e \in Publishable(clock') :
         built' = [built EXCEPT ![s] = e] /\ (seen[s] # Nobody => e.envelope >= seen[s].envelope)
  <2>1. ASSUME NEW status \in EntryStatuses, built' = [built EXCEPT ![s] = CarryForward(seen[s], status)]
        PROVE  \E e \in Publishable(clock') :
                  /\ built' = [built EXCEPT ![s] = e]
                  /\ seen[s] # Nobody => e.envelope >= seen[s].envelope
    <3>1. seen[s] \in Publishable(clock)
      BY DEF PageIInv, PageTypeOK
    <3>2. /\ CarryForward(seen[s], status) \in Publishable(clock')
          /\ seen[s] # Nobody => CarryForward(seen[s], status).envelope = seen[s].envelope
      BY <1>1, <3>1, CarriesEnvelope DEF PageIInv, PageTypeOK
    <3>3. seen[s] # Nobody => seen[s].envelope \in Nat
      BY <3>1 DEF Publishable
    <3>4. seen[s] # Nobody => CarryForward(seen[s], status).envelope >= seen[s].envelope
      BY <3>2, <3>3
    <3> QED BY <2>1, <3>2, <3>4, Zenon
  <2>2. ASSUME clock' = clock + 1, built' = [built EXCEPT ![s] = Entry("ok", clock')]
        PROVE  \E e \in Publishable(clock') :
                  /\ built' = [built EXCEPT ![s] = e]
                  /\ seen[s] # Nobody => e.envelope >= seen[s].envelope
    <3>1. /\ Entry("ok", clock') \in Publishable(clock')
          /\ Entry("ok", clock').envelope = clock'
      BY <1>1, EntryPublished DEF EntryStatuses
    <3>2. seen[s] # Nobody => seen[s].envelope \in 0 .. clock
      BY DEF PageIInv, PageTypeOK, Publishable
    <3>3. seen[s] # Nobody => Entry("ok", clock').envelope >= seen[s].envelope
      BY <1>1, <3>1, <3>2 DEF PageIInv, PageTypeOK
    <3> QED BY <2>2, <3>1, <3>3, Zenon
  <2> QED BY <2>1, <2>2 DEF EvaluateSymbol, EntryStatuses
<1>3. PageTypeOK'
  <2>1. /\ UNCHANGED <<entries, present, cycle, seen, cycles, touched>>
        /\ UNCHANGED <<pc, task, result, queue, lock, registry>>
    BY DEF EvaluateSymbol, requestVars
  <2>2. built' \in [Symbols -> Publishable(clock')]
    BY <1>1, <1>2 DEF PageIInv, PageTypeOK
  <2>3. /\ entries' \in [Symbols -> Publishable(clock')] /\ seen' \in [Symbols -> Publishable(clock')]
        /\ result' \in [Requests -> Publishable(clock')]
    BY <1>1, <2>1 DEF PageIInv, PageTypeOK
  <2> QED BY <1>1, <2>1, <2>2, <2>3 DEF PageIInv, PageTypeOK
<1>4. Follows'
  BY <1>2 DEF PageIInv, PageTypeOK, EvaluateSymbol, Follows
<1> QED BY <1>3, <1>4 DEF PageIInv

LEMMA PublishKeeps == PageIInv /\ PublishCycle => PageIInv'
<1> SUFFICES ASSUME PageIInv, PublishCycle PROVE PageIInv'
  OBVIOUS
<1>1. PageTypeOK'
  BY DEF PageIInv, PageTypeOK, PublishCycle, Publishable, requestVars
<1>2. Follows'
  BY DEF PublishCycle, Follows
<1> QED BY <1>1, <1>2 DEF PageIInv

-----------------------------------------------------------------------------
(* Requests, their tasks and arriving chains. *)

(* A step that replaces at most the entry of one symbol.                   *)
LEMMA ReplaceFollows ==
    ASSUME PageIInv, NEW s \in Symbols, UNCHANGED cycleVars,
           \/ UNCHANGED <<entries, touched>>
           \/ \E e : Replace(s, e)
    PROVE  Follows'
BY DEF PageIInv, PageTypeOK, cycleVars, Replace, Follows

LEMMA RequestKeeps ==
    ASSUME PageIInv, NEW r \in Requests, Post(r) \/ Enter(r) \/ Joined(r) \/ Cleanup(r)
    PROVE  PageIInv'
<1>1. UNCHANGED <<entries, touched, cycleVars, present, clock, result>>
  BY DEF Post, Enter, Joined, Cleanup
<1>2. SymbolOf[r] \in Symbols
  BY BestOptionsAssumption
<1>3. Follows'
  BY <1>1, <1>2, ReplaceFollows
<1>4. pc' \in [Requests -> {"new", "conflict", "enter", "shield", "await", "cleanup", "done"}]
  BY DEF PageIInv, PageTypeOK, Post, Enter, Joined, Cleanup
<1>5. task' \in [Requests -> {"none", "ready", "fetch", "publish", "done"}]
  BY DEF PageIInv, PageTypeOK, Post, Enter, Joined, Cleanup
<1>6. queue' \in Seq(Requests)
  <2>1. queue \in Seq(Requests) /\ Append(queue, r) \in Seq(Requests)
    BY DEF PageIInv, PageTypeOK
  <2>2. queue # <<>> => Tail(queue) \in Seq(Requests)
    BY <2>1
  <2>3. queue' = queue \/ queue' = Append(queue, r) \/ (queue # <<>> /\ queue' = Tail(queue))
    BY DEF Post, Enter, Joined, Cleanup
  <2> QED BY <2>1, <2>2, <2>3
<1>7. lock' \in Requests \cup {Nobody}
  BY DEF PageIInv, PageTypeOK, Post, Enter, Joined, Cleanup
<1>8. registry' \in [Symbols -> Requests \cup {Nobody}]
  BY <1>2 DEF PageIInv, PageTypeOK, Post, Enter, Joined, Cleanup
<1>9. PageTypeOK'
  BY <1>1, <1>4, <1>5, <1>6, <1>7, <1>8 DEF PageIInv, PageTypeOK, cycleVars
<1> QED BY <1>3, <1>9 DEF PageIInv

LEMMA MarkedStaysPublishable ==
    ASSUME NEW time, NEW e \in Publishable(time), e # Nobody
    PROVE  [e EXCEPT !.refreshing = TRUE] \in Publishable(time)
BY DEF Publishable

LEMMA BeginKeeps == ASSUME PageIInv, NEW r \in Requests, BeginRefresh(r) PROVE PageIInv'
<1>1. SymbolOf[r] \in Symbols
  BY BestOptionsAssumption
<1>2. Follows'
  BY <1>1, ReplaceFollows DEF BeginRefresh
<1>3. entries' \in [Symbols -> Publishable(clock)] /\ touched' \subseteq Symbols
  <2>1. CASE entries[SymbolOf[r]] = Nobody
    BY <2>1 DEF PageIInv, PageTypeOK, BeginRefresh
  <2>2. CASE entries[SymbolOf[r]] # Nobody
    <3>1. [entries[SymbolOf[r]] EXCEPT !.refreshing = TRUE] \in Publishable(clock)
      <4>1. entries[SymbolOf[r]] \in Publishable(clock)
        BY <1>1 DEF PageIInv, PageTypeOK
      <4> QED BY <2>2, <4>1, MarkedStaysPublishable
    <3> QED BY <1>1, <2>2, <3>1 DEF PageIInv, PageTypeOK, BeginRefresh, Replace
  <2> QED BY <2>1, <2>2
<1>4. PageTypeOK'
  BY <1>3 DEF PageIInv, PageTypeOK, BeginRefresh, cycleVars
<1> QED BY <1>2, <1>4 DEF PageIInv

LEMMA EvaluateKeeps == ASSUME PageIInv, NEW r \in Requests, Evaluate(r) PROVE PageIInv'
<1>1. SymbolOf[r] \in Symbols
  BY BestOptionsAssumption
<1>2. Follows'
  BY <1>1, ReplaceFollows DEF Evaluate
<1>3. clock' \in Nat /\ Publishable(clock) \subseteq Publishable(clock')
  <2>1. clock' \in Nat /\ clock <= clock'
    BY DEF PageIInv, PageTypeOK, Evaluate
  <2> QED BY <2>1, Older DEF PageIInv, PageTypeOK
<1>4. PICK e \in Publishable(clock') : result' = [result EXCEPT ![r] = e]
  <2>1. Entry("error", 0) \in Publishable(clock') /\ Entry("ok", clock') \in Publishable(clock')
    BY <1>3, EntryPublished DEF EntryStatuses
  <2> QED BY <2>1 DEF Evaluate
<1>5. PageTypeOK'
  <2>1. /\ UNCHANGED <<entries, cycle, seen, built, cycles, touched, pc, queue, lock, registry>>
        /\ present' \subseteq Symbols
        /\ task' \in [Requests -> {"none", "ready", "fetch", "publish", "done"}]
    BY <1>1 DEF PageIInv, PageTypeOK, Evaluate, cycleVars
  <2>2. /\ entries' \in [Symbols -> Publishable(clock')] /\ seen' \in [Symbols -> Publishable(clock')]
        /\ built' \in [Symbols -> Publishable(clock')] /\ result' \in [Requests -> Publishable(clock')]
    BY <1>3, <1>4, <2>1 DEF PageIInv, PageTypeOK
  <2> QED BY <1>3, <2>1, <2>2 DEF PageIInv, PageTypeOK
<1> QED BY <1>2, <1>5 DEF PageIInv

LEMMA FinishKeeps == ASSUME PageIInv, NEW r \in Requests, FinishRefresh(r) PROVE PageIInv'
<1>1. SymbolOf[r] \in Symbols
  BY BestOptionsAssumption
<1>2. Follows'
  BY <1>1, ReplaceFollows DEF FinishRefresh
<1>3. PageTypeOK'
  BY <1>1 DEF PageIInv, PageTypeOK, FinishRefresh, Replace, cycleVars, Publishable
<1> QED BY <1>2, <1>3 DEF PageIInv

LEMMA ChainKeeps == ASSUME PageIInv, NEW s \in Symbols, ChainArrives(s) PROVE PageIInv'
<1>1. Follows'
  BY ReplaceFollows DEF ChainArrives
<1>2. PageTypeOK'
  BY DEF PageIInv, PageTypeOK, ChainArrives, cycleVars, requestVars
<1> QED BY <1>1, <1>2 DEF PageIInv

LEMMA StepHolds == PageIInv /\ [PageNext]_pageVars => PageIInv'
<1> SUFFICES ASSUME PageIInv, [PageNext]_pageVars PROVE PageIInv'
  OBVIOUS
<1>1. CASE StartCycle \/ PublishCycle
  BY <1>1, StartKeeps, PublishKeeps
<1>2. CASE \E s \in Symbols : EvaluateSymbol(s) \/ ChainArrives(s)
  BY <1>2, EvaluateSymbolKeeps, ChainKeeps
<1>3. CASE \E r \in Requests : Post(r) \/ RequestStep(r)
  BY <1>3, RequestKeeps, BeginKeeps, EvaluateKeeps, FinishKeeps DEF RequestStep
<1>4. CASE UNCHANGED pageVars
  BY <1>4 DEF PageIInv, PageTypeOK, Follows, pageVars, cycleVars, requestVars
<1> QED BY <1>1, <1>2, <1>3, <1>4 DEF PageNext

LEMMA PageInvariant == PageSpec => []PageIInv
BY InitHolds, StepHolds, PTL DEF PageSpec

-----------------------------------------------------------------------------
(* Every variable keeps its type, whatever cycles and requests do.         *)
THEOREM PagesTyped == PageSpec => []PageTypeOK
BY PageInvariant, PTL DEF PageIInv

(* publish of run_best_options_precompute, however long the cycle took:    *)
(* no symbol loses its envelope or gets an older one, except one that a    *)
(* request refreshed meanwhile.                                            *)
THEOREM NoPageBlanked == PageSpec => CarriedForward
<1>1. ASSUME PageIInv, PageNext, cycle = "running", cycle' = "idle"
      PROVE  PublishCycle
  BY <1>1 DEF PageNext, StartCycle, EvaluateSymbol, ChainArrives, RequestStep, Post, Enter, Joined,
              Cleanup, BeginRefresh, Evaluate, FinishRefresh, cycleVars
<1>2. ASSUME PageIInv, PageNext, cycle = "running", cycle' = "idle",
             NEW s \in Symbols \ touched, entries[s] # Nobody
      PROVE  entries'[s] # Nobody /\ entries'[s].envelope >= entries[s].envelope
  <2>1. entries'[s] = IF built[s] = Nobody THEN seen[s] ELSE built[s]
    BY <1>1, <1>2 DEF PublishCycle
  <2>2. entries[s] = seen[s]
    BY <1>2 DEF PageIInv, Follows
  <2>3. entries[s].envelope \in Nat
    BY <1>2 DEF PageIInv, PageTypeOK, Publishable
  <2> QED BY <1>2, <2>1, <2>2, <2>3 DEF PageIInv, Follows
<1>3. PageIInv /\ [PageNext]_pageVars =>
        [cycle = "running" /\ cycle' = "idle"
           => \A s \in Symbols \ touched :
                 entries[s] # Nobody
                   => entries'[s] # Nobody /\ entries'[s].envelope >= entries[s].envelope]_pageVars
  BY <1>2
<1> QED BY PageInvariant, <1>3, PTL DEF PageSpec, CarriedForward
=============================================================================
