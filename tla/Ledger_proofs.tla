---------------------------- MODULE Ledger_proofs ----------------------------
(***************************************************************************)
(* Theorems of the portfolio's ledger with the CSV import on top of it,    *)
(* for any accounts, trades, rows and number of operations and faults: a   *)
(* trade is never counted twice and never lost.                            *)
(***************************************************************************)
EXTENDS ImportSession, SequenceTheorems, FiniteSetTheorems, TLAPS

-----------------------------------------------------------------------------
(* Of documents d, so that a step can speak of them before and after it.   *)
ActiveIn(d, t) == {i \in Ids : d[i] # None /\ d[i].status = "ACTIVE" /\ d[i].trade = t}

Single(S) == \A i, j \in S : i = j

Handed(n) == Rows \cup 1 .. n

Leads(m) == {m.superseded_by, m.corrects, m.from} \ {None}

TypeOK ==
    /\ docs \in [Ids -> Movements \cup {None}]
    /\ next \in 0 .. MaxFresh
    /\ op \in Operations \cup {None}
    /\ op # None => op.at < Len(op.calls)
    /\ recorded \subseteq Trades /\ halfway \subseteq Trades
    /\ broken \subseteq Trades /\ strayed \subseteq Trades
    /\ ops \in Nat /\ faults \in Nat

(* An id stands for one trade, tr[i], for good: whatever document is stored*)
(* there, or will be by the calls cs that are left, and what links lead to.*)
OfTrade(m, tr, ids) == \A j \in Leads(m) : j \in ids /\ tr[j] = m.trade

OneTrade(d, n, tr) ==
    /\ \A r \in Rows : tr[r] = TradeOf[r]
    /\ \A i \in Ids : d[i] # None =>
          i \in Handed(n) /\ d[i].trade = tr[i] /\ OfTrade(d[i], tr, Handed(n))

CallsOfTrade(cs, n, tr) ==
    \A k \in DOMAIN cs :
        /\ cs[k].id \in Handed(n)
        /\ cs[k].doc # None => cs[k].doc.trade = tr[cs[k].id] /\ OfTrade(cs[k].doc, tr, Handed(n))

Linked ==
    \E tr \in [Ids -> Trades \cup {None}] :
        OneTrade(docs, next, tr) /\ (op # None => CallsOfTrade(op.calls, next, tr))

-----------------------------------------------------------------------------
(* What is known at and of the operations: o is the operation, loose the   *)
(* trades that may count twice, kept those that may not be missing.        *)
Idle(d, loose, kept) ==
    /\ \A t \in Trades \ loose : Single(ActiveIn(d, t))
    /\ \A t \in kept : ActiveIn(d, t) # {}

Stores(c, status) == c.doc # None /\ c.doc.status = status

(* An operation that writes first and supersedes then: each document it    *)
(* supersedes has its replacement before it.                               *)
Replaces(o) ==
    /\ \A k \in DOMAIN o.calls : Stores(o.calls[k], "ACTIVE") \/ Stores(o.calls[k], "SUPERSEDED")
    /\ \A k, m \in DOMAIN o.calls : o.calls[k].id = o.calls[m].id => k = m
    /\ \A m \in DOMAIN o.calls : Stores(o.calls[m], "SUPERSEDED") =>
          \E k \in DOMAIN o.calls : /\ k < m /\ Stores(o.calls[k], "ACTIVE")
                                    /\ o.calls[k].doc.trade = o.calls[m].doc.trade
    /\ o.kind = "batch" => \A k \in DOMAIN o.calls :
          k % 2 = 1 => /\ k + 1 \in DOMAIN o.calls
                       /\ Stores(o.calls[k], "ACTIVE") /\ Stores(o.calls[k + 1], "SUPERSEDED")
                       /\ o.calls[k + 1].doc.trade = o.calls[k].doc.trade
    /\ \A t \in o.adds : \E k \in DOMAIN o.calls :
          Stores(o.calls[k], "ACTIVE") /\ o.calls[k].doc.trade = t

(* Its calls have been made up to at and not beyond.                       *)
Made(cs, at, d) ==
    \A k \in DOMAIN cs :
        IF k <= at THEN d[cs[k].id] = cs[k].doc
        ELSE IF Stores(cs[k], "ACTIVE") THEN d[cs[k].id] = None
        ELSE /\ d[cs[k].id] # None /\ d[cs[k].id].status = "ACTIVE"
             /\ d[cs[k].id].trade = cs[k].doc.trade

(* What a trade has is one document written and one superseded.            *)
Distinct(cs, d, loose) ==
    /\ \A k, m \in DOMAIN cs :
          /\ cs[k].doc.trade \notin loose /\ cs[m].doc.trade = cs[k].doc.trade
          /\ cs[m].doc.status = cs[k].doc.status
          => k = m
    /\ \A k \in DOMAIN cs : cs[k].doc.trade \notin loose =>
          \A i \in ActiveIn(d, cs[k].doc.trade) : \E m \in DOMAIN cs : cs[m].id = i
    /\ \A t \in Trades \ loose :
          (\A k \in DOMAIN cs : cs[k].doc.trade # t) => Single(ActiveIn(d, t))

Writing(o, d, loose, kept) ==
    /\ Replaces(o)
    /\ Made(o.calls, o.at, d)
    /\ Distinct(o.calls, d, loose)
    /\ \A t \in kept : ActiveIn(d, t) # {}

(* One that deletes or voids: nothing that is recorded.                    *)
Removing(o, d, loose, rec, kept) ==
    /\ o.adds = {}
    /\ \A k \in DOMAIN o.calls :
          /\ o.calls[k].doc = None \/ Stores(o.calls[k], "VOIDED")
          /\ \A t \in rec : k > o.at => o.calls[k].id \notin ActiveIn(d, t)
    /\ Idle(d, loose, kept)

(* The import of a row of trade t: all that is left of t will be deleted   *)
(* or overwritten.                                                         *)
PurgingOf(t, o, d, loose, kept) ==
    /\ o.adds = {t}
    /\ \A k \in DOMAIN o.calls :
          IF k = Len(o.calls) THEN Stores(o.calls[k], "ACTIVE") /\ o.calls[k].doc.trade = t
          ELSE o.calls[k].doc = None
    /\ \A k \in DOMAIN o.calls : k > o.at =>
          d[o.calls[k].id] = None \/ d[o.calls[k].id].trade = t
    /\ t \notin loose => \A i \in ActiveIn(d, t) :
          \E k \in DOMAIN o.calls : k > o.at /\ o.calls[k].id = i
    /\ Idle(d, loose \cup {t}, kept \ {t})

Purging(o, d, loose, kept) == \E t \in Trades : PurgingOf(t, o, d, loose, kept)

(* A rollback or compensation: what it deletes of a trade it restores      *)
(* later, unless the trade is broken.                                      *)
Restores(cs, t) == {m \in DOMAIN cs : cs[m].doc # None /\ cs[m].doc.trade = t}

Undoing(o, d, loose, lost, kept) ==
    /\ o.adds = {}
    /\ \A k \in DOMAIN o.calls : o.calls[k].doc = None \/ Stores(o.calls[k], "ACTIVE")
    /\ \A k, m \in DOMAIN o.calls : o.calls[k].id = o.calls[m].id => k = m
    /\ \A k \in DOMAIN o.calls : \A t \in Trades \ lost :
          k > o.at /\ o.calls[k].doc = None /\ o.calls[k].id \in ActiveIn(d, t) =>
              \E m \in Restores(o.calls, t) : m > k
    /\ \A t \in Trades \ loose :
          /\ Single(Restores(o.calls, t))
          /\ \A m \in Restores(o.calls, t) : m > o.at =>
                \A i \in ActiveIn(d, t) : \E k \in DOMAIN o.calls :
                    o.at < k /\ k < m /\ o.calls[k].doc = None /\ o.calls[k].id = i
          /\ (\A m \in Restores(o.calls, t) : m <= o.at) => Single(ActiveIn(d, t))
    /\ \A t \in kept : ActiveIn(d, t) # {} \/ \E m \in Restores(o.calls, t) : m > o.at

Writers == {"create", "correct", "reassign", "batch", "transfer", "group"}

Works(o, d, rec, half, lost, stray) ==
    LET loose == half \cup stray
        kept == rec \ lost
    IN  /\ o.kind \in Writers => Writing(o, d, loose, kept)
        /\ o.kind \in {"delete", "void"} => Removing(o, d, loose, rec, kept)
        /\ o.kind = "import" => Purging(o, d, loose, kept)
        /\ o.kind = "undo" => Undoing(o, d, loose, lost, kept)

IInv ==
    /\ TypeOK
    /\ Linked
    /\ op = None => Idle(docs, halfway \cup strayed, recorded \ broken)
    /\ op # None => Works(op, docs, recorded, halfway, broken, strayed)

-----------------------------------------------------------------------------
(* Sequences of calls. *)

LEMMA SeqTyped ==
    ASSUME NEW S, NEW n \in Nat, NEW f \in [1 .. n -> S]
    PROVE  f \in Seq(S) /\ Len(f) = n /\ DOMAIN f = 1 .. n
<1>1. f \in Seq(S)
  BY SeqDef
<1>2. Len(f) \in Nat /\ DOMAIN f = 1 .. Len(f)
  BY <1>1, LenProperties
<1> QED BY <1>1, <1>2

LEMMA ToSeq ==
    ASSUME NEW S, IsFiniteSet(S)
    PROVE  /\ SetToSeq(S) \in Seq(S) /\ Len(SetToSeq(S)) = Cardinality(S)
           /\ DOMAIN SetToSeq(S) = 1 .. Len(SetToSeq(S))
           /\ \A k, m \in DOMAIN SetToSeq(S) : SetToSeq(S)[k] = SetToSeq(S)[m] => k = m
           /\ \A x \in S : \E k \in DOMAIN SetToSeq(S) : SetToSeq(S)[k] = x
           /\ S # {} => Len(SetToSeq(S)) >= 1
<1> DEFINE n == Cardinality(S)
           f == SetToSeq(S)
<1>1. n \in Nat /\ ExistsBijection(1 .. n, S)
  BY FS_CardinalityType
<1>2. \E g \in [1 .. n -> S] : IsInjective(g)
  BY <1>1 DEF ExistsBijection, Bijection, Injection, IsInjective
<1>3. f \in [1 .. n -> S] /\ IsInjective(f)
  BY <1>2 DEF SetToSeq
<1>4. f \in Injection(1 .. n, S)
  BY <1>3 DEF Injection, IsInjective
<1>5. Cardinality(1 .. n) = n
  BY <1>1, FS_Interval
<1>6. f \in Surjection(1 .. n, S)
  BY <1>4, <1>5, FS_Injection
<1>7. f \in Seq(S) /\ Len(f) = n /\ DOMAIN f = 1 .. n
  BY <1>1, <1>3, SeqTyped
<1>8. \A x \in S : \E k \in DOMAIN f : f[k] = x
  BY <1>6, <1>7 DEF Surjection
<1>9. S # {} => n >= 1
  BY <1>1, <1>7, <1>8
<1> HIDE DEF f
<1>10. \A k, m \in DOMAIN f : f[k] = f[m] => k = m
  BY <1>3 DEF IsInjective
<1> QED BY <1>7, <1>8, <1>9, <1>10 DEF f

-----------------------------------------------------------------------------
(* A call on the documents. *)
Ledgers == [Ids -> Movements \cup {None}]

Stored(d, c) == [d EXCEPT ![c.id] = c.doc]

OfOneTrade(d, c) == c.doc # None /\ d[c.id] # None => d[c.id].trade = c.doc.trade

LEMMA StoredIs ==
    ASSUME NEW d \in Ledgers, NEW c \in Calls, NEW e, e = Stored(d, c)
    PROVE  /\ e \in Ledgers
           /\ \A i \in Ids : e[i] = IF i = c.id THEN c.doc ELSE d[i]
BY DEF Ledgers, Stored, Calls

LEMMA ActiveAfter ==
    ASSUME NEW d \in Ledgers, NEW c \in Calls, NEW e, e = Stored(d, c), NEW t
    PROVE  /\ Stores(c, "ACTIVE") /\ c.doc.trade = t => ActiveIn(e, t) = ActiveIn(d, t) \cup {c.id}
           /\ ~(Stores(c, "ACTIVE") /\ c.doc.trade = t) => ActiveIn(e, t) = ActiveIn(d, t) \ {c.id}
<1>1. \A i \in Ids : e[i] = IF i = c.id THEN c.doc ELSE d[i]
  BY StoredIs
<1>2. c.id \in Ids
  BY DEF Calls
<1> QED BY <1>1, <1>2 DEF ActiveIn, Stores

LEMMA CallsTyped ==
    ASSUME NEW cs \in Seq(Calls)
    PROVE  /\ Len(cs) \in Nat /\ DOMAIN cs = 1 .. Len(cs)
           /\ \A k \in DOMAIN cs : cs[k] \in Calls /\ cs[k].id \in Ids /\ k \in Nat
<1>1. Len(cs) \in Nat /\ DOMAIN cs = 1 .. Len(cs) /\ cs \in [1 .. Len(cs) -> Calls]
  BY LenProperties
<1> QED BY <1>1 DEF Calls

-----------------------------------------------------------------------------
(* Operations that write. *)

LEMMA WritingGoesOn ==
    ASSUME NEW o \in Operations, o.at < Len(o.calls), NEW d \in Ledgers, NEW loose, NEW kept,
           Writing(o, d, loose, kept), NEW e, e = Stored(d, o.calls[o.at + 1])
    PROVE  /\ Made(o.calls, o.at + 1, e)
           /\ Distinct(o.calls, e, loose)
           /\ \A t \in kept : ActiveIn(e, t) # {}
<1> DEFINE cs == o.calls
           at == o.at
           c == cs[at + 1]
<1>1. cs \in Seq(Calls) /\ at \in Nat
  BY DEF Operations
<1>2. /\ Len(cs) \in Nat /\ DOMAIN cs = 1 .. Len(cs)
      /\ \A k \in DOMAIN cs : cs[k] \in Calls /\ cs[k].id \in Ids /\ k \in Nat
  BY <1>1, CallsTyped
<1>3. at + 1 \in DOMAIN cs /\ c \in Calls /\ c.id \in Ids
  BY <1>1, <1>2
<1>4. Replaces(o) /\ Made(cs, at, d) /\ Distinct(cs, d, loose) /\ \A t \in kept : ActiveIn(d, t) # {}
  BY DEF Writing
<1> HIDE DEF cs, at
<1>5. \A i \in Ids : e[i] = IF i = c.id THEN c.doc ELSE d[i]
  BY <1>3, StoredIs DEF cs, at
<1>6. \A t : /\ Stores(c, "ACTIVE") /\ c.doc.trade = t => ActiveIn(e, t) = ActiveIn(d, t) \cup {c.id}
             /\ ~(Stores(c, "ACTIVE") /\ c.doc.trade = t) => ActiveIn(e, t) = ActiveIn(d, t) \ {c.id}
  <2>1. e = Stored(d, c)
    BY DEF cs, at
  <2> QED BY <2>1, <1>3, ActiveAfter
<1>7. \A k \in DOMAIN cs : k # at + 1 => cs[k].id # c.id
  BY <1>3, <1>4 DEF Replaces, cs
<1>8. Made(cs, at + 1, e)
  <2> SUFFICES ASSUME NEW k \in DOMAIN cs
               PROVE  IF k <= at + 1 THEN e[cs[k].id] = cs[k].doc
                      ELSE IF Stores(cs[k], "ACTIVE") THEN e[cs[k].id] = None
                      ELSE /\ e[cs[k].id] # None /\ e[cs[k].id].status = "ACTIVE"
                           /\ e[cs[k].id].trade = cs[k].doc.trade
    BY DEF Made
  <2>1. CASE k = at + 1
    BY <2>1, <1>1, <1>3, <1>5
  <2>2. CASE k # at + 1
    <3>1. e[cs[k].id] = d[cs[k].id]
      BY <2>2, <1>2, <1>5, <1>7
    <3>2. k \in Nat /\ at \in Nat
      BY <1>1, <1>2 DEF at
    <3>3. k <= at + 1 <=> k <= at
      BY <2>2, <3>2
    <3> QED BY <3>1, <3>3, <1>4 DEF Made
  <2> QED BY <2>1, <2>2
<1>9. Distinct(cs, e, loose)
  <2>1. ASSUME NEW k \in DOMAIN cs, cs[k].doc.trade \notin loose, NEW i \in ActiveIn(e, cs[k].doc.trade)
        PROVE  \E m \in DOMAIN cs : cs[m].id = i
    <3>1. i = c.id \/ i \in ActiveIn(d, cs[k].doc.trade)
      BY <2>1, <1>6
    <3> QED BY <3>1, <2>1, <1>3, <1>4 DEF Distinct
  <2>2. ASSUME NEW t \in Trades \ loose, \A k \in DOMAIN cs : cs[k].doc.trade # t
        PROVE  Single(ActiveIn(e, t))
    <3>1. Single(ActiveIn(d, t))
      BY <2>2, <1>4 DEF Distinct
    <3>2. ActiveIn(e, t) \subseteq ActiveIn(d, t)
      BY <2>2, <1>3, <1>6
    <3> QED BY <3>1, <3>2 DEF Single
  <2> QED BY <2>1, <2>2, <1>4 DEF Distinct
<1>10. ASSUME NEW t \in kept PROVE ActiveIn(e, t) # {}
  <2>1. ActiveIn(d, t) # {}
    BY <1>4, <1>10
  <2>2. CASE Stores(c, "ACTIVE")
    <3>1. d[c.id] = None
      BY <2>2, <1>1, <1>3, <1>4 DEF Made, at
    <3>2. c.id \notin ActiveIn(d, t)
      BY <3>1 DEF ActiveIn
    <3> QED BY <2>1, <3>2, <1>6
  <2>3. CASE ~Stores(c, "ACTIVE")
    <3>1. Stores(c, "SUPERSEDED")
      BY <2>3, <1>3, <1>4 DEF Replaces, cs
    <3>2. PICK k \in DOMAIN cs : /\ k < at + 1 /\ Stores(cs[k], "ACTIVE")
                                 /\ cs[k].doc.trade = c.doc.trade
      BY <3>1, <1>3, <1>4 DEF Replaces, cs
    <3>3. d[cs[k].id] = cs[k].doc /\ cs[k].id # c.id
      <4>1. k <= at /\ k # at + 1
        BY <3>2, <1>1, <1>2 DEF at
      <4> QED BY <4>1, <1>4, <1>7 DEF Made
    <3>4. cs[k].id \in ActiveIn(e, c.doc.trade)
      BY <3>2, <3>3, <1>2, <1>5 DEF ActiveIn, Stores
    <3>5. ~(at + 1 <= at)
      BY <1>1 DEF at
    <3>6. d[c.id] # None /\ d[c.id].trade = c.doc.trade
      BY <3>5, <2>3, <1>3, <1>4 DEF Made
    <3>7. t # c.doc.trade => c.id \notin ActiveIn(d, t)
      BY <3>6 DEF ActiveIn
    <3>8. ActiveIn(e, t) = ActiveIn(d, t) \ {c.id}
      BY <2>3, <1>6
    <3> QED BY <2>1, <3>4, <3>7, <3>8
  <2> QED BY <2>2, <2>3
<1> QED BY <1>8, <1>9, <1>10 DEF cs, at

LEMMA WritingEnds ==
    ASSUME NEW o \in Operations, NEW d \in Ledgers, NEW loose, NEW kept, Replaces(o),
           Made(o.calls, Len(o.calls), d), Distinct(o.calls, d, loose),
           \A t \in kept : ActiveIn(d, t) # {}
    PROVE  Idle(d, loose, kept \cup o.adds)
<1> DEFINE cs == o.calls
<1>1. /\ Len(cs) \in Nat /\ DOMAIN cs = 1 .. Len(cs)
      /\ \A k \in DOMAIN cs : cs[k] \in Calls /\ cs[k].id \in Ids /\ k \in Nat
  BY CallsTyped DEF Operations
<1>2. \A k \in DOMAIN cs : d[cs[k].id] = cs[k].doc
  BY <1>1 DEF Made
<1>3. ASSUME NEW t \in Trades \ loose, NEW k \in DOMAIN cs, cs[k].doc.trade = t
      PROVE  Single(ActiveIn(d, t))
  <2> SUFFICES ASSUME NEW i \in ActiveIn(d, t), NEW j \in ActiveIn(d, t) PROVE i = j
    BY DEF Single
  <2>1. PICK m \in DOMAIN cs : cs[m].id = i
    BY <1>3 DEF Distinct
  <2>2. PICK n \in DOMAIN cs : cs[n].id = j
    BY <1>3 DEF Distinct
  <2>3. /\ cs[m].doc.trade = t /\ cs[n].doc.trade = t
        /\ cs[m].doc.status = "ACTIVE" /\ cs[n].doc.status = "ACTIVE"
    BY <2>1, <2>2, <1>2 DEF ActiveIn
  <2>4. m = n
    BY <2>3 DEF Distinct
  <2> QED BY <2>1, <2>2, <2>4
<1>4. ASSUME NEW t \in Trades \ loose PROVE Single(ActiveIn(d, t))
  BY <1>3, <1>4 DEF Distinct
<1>5. ASSUME NEW t \in o.adds PROVE ActiveIn(d, t) # {}
  <2>1. PICK k \in DOMAIN cs : Stores(cs[k], "ACTIVE") /\ cs[k].doc.trade = t
    BY <1>5 DEF Replaces
  <2>2. cs[k].id \in ActiveIn(d, t)
    BY <2>1, <1>1, <1>2 DEF ActiveIn, Stores
  <2> QED BY <2>2
<1> QED BY <1>4, <1>5 DEF Idle

(* The trades of X count as interrupted: those of all calls, or that of    *)
(* the call at work of a batch.                                            *)
Covers(o, X) ==
    IF o.kind = "batch" THEN o.calls[o.at + 1].doc.trade \in X
    ELSE \A k \in DOMAIN o.calls : o.calls[k].doc.trade \in X

(* If a call is of trade t, what t has are documents that calls have       *)
(* written or will supersede; and what was written is there.               *)
Shown(o, e, t) ==
    (\E k \in DOMAIN o.calls : o.calls[k].doc.trade = t) =>
        \A i \in ActiveIn(e, t) : \E m \in DOMAIN o.calls :
            /\ o.calls[m].id = i /\ o.calls[m].doc.trade = t
            /\ IF m <= o.at THEN Stores(o.calls[m], "ACTIVE")
               ELSE Stores(o.calls[m], "SUPERSEDED")

Written(o, e) == \A k \in DOMAIN o.calls : k <= o.at => e[o.calls[k].id] = o.calls[k].doc

LEMMA WritingStops ==
    ASSUME NEW o \in Operations, o.at < Len(o.calls), NEW d \in Ledgers, NEW loose, NEW kept,
           Writing(o, d, loose, kept), NEW X, Covers(o, X),
           NEW e, e = d \/ e = Stored(d, o.calls[o.at + 1])
    PROVE  /\ Idle(e, loose \cup X, kept)
           /\ \A t \in Trades \ (loose \cup X) : Shown(o, e, t)
           /\ Written(o, e)
<1> DEFINE cs == o.calls
           at == o.at
           c == cs[at + 1]
<1>1. cs \in Seq(Calls) /\ at \in Nat
  BY DEF Operations
<1>2. /\ Len(cs) \in Nat /\ DOMAIN cs = 1 .. Len(cs)
      /\ \A k \in DOMAIN cs : cs[k] \in Calls /\ cs[k].id \in Ids /\ k \in Nat
  BY <1>1, CallsTyped
<1>3. at + 1 \in DOMAIN cs /\ c \in Calls /\ c.id \in Ids
  BY <1>1, <1>2
<1>4. Replaces(o) /\ Made(cs, at, d) /\ Distinct(cs, d, loose) /\ \A t \in kept : ActiveIn(d, t) # {}
  BY DEF Writing
<1>5. e = d \/ e = Stored(d, c)
  OBVIOUS
<1>6. c.doc.trade \in X
  BY <1>3 DEF Covers
<1>7. \A k \in DOMAIN cs : k # at + 1 => cs[k].id # c.id
  BY <1>3, <1>4 DEF Replaces
<1>8. \A t \in kept : ActiveIn(e, t) # {}
  BY <1>4, WritingGoesOn
<1> HIDE DEF cs, at
<1>9. ASSUME NEW t \in Trades \ (loose \cup X) PROVE ActiveIn(e, t) \subseteq ActiveIn(d, t)
  <2>1. c.doc.trade # t
    BY <1>6
  <2> HIDE DEF c
  <2> QED BY <2>1, <1>3, <1>5, ActiveAfter
<1>10. ASSUME NEW t \in Trades \ (loose \cup X), NEW k \in DOMAIN cs, NEW i \in ActiveIn(e, t),
              cs[k].doc.trade = t
       PROVE  \E m \in DOMAIN cs : /\ cs[m].id = i /\ cs[m].doc.trade = t
                                   /\ IF m <= at THEN Stores(cs[m], "ACTIVE")
                                      ELSE Stores(cs[m], "SUPERSEDED")
  <2>1. i \in ActiveIn(d, t)
    BY <1>9, <1>10
  <2>2. PICK m \in DOMAIN cs : cs[m].id = i
    BY <2>1, <1>4, <1>10 DEF Distinct
  <2>3. d[i] # None /\ d[i].status = "ACTIVE" /\ d[i].trade = t
    BY <2>1 DEF ActiveIn
  <2>4. CASE m <= at
    BY <2>2, <2>3, <2>4, <1>4 DEF Made, Stores
  <2>5. CASE ~(m <= at)
    <3>1. ~Stores(cs[m], "ACTIVE") /\ d[i].trade = cs[m].doc.trade
      BY <2>2, <2>3, <2>5, <1>4 DEF Made
    <3>2. Stores(cs[m], "SUPERSEDED")
      BY <3>1, <1>4 DEF Replaces, cs
    <3> QED BY <3>1, <3>2, <2>2, <2>3, <2>5
  <2> QED BY <2>4, <2>5
<1>11. ASSUME NEW k \in DOMAIN cs, k <= at PROVE e[cs[k].id] = cs[k].doc
  <2>1. d[cs[k].id] = cs[k].doc /\ cs[k].id \in Ids
    BY <1>2, <1>4, <1>11 DEF Made
  <2>2. cs[k].id # c.id
    BY <1>1, <1>2, <1>7, <1>11 DEF at
  <2> HIDE DEF c
  <2> QED BY <2>1, <2>2, <1>3, <1>5, StoredIs
<1>12. ASSUME NEW t \in Trades \ (loose \cup X) PROVE Single(ActiveIn(e, t))
  <2>1. CASE \A k \in DOMAIN cs : cs[k].doc.trade # t
    BY <2>1, <1>4, <1>9 DEF Distinct, Single
  <2>2. CASE \E k \in DOMAIN cs : cs[k].doc.trade = t
    <3>1. o.kind = "batch"
      BY <2>2, <1>12 DEF Covers, cs
    <3> SUFFICES ASSUME NEW i \in ActiveIn(e, t), NEW j \in ActiveIn(e, t) PROVE i = j
      BY DEF Single
    <3>2. PICK m \in DOMAIN cs : /\ cs[m].id = i /\ cs[m].doc.trade = t
                                 /\ IF m <= at THEN Stores(cs[m], "ACTIVE")
                                    ELSE Stores(cs[m], "SUPERSEDED")
      BY <2>2, <1>10
    <3>3. PICK n \in DOMAIN cs : /\ cs[n].id = j /\ cs[n].doc.trade = t
                                 /\ IF n <= at THEN Stores(cs[n], "ACTIVE")
                                    ELSE Stores(cs[n], "SUPERSEDED")
      BY <2>2, <1>10
    <3>4. ASSUME NEW p \in DOMAIN cs, NEW q \in DOMAIN cs, cs[p].doc.trade = t, cs[q].doc.trade = t,
                 p <= at, ~(q <= at), Stores(cs[p], "ACTIVE"), Stores(cs[q], "SUPERSEDED")
          PROVE  FALSE
      <4>1. p % 2 = 1
        <5>1. SUFFICES ASSUME p % 2 # 1 PROVE FALSE
          OBVIOUS
        <5>2. p \in Nat /\ p >= 1 /\ p <= Len(cs) /\ Len(cs) \in Nat
          BY <1>2
        <5>3. p - 1 \in 1 .. Len(cs) /\ (p - 1) % 2 = 1 /\ p - 1 + 1 = p
          BY <5>1, <5>2
        <5>4. Stores(cs[p - 1 + 1], "SUPERSEDED")
          BY <5>3, <3>1, <1>2, <1>4 DEF Replaces, cs
        <5> QED BY <5>3, <5>4, <3>4 DEF Stores
      <4>2. /\ p + 1 \in DOMAIN cs /\ Stores(cs[p + 1], "SUPERSEDED")
            /\ cs[p + 1].doc.trade = t
        BY <4>1, <3>1, <3>4, <1>4 DEF Replaces, cs
      <4>3. p + 1 = q
        BY <4>2, <3>4, <1>4, <1>12 DEF Distinct, Stores
      <4>4. q = at + 1
        BY <4>3, <3>4, <1>1, <1>2 DEF at
      <4> QED BY <4>4, <3>4, <1>6, <1>12
    <3>5. m = n
      <4>1. m <= at <=> n <= at
        BY <3>2, <3>3, <3>4
      <4> QED BY <4>1, <3>2, <3>3, <1>4, <1>12 DEF Distinct, Stores
    <3> QED BY <3>2, <3>3, <3>5
  <2> QED BY <2>1, <2>2
<1>13. \A t \in Trades \ (loose \cup X) : Shown(o, e, t)
  BY <1>10 DEF Shown, cs, at
<1>14. Written(o, e)
  BY <1>11 DEF Written, cs, at
<1> QED BY <1>8, <1>12, <1>13, <1>14 DEF Idle

-----------------------------------------------------------------------------
(* The calls of two sequences in turn: the p-th of each are at k and m. *)
Pair(p, k, m) == k = 2 * p - 1 /\ m = 2 * p

LEMMA Halves ==
    ASSUME NEW n \in Nat, NEW m \in 1 .. 2 * n
    PROVE  /\ m % 2 = 1 => (m + 1) \div 2 \in 1 .. n /\ m = 2 * ((m + 1) \div 2) - 1
           /\ m % 2 # 1 => m \div 2 \in 1 .. n /\ m = 2 * (m \div 2)
OBVIOUS

LEMMA Half ==
    ASSUME NEW at \in Nat, NEW n, n = at \div 2
    PROVE  n \in Nat /\ 2 * n <= at
OBVIOUS

InTurn(r, s, u, n) ==
    /\ r \in Seq(Calls) /\ DOMAIN r = 1 .. 2 * n
    /\ \A p \in 1 .. n : \A k, m \in Nat : Pair(p, k, m) => r[k] = s[p] /\ r[m] = u[p]
    /\ \A x \in DOMAIN r : \E p \in 1 .. n : \E k, m \in Nat : Pair(p, k, m) /\ (x = k \/ x = m)

LEMMA Alternating ==
    ASSUME NEW n \in Nat, NEW s \in [1 .. n -> Calls], NEW u \in [1 .. n -> Calls],
           NEW r, r = Alternate(s, u)
    PROVE  InTurn(r, s, u, n)
<1>1. Len(s) = n
  BY SeqTyped
<1>2. r = [m \in 1 .. 2 * n |-> IF m % 2 = 1 THEN s[(m + 1) \div 2] ELSE u[m \div 2]]
  BY <1>1 DEF Alternate
<1>3. r \in [1 .. 2 * n -> Calls]
  <2> SUFFICES ASSUME NEW m \in 1 .. 2 * n
               PROVE  (IF m % 2 = 1 THEN s[(m + 1) \div 2] ELSE u[m \div 2]) \in Calls
    BY <1>2
  <2> QED BY Halves
<1>4. r \in Seq(Calls) /\ DOMAIN r = 1 .. 2 * n
  <2>1. 2 * n \in Nat
    OBVIOUS
  <2> QED BY <2>1, <1>3, SeqTyped
<1>5. ASSUME NEW p \in 1 .. n, NEW k \in Nat, NEW m \in Nat, Pair(p, k, m) PROVE r[k] = s[p] /\ r[m] = u[p]
  <2>1. /\ k \in 1 .. 2 * n /\ m \in 1 .. 2 * n /\ k % 2 = 1 /\ (k + 1) \div 2 = p
        /\ m % 2 # 1 /\ m \div 2 = p
    BY ONLY n \in Nat, p \in 1 .. n, <1>5 DEF Pair
  <2> QED BY <2>1, <1>2
<1>6. ASSUME NEW x \in DOMAIN r
      PROVE  \E p \in 1 .. n : \E k, m \in Nat : Pair(p, k, m) /\ (x = k \/ x = m)
  <2>1. x \in 1 .. 2 * n
    BY <1>4, <1>6
  <2>2. CASE x % 2 = 1
    <3>1. (x + 1) \div 2 \in 1 .. n /\ x = 2 * ((x + 1) \div 2) - 1
      BY <2>1, <2>2, Halves
    <3>2. Pair((x + 1) \div 2, x, 2 * ((x + 1) \div 2))
      BY <3>1, Zenon DEF Pair
    <3>3. x \in Nat /\ 2 * ((x + 1) \div 2) \in Nat
      BY <2>1, <3>1
    <3> QED BY <3>1, <3>2, <3>3, Zenon
  <2>3. CASE x % 2 # 1
    <3>1. x \div 2 \in 1 .. n /\ x = 2 * (x \div 2)
      BY <2>1, <2>3, Halves
    <3>2. Pair(x \div 2, 2 * (x \div 2) - 1, x)
      BY <3>1, Zenon DEF Pair
    <3>3. x \in Nat /\ 2 * (x \div 2) - 1 \in Nat
      BY <2>1, <3>1
    <3> QED BY <3>1, <3>2, <3>3, Zenon
  <2> QED BY <2>2, <2>3
<1> QED BY <1>4, <1>5, <1>6 DEF InTurn

-----------------------------------------------------------------------------
(* Rollbacks and compensations. *)

(* What a batch rolls back: of the calls it made, in pairs, the first is   *)
(* undone and then the second.                                             *)
Deleted(o, u, k) ==
    /\ u[k].doc = None /\ Stores(o.calls[k], "ACTIVE")
    /\ k + 1 \in DOMAIN u /\ Stores(u[k + 1], "ACTIVE")
    /\ u[k + 1].doc.trade = o.calls[k].doc.trade
Revived(o, u, k) ==
    /\ Stores(u[k], "ACTIVE") /\ Stores(o.calls[k], "SUPERSEDED")
    /\ u[k].doc.trade = o.calls[k].doc.trade
    /\ Leads(u[k].doc) \subseteq Leads(o.calls[k].doc)
    /\ k - 1 \in DOMAIN u /\ u[k - 1].doc = None
    /\ Stores(o.calls[k - 1], "ACTIVE")
    /\ o.calls[k - 1].doc.trade = o.calls[k].doc.trade

RollsBack(o, u) ==
    /\ u \in Seq(Calls)
    /\ \A k \in DOMAIN u :
          /\ k \in DOMAIN o.calls /\ k <= o.at /\ u[k].id = o.calls[k].id
          /\ Deleted(o, u, k) \/ Revived(o, u, k)

LEMMA RollbackIs ==
    ASSUME docs \in Ledgers, NEW o \in Operations, o.kind = "batch", o.at < Len(o.calls),
           Replaces(o), Made(o.calls, o.at, docs), NEW u, u = Rollback(o.calls, o.at)
    PROVE  RollsBack(o, u)
<1> PICK cs : cs = o.calls
  OBVIOUS
<1> PICK n : n = o.at \div 2
  OBVIOUS
<1> PICK del : del = [p \in 1 .. n |-> Call(cs[2 * p - 1].id, None)]
  OBVIOUS
<1> PICK res : res = [p \in 1 .. n |-> Call(cs[2 * p].id, [docs[cs[2 * p].id] EXCEPT
                                                !.status = "ACTIVE", !.superseded_by = None])]
  OBVIOUS
<1>1. o.at \in Nat /\ n \in Nat /\ 2 * n <= o.at
  BY Half DEF Operations
<1>2. /\ Len(cs) \in Nat /\ DOMAIN cs = 1 .. Len(cs)
      /\ \A k \in DOMAIN cs : cs[k] \in Calls /\ cs[k].id \in Ids /\ k \in Nat
  BY CallsTyped DEF Operations
<1>3. ASSUME NEW p \in 1 .. n, NEW k \in Nat, NEW m \in Nat, Pair(p, k, m)
      PROVE  /\ k \in DOMAIN cs /\ m \in DOMAIN cs /\ k <= o.at /\ m <= o.at
             /\ k + 1 = m /\ m - 1 = k /\ k \in 1 .. 2 * n /\ m \in 1 .. 2 * n
             /\ Stores(cs[k], "ACTIVE") /\ Stores(cs[m], "SUPERSEDED")
             /\ cs[m].doc.trade = cs[k].doc.trade
             /\ docs[cs[m].id] = cs[m].doc
  <2>1. /\ k \in 1 .. 2 * n /\ m \in 1 .. 2 * n /\ k + 1 = m /\ m - 1 = k /\ k % 2 = 1
    BY ONLY <1>1, p \in 1 .. n, <1>3 DEF Pair
  <2>2. o.at < Len(cs)
    OBVIOUS
  <2>3. k \in DOMAIN cs /\ m \in DOMAIN cs /\ k <= o.at /\ m <= o.at
    BY ONLY <2>1, <2>2, <1>1, <1>2
  <2>4. /\ Stores(cs[k], "ACTIVE") /\ Stores(cs[k + 1], "SUPERSEDED")
        /\ cs[k + 1].doc.trade = cs[k].doc.trade
    BY <2>1, <2>3 DEF Replaces
  <2>5. docs[cs[m].id] = cs[m].doc
    BY <2>3 DEF Made
  <2> QED BY <2>1, <2>3, <2>4, <2>5
<1>4. ASSUME NEW k \in DOMAIN cs, Stores(cs[k], "SUPERSEDED"),
             NEW m, m = [cs[k].doc EXCEPT !.status = "ACTIVE", !.superseded_by = None]
      PROVE  /\ m \in Movements /\ m # None /\ m.status = "ACTIVE" /\ m.trade = cs[k].doc.trade
             /\ Leads(m) \subseteq Leads(cs[k].doc)
  <2>1. cs[k].doc \in Movements
    BY <1>2, <1>4 DEF Calls, Stores
  <2>2. m \in Movements /\ m.status = "ACTIVE" /\ m.trade = cs[k].doc.trade
    BY <2>1, <1>4 DEF Movements
  <2>3. m.superseded_by = None /\ m.corrects = cs[k].doc.corrects /\ m.from = cs[k].doc.from
    BY <2>1, <1>4 DEF Movements
  <2> QED BY <2>2, <2>3, NoneAssumption DEF Leads
<1>5. ASSUME NEW p \in 1 .. n, NEW k \in Nat, NEW m \in Nat, Pair(p, k, m)
      PROVE  /\ del[p] = Call(cs[k].id, None)
             /\ res[p] = Call(cs[m].id, [cs[m].doc EXCEPT !.status = "ACTIVE",
                                                          !.superseded_by = None])
  <2>1. docs[cs[m].id] = cs[m].doc
    BY <1>3, <1>5
  <2>2. k = 2 * p - 1 /\ m = 2 * p
    BY <1>5 DEF Pair
  <2> QED BY ONLY <2>1, <2>2, <1>5,
             del = [q \in 1 .. n |-> Call(cs[2 * q - 1].id, None)],
             res = [q \in 1 .. n |-> Call(cs[2 * q].id, [docs[cs[2 * q].id] EXCEPT
                                              !.status = "ACTIVE", !.superseded_by = None])]
<1>6. ASSUME NEW p \in 1 .. n PROVE del[p] \in Calls /\ res[p] \in Calls
  <2>0. 2 * p - 1 \in Nat /\ 2 * p \in Nat
    BY ONLY <1>1, p \in 1 .. n
  <2> PICK k \in Nat, m \in Nat : Pair(p, k, m)
    BY <2>0, Zenon DEF Pair
  <2>1. /\ k \in DOMAIN cs /\ m \in DOMAIN cs /\ Stores(cs[m], "SUPERSEDED")
    BY <1>3
  <2> PICK d : d = [cs[m].doc EXCEPT !.status = "ACTIVE", !.superseded_by = None]
    OBVIOUS
  <2>2. d \in Movements
    BY <2>1, <1>4
  <2>3. del[p] = Call(cs[k].id, None) /\ res[p] = Call(cs[m].id, d)
    BY ONLY p \in 1 .. n, k \in Nat, m \in Nat, Pair(p, k, m), <1>5, Zenon,
            d = [cs[m].doc EXCEPT !.status = "ACTIVE", !.superseded_by = None]
  <2>4. cs[k].id \in Ids /\ cs[m].id \in Ids
    BY <2>1, <1>2
  <2> QED BY ONLY <2>2, <2>3, <2>4 DEF Call, Calls
<1>7. del \in [1 .. n -> Calls] /\ res \in [1 .. n -> Calls]
  BY <1>6
<1>8. u = Alternate(del, res)
  BY DEF Rollback, Restored
<1>9. InTurn(u, del, res, n)
  BY ONLY <1>1, <1>7, <1>8, Alternating
<1>10. ASSUME NEW p \in 1 .. n, NEW k \in Nat, NEW m \in Nat, Pair(p, k, m)
       PROVE  /\ u[k].id = cs[k].id /\ u[k].doc = None
              /\ u[m].id = cs[m].id /\ Stores(u[m], "ACTIVE")
              /\ u[m].doc.trade = cs[m].doc.trade
              /\ Leads(u[m].doc) \subseteq Leads(cs[m].doc)
  <2>1. u[k] = del[p] /\ u[m] = res[p]
    BY <1>9, <1>10 DEF InTurn
  <2> PICK d : d = [cs[m].doc EXCEPT !.status = "ACTIVE", !.superseded_by = None]
    OBVIOUS
  <2>2. u[k] = Call(cs[k].id, None) /\ u[m] = Call(cs[m].id, d)
    BY <2>1, <1>5, <1>10
  <2>3. m \in DOMAIN cs /\ Stores(cs[m], "SUPERSEDED")
    BY <1>3, <1>10
  <2>4. d # None /\ d.status = "ACTIVE" /\ d.trade = cs[m].doc.trade
        /\ Leads(d) \subseteq Leads(cs[m].doc)
    BY <2>3, <1>4
  <2> QED BY ONLY <2>2, <2>4 DEF Stores, Call
<1>11. u \in Seq(Calls) /\ DOMAIN u = 1 .. 2 * n
  BY <1>9 DEF InTurn
<1>12. ASSUME NEW x \in DOMAIN u
       PROVE  /\ x \in DOMAIN cs /\ x <= o.at /\ u[x].id = cs[x].id
              /\ Deleted(o, u, x) \/ Revived(o, u, x)
  <2>1. PICK p \in 1 .. n : \E k, m \in Nat : Pair(p, k, m) /\ (x = k \/ x = m)
    BY <1>9, <1>12 DEF InTurn
  <2>2. PICK k \in Nat, m \in Nat : Pair(p, k, m) /\ (x = k \/ x = m)
    BY <2>1
  <2>3. /\ k \in DOMAIN cs /\ m \in DOMAIN cs /\ k <= o.at /\ m <= o.at
        /\ k + 1 = m /\ m - 1 = k /\ k \in DOMAIN u /\ m \in DOMAIN u
        /\ Stores(cs[k], "ACTIVE") /\ Stores(cs[m], "SUPERSEDED")
        /\ cs[m].doc.trade = cs[k].doc.trade
    BY ONLY p \in 1 .. n, k \in Nat, m \in Nat, <2>2, <1>1, <1>3, <1>11
  <2>4. /\ u[k].id = cs[k].id /\ u[k].doc = None
        /\ u[m].id = cs[m].id /\ Stores(u[m], "ACTIVE")
        /\ u[m].doc.trade = cs[m].doc.trade
        /\ Leads(u[m].doc) \subseteq Leads(cs[m].doc)
    BY ONLY p \in 1 .. n, k \in Nat, m \in Nat, <2>2, <1>1, <1>10
  <2>5. CASE x = k
    <3>1. Deleted(o, u, x)
      BY <2>3, <2>4, <2>5 DEF Deleted
    <3> QED BY <3>1, <2>3, <2>4, <2>5
  <2>6. CASE x = m
    <3>1. Revived(o, u, x)
      BY <2>3, <2>4, <2>6 DEF Revived
    <3> QED BY <3>1, <2>3, <2>4, <2>6
  <2> QED BY <2>2, <2>5, <2>6
<1> QED BY <1>11, <1>12 DEF RollsBack

LEMMA RollbackBegins ==
    ASSUME docs \in Ledgers, NEW o \in Operations, o.kind = "batch", o.at < Len(o.calls),
           NEW loose, NEW lost, NEW kept, Writing(o, docs, loose, kept), NEW X, Covers(o, X),
           NEW e, e = docs \/ e = Stored(docs, o.calls[o.at + 1]),
           NEW u, u = Rollback(o.calls, o.at),
           NEW v, v.adds = {}, v.calls = u, v.at = 0
    PROVE  Undoing(v, e, loose \cup X, lost, kept)
<1> PICK cs : cs = o.calls
  OBVIOUS
<1>0. /\ Len(cs) \in Nat /\ DOMAIN cs = 1 .. Len(cs) /\ \A k \in DOMAIN cs : k \in Nat
  BY CallsTyped DEF Operations
<1>1. Replaces(o) /\ Made(o.calls, o.at, docs) /\ Distinct(o.calls, docs, loose)
  BY DEF Writing
<1>2. RollsBack(o, u) /\ u \in Seq(Calls)
  BY <1>1, RollbackIs DEF RollsBack
<1>3. /\ Idle(e, loose \cup X, kept) /\ Written(o, e)
      /\ \A t \in Trades \ (loose \cup X) : Shown(o, e, t)
  BY WritingStops
<1>4. \A k \in DOMAIN u : u[k].doc = None \/ Stores(u[k], "ACTIVE")
  BY <1>2 DEF RollsBack, Deleted, Revived
<1>5. /\ \A k \in DOMAIN u : k \in DOMAIN cs /\ k <= o.at /\ u[k].id = cs[k].id
      /\ \A k \in DOMAIN u : Deleted(o, u, k) \/ Revived(o, u, k)
  BY <1>2 DEF RollsBack
<1>6. \A k, m \in DOMAIN u : u[k].id = u[m].id => k = m
  BY <1>1, <1>5 DEF Replaces
<1>7. ASSUME NEW k \in DOMAIN u, NEW t, u[k].doc = None, u[k].id \in ActiveIn(e, t)
      PROVE  \E m \in Restores(u, t) : m > k
  <2>1. e[cs[k].id] = cs[k].doc /\ cs[k].doc.trade = t
    BY <1>3, <1>5, <1>7 DEF ActiveIn, Written
  <2>2. Deleted(o, u, k)
    BY <1>5, <1>7 DEF Revived, Stores
  <2>3. k + 1 \in Restores(u, t)
    BY <2>1, <2>2 DEF Deleted, Restores, Stores
  <2>4. k + 1 > k
    BY <1>0, <1>5, <1>7
  <2> QED BY <2>3, <2>4
<1>8. ASSUME NEW t, NEW m \in Restores(u, t), NEW p, p = m - 1
      PROVE  /\ m \in DOMAIN u /\ m \in DOMAIN cs /\ Stores(cs[m], "SUPERSEDED")
             /\ cs[m].doc.trade = t /\ m <= o.at
             /\ p \in DOMAIN u /\ p \in DOMAIN cs /\ u[p].doc = None /\ p <= o.at
             /\ Stores(cs[p], "ACTIVE") /\ cs[p].doc.trade = t
  <2>1. m \in DOMAIN u /\ u[m].doc # None /\ u[m].doc.trade = t
    BY <1>8 DEF Restores
  <2>2. Revived(o, u, m)
    BY <2>1, <1>5 DEF Deleted
  <2> QED BY <2>1, <2>2, <1>5, <1>8 DEF Revived
<1>9. ASSUME NEW t \in Trades \ (loose \cup X) PROVE Single(Restores(u, t))
  <2> SUFFICES ASSUME NEW m \in Restores(u, t), NEW q \in Restores(u, t) PROVE m = q
    BY DEF Single
  <2>1. /\ m \in DOMAIN cs /\ Stores(cs[m], "SUPERSEDED") /\ cs[m].doc.trade = t
        /\ q \in DOMAIN cs /\ Stores(cs[q], "SUPERSEDED") /\ cs[q].doc.trade = t
    BY <1>8
  <2> QED BY <2>1, <1>1, <1>9 DEF Distinct, Stores
<1>10. ASSUME NEW t \in Trades \ (loose \cup X), NEW m \in Restores(u, t), NEW i \in ActiveIn(e, t)
       PROVE  \E k \in DOMAIN u : 0 < k /\ k < m /\ u[k].doc = None /\ u[k].id = i
  <2> PICK p : p = m - 1
    OBVIOUS
  <2>1. /\ m \in DOMAIN u /\ m \in DOMAIN cs /\ Stores(cs[m], "SUPERSEDED")
        /\ cs[m].doc.trade = t /\ m <= o.at
        /\ p \in DOMAIN u /\ p \in DOMAIN cs /\ u[p].doc = None /\ p <= o.at
        /\ Stores(cs[p], "ACTIVE") /\ cs[p].doc.trade = t
    BY <1>8
  <2>2. PICK q \in DOMAIN cs : /\ cs[q].id = i /\ cs[q].doc.trade = t
                               /\ IF q <= o.at THEN Stores(cs[q], "ACTIVE")
                                  ELSE Stores(cs[q], "SUPERSEDED")
    BY <2>1, <1>3, <1>10 DEF Shown
  <2>3. CASE q <= o.at
    <3>1. q = p
      BY <2>1, <2>2, <2>3, <1>1, <1>10 DEF Distinct, Stores
    <3>2. p > 0 /\ p < m
      BY <2>1, <1>0
    <3> QED BY <3>1, <3>2, <2>1, <2>2, <1>5
  <2>4. CASE ~(q <= o.at)
    <3>1. q = m
      BY <2>1, <2>2, <2>4, <1>1, <1>10 DEF Distinct, Stores
    <3> QED BY <3>1, <2>1, <2>4
  <2> QED BY <2>3, <2>4
<1>11. \A t \in kept : ActiveIn(e, t) # {}
  BY <1>3 DEF Idle
<1>12. \A t \in Trades \ (loose \cup X) : Single(ActiveIn(e, t))
  BY <1>3 DEF Idle
<1> QED BY <1>4, <1>6, <1>7, <1>9, <1>10, <1>11, <1>12 DEF Undoing

Compensates(o, u) ==
    /\ u \in Seq(Calls)
    /\ \A k \in DOMAIN u : k \in DOMAIN o.calls /\ u[k].id = o.calls[k].id /\ u[k].doc = None

LEMMA CompensationBegins ==
    ASSUME NEW o \in Operations, o.kind = "group", o.at < Len(o.calls), NEW d \in Ledgers,
           NEW loose, NEW lost, NEW kept, Writing(o, d, loose, kept), NEW X, Covers(o, X),
           X \subseteq lost, NEW e, e = d \/ e = Stored(d, o.calls[o.at + 1]),
           NEW u, u = Compensation(o.calls, o.at),
           NEW v, v.adds = {}, v.calls = u, v.at = 0
    PROVE  Undoing(v, e, loose \cup X, lost, kept) /\ Compensates(o, u)
<1> PICK cs : cs = o.calls
  OBVIOUS
<1>0. /\ Len(cs) \in Nat /\ DOMAIN cs = 1 .. Len(cs) /\ o.at \in Nat
      /\ \A k \in DOMAIN cs : k \in Nat /\ cs[k].id \in Ids
  BY CallsTyped DEF Operations
<1> PICK n : n = IF o.at < Len(cs) \div 2 THEN o.at ELSE Len(cs) \div 2
  OBVIOUS
<1>1. n \in Nat /\ n <= o.at /\ n <= Len(cs)
  <2> PICK h : h = Len(cs) \div 2
    OBVIOUS
  <2>1. h \in Nat /\ 2 * h <= Len(cs)
    BY ONLY <1>0, h = Len(cs) \div 2, Half
  <2>2. n = IF o.at < h THEN o.at ELSE h
    OBVIOUS
  <2> QED BY ONLY <2>1, <2>2, <1>0
<1>2. u = [k \in 1 .. n |-> Call(cs[k].id, None)]
  BY DEF Compensation
<1>3. ASSUME NEW k \in 1 .. n
      PROVE  k \in DOMAIN cs /\ k <= o.at /\ u[k].id = cs[k].id /\ u[k].doc = None /\ u[k] \in Calls
  <2>1. k \in DOMAIN cs /\ k <= o.at
    BY ONLY <1>0, <1>1, k \in 1 .. n
  <2>2. u[k] = Call(cs[k].id, None)
    BY ONLY <1>2, k \in 1 .. n
  <2> QED BY <2>1, <2>2, <1>0 DEF Call, Calls
<1>4. u \in [1 .. n -> Calls]
  BY <1>2, <1>3
<1>5. u \in Seq(Calls) /\ DOMAIN u = 1 .. n
  BY <1>1, <1>4, SeqTyped
<1>6. Idle(e, loose \cup X, kept) /\ Written(o, e)
  BY WritingStops
<1>7. Replaces(o)
  BY DEF Writing
<1>8. \A k, m \in DOMAIN u : u[k].id = u[m].id => k = m
  <2>1. \A k, m \in DOMAIN cs : cs[k].id = cs[m].id => k = m
    BY <1>7 DEF Replaces
  <2>2. \A k \in DOMAIN u : k \in DOMAIN cs /\ u[k].id = cs[k].id
    BY <1>3, <1>5
  <2> QED BY ONLY <2>1, <2>2
<1>9. ASSUME NEW k \in DOMAIN u, NEW t \in Trades \ lost, u[k].id \in ActiveIn(e, t) PROVE FALSE
  <2>1. k \in DOMAIN cs /\ k <= o.at /\ u[k].id = cs[k].id
    BY <1>3, <1>5
  <2>2. cs[k].doc.trade = t
    BY <2>1, <1>6, <1>9 DEF ActiveIn, Written
  <2>3. cs[k].doc.trade \in X
    BY <2>1 DEF Covers
  <2> QED BY <2>2, <2>3
<1>10. \A t : Restores(u, t) = {}
  BY <1>3, <1>5 DEF Restores
<1>11. \A t \in Trades \ (loose \cup X) : Single(ActiveIn(e, t)) /\ Single(Restores(u, t))
  BY <1>6, <1>10 DEF Idle, Single
<1>12. \A t \in kept : ActiveIn(e, t) # {}
  BY <1>6 DEF Idle
<1>13. \A k \in DOMAIN u : u[k].doc = None
  BY <1>3, <1>5
<1>14. Undoing(v, e, loose \cup X, lost, kept)
  BY ONLY <1>8, <1>9, <1>10, <1>11, <1>12, <1>13, v.adds = {}, v.calls = u, v.at = 0 DEF Undoing
<1> QED BY <1>3, <1>5, <1>14 DEF Compensates

(* The trades of X include all those of the calls, and of the documents    *)
(* that calls delete.                                                      *)
Touches(cs, d, X) ==
    \A k \in DOMAIN cs : /\ cs[k].doc # None => cs[k].doc.trade \in X
                         /\ cs[k].doc = None /\ d[cs[k].id] # None => d[cs[k].id].trade \in X

LEMMA Untouched ==
    ASSUME NEW o \in Operations, o.at < Len(o.calls), NEW d \in Ledgers,
           NEW X, Touches(o.calls, d, X), OfOneTrade(d, o.calls[o.at + 1]),
           NEW e, e = d \/ e = Stored(d, o.calls[o.at + 1])
    PROVE  \A t : t \notin X => ActiveIn(e, t) = ActiveIn(d, t)
<1> SUFFICES ASSUME NEW t, t \notin X PROVE ActiveIn(e, t) = ActiveIn(d, t)
  OBVIOUS
<1> PICK c : c = o.calls[o.at + 1]
  OBVIOUS
<1>1. o.at + 1 \in DOMAIN o.calls /\ c \in Calls
  BY CallsTyped DEF Operations
<1>2. CASE e = Stored(d, c)
  <2>1. ~(Stores(c, "ACTIVE") /\ c.doc.trade = t)
    BY <1>1 DEF Touches, Stores
  <2>2. c.id \notin ActiveIn(d, t)
    BY <1>1 DEF Touches, ActiveIn, OfOneTrade
  <2> QED BY <1>1, <1>2, <2>1, <2>2, ActiveAfter
<1> QED BY <1>2

LEMMA UndoingGoesOn ==
    ASSUME NEW o \in Operations, o.at < Len(o.calls), NEW d \in Ledgers, NEW loose, NEW lost, NEW kept,
           Undoing(o, d, loose, lost, kept), kept \subseteq Trades \ lost,
           OfOneTrade(d, o.calls[o.at + 1]),
           NEW e, e = Stored(d, o.calls[o.at + 1]),
           NEW v, v.adds = {}, v.calls = o.calls, v.at = o.at + 1
    PROVE  Undoing(v, e, loose, lost, kept)
<1> PICK cs : cs = o.calls
  OBVIOUS
<1> PICK at : at = o.at
  OBVIOUS
<1> PICK c : c = cs[at + 1]
  OBVIOUS
<1>0. /\ Len(cs) \in Nat /\ DOMAIN cs = 1 .. Len(cs) /\ at \in Nat
      /\ \A k \in DOMAIN cs : k \in Nat /\ cs[k].id \in Ids
      /\ at + 1 \in DOMAIN cs /\ c \in Calls
  BY CallsTyped DEF Operations
<1>1. /\ \A k \in DOMAIN cs : cs[k].doc = None \/ Stores(cs[k], "ACTIVE")
      /\ \A k, m \in DOMAIN cs : cs[k].id = cs[m].id => k = m
  BY DEF Undoing
<1>2. ASSUME NEW t, NEW k \in DOMAIN cs, k > at, cs[k].doc = None, cs[k].id \in ActiveIn(d, t),
             t \in Trades \ lost
      PROVE  \E m \in Restores(cs, t) : m > k
  BY <1>2 DEF Undoing
<1>3. ASSUME NEW t \in Trades \ loose
      PROVE  /\ Single(Restores(cs, t))
             /\ \A m \in Restores(cs, t) : m > at =>
                   \A i \in ActiveIn(d, t) : \E k \in DOMAIN cs :
                       at < k /\ k < m /\ cs[k].doc = None /\ cs[k].id = i
             /\ (\A m \in Restores(cs, t) : m <= at) => Single(ActiveIn(d, t))
  BY <1>3 DEF Undoing
<1>4. \A t \in kept : ActiveIn(d, t) # {} \/ \E m \in Restores(cs, t) : m > at
  BY DEF Undoing
<1>5. ASSUME NEW t
      PROVE  /\ at + 1 \in Restores(cs, t) => ActiveIn(e, t) = ActiveIn(d, t) \cup {c.id}
             /\ at + 1 \notin Restores(cs, t) => ActiveIn(e, t) = ActiveIn(d, t) \ {c.id}
  <2>1. e = Stored(d, c)
    OBVIOUS
  <2>2. at + 1 \in Restores(cs, t) <=> Stores(c, "ACTIVE") /\ c.doc.trade = t
    BY <1>0, <1>1 DEF Restores, Stores
  <2> QED BY ONLY <2>1, <2>2, <1>0, d \in Ledgers, ActiveAfter
<1>6. \A t : \A m \in Restores(cs, t) : m \in Nat /\ m \in DOMAIN cs
  BY <1>0 DEF Restores
<1>7. ASSUME NEW t \in Trades \ lost, NEW k \in DOMAIN cs, k > at + 1, cs[k].doc = None,
             cs[k].id \in ActiveIn(e, t)
      PROVE  \E m \in Restores(cs, t) : m > k
  <2>1. k > at /\ k # at + 1
    BY ONLY <1>0, k \in DOMAIN cs, k > at + 1
  <2>2. cs[k].id \in ActiveIn(d, t)
    BY <2>1, <1>0, <1>1, <1>5, <1>7
  <2> QED BY <2>1, <2>2, <1>2, <1>7
<1>8. ASSUME NEW t \in Trades \ loose, NEW m \in Restores(cs, t), m > at + 1, NEW i \in ActiveIn(e, t)
      PROVE  \E k \in DOMAIN cs : at + 1 < k /\ k < m /\ cs[k].doc = None /\ cs[k].id = i
  <2>1. m > at /\ m # at + 1
    BY <1>0, <1>6, <1>8
  <2>2. at + 1 \notin Restores(cs, t)
    BY <2>1, <1>3 DEF Single
  <2>3. i \in ActiveIn(d, t) /\ i # c.id
    BY <2>2, <1>5
  <2>4. PICK k \in DOMAIN cs : at < k /\ k < m /\ cs[k].doc = None /\ cs[k].id = i
    BY <2>1, <2>3, <1>3
  <2>5. at + 1 < k
    <3>1. k # at + 1
      BY <2>3, <2>4
    <3> QED BY ONLY <3>1, <2>4, <1>0
  <2> QED BY <2>4, <2>5
<1>9. ASSUME NEW t \in Trades \ loose, \A m \in Restores(cs, t) : m <= at + 1
      PROVE  Single(ActiveIn(e, t))
  <2>1. CASE at + 1 \in Restores(cs, t)
    <3>1. ActiveIn(d, t) = {}
      <4>1. SUFFICES ASSUME NEW i \in ActiveIn(d, t) PROVE FALSE
        OBVIOUS
      <4>2. at + 1 > at
        BY <1>0
      <4>3. PICK k \in DOMAIN cs : at < k /\ k < at + 1
        BY <2>1, <4>1, <4>2, <1>3
      <4> QED BY ONLY <4>3, <1>0
    <3> QED BY <2>1, <3>1, <1>5 DEF Single
  <2>2. CASE at + 1 \notin Restores(cs, t)
    <3>1. ASSUME NEW m \in Restores(cs, t) PROVE m <= at
      <4>1. m # at + 1 /\ m <= at + 1
        BY <2>2, <1>9
      <4> QED BY <4>1, <1>0, <1>6
    <3>2. Single(ActiveIn(d, t))
      BY <3>1, <1>3
    <3> QED BY <2>2, <3>2, <1>5 DEF Single
  <2> QED BY <2>1, <2>2
<1>10. ASSUME NEW t \in kept
       PROVE  ActiveIn(e, t) # {} \/ \E m \in Restores(cs, t) : m > at + 1
  <2>1. CASE at + 1 \in Restores(cs, t)
    BY <2>1, <1>5
  <2>2. CASE at + 1 \notin Restores(cs, t)
    <3>1. CASE \E m \in Restores(cs, t) : m > at
      <4>1. PICK m \in Restores(cs, t) : m > at
        BY <3>1
      <4>2. m # at + 1
        BY <2>2
      <4>3. m > at + 1
        BY <4>1, <4>2, <1>0, <1>6
      <4> QED BY <4>3
    <3>2. CASE \A m \in Restores(cs, t) : ~(m > at)
      <4>1. PICK i \in ActiveIn(d, t) : TRUE
        BY <3>2, <1>4
      <4>2. SUFFICES ASSUME i = c.id PROVE FALSE
        BY <2>2, <4>1, <1>5
      <4>3. d[c.id] # None /\ d[c.id].trade = t
        BY <4>1, <4>2 DEF ActiveIn
      <4>4. c.doc = None
        BY <2>2, <4>3, <1>0, <1>1 DEF OfOneTrade, Restores, Stores
      <4>5. at + 1 > at
        BY <1>0
      <4>6. PICK m \in Restores(cs, t) : m > at + 1
        BY <4>1, <4>2, <4>4, <4>5, <1>0, <1>2
      <4>7. m > at
        BY <4>6, <1>0, <1>6
      <4> QED BY <3>2, <4>7
    <3> QED BY <3>1, <3>2
  <2> QED BY <2>1, <2>2
<1> QED BY ONLY <1>1, <1>3, <1>7, <1>8, <1>9, <1>10, v.adds = {}, v.calls = o.calls, v.at = o.at + 1,
               cs = o.calls, at = o.at DEF Undoing

LEMMA UndoingEnds ==
    ASSUME NEW o \in Operations, NEW d \in Ledgers, NEW loose, NEW lost, NEW kept, NEW v,
           Undoing(v, d, loose, lost, kept), v.calls = o.calls, v.at = Len(o.calls)
    PROVE  Idle(d, loose, kept)
<1>0. /\ Len(o.calls) \in Nat /\ \A k \in DOMAIN o.calls : k \in Nat /\ k <= Len(o.calls)
  BY CallsTyped DEF Operations
<1>1. \A t : \A m \in Restores(v.calls, t) : m <= v.at /\ ~(m > v.at)
  BY <1>0 DEF Restores
<1> QED BY <1>1 DEF Undoing, Idle

LEMMA UndoingStops ==
    ASSUME NEW o \in Operations, o.at < Len(o.calls), NEW d \in Ledgers, NEW loose, NEW lost, NEW kept,
           Undoing(o, d, loose, lost, kept), OfOneTrade(d, o.calls[o.at + 1]),
           NEW X, Touches(o.calls, d, X),
           NEW e, e = d \/ e = Stored(d, o.calls[o.at + 1]),
           NEW v, v.adds = {}, v.calls = o.calls, v.at = o.at + 1
    PROVE  /\ Idle(e, loose \cup X, kept \ X)
           /\ Undoing(v, e, loose \cup X, lost \cup X, kept \ X)
<1> PICK cs : cs = o.calls
  OBVIOUS
<1>0. /\ Len(cs) \in Nat /\ DOMAIN cs = 1 .. Len(cs) /\ o.at \in Nat
      /\ \A k \in DOMAIN cs : k \in Nat
  BY CallsTyped DEF Operations
<1>1. \A t : t \notin X => ActiveIn(e, t) = ActiveIn(d, t)
  BY Untouched
<1>2. \A t : t \notin X => Restores(cs, t) = {}
  BY DEF Restores, Touches
<1>3. /\ \A k \in DOMAIN cs : cs[k].doc = None \/ Stores(cs[k], "ACTIVE")
      /\ \A k, m \in DOMAIN cs : cs[k].id = cs[m].id => k = m
  BY DEF Undoing
<1>4. ASSUME NEW t \in Trades \ (loose \cup X) PROVE Single(ActiveIn(e, t))
  <2>1. \A m \in Restores(cs, t) : m <= o.at
    BY <1>2, <1>4
  <2>2. Single(ActiveIn(d, t))
    BY <2>1, <1>4 DEF Undoing
  <2> QED BY <2>2, <1>1, <1>4
<1>5. ASSUME NEW t \in kept \ X PROVE ActiveIn(e, t) # {}
  <2>1. Restores(cs, t) = {}
    BY <1>2, <1>5
  <2>2. ActiveIn(d, t) # {}
    BY <2>1, <1>5 DEF Undoing
  <2> QED BY <2>2, <1>1, <1>5
<1>6. ASSUME NEW k \in DOMAIN cs, NEW t \in Trades \ (lost \cup X), k > o.at + 1, cs[k].doc = None,
             cs[k].id \in ActiveIn(e, t)
      PROVE  FALSE
  <2>1. k > o.at /\ cs[k].id \in ActiveIn(d, t)
    BY <1>0, <1>1, <1>6
  <2>2. \E m \in Restores(cs, t) : m > k
    BY <2>1, <1>6 DEF Undoing
  <2> QED BY <2>2, <1>2, <1>6
<1>7. \A t \in Trades \ (loose \cup X) : Single(Restores(cs, t)) /\ Restores(cs, t) = {}
  BY <1>2 DEF Single
<1> QED BY <1>3, <1>4, <1>5, <1>6, <1>7 DEF Undoing, Idle

-----------------------------------------------------------------------------
(* Operations that delete or void, and imports. *)

LEMMA RemovingGoesOn ==
    ASSUME NEW o \in Operations, o.at < Len(o.calls), NEW d \in Ledgers, NEW loose, NEW rec,
           NEW kept, Removing(o, d, loose, rec, kept), kept \subseteq rec,
           NEW e, e = d \/ e = Stored(d, o.calls[o.at + 1]),
           NEW v, v.adds = {}, v.calls = o.calls, v.at = o.at + 1
    PROVE  Removing(v, e, loose, rec, kept) /\ Idle(e, loose, kept)
<1> PICK c : c = o.calls[o.at + 1]
  OBVIOUS
<1>0. /\ Len(o.calls) \in Nat /\ DOMAIN o.calls = 1 .. Len(o.calls) /\ o.at \in Nat
      /\ \A k \in DOMAIN o.calls : k \in Nat
      /\ o.at + 1 \in DOMAIN o.calls /\ c \in Calls /\ o.at + 1 > o.at
  BY CallsTyped DEF Operations
<1>1. \A k \in DOMAIN o.calls :
          /\ o.calls[k].doc = None \/ Stores(o.calls[k], "VOIDED")
          /\ \A t \in rec : k > o.at => o.calls[k].id \notin ActiveIn(d, t)
  BY DEF Removing
<1>2. ~Stores(c, "ACTIVE")
  BY <1>0, <1>1 DEF Stores
<1>3. \A t : ActiveIn(e, t) = ActiveIn(d, t) \/ ActiveIn(e, t) = ActiveIn(d, t) \ {c.id}
  BY <1>0, <1>2, ActiveAfter
<1>4. \A t \in rec : ActiveIn(e, t) = ActiveIn(d, t)
  BY <1>0, <1>1, <1>3
<1>5. \A k \in DOMAIN o.calls : k > o.at + 1 => k > o.at
  BY <1>0
<1>6. Idle(e, loose, kept)
  BY <1>3, <1>4 DEF Removing, Idle, Single
<1> QED BY <1>1, <1>4, <1>5, <1>6 DEF Removing

LEMMA PurgingGoesOn ==
    ASSUME NEW o \in Operations, o.at < Len(o.calls), NEW d \in Ledgers, NEW loose,
           NEW kept, Purging(o, d, loose, kept),
           NEW e, e = Stored(d, o.calls[o.at + 1]),
           NEW v, v.adds = o.adds, v.calls = o.calls, v.at = o.at + 1
    PROVE  /\ o.at + 1 = Len(o.calls) => Idle(e, loose, kept \cup o.adds)
           /\ o.at + 1 # Len(o.calls) => Purging(v, e, loose, kept)
<1> PICK cs : cs = o.calls
  OBVIOUS
<1> PICK at : at = o.at
  OBVIOUS
<1> PICK c : c = cs[at + 1]
  OBVIOUS
<1>0. /\ Len(cs) \in Nat /\ DOMAIN cs = 1 .. Len(cs) /\ at \in Nat
      /\ \A k \in DOMAIN cs : k \in Nat /\ cs[k].id \in Ids
      /\ at + 1 \in DOMAIN cs /\ c \in Calls /\ at + 1 > at
  BY CallsTyped DEF Operations
<1> PICK t \in Trades :
        /\ o.adds = {t}
        /\ \A k \in DOMAIN cs :
              IF k = Len(cs) THEN Stores(cs[k], "ACTIVE") /\ cs[k].doc.trade = t
              ELSE cs[k].doc = None
        /\ \A k \in DOMAIN cs : k > at => d[cs[k].id] = None \/ d[cs[k].id].trade = t
        /\ t \notin loose => \A i \in ActiveIn(d, t) :
              \E k \in DOMAIN cs : k > at /\ cs[k].id = i
        /\ Idle(d, loose \cup {t}, kept \ {t})
  BY DEF Purging, PurgingOf
<1>1. \A i \in Ids : e[i] = IF i = c.id THEN c.doc ELSE d[i]
  <2>1. e = Stored(d, c)
    OBVIOUS
  <2> QED BY ONLY <2>1, <1>0, d \in Ledgers, StoredIs
<1>2. c.id \in Ids /\ (d[c.id] = None \/ d[c.id].trade = t)
  BY <1>0
<1>3. c.doc = None \/ c.doc.trade = t
  BY <1>0
<1>4. \A s : s # t => ActiveIn(e, s) = ActiveIn(d, s)
  BY ONLY <1>1, <1>2, <1>3 DEF ActiveIn
<1>5. Idle(e, loose \cup {t}, kept \ {t})
  BY <1>4 DEF Idle
<1>6. CASE at + 1 = Len(cs)
  <2>1. Stores(c, "ACTIVE") /\ c.doc.trade = t
    BY <1>0, <1>6
  <2>2. c.id \in ActiveIn(e, t)
    BY ONLY <2>1, <1>1, <1>2 DEF ActiveIn, Stores
  <2>3. ASSUME t \notin loose PROVE Single(ActiveIn(e, t))
    <3>1. \A i \in ActiveIn(e, t) : i = c.id
      <4>1. SUFFICES ASSUME NEW i \in ActiveIn(e, t), i # c.id PROVE FALSE
        OBVIOUS
      <4>2. i \in ActiveIn(d, t)
        BY ONLY <4>1, <1>1 DEF ActiveIn
      <4>3. PICK k \in DOMAIN cs : k > at /\ cs[k].id = i
        BY <2>3, <4>2
      <4>4. k = at + 1
        BY ONLY <4>3, <1>0, <1>6
      <4> QED BY <4>1, <4>3, <4>4
    <3> QED BY <3>1 DEF Single
  <2>4. Idle(e, loose, kept \cup {t})
    BY ONLY <2>2, <2>3, <1>5 DEF Idle
  <2> QED BY <2>4, <1>6
<1>7. CASE at + 1 # Len(cs)
  <2>1. c.doc = None
    BY <1>0, <1>7
  <2>2. \A k \in DOMAIN cs : k > at + 1 => e[cs[k].id] = None \/ e[cs[k].id].trade = t
    <3>1. \A k \in DOMAIN cs : k > at + 1 => k > at
      BY <1>0
    <3> QED BY <2>1, <3>1, <1>0, <1>1
  <2>3. ASSUME t \notin loose, NEW i \in ActiveIn(e, t)
        PROVE  \E k \in DOMAIN cs : k > at + 1 /\ cs[k].id = i
    <3>1. i # c.id /\ i \in ActiveIn(d, t)
      BY ONLY <2>1, <2>3, <1>1 DEF ActiveIn
    <3>2. PICK k \in DOMAIN cs : k > at /\ cs[k].id = i
      BY <2>3, <3>1
    <3>3. k > at + 1
      <4>1. k # at + 1
        BY <3>1, <3>2
      <4> QED BY ONLY <3>2, <4>1, <1>0
    <3> QED BY <3>2, <3>3
  <2>4. /\ v.adds = {t} /\ v.calls = cs /\ v.at = at + 1
        /\ \A k \in DOMAIN cs :
              IF k = Len(cs) THEN Stores(cs[k], "ACTIVE") /\ cs[k].doc.trade = t
              ELSE cs[k].doc = None
    OBVIOUS
  <2>5. PurgingOf(t, v, e, loose, kept)
    BY ONLY <2>2, <2>3, <2>4, <1>5 DEF PurgingOf
  <2> QED BY <2>5, <1>7 DEF Purging
<1> QED BY <1>6, <1>7

LEMMA PurgingStops ==
    ASSUME NEW o \in Operations, o.at < Len(o.calls), NEW d \in Ledgers, NEW loose,
           NEW kept, Purging(o, d, loose, kept), NEW X, Touches(o.calls, d, X),
           NEW e, e = d \/ e = Stored(d, o.calls[o.at + 1])
    PROVE  Idle(e, loose \cup X, kept \ X)
<1> PICK cs : cs = o.calls
  OBVIOUS
<1> PICK c : c = cs[o.at + 1]
  OBVIOUS
<1>0. /\ Len(cs) \in Nat /\ DOMAIN cs = 1 .. Len(cs) /\ o.at \in Nat
      /\ \A k \in DOMAIN cs : k \in Nat /\ cs[k].id \in Ids
      /\ o.at + 1 \in DOMAIN cs /\ c \in Calls /\ o.at + 1 > o.at /\ Len(cs) \in DOMAIN cs
  BY CallsTyped DEF Operations
<1> PICK t \in Trades :
        /\ \A k \in DOMAIN cs :
              IF k = Len(cs) THEN Stores(cs[k], "ACTIVE") /\ cs[k].doc.trade = t
              ELSE cs[k].doc = None
        /\ \A k \in DOMAIN cs : k > o.at => d[cs[k].id] = None \/ d[cs[k].id].trade = t
        /\ Idle(d, loose \cup {t}, kept \ {t})
  BY DEF Purging, PurgingOf
<1>1. t \in X
  BY <1>0 DEF Touches, Stores
<1>2. OfOneTrade(d, c)
  BY <1>0 DEF OfOneTrade
<1>3. \A s : s \notin X => ActiveIn(e, s) = ActiveIn(d, s)
  BY <1>2, Untouched
<1> QED BY <1>1, <1>3 DEF Idle

-----------------------------------------------------------------------------
(* An operation at work: its next call, a failure, the end of the process. *)

LEMMA IdleWeaker ==
    ASSUME NEW d, NEW loose, NEW kept, Idle(d, loose, kept),
           NEW more, loose \subseteq more, NEW less, less \subseteq kept
    PROVE  Idle(d, more, less)
BY DEF Idle

LEMMA Kinds ==
    ASSUME NEW o \in Operations
    PROVE  o.kind \in Writers \/ o.kind \in {"delete", "void"} \/ o.kind = "import" \/ o.kind = "undo"
BY DEF Operations, Writers

LEMMA WorksGoOn ==
    ASSUME NEW o \in Operations, o.at < Len(o.calls), NEW d \in Ledgers,
           NEW rec \in SUBSET Trades, NEW half, NEW lost, NEW stray,
           Works(o, d, rec, half, lost, stray), OfOneTrade(d, o.calls[o.at + 1]),
           NEW e, e = Stored(d, o.calls[o.at + 1]),
           NEW v, v = [o EXCEPT !.at = o.at + 1]
    PROVE  /\ o.at + 1 = Len(o.calls) => Idle(e, half \cup stray, (rec \cup o.adds) \ lost)
           /\ o.at + 1 # Len(o.calls) => Works(v, e, rec, half, lost, stray)
<1> PICK loose : loose = half \cup stray
  OBVIOUS
<1> PICK kept : kept = rec \ lost
  OBVIOUS
<1>0. /\ v.kind = o.kind /\ v.adds = o.adds /\ v.calls = o.calls /\ v.at = o.at + 1
      /\ kept \subseteq rec /\ kept \subseteq Trades \ lost
      /\ (rec \cup o.adds) \ lost \subseteq kept \cup o.adds
  BY DEF Operations
<1>1. CASE o.kind \in Writers
  <2>1. Writing(o, d, loose, kept) /\ Replaces(o)
    BY <1>1 DEF Works, Writing
  <2>2. /\ Made(o.calls, o.at + 1, e) /\ Distinct(o.calls, e, loose)
        /\ \A t \in kept : ActiveIn(e, t) # {}
    BY <2>1, WritingGoesOn
  <2>3. ASSUME o.at + 1 = Len(o.calls) PROVE Idle(e, loose, kept \cup o.adds)
    <3>1. e \in Ledgers /\ Made(o.calls, Len(o.calls), e)
      <4>1. o.calls[o.at + 1] \in Calls
        BY CallsTyped DEF Operations
      <4> QED BY <4>1, <2>2, <2>3, StoredIs
    <3> QED BY <3>1, <2>1, <2>2, WritingEnds
  <2>4. Replaces(v)
    BY <2>1, <1>0 DEF Replaces
  <2>5. Writing(v, e, loose, kept)
    BY <2>2, <2>4, <1>0 DEF Writing
  <2>6. ~(o.kind \in {"delete", "void"}) /\ o.kind # "import" /\ o.kind # "undo"
    BY <1>1 DEF Writers
  <2> QED BY <2>3, <2>5, <2>6, <1>0, IdleWeaker DEF Works
<1>2. CASE o.kind \in {"delete", "void"}
  <2>1. Removing(o, d, loose, rec, kept) /\ o.adds = {}
    BY <1>2 DEF Works, Removing
  <2>2. Removing(v, e, loose, rec, kept) /\ Idle(e, loose, kept)
    BY <2>1, <1>0, RemovingGoesOn
  <2>3. ~(o.kind \in Writers) /\ o.kind # "import" /\ o.kind # "undo"
    BY <1>2 DEF Writers
  <2> QED BY <2>1, <2>2, <2>3, <1>0, IdleWeaker DEF Works
<1>3. CASE o.kind = "import"
  <2>1. Purging(o, d, loose, kept)
    BY <1>3 DEF Works
  <2>2. /\ o.at + 1 = Len(o.calls) => Idle(e, loose, kept \cup o.adds)
        /\ o.at + 1 # Len(o.calls) => Purging(v, e, loose, kept)
    BY <2>1, <1>0, PurgingGoesOn
  <2>3. ~(o.kind \in Writers) /\ ~(o.kind \in {"delete", "void"}) /\ o.kind # "undo"
    BY <1>3 DEF Writers
  <2> QED BY <2>2, <2>3, <1>0, IdleWeaker DEF Works
<1>4. CASE o.kind = "undo"
  <2>1. Undoing(o, d, loose, lost, kept) /\ o.adds = {}
    BY <1>4 DEF Works, Undoing
  <2>2. Undoing(v, e, loose, lost, kept)
    BY <2>1, <1>0, UndoingGoesOn
  <2>3. o.at + 1 = Len(o.calls) => Idle(e, loose, kept)
    <3>1. ASSUME o.at + 1 = Len(o.calls) PROVE Idle(e, loose, kept)
      <4>1. e \in Ledgers
        <5>1. o.calls[o.at + 1] \in Calls
          BY CallsTyped DEF Operations
        <5> QED BY <5>1, StoredIs
      <4>2. v.calls = o.calls /\ v.at = Len(o.calls)
        BY <3>1, <1>0
      <4> QED BY <4>1, <4>2, <2>2, UndoingEnds
    <3> QED BY <3>1
  <2>4. ~(o.kind \in Writers) /\ ~(o.kind \in {"delete", "void"}) /\ o.kind # "import"
    BY <1>4 DEF Writers
  <2> QED BY <2>1, <2>2, <2>3, <2>4, <1>0, IdleWeaker DEF Works
<1> QED BY <1>1, <1>2, <1>3, <1>4, Kinds

(* X is what an interruption adds to halfway. *)
Stopped(o, d, X) ==
    IF o.kind = "batch" THEN Touches(<<o.calls[o.at + 1]>>, d, X) ELSE Touches(o.calls, d, X)

LEMMA StoppedCovers ==
    ASSUME NEW o \in Operations, o.at < Len(o.calls), NEW d, NEW X, Stopped(o, d, X), Replaces(o)
    PROVE  Covers(o, X)
<1>1. o.at + 1 \in DOMAIN o.calls
  BY CallsTyped DEF Operations
<1>2. \A k \in DOMAIN o.calls : o.calls[k].doc # None
  BY DEF Replaces, Stores
<1>3. CASE o.kind = "batch"
  <2> PICK c : c = o.calls[o.at + 1]
    OBVIOUS
  <2>1. Touches(<<c>>, d, X)
    BY <1>3 DEF Stopped
  <2>2. 1 \in DOMAIN <<c>> /\ <<c>>[1] = c
    OBVIOUS
  <2>3. c.doc # None
    BY <1>1, <1>2
  <2>4. c.doc.trade \in X
    BY ONLY <2>1, <2>2, <2>3 DEF Touches
  <2> QED BY <2>4, <1>3 DEF Covers
<1>4. CASE o.kind # "batch"
  BY <1>2, <1>4 DEF Stopped, Covers, Touches
<1> QED BY <1>3, <1>4

LEMMA WorksStop ==
    ASSUME NEW o \in Operations, o.at < Len(o.calls), NEW d \in Ledgers,
           NEW rec \in SUBSET Trades, NEW half, NEW lost, NEW stray,
           Works(o, d, rec, half, lost, stray), OfOneTrade(d, o.calls[o.at + 1]),
           NEW X, Stopped(o, d, X), NEW more, lost \subseteq more,
           DeletesFirst(o.kind) => X \subseteq more,
           NEW e, e = d \/ e = Stored(d, o.calls[o.at + 1])
    PROVE  Idle(e, (half \cup X) \cup stray, rec \ more)
<1> PICK loose : loose = half \cup stray
  OBVIOUS
<1> PICK kept : kept = rec \ lost
  OBVIOUS
<1>0. /\ kept \subseteq rec /\ rec \ more \subseteq kept
      /\ loose \subseteq (half \cup X) \cup stray /\ loose \cup X \subseteq (half \cup X) \cup stray
  OBVIOUS
<1>1. CASE o.kind \in Writers
  <2>1. Writing(o, d, loose, kept) /\ Replaces(o)
    BY <1>1 DEF Works, Writing
  <2>2. Covers(o, X)
    BY <2>1, StoppedCovers
  <2>3. Idle(e, loose \cup X, kept)
    BY <2>1, <2>2, WritingStops
  <2> QED BY <2>3, <1>0, IdleWeaker
<1>2. CASE o.kind \in {"delete", "void"}
  <2>1. Removing(o, d, loose, rec, kept) /\ o.adds = {}
    BY <1>2 DEF Works, Removing
  <2> PICK v : v = [adds |-> {}, calls |-> o.calls, at |-> o.at + 1]
    OBVIOUS
  <2>2. Idle(e, loose, kept)
    BY <2>1, <1>0, RemovingGoesOn
  <2> QED BY <2>2, <1>0, IdleWeaker
<1>3. ASSUME o.kind \in {"import", "undo"} PROVE Idle(e, loose \cup X, kept \ X)
  <2>1. Touches(o.calls, d, X)
    BY <1>3 DEF Stopped
  <2>2. CASE o.kind = "import"
    <3>1. Purging(o, d, loose, kept)
      BY <2>2 DEF Works
    <3> QED BY <3>1, <2>1, PurgingStops
  <2>3. CASE o.kind = "undo"
    <3>1. Undoing(o, d, loose, lost, kept)
      BY <2>3 DEF Works
    <3>0. PICK v : v = [adds |-> {}, calls |-> o.calls, at |-> o.at + 1]
      OBVIOUS
    <3>2. v.adds = {} /\ v.calls = o.calls /\ v.at = o.at + 1
      BY <3>0
    <3> QED BY <3>1, <3>2, <2>1, UndoingStops
  <2> QED BY <2>2, <2>3, <1>3
<1>4. CASE o.kind \in {"import", "undo"}
  <2>1. rec \ more \subseteq kept \ X
    BY <1>0, <1>4 DEF DeletesFirst
  <2> QED BY <2>1, <1>0, <1>3, <1>4, IdleWeaker
<1> QED BY <1>1, <1>2, <1>4, Kinds

LEMMA UndoGoesOn ==
    ASSUME NEW o \in Operations, o.at < Len(o.calls), o.kind = "undo", NEW d \in Ledgers,
           NEW rec \in SUBSET Trades, NEW half, NEW lost, NEW stray,
           Works(o, d, rec, half, lost, stray), OfOneTrade(d, o.calls[o.at + 1]),
           NEW X, Stopped(o, d, X), NEW more, more = lost \cup X,
           NEW e, e = d \/ e = Stored(d, o.calls[o.at + 1]),
           NEW v, v = [o EXCEPT !.at = o.at + 1]
    PROVE  Works(v, e, rec, half \cup X, more, stray)
<1>1. Undoing(o, d, half \cup stray, lost, rec \ lost) /\ o.adds = {}
  BY DEF Works, Undoing
<1>2. v.adds = {} /\ v.calls = o.calls /\ v.at = o.at + 1 /\ v.kind = "undo"
  BY <1>1 DEF Operations
<1>3. Touches(o.calls, d, X)
  BY DEF Stopped
<1>4. Undoing(v, e, (half \cup stray) \cup X, lost \cup X, (rec \ lost) \ X)
  BY <1>1, <1>2, <1>3, UndoingStops
<1>5. (half \cup stray) \cup X = (half \cup X) \cup stray /\ (rec \ lost) \ X = rec \ more
  OBVIOUS
<1> QED BY <1>2, <1>4, <1>5 DEF Works, Writers

LEMMA UndoBegins ==
    ASSUME docs \in Ledgers, op \in Operations, op.at < Len(op.calls), op.kind # "undo",
           recorded \in SUBSET Trades, Works(op, docs, recorded, halfway, broken, strayed),
           NEW X, Stopped(op, docs, X), NEW more, broken \subseteq more,
           DeletesFirst(op.kind) => X \subseteq more,
           NEW e, e = docs \/ e = Stored(docs, op.calls[op.at + 1]),
           NEW tr, CallsOfTrade(op.calls, next, tr), Undo(op) # <<>>,
           NEW v, v = [kind |-> "undo", calls |-> Undo(op), at |-> 0, adds |-> {}]
    PROVE  /\ Works(v, e, recorded, halfway \cup X, more, strayed)
           /\ v \in Operations /\ CallsOfTrade(Undo(op), next, tr)
<1> PICK o \in Operations : o = op
  OBVIOUS
<1> PICK u : u = Undo(op)
  OBVIOUS
<1> PICK rec \in SUBSET Trades : rec = recorded
  OBVIOUS
<1> PICK half, stray, n : half = halfway /\ stray = strayed /\ n = next
  OBVIOUS
<1> PICK loose : loose = half \cup stray
  OBVIOUS
<1> PICK kept : kept = rec \ more
  OBVIOUS
<1>0. v.kind = "undo" /\ v.calls = u /\ v.at = 0 /\ v.adds = {}
  OBVIOUS
<1>1. o.kind \in {"batch", "group"}
  BY DEF Undo
<1>2. Writing(o, docs, loose, kept) /\ Replaces(o) /\ Made(o.calls, o.at, docs)
  BY <1>1 DEF Works, Writers, Writing
<1>3. Covers(o, X)
  BY <1>2, StoppedCovers
<1>4. ASSUME o.kind = "batch"
      PROVE  Undoing(v, e, loose \cup X, more, kept) /\ u \in Seq(Calls) /\ CallsOfTrade(u, n, tr)
  <2>1. u = Rollback(o.calls, o.at)
    BY <1>4 DEF Undo
  <2>2. Undoing(v, e, loose \cup X, more, kept)
    BY ONLY <2>1, <1>0, <1>2, <1>3, <1>4, RollbackBegins, docs \in Ledgers, o.at < Len(o.calls),
            e = docs \/ e = Stored(docs, o.calls[o.at + 1])
  <2>3. RollsBack(o, u)
    BY <2>1, <1>2, <1>4, RollbackIs
  <2>4. CallsOfTrade(u, n, tr)
    <3> SUFFICES ASSUME NEW k \in DOMAIN u
                 PROVE  /\ u[k].id \in Handed(n)
                        /\ u[k].doc # None => /\ u[k].doc.trade = tr[u[k].id]
                                              /\ OfTrade(u[k].doc, tr, Handed(n))
      BY DEF CallsOfTrade
    <3>1. k \in DOMAIN o.calls /\ u[k].id = o.calls[k].id /\ (Deleted(o, u, k) \/ Revived(o, u, k))
      BY <2>3 DEF RollsBack
    <3>2. /\ o.calls[k].id \in Handed(n)
          /\ o.calls[k].doc # None => /\ o.calls[k].doc.trade = tr[o.calls[k].id]
                                      /\ OfTrade(o.calls[k].doc, tr, Handed(n))
      BY <3>1 DEF CallsOfTrade
    <3>3. ASSUME u[k].doc # None
          PROVE  u[k].doc.trade = tr[u[k].id] /\ OfTrade(u[k].doc, tr, Handed(n))
      <4>1. Revived(o, u, k)
        BY <3>1, <3>3 DEF Deleted
      <4>2. /\ u[k].doc.trade = o.calls[k].doc.trade /\ o.calls[k].doc # None
            /\ Leads(u[k].doc) \subseteq Leads(o.calls[k].doc)
        BY <4>1 DEF Revived, Stores
      <4> QED BY <4>2, <3>1, <3>2 DEF OfTrade
    <3> QED BY <3>1, <3>2, <3>3
  <2> QED BY <2>2, <2>3, <2>4 DEF RollsBack
<1>5. ASSUME o.kind = "group"
      PROVE  Undoing(v, e, loose \cup X, more, kept) /\ u \in Seq(Calls) /\ CallsOfTrade(u, n, tr)
  <2>1. u = Compensation(o.calls, o.at) /\ X \subseteq more
    BY <1>5 DEF Undo, DeletesFirst
  <2>2. Undoing(v, e, loose \cup X, more, kept) /\ Compensates(o, u)
    BY ONLY <2>1, <1>0, <1>2, <1>3, <1>5, CompensationBegins, docs \in Ledgers, o.at < Len(o.calls),
            e = docs \/ e = Stored(docs, o.calls[o.at + 1])
  <2>3. CallsOfTrade(u, n, tr)
    BY <2>2 DEF CallsOfTrade, Compensates
  <2> QED BY <2>2, <2>3 DEF Compensates
<1>6. Undoing(v, e, loose \cup X, more, kept) /\ u \in Seq(Calls) /\ CallsOfTrade(u, n, tr)
  BY <1>1, <1>4, <1>5
<1>7. loose \cup X = (half \cup X) \cup stray
  OBVIOUS
<1>8. Works(v, e, rec, half \cup X, more, stray)
  BY <1>0, <1>6, <1>7 DEF Works, Writers
<1>9. v \in Operations
  BY <1>6 DEF Operations
<1> QED BY <1>6, <1>8, <1>9

-----------------------------------------------------------------------------
(* The steps of an operation keep the invariant. *)

LEMMA LinkedStored ==
    ASSUME NEW d \in Ledgers, NEW n, NEW tr, OneTrade(d, n, tr),
           NEW cs \in Seq(Calls), CallsOfTrade(cs, n, tr), NEW k \in DOMAIN cs,
           NEW e, e = d \/ e = Stored(d, cs[k])
    PROVE  OneTrade(e, n, tr) /\ OfOneTrade(d, cs[k])
<1> PICK c : c = cs[k]
  OBVIOUS
<1>1. c \in Calls /\ c.id \in Ids
  BY CallsTyped
<1>2. /\ c.id \in Handed(n)
      /\ c.doc # None => c.doc.trade = tr[c.id] /\ OfTrade(c.doc, tr, Handed(n))
  BY DEF CallsOfTrade
<1>3. OfOneTrade(d, c)
  BY <1>1, <1>2 DEF OneTrade, OfOneTrade
<1>4. CASE e = Stored(d, c)
  <2>1. \A i \in Ids : e[i] = IF i = c.id THEN c.doc ELSE d[i]
    BY <1>1, <1>4, StoredIs
  <2> QED BY <2>1, <1>2, <1>3 DEF OneTrade
<1> QED BY <1>3, <1>4

LEMMA AtWork ==
    ASSUME IInv, op # None
    PROVE  /\ docs \in Ledgers /\ op \in Operations /\ op.at < Len(op.calls) /\ op.at + 1 \in DOMAIN op.calls
           /\ op.at \in Nat /\ Len(op.calls) \in Nat /\ op.calls \in Seq(Calls)
           /\ op.calls[op.at + 1] \in Calls /\ op.adds \in SUBSET Trades
           /\ recorded \in SUBSET Trades
           /\ Works(op, docs, recorded, halfway, broken, strayed)
           /\ OfOneTrade(docs, op.calls[op.at + 1])
           /\ \E tr \in [Ids -> Trades \cup {None}] :
                 OneTrade(docs, next, tr) /\ CallsOfTrade(op.calls, next, tr)
<1>1. /\ docs \in Ledgers /\ op \in Operations /\ op.at < Len(op.calls)
      /\ recorded \in SUBSET Trades
      /\ Works(op, docs, recorded, halfway, broken, strayed)
  BY DEF IInv, TypeOK, Ledgers
<1>2. op.at \in Nat /\ op.calls \in Seq(Calls) /\ op.adds \in SUBSET Trades
  BY <1>1 DEF Operations
<1>3. /\ Len(op.calls) \in Nat /\ op.at + 1 \in DOMAIN op.calls /\ op.calls[op.at + 1] \in Calls
  BY <1>1, <1>2, CallsTyped
<1>4. PICK tr \in [Ids -> Trades \cup {None}] :
         OneTrade(docs, next, tr) /\ CallsOfTrade(op.calls, next, tr)
  BY DEF IInv, Linked
<1>5. OfOneTrade(docs, op.calls[op.at + 1])
  BY <1>1, <1>2, <1>3, <1>4, LinkedStored
<1> QED BY <1>1, <1>2, <1>3, <1>4, <1>5

LEMMA StepKeeps ==
    ASSUME IInv, Step
    PROVE  IInv'
<1> PICK o : o = op
  OBVIOUS
<1> PICK d : d = docs
  OBVIOUS
<1> PICK e : e = docs'
  OBVIOUS
<1> PICK c : c = o.calls[o.at + 1]
  OBVIOUS
<1> PICK rec : rec = recorded
  OBVIOUS
<1>1. /\ d \in Ledgers /\ o \in Operations /\ o.at < Len(o.calls) /\ o.at + 1 \in DOMAIN o.calls
      /\ o.at \in Nat /\ Len(o.calls) \in Nat /\ o.calls \in Seq(Calls)
      /\ c \in Calls /\ o.adds \in SUBSET Trades /\ rec \in SUBSET Trades
      /\ Works(o, d, rec, halfway, broken, strayed) /\ OfOneTrade(d, c)
  BY AtWork DEF Step
<1>2. PICK tr \in [Ids -> Trades \cup {None}] :
         OneTrade(d, next, tr) /\ CallsOfTrade(o.calls, next, tr)
  BY AtWork DEF Step
<1>3. /\ e = Stored(d, c)
      /\ next' = next /\ halfway' = halfway /\ broken' = broken /\ strayed' = strayed
      /\ ops' = ops /\ faults' = faults
  BY DEF Step, Stored
<1>4. \/ o.at + 1 = Len(o.calls) /\ op' = None /\ recorded' = rec \cup o.adds
      \/ o.at + 1 # Len(o.calls) /\ op' = [o EXCEPT !.at = o.at + 1] /\ recorded' = rec
  BY DEF Step
<1>5. e \in Ledgers
  BY <1>1, <1>3, StoredIs
<1>6. OneTrade(e, next, tr)
  BY <1>1, <1>2, <1>3, LinkedStored
<1> PICK v : v = [o EXCEPT !.at = o.at + 1]
  OBVIOUS
<1>7. v \in Operations /\ v.at = o.at + 1 /\ v.calls = o.calls
  BY <1>1 DEF Operations
<1>8. /\ o.at + 1 = Len(o.calls) => Idle(e, halfway \cup strayed, (rec \cup o.adds) \ broken)
      /\ o.at + 1 # Len(o.calls) => Works(v, e, rec, halfway, broken, strayed)
  BY ONLY <1>1, <1>3, WorksGoOn, v = [o EXCEPT !.at = o.at + 1], c = o.calls[o.at + 1]
<1>9. TypeOK
  BY DEF IInv
<1>10. CASE o.at + 1 = Len(o.calls)
  <2>1. op' = None /\ recorded' = rec \cup o.adds
    BY <1>4, <1>10
  <2>2. TypeOK'
    BY <2>1, <1>1, <1>3, <1>5, <1>9 DEF TypeOK, Ledgers
  <2>3. Linked'
    BY <2>1, <1>2, <1>3, <1>6 DEF Linked
  <2>4. Idle(docs, halfway \cup strayed, recorded \ broken)'
    BY <2>1, <1>3, <1>8, <1>10
  <2> QED BY <2>1, <2>2, <2>3, <2>4 DEF IInv
<1>11. CASE o.at + 1 # Len(o.calls)
  <2>1. op' = v /\ recorded' = rec
    BY <1>4, <1>11
  <2>2. op' # None
    BY <2>1, <1>7, NoneAssumption
  <2>3. v.at < Len(v.calls)
    BY ONLY <1>1, <1>7, <1>11
  <2>4. TypeOK'
    BY <2>1, <2>3, <1>1, <1>3, <1>5, <1>7, <1>9 DEF TypeOK, Ledgers
  <2>5. Linked'
    BY <2>1, <1>2, <1>3, <1>6, <1>7 DEF Linked
  <2>6. Works(op, docs, recorded, halfway, broken, strayed)'
    BY <2>1, <1>3, <1>8, <1>11
  <2> QED BY <2>2, <2>4, <2>5, <2>6 DEF IInv
<1> QED BY <1>10, <1>11

LEMMA TradesInTouched ==
    ASSUME NEW cs
    PROVE  Touches(cs, docs, TradesIn(cs))
BY DEF Touches, TradesIn

LEMMA TradesInTyped ==
    ASSUME docs \in Ledgers, NEW cs \in Seq(Calls)
    PROVE  TradesIn(cs) \subseteq Trades
<1>1. \A k \in DOMAIN cs : cs[k] \in Calls
  BY CallsTyped
<1> QED BY <1>1 DEF TradesIn, Calls, Ledgers, Movements

(* What an interruption adds. *)
LEMMA InterruptAdds ==
    ASSUME IInv, op # None, NEW X, X = Interrupted, NEW more, NEW Y, Y = TradesIn(op.calls),
           more = IF DeletesFirst(op.kind) THEN broken \cup Y ELSE broken
    PROVE  /\ Stopped(op, docs, X) /\ X \subseteq Trades
           /\ broken \subseteq more /\ more \subseteq Trades
           /\ DeletesFirst(op.kind) => X \subseteq more
           /\ op.kind = "undo" => more = broken \cup X
<1>1. /\ docs \in Ledgers /\ op.calls \in Seq(Calls) /\ op.calls[op.at + 1] \in Calls
      /\ broken \subseteq Trades
  BY AtWork DEF IInv, TypeOK
<1> PICK c : c = op.calls[op.at + 1]
  OBVIOUS
<1>2. <<c>> \in Seq(Calls)
  BY <1>1
<1>3. TradesIn(<<c>>) \subseteq Trades /\ TradesIn(op.calls) \subseteq Trades
  BY <1>1, <1>2, TradesInTyped
<1>4. Stopped(op, docs, X)
  BY TradesInTouched DEF Stopped, Interrupted
<1>5. X \subseteq Trades
  BY <1>3 DEF Interrupted
<1>6. op.kind # "batch" => X = Y
  BY DEF Interrupted
<1> QED BY <1>1, <1>3, <1>4, <1>5, <1>6 DEF DeletesFirst

LEMMA CrashKeeps ==
    ASSUME IInv, Crash
    PROVE  IInv'
<1> PICK X : X = Interrupted
  OBVIOUS
<1> PICK Y : Y = TradesIn(op.calls)
  OBVIOUS
<1> PICK more : more = IF DeletesFirst(op.kind) THEN broken \cup Y ELSE broken
  OBVIOUS
<1>1. /\ op # None /\ op' = None /\ halfway' = halfway \cup X /\ broken' = more
      /\ docs' = docs /\ next' = next /\ recorded' = recorded /\ strayed' = strayed
      /\ ops' = ops /\ faults' = faults + 1
  BY DEF Crash, Interrupt
<1>2. /\ Stopped(op, docs, X) /\ X \subseteq Trades
      /\ broken \subseteq more /\ more \subseteq Trades
      /\ DeletesFirst(op.kind) => X \subseteq more
  BY <1>1, InterruptAdds
<1>3. /\ docs \in Ledgers /\ op \in Operations /\ op.at < Len(op.calls)
      /\ recorded \in SUBSET Trades /\ Works(op, docs, recorded, halfway, broken, strayed)
      /\ OfOneTrade(docs, op.calls[op.at + 1])
  BY <1>1, AtWork
<1>4. Idle(docs, (halfway \cup X) \cup strayed, recorded \ more)
  BY <1>2, <1>3, WorksStop
<1>5. TypeOK'
  BY <1>1, <1>2 DEF IInv, TypeOK
<1>6. Linked'
  BY <1>1 DEF IInv, Linked
<1>7. Idle(docs, halfway \cup strayed, recorded \ broken)'
  BY <1>1, <1>4
<1> QED BY <1>1, <1>5, <1>6, <1>7 DEF IInv

LEMMA FailKeeps ==
    ASSUME IInv, Fail
    PROVE  IInv'
<1> PICK X : X = Interrupted
  OBVIOUS
<1> PICK Y : Y = TradesIn(op.calls)
  OBVIOUS
<1> PICK more : more = IF DeletesFirst(op.kind) THEN broken \cup Y ELSE broken
  OBVIOUS
<1> PICK o : o = op
  OBVIOUS
<1> PICK e : e = docs'
  OBVIOUS
<1> PICK u : u = Undo(op)
  OBVIOUS
<1> PICK v : v = [kind |-> "undo", calls |-> u, at |-> 0, adds |-> {}]
  OBVIOUS
<1> PICK w : w = [o EXCEPT !.at = o.at + 1]
  OBVIOUS
<1>1. /\ o # None /\ halfway' = halfway \cup X /\ broken' = more
      /\ next' = next /\ recorded' = recorded /\ strayed' = strayed
      /\ ops' = ops /\ faults' = faults + 1
  BY DEF Fail, Interrupt
<1>2. e = docs \/ e = Stored(docs, o.calls[o.at + 1])
  BY DEF Fail, Stored
<1>3. op' = IF o.kind = "undo"
            THEN IF o.at + 1 = Len(o.calls) THEN None ELSE w
            ELSE IF u = <<>> THEN None ELSE v
  BY DEF Fail
<1>4. /\ Stopped(o, docs, X) /\ X \subseteq Trades
      /\ broken \subseteq more /\ more \subseteq Trades
      /\ DeletesFirst(o.kind) => X \subseteq more
      /\ o.kind = "undo" => more = broken \cup X
  BY <1>1, InterruptAdds
<1>5. /\ docs \in Ledgers /\ o \in Operations /\ o.at < Len(o.calls) /\ o.at + 1 \in DOMAIN o.calls
      /\ o.at \in Nat /\ Len(o.calls) \in Nat /\ o.calls \in Seq(Calls) /\ o.calls[o.at + 1] \in Calls
      /\ recorded \in SUBSET Trades /\ Works(o, docs, recorded, halfway, broken, strayed)
      /\ OfOneTrade(docs, o.calls[o.at + 1])
  BY <1>1, AtWork
<1>6. PICK tr \in [Ids -> Trades \cup {None}] :
         OneTrade(docs, next, tr) /\ CallsOfTrade(o.calls, next, tr)
  BY <1>1, AtWork
<1>7. OneTrade(e, next, tr)
  BY <1>2, <1>5, <1>6, LinkedStored
<1>8. e \in Ledgers
  BY <1>2, <1>5, StoredIs
<1>9. TypeOK
  BY DEF IInv
<1>10. ASSUME op' = None PROVE IInv'
  <2>1. Idle(e, (halfway \cup X) \cup strayed, recorded \ more)
    BY <1>2, <1>4, <1>5, WorksStop
  <2>2. TypeOK'
    BY <1>1, <1>4, <1>8, <1>9, <1>10 DEF TypeOK, Ledgers
  <2>3. Linked'
    BY <1>1, <1>7, <1>10 DEF Linked
  <2>4. Idle(docs, halfway \cup strayed, recorded \ broken)'
    BY <2>1, <1>1
  <2> QED BY <2>2, <2>3, <2>4, <1>10 DEF IInv
<1>11. ASSUME NEW q, op' = q, q \in Operations, q.at < Len(q.calls), CallsOfTrade(q.calls, next, tr),
              Works(q, e, recorded, halfway \cup X, more, strayed)
       PROVE  IInv'
  <2>1. op' # None
    BY <1>11, NoneAssumption
  <2>2. TypeOK'
    BY <1>1, <1>4, <1>8, <1>9, <1>11 DEF TypeOK, Ledgers
  <2>3. Linked'
    BY <1>1, <1>7, <1>11 DEF Linked
  <2>4. Works(op, docs, recorded, halfway, broken, strayed)'
    BY <1>1, <1>11
  <2> QED BY <2>1, <2>2, <2>3, <2>4 DEF IInv
<1>12. CASE o.kind = "undo" /\ o.at + 1 # Len(o.calls)
  <2>1. op' = w /\ w \in Operations /\ w.at = o.at + 1 /\ w.calls = o.calls
    BY <1>3, <1>5, <1>12 DEF Operations
  <2>2. w.at < Len(w.calls)
    BY ONLY <2>1, <1>5, <1>12
  <2>3. Works(w, e, recorded, halfway \cup X, more, strayed)
    BY <1>2, <1>4, <1>5, <1>12, UndoGoesOn
  <2> QED BY <2>1, <2>2, <2>3, <1>6, <1>11
<1>13. CASE o.kind # "undo" /\ u # <<>>
  <2>1. op' = v
    BY <1>3, <1>13
  <2>2. /\ Works(v, e, recorded, halfway \cup X, more, strayed)
        /\ v \in Operations /\ CallsOfTrade(u, next, tr)
    BY <1>2, <1>4, <1>5, <1>6, <1>13, UndoBegins
  <2>3. v.at = 0 /\ v.calls = u
    OBVIOUS
  <2>4. u \in Seq(Calls)
    BY <2>2, <2>3 DEF Operations
  <2>5. v.at < Len(v.calls)
    BY ONLY <2>3, <2>4, <1>13, EmptySeq
  <2> QED BY <2>1, <2>2, <2>3, <2>5, <1>11
<1> QED BY <1>3, <1>10, <1>12, <1>13

-----------------------------------------------------------------------------
(* An operation begins. *)

Starts(o, n, rec, stray) ==
    /\ o \in Operations /\ o.at = 0 /\ o.calls # <<>>
    /\ n \in Nat /\ n <= MaxFresh
    /\ \E tr \in [Ids -> Trades \cup {None}] : OneTrade(docs, n, tr) /\ CallsOfTrade(o.calls, n, tr)
    /\ rec \subseteq recorded /\ stray \subseteq Trades
    /\ Works(o, docs, rec, halfway, broken, stray)

LEMMA Begun ==
    ASSUME IInv, NEW kind, NEW calls, NEW fresh, NEW adds, NEW gone, Begin(kind, calls, fresh, adds, gone),
           NEW o, o = [kind |-> kind, calls |-> calls, at |-> 0, adds |-> adds],
           NEW n, n = next + fresh, NEW rec, rec = recorded \ gone, NEW stray, stray = strayed',
           Starts(o, n, rec, stray)
    PROVE  IInv'
<1>1. /\ op' = o /\ next' = n /\ ops' = ops + 1 /\ recorded' = rec /\ strayed' = stray
      /\ docs' = docs /\ halfway' = halfway /\ broken' = broken /\ faults' = faults
  BY DEF Begin
<1>2. /\ o \in Operations /\ o.at = 0 /\ o.calls # <<>>
      /\ n \in Nat /\ n <= MaxFresh /\ rec \subseteq recorded /\ stray \subseteq Trades
      /\ Works(o, docs, rec, halfway, broken, stray)
  BY DEF Starts
<1>3. PICK tr \in [Ids -> Trades \cup {None}] : OneTrade(docs, n, tr) /\ CallsOfTrade(o.calls, n, tr)
  BY DEF Starts
<1>4. o.calls \in Seq(Calls)
  BY <1>2 DEF Operations
<1>5. o.at < Len(o.calls)
  BY ONLY <1>2, <1>4, EmptySeq
<1>6. o # None
  BY <1>2, NoneAssumption
<1>7. TypeOK
  BY DEF IInv
<1>8. next' \in 0 .. MaxFresh /\ ops' \in Nat
  BY <1>1, <1>2, <1>7, LedgerAssumption DEF TypeOK
<1>9. TypeOK'
  <2> HIDE DEF IInv
  <2> QED BY ONLY <1>1, <1>2, <1>5, <1>6, <1>7, <1>8 DEF TypeOK
<1>10. Linked'
  BY <1>1, <1>3 DEF Linked
<1>11. Works(op, docs, recorded, halfway, broken, strayed)'
  BY <1>1, <1>2
<1> QED BY <1>1, <1>6, <1>9, <1>10, <1>11 DEF IInv

LEMMA AtRest ==
    ASSUME IInv, op = None
    PROVE  /\ docs \in Ledgers /\ next \in Nat /\ next <= MaxFresh
           /\ recorded \subseteq Trades /\ strayed \subseteq Trades
           /\ \A i \in Ids : i \notin Handed(next) => docs[i] = None
           /\ \E tr \in [Ids -> Trades \cup {None}] : OneTrade(docs, next, tr)
           /\ Idle(docs, halfway \cup strayed, recorded \ broken)
<1>1. TypeOK /\ Linked /\ Idle(docs, halfway \cup strayed, recorded \ broken)
  BY DEF IInv
<1>2. PICK tr \in [Ids -> Trades \cup {None}] : OneTrade(docs, next, tr)
  BY <1>1 DEF Linked
<1>3. \A i \in Ids : i \notin Handed(next) => docs[i] = None
  BY <1>2 DEF OneTrade
<1>4. next \in Nat /\ next <= MaxFresh
  BY <1>1, LedgerAssumption DEF TypeOK
<1> QED BY <1>1, <1>2, <1>3, <1>4 DEF TypeOK, Ledgers

(* Ids that are handed out now, and the trades they shall stand for. *)
LEMMA FreshId ==
    ASSUME IInv, op = None, NEW n \in Nat, n <= MaxFresh, NEW x \in Nat, next < x, x <= n
    PROVE  x \in Ids /\ x \in Handed(n) /\ x \notin Handed(next) /\ docs[x] = None
<1>1. next \in Nat /\ MaxFresh \in Nat /\ Rows \cap Nat = {}
  BY AtRest, LedgerAssumption
<1>2. x \in 1 .. MaxFresh /\ x \in 1 .. n /\ x \notin 1 .. next
  BY <1>1
<1>3. x \in Ids /\ x \in Handed(n) /\ x \notin Handed(next)
  BY <1>1, <1>2 DEF Ids, Handed
<1> QED BY <1>3, AtRest

LEMMA StillHanded ==
    ASSUME IInv, op = None, NEW n \in Nat, next <= n, n <= MaxFresh
    PROVE  Handed(next) \subseteq Handed(n) /\ Handed(next) \subseteq Ids
<1>1. next \in Nat /\ MaxFresh \in Nat
  BY AtRest, LedgerAssumption
<1>2. 1 .. next \subseteq 1 .. n /\ 1 .. next \subseteq 1 .. MaxFresh
  BY <1>1
<1> QED BY <1>2 DEF Handed, Ids

LEMMA Fresh ==
    ASSUME IInv, op = None, NEW n \in Nat, next <= n, n <= MaxFresh, NEW f \in [Ids -> Trades \cup {None}]
    PROVE  \E tr \in [Ids -> Trades \cup {None}] :
              OneTrade(docs, n, tr) /\ \A i \in Ids : i \notin Handed(next) => tr[i] = f[i]
<1>1. PICK t0 \in [Ids -> Trades \cup {None}] : OneTrade(docs, next, t0)
  BY AtRest
<1> PICK tr : tr = [i \in Ids |-> IF i \in Handed(next) THEN t0[i] ELSE f[i]]
  OBVIOUS
<1>2. tr \in [Ids -> Trades \cup {None}]
  OBVIOUS
<1>3. Handed(next) \subseteq Handed(n) /\ Handed(next) \subseteq Ids
  BY StillHanded
<1>4. Rows \subseteq Handed(next)
  BY DEF Handed
<1>5. \A i \in Ids : i \in Handed(next) => tr[i] = t0[i]
  OBVIOUS
<1>6. \A m : OfTrade(m, t0, Handed(next)) => OfTrade(m, tr, Handed(n))
  BY <1>3, <1>5 DEF OfTrade
<1>7. OneTrade(docs, n, tr)
  BY ONLY <1>1, <1>3, <1>4, <1>5, <1>6 DEF OneTrade
<1> QED BY <1>2, <1>7

LEMMA FreshFor ==
    ASSUME IInv, op = None, NEW n \in Nat, next <= n, n <= MaxFresh, NEW cs \in Seq(Calls),
           \A k \in DOMAIN cs : cs[k].id \notin Handed(next) => cs[k].doc # None,
           \A k, m \in DOMAIN cs : cs[k].id = cs[m].id => k = m
    PROVE  \E tr \in [Ids -> Trades \cup {None}] :
              /\ OneTrade(docs, n, tr)
              /\ \A k \in DOMAIN cs : cs[k].id \notin Handed(next) => tr[cs[k].id] = cs[k].doc.trade
<1> DEFINE of(i) == CHOOSE k \in DOMAIN cs : cs[k].id = i
<1>1. \A k \in DOMAIN cs : cs[k] \in Calls /\ cs[k].id \in Ids /\ of(cs[k].id) = k
  BY CallsTyped
<1> HIDE DEF of
<1> PICK f : f = [i \in Ids |-> IF \E k \in DOMAIN cs : cs[k].id = i /\ cs[k].doc # None
                                THEN cs[of(i)].doc.trade ELSE None]
  OBVIOUS
<1>2. f \in [Ids -> Trades \cup {None}]
  <2> SUFFICES ASSUME NEW i \in Ids, NEW k \in DOMAIN cs, cs[k].id = i, cs[k].doc # None
               PROVE  cs[of(i)].doc.trade \in Trades
    OBVIOUS
  <2>1. of(i) = k
    BY <1>1
  <2> QED BY <2>1, <1>1 DEF Calls, Movements
<1>3. PICK tr \in [Ids -> Trades \cup {None}] :
         OneTrade(docs, n, tr) /\ \A i \in Ids : i \notin Handed(next) => tr[i] = f[i]
  BY <1>2, Fresh
<1>4. \A k \in DOMAIN cs : cs[k].id \in Ids /\ (cs[k].id \notin Handed(next) => f[cs[k].id] = cs[k].doc.trade)
  BY <1>1
<1>5. \A k \in DOMAIN cs : cs[k].id \notin Handed(next) => tr[cs[k].id] = cs[k].doc.trade
  BY ONLY <1>3, <1>4
<1> QED BY <1>3, <1>5

-----------------------------------------------------------------------------
(* Operations that write, as they begin. *)

(* Documents of trades that have none.                                     *)
LEMMA NewWrites ==
    ASSUME IInv, op = None, NEW o \in Operations, o.at = 0, o.kind # "batch",
           \A k \in DOMAIN o.calls : /\ Stores(o.calls[k], "ACTIVE") /\ docs[o.calls[k].id] = None
                                     /\ ActiveIn(docs, o.calls[k].doc.trade) = {},
           \A k, m \in DOMAIN o.calls : o.calls[k].id = o.calls[m].id => k = m,
           \A k, m \in DOMAIN o.calls : o.calls[k].doc.trade = o.calls[m].doc.trade => k = m,
           \A t \in o.adds : \E k \in DOMAIN o.calls : o.calls[k].doc.trade = t
    PROVE  Writing(o, docs, halfway \cup strayed, recorded \ broken)
<1> PICK cs : cs = o.calls
  OBVIOUS
<1>1. \A k \in DOMAIN cs : k \in Nat /\ ~(k <= 0)
  BY CallsTyped DEF Operations
<1>2. Idle(docs, halfway \cup strayed, recorded \ broken)
  BY AtRest
<1>3. Replaces(o)
  BY DEF Replaces, Stores
<1>4. Made(o.calls, o.at, docs)
  BY <1>1 DEF Made
<1>5. Distinct(o.calls, docs, halfway \cup strayed)
  BY <1>2 DEF Distinct, Idle
<1> QED BY <1>2, <1>3, <1>4, <1>5 DEF Writing, Idle

(* Documents that replace others of their trade.                           *)
Supersedes(cs) ==
    /\ \A k \in DOMAIN cs :
          \/ Stores(cs[k], "ACTIVE") /\ docs[cs[k].id] = None
          \/ /\ Stores(cs[k], "SUPERSEDED") /\ cs[k].id \in Ids
             /\ docs[cs[k].id] # None /\ docs[cs[k].id].status = "ACTIVE"
             /\ docs[cs[k].id].trade = cs[k].doc.trade
    /\ \A k, m \in DOMAIN cs : cs[k].id = cs[m].id => k = m
    /\ \A m \in DOMAIN cs : Stores(cs[m], "SUPERSEDED") =>
          \E k \in DOMAIN cs : /\ k < m /\ Stores(cs[k], "ACTIVE")
                               /\ cs[k].doc.trade = cs[m].doc.trade
    /\ \A k \in DOMAIN cs : Stores(cs[k], "ACTIVE") =>
          \E m \in DOMAIN cs : Stores(cs[m], "SUPERSEDED") /\ cs[k].doc.trade = cs[m].doc.trade
    /\ \A k, m \in DOMAIN cs :
          /\ Stores(cs[k], "ACTIVE") /\ Stores(cs[m], "ACTIVE") /\ cs[k].doc.trade = cs[m].doc.trade
          /\ cs[k].doc.trade \notin halfway \cup strayed
          => k = m

LEMMA ReplacementsWrite ==
    ASSUME IInv, op = None, NEW o \in Operations, o.at = 0, o.adds = {}, Supersedes(o.calls),
           o.kind = "batch" => \A k \in DOMAIN o.calls :
              k % 2 = 1 => /\ k + 1 \in DOMAIN o.calls
                           /\ Stores(o.calls[k], "ACTIVE") /\ Stores(o.calls[k + 1], "SUPERSEDED")
                           /\ o.calls[k + 1].doc.trade = o.calls[k].doc.trade
    PROVE  Writing(o, docs, halfway \cup strayed, recorded \ broken)
<1> PICK cs : cs = o.calls
  OBVIOUS
<1> PICK loose : loose = halfway \cup strayed
  OBVIOUS
<1>1. /\ \A k \in DOMAIN cs : k \in Nat /\ ~(k <= 0)
      /\ \A k \in DOMAIN cs : cs[k] \in Calls
  BY CallsTyped DEF Operations
<1>2. Idle(docs, loose, recorded \ broken) /\ docs \in Ledgers
  BY AtRest
<1>3. Replaces(o)
  BY DEF Replaces, Supersedes
<1>4. Made(o.calls, o.at, docs)
  BY <1>1 DEF Made, Supersedes, Stores
<1>5. \A t \in Trades \ loose : Single(ActiveIn(docs, t))
  BY <1>2 DEF Idle
<1>6. \A k \in DOMAIN cs : cs[k].doc # None /\ cs[k].doc.trade \in Trades
  BY <1>1 DEF Supersedes, Stores, Calls, Movements
<1>7. \A k \in DOMAIN cs : Stores(cs[k], "SUPERSEDED") =>
         cs[k].id \in ActiveIn(docs, cs[k].doc.trade)
  BY DEF Supersedes, Stores, ActiveIn
<1>8. ASSUME NEW k \in DOMAIN cs, NEW m \in DOMAIN cs, cs[k].doc.trade \notin loose,
             cs[m].doc.trade = cs[k].doc.trade, cs[m].doc.status = cs[k].doc.status
      PROVE  k = m
  <2>1. CASE Stores(cs[k], "ACTIVE")
    <3>1. Stores(cs[m], "ACTIVE")
      BY <2>1, <1>6, <1>8 DEF Stores
    <3> QED BY <2>1, <3>1, <1>8 DEF Supersedes
  <2>2. CASE Stores(cs[k], "SUPERSEDED")
    <3>1. Stores(cs[m], "SUPERSEDED")
      BY <2>2, <1>6, <1>8 DEF Stores
    <3>2. cs[k].id = cs[m].id
      BY <2>2, <3>1, <1>5, <1>6, <1>7, <1>8 DEF Single
    <3> QED BY <3>2 DEF Supersedes
  <2> QED BY <2>1, <2>2 DEF Supersedes
<1>9. ASSUME NEW k \in DOMAIN cs, cs[k].doc.trade \notin loose, NEW i \in ActiveIn(docs, cs[k].doc.trade)
      PROVE  \E m \in DOMAIN cs : cs[m].id = i
  <2>1. PICK m \in DOMAIN cs : Stores(cs[m], "SUPERSEDED") /\ cs[k].doc.trade = cs[m].doc.trade
    BY DEF Supersedes
  <2>2. cs[m].id = i
    BY <2>1, <1>5, <1>6, <1>7, <1>9 DEF Single
  <2> QED BY <2>2
<1>10. Distinct(o.calls, docs, loose)
  BY ONLY <1>5, <1>8, <1>9, cs = o.calls DEF Distinct
<1> QED BY <1>2, <1>3, <1>4, <1>10 DEF Writing, Idle

LEMMA NewBegins ==
    ASSUME IInv, op = None, NEW n \in Nat, next <= n, n <= MaxFresh,
           NEW o \in Operations, o.at = 0, o.calls # <<>>, o.kind \in {"create", "transfer"},
           \A k \in DOMAIN o.calls :
              /\ Stores(o.calls[k], "ACTIVE") /\ Leads(o.calls[k].doc) = {}
              /\ o.calls[k].id \in Nat /\ next < o.calls[k].id /\ o.calls[k].id <= n
              /\ Unused(o.calls[k].doc.trade),
           \A k, m \in DOMAIN o.calls : o.calls[k].id = o.calls[m].id => k = m,
           \A k, m \in DOMAIN o.calls : o.calls[k].doc.trade = o.calls[m].doc.trade => k = m,
           \A t \in o.adds : \E k \in DOMAIN o.calls : o.calls[k].doc.trade = t
    PROVE  Starts(o, n, recorded, strayed)
<1> PICK cs : cs = o.calls
  OBVIOUS
<1>1. cs \in Seq(Calls)
  BY DEF Operations
<1>2. \A k \in DOMAIN cs : /\ cs[k].id \in Handed(n) /\ cs[k].id \notin Handed(next)
                           /\ docs[cs[k].id] = None
  BY FreshId
<1>3. \A k \in DOMAIN cs : cs[k].doc # None /\ ActiveIn(docs, cs[k].doc.trade) = {}
  BY DEF Stores, Unused, ActiveIn
<1>4. PICK tr \in [Ids -> Trades \cup {None}] :
         /\ OneTrade(docs, n, tr)
         /\ \A k \in DOMAIN cs : cs[k].id \notin Handed(next) => tr[cs[k].id] = cs[k].doc.trade
  BY <1>1, <1>3, FreshFor
<1>5. CallsOfTrade(cs, n, tr)
  BY <1>2, <1>4 DEF CallsOfTrade, OfTrade
<1>6. Writing(o, docs, halfway \cup strayed, recorded \ broken)
  BY <1>2, <1>3, NewWrites
<1>7. Works(o, docs, recorded, halfway, broken, strayed)
  BY <1>6 DEF Works
<1>8. strayed \subseteq Trades
  BY AtRest
<1> QED BY <1>4, <1>5, <1>7, <1>8 DEF Starts

(* Documents legs[p] that new ones, of ids fresh[p], replace: the calls at *)
(* K[p] write, those at M[p] supersede.                                    *)
Paired(cs, D, legs, fresh, K, M) ==
    /\ legs \in [D -> Ids] /\ fresh \in [D -> Nat] /\ K \in [D -> DOMAIN cs] /\ M \in [D -> DOMAIN cs]
    /\ \A x \in DOMAIN cs : \E p \in D : x = K[p] \/ x = M[p]
    /\ \A p \in D : K[p] < M[p] /\ Active(legs[p])
    /\ \A p, q \in D : legs[p] = legs[q] => p = q
    /\ \A p, q \in D : fresh[p] = fresh[q] => p = q
    /\ \A p \in D : /\ cs[K[p]].id = fresh[p] /\ Stores(cs[K[p]], "ACTIVE")
                    /\ cs[K[p]].doc.trade = docs[legs[p]].trade
                    /\ Leads(cs[K[p]].doc) \subseteq {legs[p]} \cup Leads(docs[legs[p]])
    /\ \A p \in D : /\ cs[M[p]].id = legs[p] /\ Stores(cs[M[p]], "SUPERSEDED")
                    /\ cs[M[p]].doc.trade = docs[legs[p]].trade
                    /\ Leads(cs[M[p]].doc) \subseteq {fresh[p]} \cup Leads(docs[legs[p]])

LEMMA PairedSupersede ==
    ASSUME IInv, op = None, NEW n \in Nat, next <= n, n <= MaxFresh, NEW cs \in Seq(Calls),
           NEW D, NEW legs, NEW fresh, NEW K, NEW M, Paired(cs, D, legs, fresh, K, M),
           \A p \in D : next < fresh[p] /\ fresh[p] <= n
    PROVE  /\ Supersedes(cs)
           /\ \E tr \in [Ids -> Trades \cup {None}] : OneTrade(docs, n, tr) /\ CallsOfTrade(cs, n, tr)
<1>1. \A p \in D : /\ fresh[p] \in Handed(n) /\ fresh[p] \notin Handed(next)
                   /\ docs[fresh[p]] = None
  BY FreshId DEF Paired
<1>2. \A p \in D : /\ legs[p] \in Ids /\ docs[legs[p]] # None /\ docs[legs[p]].status = "ACTIVE"
                   /\ legs[p] \in Handed(next) /\ legs[p] \in Handed(n)
  BY AtRest, StillHanded DEF Paired, Active
<1>0. \A p \in D : K[p] < M[p]
  BY DEF Paired
<1>3. /\ \A p \in D : K[p] \in DOMAIN cs /\ M[p] \in DOMAIN cs
      /\ \A x \in DOMAIN cs : \E p \in D : x = K[p] \/ x = M[p]
  BY DEF Paired
<1>4. \A p \in D : /\ cs[K[p]].id = fresh[p] /\ Stores(cs[K[p]], "ACTIVE")
                   /\ cs[K[p]].doc.trade = docs[legs[p]].trade
                   /\ cs[M[p]].id = legs[p] /\ Stores(cs[M[p]], "SUPERSEDED")
                   /\ cs[M[p]].doc.trade = docs[legs[p]].trade
  BY DEF Paired
<1>5. /\ \A p, q \in D : legs[p] = legs[q] => p = q
      /\ \A p, q \in D : fresh[p] = fresh[q] => p = q
      /\ \A p, q \in D : legs[p] # fresh[q]
  BY <1>1, <1>2 DEF Paired
<1>6. \A k, m \in DOMAIN cs : cs[k].id = cs[m].id => k = m
  <2> SUFFICES ASSUME NEW k \in DOMAIN cs, NEW m \in DOMAIN cs, cs[k].id = cs[m].id PROVE k = m
    OBVIOUS
  <2>1. PICK p \in D : k = K[p] \/ k = M[p]
    BY <1>3
  <2>2. PICK q \in D : m = K[q] \/ m = M[q]
    BY <1>3
  <2>3. k = K[p] => cs[k].id = fresh[p]
    BY <1>4
  <2>4. k = M[p] => cs[k].id = legs[p]
    BY <1>4
  <2>5. m = K[q] => cs[m].id = fresh[q]
    BY <1>4
  <2>6. m = M[q] => cs[m].id = legs[q]
    BY <1>4
  <2> QED BY <2>1, <2>2, <2>3, <2>4, <2>5, <2>6, <1>5
<1>7. \A t \in Trades : t \notin halfway \cup strayed => Single(ActiveIn(docs, t))
  BY AtRest DEF Idle
<1>8. \A p \in D : docs[legs[p]].trade \in Trades /\ legs[p] \in ActiveIn(docs, docs[legs[p]].trade)
  BY <1>2, AtRest DEF ActiveIn, Ledgers, Movements
<1>9. ASSUME NEW k \in DOMAIN cs, NEW m \in DOMAIN cs, Stores(cs[k], "ACTIVE"), Stores(cs[m], "ACTIVE"),
             cs[k].doc.trade = cs[m].doc.trade, cs[k].doc.trade \notin halfway \cup strayed
      PROVE  k = m
  <2>1. PICK p \in D : k = K[p]
    BY <1>3, <1>4, <1>9 DEF Stores
  <2>2. PICK q \in D : m = K[q]
    BY <1>3, <1>4, <1>9 DEF Stores
  <2>3. legs[p] = legs[q]
    BY <2>1, <2>2, <1>4, <1>7, <1>8, <1>9 DEF Single
  <2> QED BY <2>1, <2>2, <2>3, <1>5
<1>10. Supersedes(cs)
  <2>1. \A k \in DOMAIN cs :
           \/ Stores(cs[k], "ACTIVE") /\ docs[cs[k].id] = None
           \/ /\ Stores(cs[k], "SUPERSEDED") /\ cs[k].id \in Ids
              /\ docs[cs[k].id] # None /\ docs[cs[k].id].status = "ACTIVE"
              /\ docs[cs[k].id].trade = cs[k].doc.trade
    <3> SUFFICES ASSUME NEW k \in DOMAIN cs
                 PROVE  \/ Stores(cs[k], "ACTIVE") /\ docs[cs[k].id] = None
                        \/ /\ Stores(cs[k], "SUPERSEDED") /\ cs[k].id \in Ids
                           /\ docs[cs[k].id] # None /\ docs[cs[k].id].status = "ACTIVE"
                           /\ docs[cs[k].id].trade = cs[k].doc.trade
      OBVIOUS
    <3>1. PICK p \in D : k = K[p] \/ k = M[p]
      BY <1>3
    <3>2. CASE k = K[p]
      BY <3>2, <1>1, <1>4
    <3>3. CASE k = M[p]
      BY <3>3, <1>2, <1>4
    <3> QED BY <3>1, <3>2, <3>3
  <2>2. ASSUME NEW m \in DOMAIN cs, Stores(cs[m], "SUPERSEDED")
        PROVE  \E k \in DOMAIN cs : /\ k < m /\ Stores(cs[k], "ACTIVE")
                                    /\ cs[k].doc.trade = cs[m].doc.trade
    <3>1. PICK p \in D : m = M[p]
      BY <2>2, <1>3, <1>4 DEF Stores
    <3>2. K[p] < m
      BY <3>1, <1>0
    <3>3. cs[m].doc.trade = docs[legs[p]].trade
      BY <3>1, <1>4
    <3>4. cs[K[p]].doc.trade = cs[m].doc.trade /\ Stores(cs[K[p]], "ACTIVE") /\ K[p] \in DOMAIN cs
      BY <3>3, <1>3, <1>4
    <3> QED BY <3>2, <3>4, Zenon
  <2>3. ASSUME NEW k \in DOMAIN cs, Stores(cs[k], "ACTIVE")
        PROVE  \E m \in DOMAIN cs : Stores(cs[m], "SUPERSEDED") /\ cs[k].doc.trade = cs[m].doc.trade
    <3>1. PICK p \in D : k = K[p]
      BY <2>3, <1>3, <1>4 DEF Stores
    <3>2. cs[k].doc.trade = docs[legs[p]].trade
      BY <3>1, <1>4
    <3>3. cs[k].doc.trade = cs[M[p]].doc.trade /\ Stores(cs[M[p]], "SUPERSEDED") /\ M[p] \in DOMAIN cs
      BY <3>2, <1>3, <1>4
    <3> QED BY <3>3, Zenon
  <2> QED BY <2>1, <2>2, <2>3, <1>6, <1>9 DEF Supersedes
<1>11. PICK tr \in [Ids -> Trades \cup {None}] :
          /\ OneTrade(docs, n, tr)
          /\ \A k \in DOMAIN cs : cs[k].id \notin Handed(next) => tr[cs[k].id] = cs[k].doc.trade
  <2>1. \A k \in DOMAIN cs : cs[k].doc # None
    BY <1>10 DEF Supersedes, Stores
  <2> QED BY <2>1, <1>6, FreshFor
<1>12. \A p \in D : /\ tr[fresh[p]] = docs[legs[p]].trade /\ tr[legs[p]] = docs[legs[p]].trade
                    /\ \A j \in Leads(docs[legs[p]]) : j \in Handed(n) /\ tr[j] = docs[legs[p]].trade
  <2> SUFFICES ASSUME NEW p \in D
               PROVE  /\ tr[fresh[p]] = docs[legs[p]].trade /\ tr[legs[p]] = docs[legs[p]].trade
                      /\ \A j \in Leads(docs[legs[p]]) : j \in Handed(n) /\ tr[j] = docs[legs[p]].trade
    OBVIOUS
  <2> PICK k \in DOMAIN cs : k = K[p]
    BY <1>3
  <2>1. cs[k].id = fresh[p] /\ cs[k].doc.trade = docs[legs[p]].trade
    BY <1>4
  <2>2. tr[fresh[p]] = docs[legs[p]].trade
    BY <2>1, <1>1, <1>11
  <2>3. /\ tr[legs[p]] = docs[legs[p]].trade /\ OfTrade(docs[legs[p]], tr, Handed(n))
    BY <1>2, <1>11 DEF OneTrade
  <2> QED BY <2>2, <2>3 DEF OfTrade
<1>13. \A p \in D : /\ Leads(cs[K[p]].doc) \subseteq {legs[p]} \cup Leads(docs[legs[p]])
                    /\ Leads(cs[M[p]].doc) \subseteq {fresh[p]} \cup Leads(docs[legs[p]])
  BY DEF Paired
<1>14. CallsOfTrade(cs, n, tr)
  <2> SUFFICES ASSUME NEW k \in DOMAIN cs
               PROVE  /\ cs[k].id \in Handed(n)
                      /\ cs[k].doc # None => /\ cs[k].doc.trade = tr[cs[k].id]
                                             /\ OfTrade(cs[k].doc, tr, Handed(n))
    BY DEF CallsOfTrade
  <2>1. PICK p \in D : k = K[p] \/ k = M[p]
    BY <1>3
  <2>2. CASE k = K[p]
    BY <2>2, <1>1, <1>2, <1>4, <1>12, <1>13 DEF OfTrade
  <2>3. CASE k = M[p]
    BY <2>3, <1>1, <1>2, <1>4, <1>12, <1>13 DEF OfTrade
  <2> QED BY <2>1, <2>2, <2>3
<1> QED BY <1>10, <1>11, <1>14

LEMMA PairedBegins ==
    ASSUME IInv, op = None, NEW n \in Nat, next <= n, n <= MaxFresh,
           NEW o \in Operations, o.at = 0, o.calls # <<>>, o.adds = {},
           o.kind \in {"correct", "reassign", "batch", "group"},
           NEW D, NEW legs, NEW fresh, NEW K, NEW M, Paired(o.calls, D, legs, fresh, K, M),
           \A p \in D : next < fresh[p] /\ fresh[p] <= n,
           o.kind = "batch" => \A k \in DOMAIN o.calls :
              k % 2 = 1 => /\ k + 1 \in DOMAIN o.calls
                           /\ Stores(o.calls[k], "ACTIVE") /\ Stores(o.calls[k + 1], "SUPERSEDED")
                           /\ o.calls[k + 1].doc.trade = o.calls[k].doc.trade
    PROVE  Starts(o, n, recorded, strayed)
<1>1. o.calls \in Seq(Calls)
  BY DEF Operations
<1>2. /\ Supersedes(o.calls)
      /\ \E tr \in [Ids -> Trades \cup {None}] : OneTrade(docs, n, tr) /\ CallsOfTrade(o.calls, n, tr)
  BY <1>1, PairedSupersede
<1>3. Writing(o, docs, halfway \cup strayed, recorded \ broken)
  BY <1>2, ReplacementsWrite
<1>4. Works(o, docs, recorded, halfway, broken, strayed)
  BY <1>3 DEF Works
<1>5. strayed \subseteq Trades
  BY AtRest
<1> QED BY <1>2, <1>4, <1>5 DEF Starts

Groups == (1 .. MaxFresh) \cup {None}

LEMMA MovementIs ==
    ASSUME NEW t \in Trades, NEW a \in Accounts, NEW k, k = "BUY" \/ k = "IN" \/ k = "OUT",
           NEW g \in Groups, NEW m, m = Movement(t, a, k, g)
    PROVE  /\ m \in Movements /\ m # None /\ m.status = "ACTIVE" /\ m.trade = t /\ Leads(m) = {}
           /\ m.account = a /\ m.kind = k
<1>1. m \in Movements
  BY DEF Movement, Movements, Groups
<1> QED BY <1>1, NoneAssumption DEF Movement, Leads

LEMMA CreateKeeps ==
    ASSUME IInv, NEW t \in Trades, NEW a \in Accounts, Create(t, a)
    PROVE  IInv'
<1>0. None \in Groups
  BY DEF Groups
<1> PICK n : n = next + 1
  OBVIOUS
<1> PICK m : m = Movement(t, a, "BUY", None)
  OBVIOUS
<1> PICK cs : cs = <<Call(n, m)>>
  OBVIOUS
<1> PICK o : o = [kind |-> "create", calls |-> cs, at |-> 0, adds |-> {t}]
  OBVIOUS
<1>1. Begin("create", cs, 1, {t}, {}) /\ strayed' = strayed /\ Unused(t) /\ op = None /\ next + 1 <= MaxFresh
  BY DEF Create, Begin
<1>2. next \in Nat
  BY <1>1, AtRest
<1>3. n \in Nat /\ next < n /\ next <= n /\ n <= MaxFresh /\ n <= n
  BY <1>1, <1>2
<1>4. m \in Movements /\ m # None /\ m.status = "ACTIVE" /\ m.trade = t /\ Leads(m) = {}
  BY ONLY <1>0, t \in Trades, a \in Accounts, m = Movement(t, a, "BUY", None), MovementIs
<1>5. n \in Ids
  BY <1>1, <1>3, FreshId
<1>6. Call(n, m) \in Calls
  BY <1>4, <1>5 DEF Call, Calls
<1>7. cs \in Seq(Calls) /\ cs # <<>> /\ DOMAIN cs = {1} /\ cs[1].id = n /\ cs[1].doc = m
  BY <1>6 DEF Call
<1>8. o \in Operations /\ o.at = 0 /\ o.calls = cs /\ o.kind = "create" /\ o.adds = {t}
  BY <1>7 DEF Operations
<1>9. Starts(o, n, recorded, strayed)
  <2>1. \A k \in DOMAIN cs : /\ Stores(cs[k], "ACTIVE") /\ Leads(cs[k].doc) = {}
                             /\ cs[k].id = n /\ cs[k].doc.trade = t /\ k = 1
    BY <1>4, <1>7 DEF Stores
  <2>2. \E k \in DOMAIN cs : cs[k].doc.trade = t
    BY <1>4, <1>7
  <2> QED BY ONLY <2>1, <2>2, <1>1, <1>3, <1>7, <1>8, IInv, NewBegins
<1>10. recorded = recorded \ {}
  OBVIOUS
<1> HIDE DEF IInv
<1> QED BY ONLY IInv, <1>1, <1>9, <1>10, Begun, n = next + 1,
           o = [kind |-> "create", calls |-> cs, at |-> 0, adds |-> {t}]

(* The two documents of a transfer or of a group.                          *)
LEMMA TwoBegin ==
    ASSUME IInv, NEW kind \in {"create", "transfer"}, NEW t \in Trades, NEW u \in Trades, t # u,
           Unused(t), Unused(u),
           NEW a, NEW b, a \in Movements, b \in Movements, a.status = "ACTIVE", b.status = "ACTIVE",
           a.trade = t, b.trade = u, Leads(a) = {}, Leads(b) = {},
           Begin(kind, <<Call(next + 1, a), Call(next + 2, b)>>, 2, {t, u}, {}), strayed' = strayed
    PROVE  IInv'
<1> PICK x : x = next + 1
  OBVIOUS
<1> PICK n : n = next + 2
  OBVIOUS
<1> PICK cs : cs = <<Call(x, a), Call(n, b)>>
  OBVIOUS
<1> PICK o : o = [kind |-> kind, calls |-> cs, at |-> 0, adds |-> {t, u}]
  OBVIOUS
<1>1. Begin(kind, cs, 2, {t, u}, {}) /\ op = None /\ next + 2 <= MaxFresh
  BY DEF Begin
<1>2. next \in Nat
  BY <1>1, AtRest
<1>3. /\ n \in Nat /\ next < n /\ next <= n /\ n <= MaxFresh /\ n <= n
      /\ x \in Nat /\ next < x /\ x <= n /\ x # n
  BY <1>1, <1>2
<1>4. n \in Ids /\ x \in Ids /\ a # None /\ b # None
  BY <1>1, <1>3, FreshId, NoneAssumption
<1>5. Call(x, a) \in Calls /\ Call(n, b) \in Calls
  BY <1>4 DEF Call, Calls
<1>6. /\ cs \in Seq(Calls) /\ cs # <<>> /\ DOMAIN cs = {1, 2}
      /\ cs[1].id = x /\ cs[1].doc = a /\ cs[2].id = n /\ cs[2].doc = b
  BY <1>5 DEF Call
<1>7. o \in Operations /\ o.at = 0 /\ o.calls = cs /\ o.kind = kind /\ o.adds = {t, u}
  BY <1>6 DEF Operations
<1>8. Starts(o, n, recorded, strayed)
  <2>1. \A k \in DOMAIN cs : /\ Stores(cs[k], "ACTIVE") /\ Leads(cs[k].doc) = {}
                             /\ cs[k].id \in {x, n} /\ cs[k].doc.trade \in {t, u}
    BY <1>4, <1>6 DEF Stores
  <2>2. \A k, m \in DOMAIN cs : cs[k].id = cs[m].id => k = m
    BY <1>3, <1>6
  <2>3. \A k, m \in DOMAIN cs : cs[k].doc.trade = cs[m].doc.trade => k = m
    BY <1>6
  <2>4. \A s \in {t, u} : \E k \in DOMAIN cs : cs[k].doc.trade = s
    BY <1>6
  <2>5. \A k \in DOMAIN cs : /\ cs[k].id \in Nat /\ next < cs[k].id /\ cs[k].id <= n
                             /\ Unused(cs[k].doc.trade)
    BY <2>1, <1>3
  <2>6. o.kind \in {"create", "transfer"}
    BY <1>7
  <2>7. /\ \A k \in DOMAIN o.calls :
              /\ Stores(o.calls[k], "ACTIVE") /\ Leads(o.calls[k].doc) = {}
              /\ o.calls[k].id \in Nat /\ next < o.calls[k].id /\ o.calls[k].id <= n
              /\ Unused(o.calls[k].doc.trade)
        /\ \A k, m \in DOMAIN o.calls : o.calls[k].id = o.calls[m].id => k = m
        /\ \A k, m \in DOMAIN o.calls : o.calls[k].doc.trade = o.calls[m].doc.trade => k = m
        /\ \A s \in o.adds : \E k \in DOMAIN o.calls : o.calls[k].doc.trade = s
        /\ o.calls # <<>>
    BY ONLY <2>1, <2>2, <2>3, <2>4, <2>5, <1>6, <1>7
  <2> QED BY ONLY <2>6, <2>7, <1>1, <1>3, <1>7, IInv, NewBegins
<1>9. recorded = recorded \ {}
  OBVIOUS
<1> QED BY ONLY IInv, <1>1, <1>8, <1>9, Begun, n = next + 2, strayed' = strayed,
           o = [kind |-> kind, calls |-> cs, at |-> 0, adds |-> {t, u}]

LEMMA TransferKeeps ==
    ASSUME IInv, NEW t \in Trades, NEW u \in Trades, NEW a \in Accounts, NEW b \in Accounts,
           Transfer(t, u, a, b)
    PROVE  IInv'
<1> PICK c : c = Movement(t, a, "OUT", None)
  OBVIOUS
<1> PICK d : d = Movement(u, b, "IN", None)
  OBVIOUS
<1>1. /\ t # u /\ Unused(t) /\ Unused(u) /\ strayed' = strayed
      /\ Begin("transfer", <<Call(next + 1, c), Call(next + 2, d)>>, 2, {t, u}, {})
  BY DEF Transfer
<1>0. None \in Groups
  BY DEF Groups
<1>2. c \in Movements /\ c.status = "ACTIVE" /\ c.trade = t /\ Leads(c) = {}
  BY ONLY t \in Trades, a \in Accounts, <1>0, c = Movement(t, a, "OUT", None), MovementIs
<1>3. d \in Movements /\ d.status = "ACTIVE" /\ d.trade = u /\ Leads(d) = {}
  BY ONLY u \in Trades, b \in Accounts, <1>0, d = Movement(u, b, "IN", None), MovementIs
<1> QED BY <1>1, <1>2, <1>3, TwoBegin

LEMMA CreateGroupKeeps ==
    ASSUME IInv, NEW t \in Trades, NEW u \in Trades, NEW a \in Accounts, CreateGroup(t, u, a)
    PROVE  IInv'
<1> PICK g : g = next + 1
  OBVIOUS
<1> PICK c : c = Movement(t, a, "BUY", g)
  OBVIOUS
<1> PICK d : d = Movement(u, a, "BUY", g)
  OBVIOUS
<1>1. /\ t # u /\ Unused(t) /\ Unused(u) /\ strayed' = strayed
      /\ Begin("create", <<Call(next + 1, c), Call(next + 2, d)>>, 2, {t, u}, {})
  BY DEF CreateGroup
<1>2. g \in Groups
  <2>1. op = None /\ next + 2 <= MaxFresh
    BY <1>1 DEF Begin
  <2>2. next \in Nat /\ MaxFresh \in Nat
    BY <2>1, AtRest, LedgerAssumption
  <2> QED BY <2>1, <2>2 DEF Groups
<1>3. c \in Movements /\ c.status = "ACTIVE" /\ c.trade = t /\ Leads(c) = {}
  BY ONLY t \in Trades, a \in Accounts, <1>2, c = Movement(t, a, "BUY", g), MovementIs
<1>4. d \in Movements /\ d.status = "ACTIVE" /\ d.trade = u /\ Leads(d) = {}
  BY ONLY u \in Trades, a \in Accounts, <1>2, d = Movement(u, a, "BUY", g), MovementIs
<1> QED BY <1>1, <1>3, <1>4, TwoBegin

(* Calls r that are those of s and of u, at K and M.                       *)
Woven(r, s, u, D, K, M) ==
    /\ r \in Seq(Calls) /\ K \in [D -> DOMAIN r] /\ M \in [D -> DOMAIN r]
    /\ \A x \in DOMAIN r : \E p \in D : x = K[p] \/ x = M[p]
    /\ \A p \in D : r[K[p]] = s[p] /\ r[M[p]] = u[p]
    /\ \A p \in D : K[p] < M[p]

LEMMA TurnsWoven ==
    ASSUME NEW n \in Nat, NEW r, NEW s, NEW u, InTurn(r, s, u, n),
           NEW K, K = [p \in 1 .. n |-> 2 * p - 1], NEW M, M = [p \in 1 .. n |-> 2 * p]
    PROVE  Woven(r, s, u, 1 .. n, K, M)
<1>1. ASSUME NEW p \in 1 .. n
      PROVE  /\ K[p] \in 1 .. 2 * n /\ M[p] \in 1 .. 2 * n /\ K[p] < M[p] /\ Pair(p, K[p], M[p])
             /\ K[p] \in Nat /\ M[p] \in Nat
  <2>1. K[p] = 2 * p - 1 /\ M[p] = 2 * p
    OBVIOUS
  <2>2. Pair(p, K[p], M[p])
    BY <2>1 DEF Pair
  <2>3. /\ 2 * p - 1 \in 1 .. 2 * n /\ 2 * p \in 1 .. 2 * n /\ 2 * p - 1 < 2 * p
        /\ 2 * p - 1 \in Nat /\ 2 * p \in Nat
    BY ONLY n \in Nat, p \in 1 .. n
  <2> QED BY ONLY <2>1, <2>2, <2>3
<1>2. r \in Seq(Calls) /\ DOMAIN r = 1 .. 2 * n
  BY DEF InTurn
<1>3. K \in [1 .. n -> DOMAIN r] /\ M \in [1 .. n -> DOMAIN r]
  BY <1>1, <1>2
<1>4. ASSUME NEW p \in 1 .. n PROVE r[K[p]] = s[p] /\ r[M[p]] = u[p]
  <2>1. K[p] \in Nat /\ M[p] \in Nat /\ Pair(p, K[p], M[p])
    BY <1>1
  <2> PICK k \in Nat, m \in Nat : k = K[p] /\ m = M[p]
    BY <2>1
  <2> QED BY <2>1 DEF InTurn
<1>5. ASSUME NEW x \in DOMAIN r PROVE \E p \in 1 .. n : x = K[p] \/ x = M[p]
  <2>1. PICK p \in 1 .. n : \E k, m \in Nat : Pair(p, k, m) /\ (x = k \/ x = m)
    BY <1>5 DEF InTurn
  <2>2. x = 2 * p - 1 \/ x = 2 * p
    BY <2>1 DEF Pair
  <2> QED BY <2>2
<1> QED BY <1>1, <1>2, <1>3, <1>4, <1>5 DEF Woven

LEMMA JoinedWoven ==
    ASSUME NEW n \in Nat, NEW s \in [1 .. n -> Calls], NEW u \in [1 .. n -> Calls], NEW r, r = s \o u,
           NEW K, K = [p \in 1 .. n |-> p], NEW M, M = [p \in 1 .. n |-> n + p]
    PROVE  Woven(r, s, u, 1 .. n, K, M)
<1>1. s \in Seq(Calls) /\ Len(s) = n /\ u \in Seq(Calls) /\ Len(u) = n
  BY SeqTyped
<1>2. /\ r \in Seq(Calls) /\ Len(r) = n + n
      /\ \A i \in 1 .. n + n : r[i] = IF i <= n THEN s[i] ELSE u[i - n]
  <2>1. /\ s \o u \in Seq(Calls) /\ Len(s \o u) = Len(s) + Len(u)
        /\ \A i \in 1 .. Len(s) + Len(u) :
              (s \o u)[i] = IF i <= Len(s) THEN s[i] ELSE u[i - Len(s)]
    BY ONLY <1>1, ConcatProperties, Zenon
  <2> QED BY ONLY <2>1, <1>1, r = s \o u
<1>3. DOMAIN r = 1 .. n + n
  BY <1>2, LenProperties
<1>4. ASSUME NEW p \in 1 .. n
      PROVE  /\ K[p] \in DOMAIN r /\ M[p] \in DOMAIN r /\ K[p] < M[p]
             /\ r[K[p]] = s[p] /\ r[M[p]] = u[p]
  <2>1. K[p] = p /\ M[p] = n + p
    OBVIOUS
  <2>2. /\ p \in 1 .. n + n /\ n + p \in 1 .. n + n /\ p < n + p /\ p <= n /\ ~(n + p <= n)
        /\ n + p - n = p
    BY ONLY n \in Nat, p \in 1 .. n
  <2>3. r[p] = s[p] /\ r[n + p] = u[p]
    BY <2>2, <1>2
  <2> QED BY ONLY <2>1, <2>2, <2>3, <1>3
<1>5. ASSUME NEW x \in DOMAIN r PROVE \E p \in 1 .. n : x = K[p] \/ x = M[p]
  <2>1. x \in 1 .. n + n
    BY <1>3
  <2>2. CASE x <= n
    <3>1. x \in 1 .. n /\ K[x] = x
      BY <2>1, <2>2
    <3> QED BY <3>1, Zenon
  <2>3. CASE ~(x <= n)
    <3>1. x - n \in 1 .. n /\ n + (x - n) = x
      BY <2>1, <2>3
    <3>2. M[x - n] = x
      BY <3>1
    <3> QED BY <3>1, <3>2, Zenon
  <2> QED BY <2>2, <2>3
<1>6. K \in [1 .. n -> DOMAIN r] /\ M \in [1 .. n -> DOMAIN r]
  BY <1>4
<1> QED BY <1>2, <1>4, <1>5, <1>6 DEF Woven

(* What a call of each pair stores.                                        *)
Replacing(s, u, D, legs, fresh) ==
    /\ legs \in [D -> Ids] /\ fresh \in [D -> Nat]
    /\ \A p \in D : Active(legs[p])
    /\ \A p, q \in D : legs[p] = legs[q] => p = q
    /\ \A p, q \in D : fresh[p] = fresh[q] => p = q
    /\ \A p \in D : /\ s[p].id = fresh[p] /\ Stores(s[p], "ACTIVE")
                    /\ s[p].doc.trade = docs[legs[p]].trade
                    /\ Leads(s[p].doc) \subseteq {legs[p]} \cup Leads(docs[legs[p]])
    /\ \A p \in D : /\ u[p].id = legs[p] /\ Stores(u[p], "SUPERSEDED")
                    /\ u[p].doc.trade = docs[legs[p]].trade
                    /\ Leads(u[p].doc) \subseteq {fresh[p]} \cup Leads(docs[legs[p]])

LEMMA WovenPaired ==
    ASSUME NEW r, NEW s, NEW u, NEW D, NEW K, NEW M, Woven(r, s, u, D, K, M),
           NEW legs, NEW fresh, Replacing(s, u, D, legs, fresh)
    PROVE  Paired(r, D, legs, fresh, K, M)
<1>1. \A p \in D : r[K[p]] = s[p] /\ r[M[p]] = u[p]
  BY DEF Woven
<1>2. /\ K \in [D -> DOMAIN r] /\ M \in [D -> DOMAIN r]
      /\ \A x \in DOMAIN r : \E p \in D : x = K[p] \/ x = M[p]
      /\ \A p \in D : K[p] < M[p]
  BY DEF Woven
<1>3. \A p \in D : /\ r[K[p]].id = fresh[p] /\ Stores(r[K[p]], "ACTIVE")
                   /\ r[K[p]].doc.trade = docs[legs[p]].trade
                   /\ Leads(r[K[p]].doc) \subseteq {legs[p]} \cup Leads(docs[legs[p]])
  BY <1>1 DEF Replacing
<1>4. \A p \in D : /\ r[M[p]].id = legs[p] /\ Stores(r[M[p]], "SUPERSEDED")
                   /\ r[M[p]].doc.trade = docs[legs[p]].trade
                   /\ Leads(r[M[p]].doc) \subseteq {fresh[p]} \cup Leads(docs[legs[p]])
  BY <1>1 DEF Replacing
<1> QED BY <1>2, <1>3, <1>4 DEF Replacing, Paired

LEMMA SupersededIs ==
    ASSUME docs \in Ledgers, NEW i \in Ids, Active(i), NEW x \in Ids, NEW m,
           m = Superseded(i, x) \/ m = [docs[i] EXCEPT !.status = "SUPERSEDED"]
    PROVE  /\ m \in Movements /\ m # None /\ m.status = "SUPERSEDED" /\ m.trade = docs[i].trade
           /\ Leads(m) \subseteq {x} \cup Leads(docs[i])
<1>1. docs[i] \in Movements
  BY DEF Ledgers, Active
<1>2. /\ m \in Movements /\ m.status = "SUPERSEDED" /\ m.trade = docs[i].trade
      /\ m.corrects = docs[i].corrects /\ m.from = docs[i].from
      /\ m.superseded_by = x \/ m.superseded_by = docs[i].superseded_by
  BY <1>1 DEF Superseded, Movements
<1> QED BY <1>2, NoneAssumption DEF Leads

LEMMA MovedIs ==
    ASSUME docs \in Ledgers, NEW i \in Ids, Active(i), NEW a \in Accounts, NEW m,
           m = Moved(i, a) \/ m = [docs[i] EXCEPT !.corrects = i, !.superseded_by = None]
    PROVE  /\ m \in Movements /\ m # None /\ m.status = "ACTIVE" /\ m.trade = docs[i].trade
           /\ Leads(m) \subseteq {i} \cup Leads(docs[i])
<1>1. docs[i] \in Movements /\ docs[i].status = "ACTIVE"
  BY DEF Ledgers, Active
<1>2. /\ m \in Movements /\ m.status = "ACTIVE" /\ m.trade = docs[i].trade
      /\ m.superseded_by = None
      /\ m.corrects = i \/ m.corrects = None
      /\ m.from = i \/ m.from = docs[i].from
  BY <1>1 DEF Moved, Movements
<1> QED BY <1>2, NoneAssumption DEF Leads

(* A correction or a reassignment: one document d instead of i.            *)
LEMMA ReplaceKeeps ==
    ASSUME IInv, NEW kind \in {"correct", "reassign"}, NEW i \in Ids, Active(i),
           NEW d \in Movements, d # None, d.status = "ACTIVE", d.trade = docs[i].trade,
           Leads(d) \subseteq {i} \cup Leads(docs[i]),
           Begin(kind, Replacement(i, d), 1, {}, {}), strayed' = strayed
    PROVE  IInv'
<1> PICK n : n = next + 1
  OBVIOUS
<1> PICK e : e = Superseded(i, n)
  OBVIOUS
<1> PICK cs : cs = <<Call(n, d), Call(i, e)>>
  OBVIOUS
<1> PICK o : o = [kind |-> kind, calls |-> cs, at |-> 0, adds |-> {}]
  OBVIOUS
<1>1. Begin(kind, cs, 1, {}, {}) /\ op = None /\ next + 1 <= MaxFresh
  BY DEF Begin, Replacement
<1>2. next \in Nat /\ docs \in Ledgers
  BY <1>1, AtRest
<1>3. n \in Nat /\ next < n /\ next <= n /\ n <= MaxFresh /\ n <= n
  BY <1>1, <1>2
<1>4. n \in Ids
  BY <1>1, <1>3, FreshId
<1>5. /\ e \in Movements /\ e # None /\ e.status = "SUPERSEDED" /\ e.trade = docs[i].trade
      /\ Leads(e) \subseteq {n} \cup Leads(docs[i])
  BY <1>2, <1>4, SupersededIs
<1>6. Call(n, d) \in Calls /\ Call(i, e) \in Calls
  BY <1>4, <1>5 DEF Call, Calls
<1>7. /\ cs \in Seq(Calls) /\ cs # <<>> /\ DOMAIN cs = {1, 2}
      /\ cs[1].id = n /\ cs[1].doc = d /\ cs[2].id = i /\ cs[2].doc = e
  BY <1>6 DEF Call
<1>8. o \in Operations /\ o.at = 0 /\ o.calls = cs /\ o.kind = kind /\ o.adds = {}
  BY <1>7 DEF Operations
<1> PICK D, legs, fresh, K, M : /\ D = {1} /\ legs = [p \in D |-> i] /\ fresh = [p \in D |-> n]
                                /\ K = [p \in D |-> 1] /\ M = [p \in D |-> 2]
  OBVIOUS
<1>9. Paired(cs, D, legs, fresh, K, M)
  <2>1. /\ legs \in [D -> Ids] /\ fresh \in [D -> Nat] /\ K \in [D -> DOMAIN cs] /\ M \in [D -> DOMAIN cs]
        /\ \A x \in DOMAIN cs : \E p \in D : x = K[p] \/ x = M[p]
        /\ \A p \in D : K[p] < M[p]
    BY <1>3, <1>7
  <2>2. \A p, q \in D : p = q
    OBVIOUS
  <2>3. \A p \in D : /\ cs[K[p]].id = n /\ cs[K[p]].doc = d /\ cs[M[p]].id = i /\ cs[M[p]].doc = e
                     /\ legs[p] = i /\ fresh[p] = n
    BY <1>7
  <2> QED BY ONLY <2>1, <2>2, <2>3, <1>5, Active(i), d # None, d.status = "ACTIVE", d.trade = docs[i].trade,
             Leads(d) \subseteq {i} \cup Leads(docs[i]) DEF Paired, Stores
<1>10. Starts(o, n, recorded, strayed)
  <2>1. \A p \in D : next < fresh[p] /\ fresh[p] <= n
    BY <1>3
  <2>2. o.kind \in {"correct", "reassign", "batch", "group"} /\ o.kind # "batch"
    BY <1>8
  <2> QED BY ONLY IInv, <2>1, <2>2, <1>1, <1>3, <1>7, <1>8, <1>9, PairedBegins
<1>11. recorded = recorded \ {}
  OBVIOUS
<1> QED BY ONLY IInv, <1>1, <1>10, <1>11, Begun, n = next + 1, strayed' = strayed,
           o = [kind |-> kind, calls |-> cs, at |-> 0, adds |-> {}]

LEMMA CorrectKeeps ==
    ASSUME IInv, NEW i \in Ids, Correct(i)
    PROVE  IInv'
<1> PICK d : d = [docs[i] EXCEPT !.corrects = i, !.superseded_by = None]
  OBVIOUS
<1>1. Active(i) /\ Begin("correct", Replacement(i, d), 1, {}, {}) /\ strayed' = strayed
  BY DEF Correct
<1>2. docs \in Ledgers
  BY <1>1, AtRest DEF Begin
<1>3. docs[i].account \in Accounts
  BY <1>1, <1>2 DEF Active, Ledgers, Movements
<1>4. /\ d \in Movements /\ d # None /\ d.status = "ACTIVE" /\ d.trade = docs[i].trade
      /\ Leads(d) \subseteq {i} \cup Leads(docs[i])
  BY <1>1, <1>2, <1>3, MovedIs
<1> QED BY <1>1, <1>4, ReplaceKeeps

LEMMA ReassignKeeps ==
    ASSUME IInv, NEW i \in Ids, NEW a \in Accounts, Reassign(i, a)
    PROVE  IInv'
<1> PICK d : d = Moved(i, a)
  OBVIOUS
<1>1. Active(i) /\ Begin("reassign", Replacement(i, d), 1, {}, {}) /\ strayed' = strayed
  BY DEF Reassign
<1>2. docs \in Ledgers
  BY <1>1, AtRest DEF Begin
<1>3. /\ d \in Movements /\ d # None /\ d.status = "ACTIVE" /\ d.trade = docs[i].trade
      /\ Leads(d) \subseteq {i} \cup Leads(docs[i])
  BY <1>1, <1>2, MovedIs
<1> QED BY <1>1, <1>3, ReplaceKeeps

LEMMA IdsFinite == IsFiniteSet(Ids)
<1>1. IsFiniteSet(1 .. MaxFresh)
  BY LedgerAssumption, FS_Interval
<1>2. IsFiniteSet(Rows)
  BY LedgerAssumption
<1> QED BY <1>1, <1>2, FS_Union DEF Ids

(* The ids of a set of documents in some order.                            *)
InOrder(legs, n, S) ==
    /\ n \in Nat /\ n = Len(legs) /\ legs \in [1 .. n -> S] /\ legs \in Seq(Ids)
    /\ \A k, m \in 1 .. n : legs[k] = legs[m] => k = m
    /\ \A x \in S : \E k \in 1 .. n : legs[k] = x

LEMMA Ordered ==
    ASSUME NEW S \in SUBSET Ids, NEW legs, legs = SetToSeq(S)
    PROVE  \E n \in Nat : InOrder(legs, n, S)
<1>1. IsFiniteSet(S)
  BY IdsFinite, FS_Subset
<1>2. /\ legs \in Seq(S) /\ DOMAIN legs = 1 .. Len(legs)
      /\ \A k, m \in DOMAIN legs : legs[k] = legs[m] => k = m
      /\ \A x \in S : \E k \in DOMAIN legs : legs[k] = x
  BY <1>1, ToSeq
<1>3. Len(legs) \in Nat /\ legs \in [1 .. Len(legs) -> S]
  BY <1>2, LenProperties
<1>4. legs \in Seq(Ids)
  BY <1>3, SeqTyped
<1>5. InOrder(legs, Len(legs), S)
  BY <1>2, <1>3, <1>4 DEF InOrder
<1> QED BY <1>3, <1>5

LEMMA BatchKeeps ==
    ASSUME IInv, NEW a \in Accounts, NEW b \in Accounts, BatchReassign(a, b)
    PROVE  IInv'
<1> PICK S : S = {i \in Ids : Active(i) /\ docs[i].account = a}
  OBVIOUS
<1> PICK legs : legs = SetToSeq(S)
  OBVIOUS
<1>0. S \in SUBSET Ids /\ \A i \in S : Active(i)
  OBVIOUS
<1> PICK m \in Nat : InOrder(legs, m, S)
  BY <1>0, Ordered
<1>1. /\ m = Len(legs) /\ legs \in [1 .. m -> S] /\ legs \in [1 .. m -> Ids] /\ legs \in Seq(Ids)
      /\ \A p, q \in 1 .. m : legs[p] = legs[q] => p = q
      /\ \A p \in 1 .. m : legs[p] \in Ids /\ Active(legs[p])
  BY <1>0 DEF InOrder
<1> PICK n : n = next + m
  OBVIOUS
<1> PICK fresh : fresh = [p \in 1 .. m |-> next + p]
  OBVIOUS
<1> PICK s : s = [p \in 1 .. m |-> Call(next + p, Moved(legs[p], b))]
  OBVIOUS
<1> PICK u : u = [p \in 1 .. m |-> Call(legs[p], Superseded(legs[p], next + p))]
  OBVIOUS
<1> PICK cs : cs = Alternate(s, u)
  OBVIOUS
<1> PICK o : o = [kind |-> "batch", calls |-> cs, at |-> 0, adds |-> {}]
  OBVIOUS
<1>2. legs # <<>> /\ Begin("batch", cs, m, {}, {}) /\ strayed' = strayed
  BY <1>1 DEF BatchReassign
<1>3. op = None /\ next + m <= MaxFresh
  BY <1>2 DEF Begin
<1>4. next \in Nat /\ docs \in Ledgers
  BY <1>3, AtRest
<1>5. n \in Nat /\ next <= n /\ n <= MaxFresh
  BY <1>3, <1>4
<1>6. /\ fresh \in [1 .. m -> Nat]
      /\ \A p, q \in 1 .. m : fresh[p] = fresh[q] => p = q
      /\ \A p \in 1 .. m : next < fresh[p] /\ fresh[p] <= n
  <2>1. \A p \in 1 .. m : next + p \in Nat /\ next < next + p /\ next + p <= next + m
    BY ONLY m \in Nat, <1>4
  <2>2. \A p, q \in 1 .. m : next + p = next + q => p = q
    BY ONLY m \in Nat, <1>4
  <2> QED BY ONLY <2>1, <2>2, fresh = [p \in 1 .. m |-> next + p], n = next + m
<1>7. \A p \in 1 .. m : /\ s[p] = Call(fresh[p], Moved(legs[p], b))
                        /\ u[p] = Call(legs[p], Superseded(legs[p], fresh[p]))
  BY ONLY fresh = [p \in 1 .. m |-> next + p], s = [p \in 1 .. m |-> Call(next + p, Moved(legs[p], b))],
          u = [p \in 1 .. m |-> Call(legs[p], Superseded(legs[p], next + p))]
<1>8. \A p \in 1 .. m : fresh[p] \in Ids
  BY <1>3, <1>5, <1>6, FreshId
<1>9. ASSUME NEW p \in 1 .. m
      PROVE  /\ s[p] \in Calls /\ s[p].id = fresh[p] /\ Stores(s[p], "ACTIVE")
             /\ s[p].doc.trade = docs[legs[p]].trade
             /\ Leads(s[p].doc) \subseteq {legs[p]} \cup Leads(docs[legs[p]])
  <2> PICK i : i = legs[p]
    OBVIOUS
  <2> PICK d : d = Moved(i, b)
    OBVIOUS
  <2>0. i \in Ids /\ Active(i)
    BY <1>1
  <2>1. /\ d \in Movements /\ d # None /\ d.status = "ACTIVE" /\ d.trade = docs[legs[p]].trade
        /\ Leads(d) \subseteq {legs[p]} \cup Leads(docs[legs[p]])
    BY ONLY <2>0, <1>4, b \in Accounts, d = Moved(i, b), i = legs[p], MovedIs
  <2>2. s[p] = Call(fresh[p], d) /\ fresh[p] \in Ids
    BY <1>7, <1>8
  <2> QED BY ONLY <2>1, <2>2 DEF Call, Calls, Stores
<1>10. ASSUME NEW p \in 1 .. m
       PROVE  /\ u[p] \in Calls /\ u[p].id = legs[p] /\ Stores(u[p], "SUPERSEDED")
              /\ u[p].doc.trade = docs[legs[p]].trade
              /\ Leads(u[p].doc) \subseteq {fresh[p]} \cup Leads(docs[legs[p]])
  <2> PICK i, x : i = legs[p] /\ x = fresh[p]
    OBVIOUS
  <2> PICK d : d = Superseded(i, x)
    OBVIOUS
  <2>0. i \in Ids /\ Active(i) /\ x \in Ids
    BY <1>1, <1>8
  <2>1. /\ d \in Movements /\ d # None /\ d.status = "SUPERSEDED" /\ d.trade = docs[legs[p]].trade
        /\ Leads(d) \subseteq {fresh[p]} \cup Leads(docs[legs[p]])
    BY ONLY <2>0, <1>4, d = Superseded(i, x), i = legs[p], x = fresh[p], SupersededIs
  <2>2. u[p] = Call(legs[p], d) /\ legs[p] \in Ids
    BY <1>1, <1>7
  <2> QED BY ONLY <2>1, <2>2 DEF Call, Calls, Stores
<1>11. s \in [1 .. m -> Calls] /\ u \in [1 .. m -> Calls]
  BY <1>9, <1>10
<1>12. InTurn(cs, s, u, m)
  BY <1>11, Alternating
<1> PICK K, M : K = [p \in 1 .. m |-> 2 * p - 1] /\ M = [p \in 1 .. m |-> 2 * p]
  OBVIOUS
<1>13. Woven(cs, s, u, 1 .. m, K, M)
  BY ONLY <1>12, m \in Nat, TurnsWoven, K = [p \in 1 .. m |-> 2 * p - 1], M = [p \in 1 .. m |-> 2 * p]
<1>14. Replacing(s, u, 1 .. m, legs, fresh)
  BY ONLY <1>1, <1>6, <1>9, <1>10 DEF Replacing
<1>15. Paired(cs, 1 .. m, legs, fresh, K, M)
  BY ONLY <1>13, <1>14, WovenPaired
<1>16. cs \in Seq(Calls) /\ cs # <<>>
  <2>1. cs \in Seq(Calls) /\ DOMAIN cs = 1 .. 2 * m
    BY <1>12 DEF InTurn
  <2>2. m # 0
    BY <1>1, <1>2, EmptySeq
  <2>3. 1 \in DOMAIN cs
    BY ONLY <2>1, <2>2, m \in Nat
  <2> QED BY ONLY <2>1, <2>3
<1>17. o \in Operations /\ o.at = 0 /\ o.calls = cs /\ o.kind = "batch" /\ o.adds = {}
  BY <1>16 DEF Operations
<1>18. ASSUME NEW k \in DOMAIN cs, k % 2 = 1
       PROVE  /\ k + 1 \in DOMAIN cs
              /\ Stores(cs[k], "ACTIVE") /\ Stores(cs[k + 1], "SUPERSEDED")
              /\ cs[k + 1].doc.trade = cs[k].doc.trade
  <2>1. PICK p \in 1 .. m : k = K[p] \/ k = M[p]
    BY <1>13, <1>18 DEF Woven
  <2>2. K[p] = 2 * p - 1 /\ M[p] = 2 * p
    OBVIOUS
  <2> PICK x : x = k + 1
    OBVIOUS
  <2>3. k = K[p] /\ x = M[p]
    BY ONLY <2>1, <2>2, <1>18, m \in Nat, p \in 1 .. m, x = k + 1
  <2>4. cs[K[p]] = s[p] /\ cs[M[p]] = u[p] /\ M[p] \in DOMAIN cs
    BY ONLY <1>13, p \in 1 .. m DEF Woven
  <2>5. Stores(s[p], "ACTIVE") /\ s[p].doc.trade = docs[legs[p]].trade
    BY ONLY <1>9, p \in 1 .. m
  <2>6. Stores(u[p], "SUPERSEDED") /\ u[p].doc.trade = docs[legs[p]].trade
    BY ONLY <1>10, p \in 1 .. m
  <2>7. /\ x \in DOMAIN cs /\ Stores(cs[k], "ACTIVE") /\ Stores(cs[x], "SUPERSEDED")
        /\ cs[x].doc.trade = cs[k].doc.trade
    BY ONLY <2>3, <2>4, <2>5, <2>6
  <2> QED BY <2>7
<1>19. Starts(o, n, recorded, strayed)
  BY ONLY IInv, <1>3, <1>5, <1>6, <1>15, <1>16, <1>17, <1>18, PairedBegins
<1>20. recorded = recorded \ {}
  OBVIOUS
<1> QED BY ONLY IInv, <1>2, <1>19, <1>20, Begun, n = next + m,
           o = [kind |-> "batch", calls |-> cs, at |-> 0, adds |-> {}]

(* The correction of a group: its ACTIVE legs, each written anew, then     *)
(* superseded.                                                             *)
LEMMA LegsPaired ==
    ASSUME IInv, op = None, NEW g, NEW legs, legs = ActiveLegs(g, Accounts), legs # <<>>,
           NEW m, m = Len(legs), next + m <= MaxFresh,
           NEW n, n = next + m, NEW cs, cs = NewLegs(legs) \o OldLegs(legs),
           NEW fresh, fresh = [p \in 1 .. m |-> next + p],
           NEW K, K = [p \in 1 .. m |-> p], NEW M, M = [p \in 1 .. m |-> m + p]
    PROVE  /\ n \in Nat /\ next <= n /\ n <= MaxFresh /\ m \in Nat
           /\ \A p \in 1 .. m : next < fresh[p] /\ fresh[p] <= n
           /\ cs \in Seq(Calls) /\ cs # <<>>
           /\ Paired(cs, 1 .. m, legs, fresh, K, M)
<1> PICK S : S = {i \in Legs(g) : Active(i) /\ docs[i].account \in Accounts}
  OBVIOUS
<1>0. S \in SUBSET Ids /\ legs = SetToSeq(S) /\ \A i \in S : Active(i)
  BY DEF ActiveLegs, Legs
<1> PICK l \in Nat : InOrder(legs, l, S)
  BY ONLY <1>0, Ordered
<1>1. /\ m = l /\ m \in Nat /\ legs \in [1 .. m -> Ids] /\ legs \in Seq(Ids)
      /\ \A p, q \in 1 .. m : legs[p] = legs[q] => p = q
      /\ \A p \in 1 .. m : legs[p] \in Ids /\ Active(legs[p])
  BY <1>0 DEF InOrder
<1> PICK s, u : s = NewLegs(legs) /\ u = OldLegs(legs)
  OBVIOUS
<1>4. next \in Nat /\ docs \in Ledgers /\ MaxFresh \in Nat
  BY AtRest, LedgerAssumption
<1>5. n \in Nat /\ next <= n /\ n <= MaxFresh /\ m # 0
  BY <1>1, <1>4, EmptySeq
<1>6. /\ fresh \in [1 .. m -> Nat]
      /\ \A p, q \in 1 .. m : fresh[p] = fresh[q] => p = q
      /\ \A p \in 1 .. m : next < fresh[p] /\ fresh[p] <= n
  <2>1. \A p \in 1 .. m : next + p \in Nat /\ next < next + p /\ next + p <= next + m
    BY ONLY <1>1, <1>4
  <2>2. \A p, q \in 1 .. m : next + p = next + q => p = q
    BY ONLY <1>1, <1>4
  <2> QED BY ONLY <2>1, <2>2, fresh = [p \in 1 .. m |-> next + p], n = next + m
<1>7. \A p \in 1 .. m :
         /\ s[p] = Call(fresh[p], [Movement(docs[legs[p]].trade, docs[legs[p]].account, "BUY", next + 1)
                                      EXCEPT !.kind = docs[legs[p]].kind])
         /\ u[p] = Call(legs[p], [docs[legs[p]] EXCEPT !.status = "SUPERSEDED"])
  BY ONLY fresh = [p \in 1 .. m |-> next + p], s = NewLegs(legs), u = OldLegs(legs), m = Len(legs)
     DEF NewLegs, OldLegs
<1>8. \A p \in 1 .. m : fresh[p] \in Ids
  BY <1>5, <1>6, FreshId
<1>9. next + 1 \in Groups
  BY <1>1, <1>4, <1>5 DEF Groups
<1>10. ASSUME NEW p \in 1 .. m
       PROVE  /\ s[p] \in Calls /\ s[p].id = fresh[p] /\ Stores(s[p], "ACTIVE")
              /\ s[p].doc.trade = docs[legs[p]].trade
              /\ Leads(s[p].doc) \subseteq {legs[p]} \cup Leads(docs[legs[p]])
  <2> PICK d, x : d = docs[legs[p]] /\ x = next + 1
    OBVIOUS
  <2> PICK c : c = Movement(d.trade, d.account, "BUY", x)
    OBVIOUS
  <2> PICK e : e = [c EXCEPT !.kind = d.kind]
    OBVIOUS
  <2>1. d \in Movements
    BY <1>1, <1>4 DEF Active, Ledgers
  <2>2. /\ d.trade \in Trades /\ d.account \in Accounts /\ d.kind \in {"BUY", "IN", "OUT"}
        /\ x \in Groups
    BY <2>1, <1>9 DEF Movements
  <2>3. c \in Movements /\ c.status = "ACTIVE" /\ c.trade = d.trade /\ Leads(c) = {}
    <3> PICK t, a : t = d.trade /\ a = d.account
      OBVIOUS
    <3> QED BY ONLY <2>2, c = Movement(d.trade, d.account, "BUY", x), t = d.trade, a = d.account, MovementIs
  <2>4. /\ e \in Movements /\ e # None /\ e.status = "ACTIVE" /\ e.trade = d.trade /\ Leads(e) = {}
    BY ONLY <2>2, <2>3, e = [c EXCEPT !.kind = d.kind], NoneAssumption DEF Movements, Leads
  <2>5. s[p] = Call(fresh[p], e) /\ fresh[p] \in Ids
    BY <1>7, <1>8
  <2> QED BY ONLY <2>4, <2>5, d = docs[legs[p]] DEF Call, Calls, Stores
<1>11. ASSUME NEW p \in 1 .. m
       PROVE  /\ u[p] \in Calls /\ u[p].id = legs[p] /\ Stores(u[p], "SUPERSEDED")
              /\ u[p].doc.trade = docs[legs[p]].trade
              /\ Leads(u[p].doc) \subseteq {fresh[p]} \cup Leads(docs[legs[p]])
  <2> PICK i, x : i = legs[p] /\ x = fresh[p]
    OBVIOUS
  <2> PICK d : d = [docs[i] EXCEPT !.status = "SUPERSEDED"]
    OBVIOUS
  <2>0. i \in Ids /\ Active(i) /\ x \in Ids
    BY <1>1, <1>8
  <2>1. /\ d \in Movements /\ d # None /\ d.status = "SUPERSEDED" /\ d.trade = docs[legs[p]].trade
        /\ Leads(d) \subseteq {fresh[p]} \cup Leads(docs[legs[p]])
    BY ONLY <2>0, <1>4, d = [docs[i] EXCEPT !.status = "SUPERSEDED"], i = legs[p], x = fresh[p], SupersededIs
  <2>2. u[p] = Call(legs[p], d) /\ legs[p] \in Ids
    BY <1>1, <1>7
  <2> QED BY ONLY <2>1, <2>2 DEF Call, Calls, Stores
<1>12. s \in [1 .. m -> Calls] /\ u \in [1 .. m -> Calls]
  <2>1. s = [p \in 1 .. m |-> s[p]] /\ u = [p \in 1 .. m |-> u[p]]
    BY ONLY s = NewLegs(legs), u = OldLegs(legs), m = Len(legs) DEF NewLegs, OldLegs
  <2> QED BY ONLY <2>1, <1>10, <1>11
<1>13. Woven(cs, s, u, 1 .. m, K, M)
  BY ONLY <1>1, <1>12, cs = NewLegs(legs) \o OldLegs(legs), s = NewLegs(legs), u = OldLegs(legs),
          K = [p \in 1 .. m |-> p], M = [p \in 1 .. m |-> m + p], JoinedWoven
<1>14. Replacing(s, u, 1 .. m, legs, fresh)
  BY ONLY <1>1, <1>6, <1>10, <1>11 DEF Replacing
<1>15. Paired(cs, 1 .. m, legs, fresh, K, M)
  BY ONLY <1>13, <1>14, WovenPaired
<1>16. cs \in Seq(Calls) /\ cs # <<>>
  <2>1. cs \in Seq(Calls) /\ K[1] \in DOMAIN cs
    BY <1>1, <1>5, <1>13 DEF Woven
  <2> QED BY <2>1
<1> QED BY ONLY <1>1, <1>5, <1>6, <1>15, <1>16

LEMMA CorrectGroupKeeps ==
    ASSUME IInv, NEW g, CorrectGroup(g)
    PROVE  IInv'
<1> PICK legs, m : legs = ActiveLegs(g, Accounts) /\ m = Len(legs)
  OBVIOUS
<1> PICK n, cs : n = next + m /\ cs = NewLegs(legs) \o OldLegs(legs)
  OBVIOUS
<1> PICK fresh, K, M : /\ fresh = [p \in 1 .. m |-> next + p] /\ K = [p \in 1 .. m |-> p]
                       /\ M = [p \in 1 .. m |-> m + p]
  OBVIOUS
<1> PICK o : o = [kind |-> "group", calls |-> cs, at |-> 0, adds |-> {}]
  OBVIOUS
<1>1. legs # <<>> /\ Begin("group", cs, m, {}, {}) /\ strayed' = strayed
  BY DEF CorrectGroup
<1>2. op = None /\ next + m <= MaxFresh
  BY <1>1 DEF Begin
<1>3. /\ n \in Nat /\ next <= n /\ n <= MaxFresh
      /\ \A p \in 1 .. m : next < fresh[p] /\ fresh[p] <= n
      /\ cs \in Seq(Calls) /\ cs # <<>>
      /\ Paired(cs, 1 .. m, legs, fresh, K, M)
  BY <1>1, <1>2, LegsPaired
<1>4. /\ o \in Operations /\ o.at = 0 /\ o.calls = cs /\ o.kind = "group" /\ o.adds = {}
      /\ o.kind # "batch" /\ o.kind \in {"correct", "reassign", "batch", "group"}
  BY <1>3 DEF Operations
<1>5. Starts(o, n, recorded, strayed)
  BY ONLY IInv, <1>2, <1>3, <1>4, PairedBegins
<1>6. recorded = recorded \ {}
  OBVIOUS
<1> QED BY ONLY IInv, <1>1, <1>5, <1>6, Begun, n = next + m,
           o = [kind |-> "group", calls |-> cs, at |-> 0, adds |-> {}]

(* All the calls at once.                                                  *)
LEMMA AtOnce ==
    ASSUME IInv, op = None, NEW n \in Nat, next <= n, n <= MaxFresh,
           NEW cs \in Seq(Calls), Supersedes(cs), NEW tr, OneTrade(docs, n, tr), CallsOfTrade(cs, n, tr),
           NEW e \in Ledgers, \A k \in DOMAIN cs : e[cs[k].id] = cs[k].doc,
           \A i \in Ids : (\A k \in DOMAIN cs : cs[k].id # i) => e[i] = docs[i]
    PROVE  Idle(e, halfway \cup strayed, recorded \ broken) /\ OneTrade(e, n, tr)
<1> PICK o : o = [kind |-> "group", calls |-> cs, at |-> 0, adds |-> {}]
  OBVIOUS
<1> PICK loose, kept : loose = halfway \cup strayed /\ kept = recorded \ broken
  OBVIOUS
<1>1. /\ o \in Operations /\ o.at = 0 /\ o.calls = cs /\ o.kind = "group" /\ o.adds = {}
      /\ o.kind # "batch"
  BY DEF Operations
<1>2. Writing(o, docs, loose, kept)
  BY ONLY IInv, op = None, <1>1, Supersedes(cs), ReplacementsWrite,
          loose = halfway \cup strayed, kept = recorded \ broken
<1>3. Replaces(o) /\ Distinct(cs, docs, loose) /\ \A t \in kept : ActiveIn(docs, t) # {}
  BY <1>1, <1>2 DEF Writing
<1>4. Made(o.calls, Len(o.calls), e)
  BY <1>1, CallsTyped DEF Made
<1>5. \A k \in DOMAIN cs : cs[k] \in Calls /\ cs[k].id \in Ids
  BY CallsTyped
<1>6. ASSUME NEW i \in Ids, NEW t, i \in ActiveIn(e, t), \A k \in DOMAIN cs : cs[k].id # i
      PROVE  i \in ActiveIn(docs, t)
  BY <1>6 DEF ActiveIn
<1>7. Distinct(o.calls, e, loose)
  <2>1. ASSUME NEW k \in DOMAIN cs, cs[k].doc.trade \notin loose, NEW i \in ActiveIn(e, cs[k].doc.trade)
        PROVE  \E x \in DOMAIN cs : cs[x].id = i
    <3> SUFFICES ASSUME \A x \in DOMAIN cs : cs[x].id # i PROVE FALSE
      OBVIOUS
    <3>1. i \in ActiveIn(docs, cs[k].doc.trade)
      BY <1>6 DEF ActiveIn
    <3> QED BY ONLY <1>3, <2>1, <3>1, \A x \in DOMAIN cs : cs[x].id # i, k \in DOMAIN cs DEF Distinct
  <2>2. ASSUME NEW t \in Trades \ loose, \A k \in DOMAIN cs : cs[k].doc.trade # t
        PROVE  Single(ActiveIn(e, t))
    <3>1. Single(ActiveIn(docs, t))
      BY <1>3, <2>2 DEF Distinct
    <3>2. ASSUME NEW i \in ActiveIn(e, t) PROVE i \in ActiveIn(docs, t)
      <4>1. i \in Ids /\ e[i].trade = t
        BY DEF ActiveIn
      <4>2. \A k \in DOMAIN cs : cs[k].id # i
        BY <4>1, <2>2
      <4> QED BY <4>1, <4>2, <1>6
    <3> QED BY <3>1, <3>2 DEF Single
  <2> QED BY ONLY <1>1, <1>3, <2>1, <2>2 DEF Distinct
<1>8. ASSUME NEW t \in kept PROVE ActiveIn(e, t) # {}
  <2>1. PICK i \in ActiveIn(docs, t) : TRUE
    BY <1>3
  <2>2. i \in Ids /\ docs[i] # None /\ docs[i].status = "ACTIVE" /\ docs[i].trade = t
    BY DEF ActiveIn
  <2>3. CASE \A k \in DOMAIN cs : cs[k].id # i
    BY <2>2, <2>3 DEF ActiveIn
  <2>4. CASE \E k \in DOMAIN cs : cs[k].id = i
    <3>1. PICK k \in DOMAIN cs : cs[k].id = i
      BY <2>4
    <3>2. Stores(cs[k], "SUPERSEDED") /\ cs[k].doc.trade = t
      BY <2>2, <3>1 DEF Supersedes
    <3>3. PICK x \in DOMAIN cs : Stores(cs[x], "ACTIVE") /\ cs[x].doc.trade = t
      BY <3>2 DEF Supersedes
    <3>4. cs[x].id \in ActiveIn(e, t)
      BY <3>3, <1>5 DEF ActiveIn, Stores
    <3> QED BY <3>4
  <2> QED BY <2>3, <2>4
<1>9. Idle(e, loose, kept \cup o.adds)
  BY ONLY <1>1, <1>3, <1>4, <1>7, <1>8, e \in Ledgers, WritingEnds
<1>10. Idle(e, loose, kept)
  BY ONLY <1>9, <1>1 DEF Idle
<1>11. ASSUME NEW i \in Ids, e[i] # None
       PROVE  i \in Handed(n) /\ e[i].trade = tr[i] /\ OfTrade(e[i], tr, Handed(n))
  <2>1. CASE \A k \in DOMAIN cs : cs[k].id # i
    BY <1>11, <2>1 DEF OneTrade
  <2>2. CASE \E k \in DOMAIN cs : cs[k].id = i
    BY <1>11, <2>2 DEF CallsOfTrade
  <2> QED BY <2>1, <2>2
<1>12. OneTrade(e, n, tr)
  BY <1>11 DEF OneTrade
<1> QED BY <1>10, <1>12

(* The same in one transaction.                                            *)
LEMMA CorrectGroupAtomicallyKeeps ==
    ASSUME IInv, NEW g, CorrectGroupAtomically(g)
    PROVE  IInv'
<1> PICK legs, m : legs = ActiveLegs(g, Accounts) /\ m = Len(legs)
  OBVIOUS
<1> PICK n, cs : n = next + m /\ cs = NewLegs(legs) \o OldLegs(legs)
  OBVIOUS
<1> PICK fresh, K, M : /\ fresh = [p \in 1 .. m |-> next + p] /\ K = [p \in 1 .. m |-> p]
                       /\ M = [p \in 1 .. m |-> m + p]
  OBVIOUS
<1> PICK e : e = [i \in Ids |-> IF \E k \in DOMAIN cs : cs[k].id = i
                                THEN cs[CHOOSE k \in DOMAIN cs : cs[k].id = i].doc
                                ELSE docs[i]]
  OBVIOUS
<1>1. /\ legs # <<>> /\ op = None /\ next + m <= MaxFresh
      /\ docs' = e /\ next' = n /\ ops' = ops + 1
      /\ op' = op /\ recorded' = recorded /\ halfway' = halfway /\ broken' = broken
      /\ strayed' = strayed /\ faults' = faults
  BY DEF CorrectGroupAtomically, history
<1>2. /\ n \in Nat /\ next <= n /\ n <= MaxFresh
      /\ \A p \in 1 .. m : next < fresh[p] /\ fresh[p] <= n
      /\ cs \in Seq(Calls) /\ cs # <<>>
      /\ Paired(cs, 1 .. m, legs, fresh, K, M)
  BY <1>1, LegsPaired
<1>3. Supersedes(cs)
  BY ONLY IInv, <1>1, <1>2, PairedSupersede
<1>4. PICK tr \in [Ids -> Trades \cup {None}] : OneTrade(docs, n, tr) /\ CallsOfTrade(cs, n, tr)
  BY ONLY IInv, <1>1, <1>2, PairedSupersede
<1>5. \A k \in DOMAIN cs : cs[k] \in Calls /\ cs[k].id \in Ids /\ cs[k].doc \in Movements \cup {None}
  BY ONLY <1>2, CallsTyped DEF Calls
<1>6. \A k \in DOMAIN cs : (CHOOSE x \in DOMAIN cs : cs[x].id = cs[k].id) = k
  BY ONLY <1>3 DEF Supersedes
<1>7. /\ \A k \in DOMAIN cs : e[cs[k].id] = cs[k].doc
      /\ \A i \in Ids : (\A k \in DOMAIN cs : cs[k].id # i) => e[i] = docs[i]
  BY ONLY <1>5, <1>6, e = [i \in Ids |-> IF \E k \in DOMAIN cs : cs[k].id = i
                                         THEN cs[CHOOSE k \in DOMAIN cs : cs[k].id = i].doc
                                         ELSE docs[i]]
<1>8. docs \in Ledgers /\ next \in Nat
  BY <1>1, AtRest
<1>9. e \in Ledgers
  <2>1. \A i \in Ids : e[i] \in Movements \cup {None}
    BY ONLY <1>5, <1>7, <1>8 DEF Ledgers
  <2>2. e = [i \in Ids |-> e[i]]
    BY ONLY e = [i \in Ids |-> IF \E k \in DOMAIN cs : cs[k].id = i
                               THEN cs[CHOOSE k \in DOMAIN cs : cs[k].id = i].doc
                               ELSE docs[i]]
  <2> QED BY ONLY <2>1, <2>2 DEF Ledgers
<1>10. Idle(e, halfway \cup strayed, recorded \ broken) /\ OneTrade(e, n, tr)
  BY ONLY IInv, <1>1, <1>2, <1>3, <1>4, <1>7, <1>9, AtOnce
<1>11. TypeOK
  BY DEF IInv
<1>12. next' \in 0 .. MaxFresh /\ ops' \in Nat
  BY ONLY <1>1, <1>2, <1>11, LedgerAssumption DEF TypeOK
<1>13. TypeOK'
  BY ONLY <1>1, <1>9, <1>11, <1>12 DEF TypeOK, Ledgers
<1>14. Linked'
  BY ONLY <1>1, <1>4, <1>10 DEF Linked
<1>15. Idle(docs, halfway \cup strayed, recorded \ broken)'
  BY ONLY <1>1, <1>10
<1> QED BY ONLY <1>1, <1>13, <1>14, <1>15 DEF IInv

(* What a deletion or a voiding removes: the trades of the ACTIVE documents*)
(* among those it writes or deletes.                                       *)
LEMMA RemovalBegins ==
    ASSUME IInv, op = None, NEW o \in Operations, o.at = 0, o.calls # <<>>, o.adds = {},
           o.kind = "delete" \/ o.kind = "void",
           \A k \in DOMAIN o.calls :
              /\ docs[o.calls[k].id] # None
              /\ \/ o.calls[k].doc = None
                 \/ /\ Stores(o.calls[k], "VOIDED")
                    /\ o.calls[k].doc.trade = docs[o.calls[k].id].trade
                    /\ Leads(o.calls[k].doc) \subseteq Leads(docs[o.calls[k].id]),
           NEW rec, rec \subseteq recorded,
           \A k \in DOMAIN o.calls : Active(o.calls[k].id) => docs[o.calls[k].id].trade \notin rec
    PROVE  Starts(o, next, rec, strayed)
<1> PICK cs : cs = o.calls
  OBVIOUS
<1>1. /\ next \in Nat /\ next <= MaxFresh /\ strayed \subseteq Trades
      /\ Idle(docs, halfway \cup strayed, recorded \ broken)
  BY AtRest
<1>2. PICK tr \in [Ids -> Trades \cup {None}] : OneTrade(docs, next, tr)
  BY AtRest
<1>3. \A k \in DOMAIN cs : cs[k].id \in Ids
  BY CallsTyped DEF Operations
<1>4. CallsOfTrade(cs, next, tr)
  <2> SUFFICES ASSUME NEW k \in DOMAIN cs
               PROVE  /\ cs[k].id \in Handed(next)
                      /\ cs[k].doc # None => /\ cs[k].doc.trade = tr[cs[k].id]
                                             /\ OfTrade(cs[k].doc, tr, Handed(next))
    BY DEF CallsOfTrade
  <2>1. /\ cs[k].id \in Handed(next) /\ docs[cs[k].id].trade = tr[cs[k].id]
        /\ OfTrade(docs[cs[k].id], tr, Handed(next))
    BY <1>2, <1>3 DEF OneTrade
  <2>2. cs[k].doc # None => /\ cs[k].doc.trade = docs[cs[k].id].trade
                            /\ Leads(cs[k].doc) \subseteq Leads(docs[cs[k].id])
    OBVIOUS
  <2> QED BY ONLY <2>1, <2>2 DEF OfTrade
<1>5. \A k \in DOMAIN cs : \A t \in rec : cs[k].id \notin ActiveIn(docs, t)
  BY DEF ActiveIn, Active
<1>6. Idle(docs, halfway \cup strayed, rec \ broken)
  BY <1>1 DEF Idle
<1>7. Removing(o, docs, halfway \cup strayed, rec, rec \ broken)
  BY <1>5, <1>6 DEF Removing
<1>8. Works(o, docs, rec, halfway, broken, strayed)
  BY <1>7 DEF Works, Writers
<1> QED BY <1>1, <1>2, <1>4, <1>8 DEF Starts

LEMMA RemovalKeeps ==
    ASSUME IInv, NEW kind, kind = "delete" \/ kind = "void", NEW cs \in Seq(Calls), cs # <<>>,
           NEW gone, Begin(kind, cs, 0, {}, gone), strayed' = strayed,
           \A k \in DOMAIN cs :
              /\ docs[cs[k].id] # None
              /\ Active(cs[k].id) => docs[cs[k].id].trade \in gone
              /\ \/ cs[k].doc = None
                 \/ /\ Stores(cs[k], "VOIDED") /\ cs[k].doc.trade = docs[cs[k].id].trade
                    /\ Leads(cs[k].doc) \subseteq Leads(docs[cs[k].id])
    PROVE  IInv'
<1> PICK o : o = [kind |-> kind, calls |-> cs, at |-> 0, adds |-> {}]
  OBVIOUS
<1> PICK rec : rec = recorded \ gone
  OBVIOUS
<1>1. op = None
  BY DEF Begin
<1>2. /\ o \in Operations /\ o.at = 0 /\ o.calls = cs /\ o.adds = {} /\ o.kind = kind
  BY DEF Operations
<1>3. rec \subseteq recorded
  OBVIOUS
<1>4. \A k \in DOMAIN o.calls :
         /\ docs[o.calls[k].id] # None
         /\ \/ o.calls[k].doc = None
            \/ /\ Stores(o.calls[k], "VOIDED")
               /\ o.calls[k].doc.trade = docs[o.calls[k].id].trade
               /\ Leads(o.calls[k].doc) \subseteq Leads(docs[o.calls[k].id])
  BY <1>2
<1>5. \A k \in DOMAIN o.calls : Active(o.calls[k].id) => docs[o.calls[k].id].trade \notin rec
  BY <1>2
<1>6. Starts(o, next, rec, strayed)
  <2>1. o.calls # <<>> /\ (o.kind = "delete" \/ o.kind = "void")
    BY <1>2
  <2> QED BY ONLY IInv, <2>1, <1>1, <1>2, <1>3, <1>4, <1>5, RemovalBegins
<1>7. next = next + 0
  BY <1>1, AtRest
<1> QED BY ONLY IInv, Begin(kind, cs, 0, {}, gone), strayed' = strayed, <1>6, <1>7, Begun,
           rec = recorded \ gone, o = [kind |-> kind, calls |-> cs, at |-> 0, adds |-> {}]

(* Deleting documents.                                                     *)
LEMMA DeletesAre ==
    ASSUME NEW ids \in Seq(Ids), NEW cs, cs = Deletes(ids)
    PROVE  /\ cs \in Seq(Calls) /\ DOMAIN cs = DOMAIN ids /\ Len(cs) = Len(ids)
           /\ \A k \in DOMAIN ids : cs[k].id = ids[k] /\ cs[k].doc = None
<1>1. Len(ids) \in Nat /\ DOMAIN ids = 1 .. Len(ids) /\ \A k \in DOMAIN ids : ids[k] \in Ids
  BY LenProperties
<1>2. \A k \in DOMAIN ids : cs[k] = [id |-> ids[k], doc |-> None]
  BY <1>1 DEF Deletes, Call
<1>3. cs \in [1 .. Len(ids) -> Calls]
  BY <1>1, <1>2 DEF Deletes, Call, Calls
<1>4. cs \in Seq(Calls) /\ Len(cs) = Len(ids) /\ DOMAIN cs = 1 .. Len(ids)
  BY <1>1, <1>3, SeqTyped
<1> QED BY <1>1, <1>2, <1>4

LEMMA DeletionKeeps ==
    ASSUME IInv, NEW ids \in Seq(Ids), ids # <<>>, strayed' = strayed,
           \A k \in DOMAIN ids : docs[ids[k]] # None,
           Begin("delete", Deletes(ids), 0, {},
                 {docs[ids[k]].trade : k \in {m \in DOMAIN ids : Active(ids[m])}})
    PROVE  IInv'
<1> PICK cs, gone : cs = Deletes(ids) /\ gone = {docs[ids[k]].trade : k \in {m \in DOMAIN ids : Active(ids[m])}}
  OBVIOUS
<1>1. /\ cs \in Seq(Calls) /\ DOMAIN cs = DOMAIN ids
      /\ \A k \in DOMAIN ids : cs[k].id = ids[k] /\ cs[k].doc = None
  BY DeletesAre
<1>2. cs # <<>>
  <2>1. DOMAIN ids # {}
    BY EmptySeq
  <2> QED BY <1>1, <2>1
<1>3. \A k \in DOMAIN cs :
         /\ docs[cs[k].id] # None
         /\ Active(cs[k].id) => docs[cs[k].id].trade \in gone
         /\ cs[k].doc = None
  BY <1>1
<1>4. Begin("delete", cs, 0, {}, gone)
  OBVIOUS
<1> PICK kind : kind = "delete"
  OBVIOUS
<1> QED BY ONLY IInv, <1>1, <1>2, <1>3, <1>4, kind = "delete", strayed' = strayed, RemovalKeeps

-----------------------------------------------------------------------------
(* Chains: a document's links lead to documents of its trade.              *)

LEMMA ChainOfOneTrade ==
    ASSUME IInv, op = None, NEW i \in Ids, docs[i] # None
    PROVE  \A j \in Chain(i) : j \in Ids /\ docs[j] # None /\ docs[j].trade = docs[i].trade
<1> PICK S : S = {k \in Ids : docs[k] # None /\ docs[k].trade = docs[i].trade}
  OBVIOUS
<1>1. PICK tr \in [Ids -> Trades \cup {None}] : OneTrade(docs, next, tr)
  BY AtRest
<1>2. None \notin Ids
  <2>1. 1 .. MaxFresh \subseteq Nat
    BY LedgerAssumption
  <2> QED BY <2>1, LedgerAssumption DEF Ids
<1>3. ASSUME NEW k \in S, NEW j \in Links(k) PROVE j \in S
  <2>1. j \in Ids /\ docs[j] # None /\ j # None
    BY <1>2 DEF Links
  <2>2. j = docs[k].corrects \/ j = docs[k].from \/ j = docs[k].superseded_by
    BY DEF Links
  <2>3. j \in Leads(docs[k])
    BY <2>1, <2>2 DEF Leads
  <2>4. k \in Ids /\ docs[k] # None /\ docs[k].trade = docs[i].trade
    OBVIOUS
  <2>5. tr[j] = docs[k].trade /\ docs[j].trade = tr[j]
    BY ONLY <1>1, <2>1, <2>3, <2>4 DEF OneTrade, OfTrade
  <2> QED BY <2>1, <2>4, <2>5
<1>4. S \in SUBSET {k \in Ids : docs[k] # None} /\ i \in S
  OBVIOUS
<1>5. \A k \in S : Links(k) \subseteq S
  BY ONLY <1>3
<1>6. Chain(i) \subseteq S
  BY ONLY <1>4, <1>5 DEF Chain
<1> QED BY <1>6

Reach(ids, i) == \A j \in {i} \cup Chain(i) : \E k \in DOMAIN ids : ids[k] = j

LEMMA ChainFromIs ==
    ASSUME IInv, op = None, NEW i \in Ids, docs[i] # None, NEW ids, ids = ChainFrom(i)
    PROVE  /\ ids \in Seq(Ids) /\ ids # <<>>
           /\ \A k \in DOMAIN ids : docs[ids[k]] # None /\ docs[ids[k]].trade = docs[i].trade
           /\ Reach(ids, i)
<1> PICK S, s, u : S = Chain(i) \ {i} /\ s = <<i>> /\ u = SetToSeq(S)
  OBVIOUS
<1>1. S \in SUBSET Ids /\ \A j \in S : docs[j] # None /\ docs[j].trade = docs[i].trade
  BY ChainOfOneTrade
<1>2. PICK l \in Nat : InOrder(u, l, S)
  BY ONLY <1>1, u = SetToSeq(S), Ordered
<1>3. /\ l = Len(u) /\ u \in Seq(Ids) /\ \A k \in 1 .. l : u[k] \in S
      /\ \A x \in S : \E k \in 1 .. l : u[k] = x
  BY ONLY <1>2 DEF InOrder
<1>4. s \in Seq(Ids) /\ Len(s) = 1 /\ s[1] = i
  OBVIOUS
<1>5. /\ ids \in Seq(Ids) /\ Len(ids) = 1 + l
      /\ \A k \in 1 .. 1 + l : ids[k] = IF k <= 1 THEN s[k] ELSE u[k - 1]
  <2>1. ids = s \o u
    BY DEF ChainFrom
  <2>2. /\ s \o u \in Seq(Ids) /\ Len(s \o u) = Len(s) + Len(u)
        /\ \A k \in 1 .. Len(s) + Len(u) :
              (s \o u)[k] = IF k <= Len(s) THEN s[k] ELSE u[k - Len(s)]
    BY ONLY <1>3, <1>4, ConcatProperties, Zenon
  <2> QED BY ONLY <2>1, <2>2, <1>3, <1>4
<1>6. DOMAIN ids = 1 .. 1 + l
  BY ONLY <1>5, LenProperties
<1>7. ASSUME NEW k \in 1 .. l PROVE k + 1 \in 1 .. 1 + l /\ ids[k + 1] = u[k]
  <2>1. k + 1 \in 1 .. 1 + l /\ ~(k + 1 <= 1) /\ k + 1 - 1 = k
    BY ONLY l \in Nat, k \in 1 .. l
  <2> QED BY ONLY <2>1, <1>5
<1>8. 1 \in 1 .. 1 + l /\ ids[1] = i
  <2>1. 1 \in 1 .. 1 + l
    BY ONLY l \in Nat
  <2> QED BY ONLY <2>1, <1>4, <1>5
<1>9. ASSUME NEW k \in 1 .. 1 + l PROVE ids[k] \in S \cup {i}
  <2>1. CASE k = 1
    BY <2>1, <1>8
  <2>2. CASE k # 1
    <3>1. k - 1 \in 1 .. l /\ ~(k <= 1)
      BY ONLY <2>2, l \in Nat, k \in 1 .. 1 + l
    <3> QED BY ONLY <3>1, <1>3, <1>5, k \in 1 .. 1 + l
  <2> QED BY <2>1, <2>2
<1>10. \A j \in {i} \cup Chain(i) : \E k \in DOMAIN ids : ids[k] = j
  <2> SUFFICES ASSUME NEW j \in {i} \cup Chain(i) PROVE \E k \in DOMAIN ids : ids[k] = j
    OBVIOUS
  <2>1. CASE j = i
    BY <2>1, <1>6, <1>8
  <2>2. CASE j # i
    <3>1. PICK k \in 1 .. l : u[k] = j
      BY <2>2, <1>3
    <3> QED BY ONLY <3>1, <1>6, <1>7
  <2> QED BY <2>1, <2>2
<1>11. \A k \in DOMAIN ids : docs[ids[k]] # None /\ docs[ids[k]].trade = docs[i].trade
  BY ONLY <1>1, <1>6, <1>9, docs[i] # None
<1>12. ids # <<>>
  BY ONLY <1>6, <1>8
<1>13. Reach(ids, i)
  BY ONLY <1>10 DEF Reach
<1> QED BY ONLY <1>5, <1>11, <1>12, <1>13

LEMMA DeleteKeeps ==
    ASSUME IInv, NEW i \in Ids, Delete(i)
    PROVE  IInv'
<1>1. PICK ids \in {<<i>>} \cup (IF Grouped(Chain(i)) THEN {} ELSE {ChainFrom(i)}) :
         Begin("delete", Deletes(ids), 0, {},
               {docs[ids[k]].trade : k \in {m \in DOMAIN ids : Active(ids[m])}})
  BY DEF Delete
<1>2. docs[i] # None /\ strayed' = strayed /\ op = None
  BY <1>1 DEF Delete, Begin
<1>3. ids = <<i>> \/ ids = ChainFrom(i)
  BY <1>1
<1>4. ids \in Seq(Ids) /\ ids # <<>> /\ \A k \in DOMAIN ids : docs[ids[k]] # None
  <2>1. CASE ids = <<i>>
    BY ONLY <2>1, <1>2, i \in Ids
  <2>2. CASE ids = ChainFrom(i)
    BY ONLY IInv, <2>2, <1>2, i \in Ids, ChainFromIs
  <2> QED BY <1>3, <2>1, <2>2
<1> QED BY ONLY IInv, <1>1, <1>2, <1>4, DeletionKeeps

LEMMA DeleteGroupKeeps ==
    ASSUME IInv, NEW g, DeleteGroup(g)
    PROVE  IInv'
<1> PICK S, ids : S = Legs(g) /\ ids = SetToSeq(S)
  OBVIOUS
<1>1. /\ ids # <<>> /\ strayed' = strayed
      /\ Begin("delete", Deletes(ids), 0, {},
               {docs[ids[k]].trade : k \in {m \in DOMAIN ids : Active(ids[m])}})
  BY DEF DeleteGroup
<1>2. S \in SUBSET Ids /\ \A i \in S : docs[i] # None
  BY DEF Legs
<1>3. PICK l \in Nat : InOrder(ids, l, S)
  BY ONLY <1>2, ids = SetToSeq(S), Ordered
<1>4. ids \in Seq(Ids) /\ \A k \in DOMAIN ids : docs[ids[k]] # None
  BY ONLY <1>2, <1>3 DEF InOrder
<1> QED BY ONLY IInv, <1>1, <1>4, DeletionKeeps

LEMMA VoidGroupKeeps ==
    ASSUME IInv, NEW g, NEW a, VoidGroup(g, a)
    PROVE  IInv'
<1> PICK S, legs : S = {i \in Legs(g) : Active(i) /\ docs[i].account \in {a}} /\ legs = SetToSeq(S)
  OBVIOUS
<1> PICK cs : cs = [k \in 1 .. Len(legs) |-> Call(legs[k], [docs[legs[k]] EXCEPT !.status = "VOIDED"])]
  OBVIOUS
<1> PICK gone : gone = {docs[legs[k]].trade : k \in DOMAIN legs}
  OBVIOUS
<1>1. legs # <<>> /\ strayed' = strayed /\ Begin("void", cs, 0, {}, gone)
  BY DEF VoidGroup, ActiveLegs
<1>2. S \in SUBSET Ids /\ \A i \in S : Active(i)
  BY DEF Legs
<1>3. PICK m \in Nat : InOrder(legs, m, S)
  BY ONLY <1>2, legs = SetToSeq(S), Ordered
<1>4. /\ legs \in Seq(Ids) /\ Len(legs) = m /\ DOMAIN legs = 1 .. m
      /\ \A k \in 1 .. m : legs[k] \in Ids /\ Active(legs[k])
  BY ONLY <1>2, <1>3 DEF InOrder
<1>5. docs \in Ledgers
  BY <1>1, AtRest DEF Begin
<1>6. ASSUME NEW k \in 1 .. m
      PROVE  /\ cs[k] \in Calls /\ cs[k].id = legs[k] /\ Stores(cs[k], "VOIDED")
             /\ cs[k].doc.trade = docs[legs[k]].trade
             /\ Leads(cs[k].doc) \subseteq Leads(docs[legs[k]])
  <2> PICK d, i : d = docs[legs[k]] /\ i = legs[k]
    OBVIOUS
  <2> PICK e : e = [d EXCEPT !.status = "VOIDED"]
    OBVIOUS
  <2>1. d \in Movements
    BY <1>4, <1>5 DEF Active, Ledgers
  <2>2. /\ e \in Movements /\ e.status = "VOIDED" /\ e.trade = d.trade /\ e # None
        /\ Leads(e) = Leads(d)
    BY ONLY <2>1, e = [d EXCEPT !.status = "VOIDED"], NoneAssumption DEF Movements, Leads
  <2>3. cs[k] = Call(i, e) /\ i \in Ids
    BY <1>4
  <2> QED BY ONLY <2>2, <2>3, d = docs[legs[k]], i = legs[k] DEF Call, Calls, Stores
<1>7. cs \in [1 .. m -> Calls]
  <2>1. cs = [k \in 1 .. m |-> cs[k]]
    BY <1>4
  <2> QED BY ONLY <2>1, <1>6
<1>8. cs \in Seq(Calls) /\ Len(cs) = m /\ DOMAIN cs = 1 .. m
  BY ONLY <1>7, m \in Nat, SeqTyped
<1>9. cs # <<>>
  <2>1. m # 0
    BY ONLY <1>1, <1>4, EmptySeq
  <2> QED BY ONLY <1>8, <2>1
<1>10. \A k \in DOMAIN cs :
          /\ docs[cs[k].id] # None
          /\ Active(cs[k].id) => docs[cs[k].id].trade \in gone
          /\ \/ cs[k].doc = None
             \/ /\ Stores(cs[k], "VOIDED") /\ cs[k].doc.trade = docs[cs[k].id].trade
                /\ Leads(cs[k].doc) \subseteq Leads(docs[cs[k].id])
  BY ONLY <1>4, <1>6, <1>8, gone = {docs[legs[k]].trade : k \in DOMAIN legs} DEF Active
<1> PICK kind : kind = "void"
  OBVIOUS
<1> QED BY ONLY IInv, <1>1, <1>8, <1>9, <1>10, kind = "void", RemovalKeeps

-----------------------------------------------------------------------------
(* The import of a row, and the session around it. *)

(* The calls of an import: those that delete ids, then the row's.          *)
LEMMA ImportCalls ==
    ASSUME NEW ids \in Seq(Ids), NEW dels, dels \in Seq(Calls), DOMAIN dels = DOMAIN ids,
           \A k \in DOMAIN ids : dels[k].id = ids[k] /\ dels[k].doc = None,
           NEW row \in Calls, NEW cs, cs = dels \o <<row>>
    PROVE  /\ cs \in Seq(Calls) /\ cs # <<>> /\ Len(cs) \in DOMAIN cs /\ cs[Len(cs)] = row
           /\ \A k \in DOMAIN cs : k # Len(cs) =>
                 k \in DOMAIN ids /\ cs[k].id = ids[k] /\ cs[k].doc = None
           /\ \A k \in DOMAIN ids : k \in DOMAIN cs /\ cs[k].id = ids[k]
<1> PICK s, n : s = <<row>> /\ n = Len(dels)
  OBVIOUS
<1>1. s \in Seq(Calls) /\ Len(s) = 1 /\ s[1] = row
  OBVIOUS
<1>2. n \in Nat /\ DOMAIN dels = 1 .. n
  BY LenProperties
<1>3. /\ cs \in Seq(Calls) /\ Len(cs) = n + 1
      /\ \A k \in 1 .. n + 1 : cs[k] = IF k <= n THEN dels[k] ELSE s[k - n]
  <2>1. /\ dels \o s \in Seq(Calls) /\ Len(dels \o s) = Len(dels) + Len(s)
        /\ \A k \in 1 .. Len(dels) + Len(s) :
              (dels \o s)[k] = IF k <= Len(dels) THEN dels[k] ELSE s[k - Len(dels)]
    BY ONLY <1>1, dels \in Seq(Calls), ConcatProperties, Zenon
  <2> QED BY ONLY <2>1, <1>1, cs = dels \o <<row>>, s = <<row>>, n = Len(dels)
<1>4. DOMAIN cs = 1 .. n + 1
  BY ONLY <1>3, LenProperties
<1>5. n + 1 \in 1 .. n + 1 /\ ~(n + 1 <= n) /\ n + 1 - n = 1
  BY ONLY <1>2
<1>6. cs[n + 1] = row
  <2> PICK k : k = n + 1
    OBVIOUS
  <2>1. k \in 1 .. n + 1 /\ ~(k <= n) /\ k - n = 1
    BY <1>5
  <2>2. cs[k] = s[k - n]
    BY ONLY <1>3, <2>1
  <2> QED BY ONLY <2>1, <2>2, <1>1, k = n + 1
<1>7. ASSUME NEW k \in 1 .. n PROVE k \in 1 .. n + 1 /\ cs[k] = dels[k]
  <2>1. k \in 1 .. n + 1 /\ k <= n
    BY ONLY <1>2, k \in 1 .. n
  <2> QED BY ONLY <2>1, <1>3
<1>8. \A k \in 1 .. n + 1 : k # n + 1 => k \in 1 .. n
  BY ONLY <1>2
<1>9. cs # <<>>
  BY ONLY <1>4, <1>5
<1>10. \A k \in 1 .. n : dels[k].id = ids[k] /\ dels[k].doc = None
  BY ONLY <1>2, DOMAIN dels = DOMAIN ids, \A k \in DOMAIN ids : dels[k].id = ids[k] /\ dels[k].doc = None
<1>11. DOMAIN ids = 1 .. n
  BY ONLY <1>2, DOMAIN dels = DOMAIN ids
<1> QED BY ONLY <1>3, <1>4, <1>5, <1>6, <1>7, <1>8, <1>9, <1>10, <1>11

LEMMA ImportKeeps ==
    ASSUME IInv, NEW r \in Rows, Import(r)
    PROVE  IInv'
<1> PICK t, m : t = TradeOf[r] /\ m = Movement(TradeOf[r], AccountOf[r], "BUY", None)
  OBVIOUS
<1> PICK row : row = Call(r, m)
  OBVIOUS
<1> PICK tombstone \in BOOLEAN : tombstone = (docs[r] # None /\ ~Active(r))
  OBVIOUS
<1> PICK ids : ids = IF tombstone THEN ChainFrom(r) ELSE <<>>
  OBVIOUS
<1> PICK dels : dels = IF tombstone THEN Deletes(ChainFrom(r)) ELSE <<>>
  OBVIOUS
<1> PICK cs : cs = dels \o <<row>>
  OBVIOUS
<1> PICK far : far = \E i \in Ids \ ({r} \cup IF tombstone THEN Chain(r) ELSE {}) :
                         docs[i] # None /\ docs[i].trade = t
  OBVIOUS
<1> PICK stray : stray = IF far THEN strayed \cup {t} ELSE strayed
  OBVIOUS
<1> PICK o : o = [kind |-> "import", calls |-> cs, at |-> 0, adds |-> {t}]
  OBVIOUS
<1>1. Begin("import", cs, 0, {t}, {}) /\ strayed' = stray
  BY ONLY Import(r), t = TradeOf[r], m = Movement(TradeOf[r], AccountOf[r], "BUY", None), row = Call(r, m),
          tombstone = (docs[r] # None /\ ~Active(r)), cs = dels \o <<row>>,
          dels = IF tombstone THEN Deletes(ChainFrom(r)) ELSE <<>>,
          far = \E i \in Ids \ ({r} \cup IF tombstone THEN Chain(r) ELSE {}) :
                    docs[i] # None /\ docs[i].trade = t,
          stray = IF far THEN strayed \cup {t} ELSE strayed
     DEF Import
<1>2. op = None
  BY ONLY <1>1 DEF Begin
<1>3. /\ next \in Nat /\ next <= MaxFresh /\ strayed \subseteq Trades
      /\ Idle(docs, halfway \cup strayed, recorded \ broken)
  BY ONLY IInv, <1>2, AtRest
<1>4. r \in Ids /\ r \in Handed(next) /\ t \in Trades /\ AccountOf[r] \in Accounts
  BY LedgerAssumption DEF Ids, Handed
<1>5. PICK tr \in [Ids -> Trades \cup {None}] : OneTrade(docs, next, tr)
  BY ONLY IInv, <1>2, AtRest
<1>6. tr[r] = t /\ (docs[r] # None => docs[r].trade = t)
  BY ONLY <1>4, <1>5, r \in Rows, t = TradeOf[r] DEF OneTrade
<1>7. m \in Movements /\ m # None /\ m.status = "ACTIVE" /\ m.trade = t /\ Leads(m) = {}
  <2> PICK a, g : a = AccountOf[r] /\ g = None
    OBVIOUS
  <2>1. g \in Groups
    BY DEF Groups
  <2>2. m = Movement(t, a, "BUY", g)
    OBVIOUS
  <2>3. t \in Trades /\ a \in Accounts
    BY <1>4
  <2> QED BY ONLY <2>1, <2>2, <2>3, MovementIs
<1>8. row \in Calls /\ row.id = r /\ row.doc = m
  BY ONLY <1>4, <1>7, row = Call(r, m) DEF Call, Calls
<1>9. /\ ids \in Seq(Ids) /\ dels \in Seq(Calls) /\ DOMAIN dels = DOMAIN ids
      /\ \A k \in DOMAIN ids : dels[k].id = ids[k] /\ dels[k].doc = None
      /\ \A k \in DOMAIN ids : docs[ids[k]] # None /\ docs[ids[k]].trade = t
      /\ tombstone => \A j \in {r} \cup Chain(r) : \E k \in DOMAIN ids : ids[k] = j
  <2>1. CASE tombstone
    <3>1. ids = ChainFrom(r) /\ dels = Deletes(ids) /\ docs[r] # None
      BY <2>1
    <3>2. /\ ids \in Seq(Ids)
          /\ \A k \in DOMAIN ids : docs[ids[k]] # None /\ docs[ids[k]].trade = docs[r].trade
          /\ \A j \in {r} \cup Chain(r) : \E k \in DOMAIN ids : ids[k] = j
      <4>1. r \in Ids /\ docs[r] # None /\ ids = ChainFrom(r)
        BY ONLY <3>1, <1>4
      <4>2. ids \in Seq(Ids)
        BY ONLY IInv, <1>2, <4>1, ChainFromIs
      <4>3. \A k \in DOMAIN ids : docs[ids[k]] # None /\ docs[ids[k]].trade = docs[r].trade
        BY ONLY IInv, <1>2, <4>1, ChainFromIs
      <4>4. Reach(ids, r)
        BY ONLY IInv, <1>2, <4>1, ChainFromIs
      <4> QED BY ONLY <4>2, <4>3, <4>4 DEF Reach
    <3>3. /\ dels \in Seq(Calls) /\ DOMAIN dels = DOMAIN ids
          /\ \A k \in DOMAIN ids : dels[k].id = ids[k] /\ dels[k].doc = None
      BY ONLY <3>1, <3>2, DeletesAre
    <3> QED BY ONLY <3>1, <3>2, <3>3, <1>6
  <2>2. CASE ~tombstone
    <3>1. ids = <<>> /\ dels = <<>>
      BY <2>2
    <3> QED BY ONLY <3>1, <2>2
  <2> QED BY ONLY <2>1, <2>2, tombstone \in BOOLEAN
<1>10. /\ cs \in Seq(Calls) /\ cs # <<>> /\ Len(cs) \in DOMAIN cs /\ cs[Len(cs)] = row
       /\ \A k \in DOMAIN cs : k # Len(cs) =>
             k \in DOMAIN ids /\ cs[k].id = ids[k] /\ cs[k].doc = None
       /\ \A k \in DOMAIN ids : k \in DOMAIN cs /\ cs[k].id = ids[k]
  BY ONLY <1>8, <1>9, cs = dels \o <<row>>, ImportCalls
<1>11. \A k \in DOMAIN cs : cs[k].id \in Ids /\ k \in Nat /\ k > 0
  <2>1. DOMAIN cs = 1 .. Len(cs) /\ \A k \in DOMAIN cs : cs[k].id \in Ids /\ k \in Nat
    BY ONLY <1>10, CallsTyped
  <2> QED BY ONLY <2>1
<1>12. o \in Operations /\ o.at = 0 /\ o.calls = cs /\ o.kind = "import" /\ o.adds = {t}
  BY ONLY <1>4, <1>10, o = [kind |-> "import", calls |-> cs, at |-> 0, adds |-> {t}] DEF Operations
<1>13. stray \subseteq Trades /\ strayed \subseteq stray
  BY ONLY <1>3, <1>4, stray = IF far THEN strayed \cup {t} ELSE strayed
<1>14. ASSUME NEW k \in DOMAIN cs
       PROVE  docs[cs[k].id] = None \/ docs[cs[k].id].trade = t
  <2>1. CASE k = Len(cs)
    BY ONLY <2>1, <1>6, <1>8, <1>10
  <2>2. CASE k # Len(cs)
    BY ONLY <2>2, <1>9, <1>10, k \in DOMAIN cs
  <2> QED BY <2>1, <2>2
<1>15. ASSUME t \notin halfway \cup stray, NEW i \in ActiveIn(docs, t)
       PROVE  \E k \in DOMAIN cs : cs[k].id = i
  <2>1. i \in Ids /\ docs[i] # None /\ docs[i].trade = t
    BY ONLY <1>15 DEF ActiveIn
  <2>2. ~far
    BY ONLY <1>15, stray = IF far THEN strayed \cup {t} ELSE strayed
  <2>3. i \in {r} \cup IF tombstone THEN Chain(r) ELSE {}
    BY ONLY <2>1, <2>2, far = \E j \in Ids \ ({r} \cup IF tombstone THEN Chain(r) ELSE {}) :
                                  docs[j] # None /\ docs[j].trade = t
  <2>4. CASE i = r
    BY ONLY <2>4, <1>8, <1>10
  <2>5. CASE i # r
    <3>1. tombstone /\ i \in Chain(r)
      BY ONLY <2>3, <2>5, tombstone \in BOOLEAN
    <3> QED BY ONLY <3>1, <1>9, <1>10
  <2> QED BY <2>4, <2>5
<1>16. PurgingOf(t, o, docs, halfway \cup stray, recorded \ broken)
  <2>1. \A k \in DOMAIN cs : IF k = Len(cs) THEN Stores(cs[k], "ACTIVE") /\ cs[k].doc.trade = t
                             ELSE cs[k].doc = None
    BY ONLY <1>7, <1>8, <1>10 DEF Stores
  <2>2. Idle(docs, (halfway \cup stray) \cup {t}, (recorded \ broken) \ {t})
    BY ONLY <1>3, <1>13 DEF Idle
  <2> QED BY ONLY <2>1, <2>2, <1>11, <1>12, <1>14, <1>15 DEF PurgingOf
<1>17. Works(o, docs, recorded, halfway, broken, stray)
  <2>1. Purging(o, docs, halfway \cup stray, recorded \ broken)
    BY ONLY <1>4, <1>16 DEF Purging
  <2> QED BY ONLY <2>1, <1>12 DEF Works, Writers
<1>18. CallsOfTrade(cs, next, tr)
  <2> SUFFICES ASSUME NEW k \in DOMAIN cs
               PROVE  /\ cs[k].id \in Handed(next)
                      /\ cs[k].doc # None => /\ cs[k].doc.trade = tr[cs[k].id]
                                             /\ OfTrade(cs[k].doc, tr, Handed(next))
    BY DEF CallsOfTrade
  <2>1. CASE k = Len(cs)
    BY ONLY <2>1, <1>4, <1>6, <1>7, <1>8, <1>10 DEF OfTrade
  <2>2. CASE k # Len(cs)
    <3>1. docs[cs[k].id] # None /\ cs[k].doc = None
      BY ONLY <2>2, <1>9, <1>10, k \in DOMAIN cs
    <3>2. cs[k].id \in Handed(next)
      BY ONLY <3>1, <1>5, <1>11, k \in DOMAIN cs DEF OneTrade
    <3> QED BY ONLY <3>1, <3>2
  <2> QED BY <2>1, <2>2
<1>19. Starts(o, next, recorded, stray)
  BY ONLY <1>3, <1>5, <1>10, <1>12, <1>13, <1>17, <1>18 DEF Starts
<1>20. next = next + 0 /\ recorded = recorded \ {}
  BY <1>3
<1> QED BY ONLY IInv, <1>1, <1>19, <1>20, Begun,
           o = [kind |-> "import", calls |-> cs, at |-> 0, adds |-> {t}]

(* Steps of the session itself.                                            *)
LEMMA Undisturbed ==
    ASSUME IInv, UNCHANGED <<docs, next, op, history, ops>>, faults' \in Nat
    PROVE  IInv'
<1>1. /\ docs' = docs /\ next' = next /\ op' = op /\ ops' = ops
      /\ recorded' = recorded /\ halfway' = halfway /\ broken' = broken /\ strayed' = strayed
  BY DEF history
<1>2. TypeOK'
  BY <1>1 DEF IInv, TypeOK
<1>3. Linked'
  BY <1>1 DEF IInv, Linked
<1> QED BY <1>1, <1>2, <1>3 DEF IInv

-----------------------------------------------------------------------------
(* Every step. *)

LEMMA OperationKeeps ==
    ASSUME IInv, Operation
    PROVE  IInv'
<1>1. CASE \E t \in Trades, a \in Accounts : Create(t, a)
  BY ONLY IInv, <1>1, CreateKeeps
<1>2. CASE \E i \in Ids : Correct(i) \/ Delete(i) \/ \E a \in Accounts : Reassign(i, a)
  BY ONLY IInv, <1>2, CorrectKeeps, DeleteKeeps, ReassignKeeps
<1>3. CASE \E a, b \in Accounts : BatchReassign(a, b)
  BY ONLY IInv, <1>3, BatchKeeps
<1>4. CASE \E t, u \in Trades, a, b \in Accounts : Transfer(t, u, a, b)
  BY ONLY IInv, <1>4, TransferKeeps
<1>5. CASE \E t, u \in Trades, a \in Accounts : CreateGroup(t, u, a)
  BY ONLY IInv, <1>5, CreateGroupKeeps
<1>6. CASE \E g \in 1 .. MaxFresh : \/ \E a \in Accounts : VoidGroup(g, a)
                                    \/ DeleteGroup(g) \/ CorrectGroup(g) \/ CorrectGroupAtomically(g)
  BY ONLY IInv, <1>6, VoidGroupKeeps, DeleteGroupKeeps, CorrectGroupKeeps, CorrectGroupAtomicallyKeeps
<1> QED BY ONLY Operation, <1>1, <1>2, <1>3, <1>4, <1>5, <1>6 DEF Operation

LEMMA SessionKeeps ==
    ASSUME IInv, \/ \E r \in Rows : Answer(r) \/ CommitRow(r)
                 \/ Preview \/ BeginCommit \/ EndCommit \/ UploadAgain \/ RestartCommit
                 \/ UNCHANGED importVars
    PROVE  IInv'
<1>0. faults \in Nat
  BY DEF IInv, TypeOK
<1>1. CASE UNCHANGED ledgerVars
  <2>1. UNCHANGED <<docs, next, op, history, ops>> /\ faults' \in Nat
    BY ONLY <1>0, <1>1 DEF ledgerVars
  <2> QED BY ONLY IInv, <2>1, Undisturbed
<1>2. ASSUME NEW r \in Rows, CommitRow(r) PROVE IInv'
  <2>1. UNCHANGED ledgerVars \/ Import(r)
    BY ONLY <1>2 DEF CommitRow
  <2>2. CASE Import(r)
    BY ONLY IInv, <2>2, r \in Rows, ImportKeeps
  <2> QED BY <1>1, <2>1, <2>2
<1>3. CASE RestartCommit
  <2>1. UNCHANGED <<docs, next, op, history, ops>> /\ faults' \in Nat
    BY ONLY <1>0, <1>3 DEF RestartCommit
  <2> QED BY ONLY IInv, <2>1, Undisturbed
<1>4. CASE \/ \E r \in Rows : Answer(r)
           \/ Preview \/ BeginCommit \/ EndCommit \/ UploadAgain
  <2>1. UNCHANGED ledgerVars
    BY ONLY <1>4 DEF Answer, Save, Preview, BeginCommit, EndCommit, UploadAgain
  <2> QED BY <1>1, <2>1
<1>5. CASE UNCHANGED importVars
  BY <1>1, <1>5 DEF importVars
<1> QED BY <1>2, <1>3, <1>4, <1>5

LEMMA InitHolds == ImportInit => IInv
<1> SUFFICES ASSUME ImportInit PROVE IInv
  OBVIOUS
<1>1. /\ docs = [i \in Ids |-> None] /\ next = 0 /\ op = None
      /\ recorded = {} /\ halfway = {} /\ broken = {} /\ strayed = {} /\ ops = 0 /\ faults = 0
  BY DEF ImportInit, LedgerInit
<1>2. \A i \in Ids : docs[i] = None
  BY ONLY <1>1
<1>3. 0 \in 0 .. MaxFresh
  BY LedgerAssumption
<1>4. TypeOK
  BY ONLY <1>1, <1>3 DEF TypeOK
<1> PICK tr : tr = [i \in Ids |-> IF i \in Rows THEN TradeOf[i] ELSE None]
  OBVIOUS
<1>5. tr \in [Ids -> Trades \cup {None}] /\ \A r \in Rows : tr[r] = TradeOf[r]
  BY LedgerAssumption DEF Ids
<1>6. OneTrade(docs, next, tr)
  BY ONLY <1>2, <1>5 DEF OneTrade
<1>7. Linked
  BY ONLY <1>1, <1>5, <1>6 DEF Linked
<1>8. Idle(docs, halfway \cup strayed, recorded \ broken)
  BY ONLY <1>1, <1>2 DEF Idle, ActiveIn, Single
<1> QED BY ONLY <1>1, <1>4, <1>7, <1>8 DEF IInv

LEMMA NextHolds == IInv /\ [ImportNext]_importVars => IInv'
<1> SUFFICES ASSUME IInv, [ImportNext]_importVars PROVE IInv'
  OBVIOUS
<1>1. CASE Operation
  BY ONLY IInv, <1>1, OperationKeeps
<1>2. CASE Step
  BY ONLY IInv, <1>2, StepKeeps
<1>3. CASE Fail
  BY ONLY IInv, <1>3, FailKeeps
<1>4. CASE Crash
  BY ONLY IInv, <1>4, CrashKeeps
<1>5. CASE \/ \E r \in Rows : Answer(r) \/ CommitRow(r)
           \/ Preview \/ BeginCommit \/ EndCommit \/ UploadAgain \/ RestartCommit
           \/ UNCHANGED importVars
  BY ONLY IInv, <1>5, SessionKeeps
<1> QED BY ONLY [ImportNext]_importVars, <1>1, <1>2, <1>3, <1>4, <1>5 DEF ImportNext

LEMMA LedgerInvariant == LedgerSpec => []IInv
BY InitHolds, NextHolds, PTL DEF LedgerSpec

-----------------------------------------------------------------------------
LEMMA ActiveOfIs == \A t : ActiveOf(t) = ActiveIn(docs, t)
BY DEF ActiveOf, Active, ActiveIn

(* Between operations of the ledger a trade has at most one ACTIVE         *)
(* document, through corrections, reassignments, transfers, corporate      *)
(* actions, deletions, rollbacks, purges and repeated imports, whatever    *)
(* calls failed; a trade an operation was interrupted on, and one imported *)
(* beside documents its row does not lead to, are the exceptions.          *)
THEOREM TradesCountedOnce == LedgerSpec => []CountedOnce
<1>1. IInv => CountedOnce
  <2> SUFFICES ASSUME IInv, op = None, NEW t \in Trades \ (halfway \cup strayed)
               PROVE  Cardinality(ActiveOf(t)) <= 1
    BY DEF CountedOnce
  <2> PICK S : S = ActiveIn(docs, t)
    OBVIOUS
  <2>1. Single(S)
    BY AtRest DEF Idle
  <2>2. ActiveOf(t) = S
    BY ActiveOfIs
  <2>3. CASE S = {}
    <3>1. Cardinality(S) = 0
      BY <2>3, FS_EmptySet
    <3> QED BY ONLY <3>1, <2>2
  <2>4. CASE S # {}
    <3>1. PICK i \in S : TRUE
      BY <2>4
    <3>2. S = {i}
      BY <2>1 DEF Single
    <3>3. Cardinality(S) = 1
      BY <3>2, FS_Singleton
    <3> QED BY ONLY <3>3, <2>2
  <2> QED BY <2>3, <2>4
<1> QED BY LedgerInvariant, <1>1, PTL

(* A trade that was acknowledged has an ACTIVE document until it is        *)
(* removed, between any two calls of any operation, however calls fail and *)
(* whenever the process dies; the exceptions are what the code deletes     *)
(* before it writes.                                                       *)
THEOREM TradesNeverLost == LedgerSpec => []NeverLost
<1>1. IInv => NeverLost
  <2> SUFFICES ASSUME IInv, NEW t \in recorded \ broken, ActiveIn(docs, t) = {}
               PROVE  op # None /\ DeletesFirst(op.kind) /\ t \in TradesIn(op.calls)
    BY ActiveOfIs DEF NeverLost
  <2>1. op # None
    BY AtRest DEF Idle
  <2>2. Works(op, docs, recorded, halfway, broken, strayed) /\ op \in Operations
    BY <2>1, AtWork
  <2> PICK o, cs : o = op /\ cs = op.calls
    OBVIOUS
  <2>3. ~(o.kind \in Writers)
    BY ONLY <2>2, o = op, t \in recorded \ broken, ActiveIn(docs, t) = {} DEF Works, Writing
  <2>4. ~(o.kind \in {"delete", "void"})
    BY ONLY <2>2, o = op, t \in recorded \ broken, ActiveIn(docs, t) = {} DEF Works, Removing, Idle
  <2>5. CASE o.kind = "import"
    <3>1. PICK s \in Trades : PurgingOf(s, o, docs, halfway \cup strayed, recorded \ broken)
      BY ONLY <2>2, <2>5, o = op DEF Works, Purging
    <3>2. s = t
      BY ONLY <3>1, t \in recorded \ broken, ActiveIn(docs, t) = {} DEF PurgingOf, Idle
    <3>3. Len(cs) \in DOMAIN cs
      <4>1. op.at < Len(cs) /\ op.at \in Nat /\ Len(cs) \in Nat /\ DOMAIN cs = 1 .. Len(cs)
        BY <2>1, AtWork, CallsTyped
      <4> QED BY ONLY <4>1
    <3>4. Stores(cs[Len(cs)], "ACTIVE") /\ cs[Len(cs)].doc.trade = t
      BY ONLY <3>1, <3>2, <3>3, cs = op.calls, o = op DEF PurgingOf
    <3>5. t \in TradesIn(cs)
      BY ONLY <3>3, <3>4 DEF TradesIn, Stores
    <3> QED BY <2>1, <2>5, <3>5 DEF DeletesFirst
  <2>6. CASE o.kind = "undo"
    <3>1. \E m \in Restores(cs, t) : m > o.at
      BY ONLY <2>2, <2>6, o = op, cs = op.calls, t \in recorded \ broken, ActiveIn(docs, t) = {}
         DEF Works, Undoing
    <3>2. PICK m \in DOMAIN cs : cs[m].doc # None /\ cs[m].doc.trade = t
      BY ONLY <3>1 DEF Restores
    <3>3. t \in TradesIn(cs)
      BY ONLY <3>2 DEF TradesIn
    <3> QED BY <2>1, <2>6, <3>3 DEF DeletesFirst
  <2> QED BY <2>2, <2>3, <2>4, <2>5, <2>6, Kinds
<1> QED BY LedgerInvariant, <1>1, PTL

(* The ledger's variables keep their types: documents lead to documents of *)
(* the ledger, and the operation at work has calls left to make.           *)
THEOREM LedgerTyped == LedgerSpec => []TypeOK
<1>1. IInv => TypeOK
  BY DEF IInv
<1> QED BY LedgerInvariant, <1>1, PTL
=============================================================================
