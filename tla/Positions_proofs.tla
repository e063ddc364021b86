--------------------------- MODULE Positions_proofs ---------------------------
(***************************************************************************)
(* Theorems of symbol documents and of the monitors of their positions,    *)
(* for any ids, strikes and expirations, any number of writes, runs and    *)
(* seconds and of copies held at one time.                                 *)
(*                                                                         *)
(* First the document: its type, that a roll leaves one successor and that *)
(* a correction undoes nothing.  A copy that was read long ago may replace *)
(* it at any time, so what is claimed of the document has to hold of every *)
(* copy as well.                                                           *)
(*                                                                         *)
(* Then the monitors: whatever the interleaving of runs, scores,           *)
(* corrections, rolls and replaces of old copies, an observation that is   *)
(* shown or scored is of the position's present contract, unless the agent *)
(* that made it named that one itself; no snapshot has the score of        *)
(* another expiration; and what is decided holds.                          *)
(***************************************************************************)
EXTENDS PositionMonitor, TLAPS

-----------------------------------------------------------------------------
(* What holds of the document and of every copy: its ids, and the ids it   *)
(* names as predecessors, were handed out (ids), and a roll has one        *)
(* successor.                                                              *)
Linked(d) ==
    \A q \in DOMAIN d :
        d[q].from # None /\ d[q].from \in DOMAIN d =>
            d[d[q].from].to = q /\ d[d[q].from].status # "active"

Sound(d, ids) ==
    /\ Document(d)
    /\ \A q \in DOMAIN d : q \in ids /\ (d[q].from # None => d[q].from \in ids)
    /\ Linked(d)

(* What a correction of p may change.                                      *)
Keeps(d, new, p) ==
    /\ p \in DOMAIN d
    /\ DOMAIN new = DOMAIN d
    /\ \A q \in DOMAIN d :
          IF q = p
          THEN /\ new[q].status = d[q].status
               /\ new[q].to = d[q].to
               /\ new[q].contract.strike = d[q].contract.strike
                    \/ new[q].contract.expiration = d[q].contract.expiration
          ELSE new[q] = d[q]

(* A pending correction is conditional, and while the version it read is   *)
(* the stored one, what it read is what is stored.                         *)
Correcting(copy, d, version) ==
    copy.step = "correct" =>
        /\ copy.match
        /\ Keeps(copy.base, copy.new, copy.id)
        /\ copy.read = version /\ d # None => copy.base = d

CopyOK(copy, d, version, ids) ==
    Pending(copy, version) /\ Sound(copy.new, ids) /\ Correcting(copy, d, version)

IInv ==
    /\ TypeOK
    /\ doc # None => Sound(doc, used)
    /\ web # None => CopyOK(web, doc, etag, used)
    /\ \A w \in Writers :
          slow[w] # None => CopyOK(slow[w], doc, etag, used) /\ slow[w].step # "correct"

-----------------------------------------------------------------------------
(* The operations on a copy keep it sound. *)

LEMMA MoreIds ==
    ASSUME NEW d, NEW ids, NEW more, Sound(d, ids), ids \subseteq more
    PROVE  Sound(d, more)
  BY DEF Sound

(* The entry of a new position.                                            *)
LEMMA NewEntry ==
    ASSUME NEW kind \in Kinds, NEW c \in Contracts, NEW r,
           r = [kind |-> kind, status |-> "active", contract |-> c, from |-> None,
                to |-> None, expirationAt |-> 0, strikeAt |-> 0]
    PROVE  r \in Position /\ r.from = None
  BY PositionsAssumption DEF Position

LEMMA Added ==
    ASSUME NEW d, NEW ids, ids \subseteq Ids, NEW p \in Ids \ ids, NEW kind \in Kinds,
           NEW c \in Contracts, Sound(d, ids), NEW new, new = WithPosition(d, p, kind, c)
    PROVE  Sound(new, ids \cup {p})
<1> PICK r : r = [kind |-> kind, status |-> "active", contract |-> c, from |-> None,
                  to |-> None, expirationAt |-> 0, strikeAt |-> 0]
  OBVIOUS
<1>1. p \notin DOMAIN d /\ d \in [DOMAIN d -> Position] /\ r \in Position /\ r.from = None
  BY NewEntry DEF Sound, Document
<1>2. /\ DOMAIN new = DOMAIN d \cup {p}
      /\ \A q \in DOMAIN d : new[q] = d[q] /\ q # p
      /\ new[p].from = None
      /\ new \in [DOMAIN d \cup {p} -> Position]
  <2>1. new = [q \in DOMAIN d \cup {p} |-> IF q \in DOMAIN d THEN d[q] ELSE r]
    BY DEF WithPosition
  <2> QED BY ONLY <1>1, <2>1
<1>3. Linked(new)
  <2> SUFFICES ASSUME NEW q \in DOMAIN new, new[q].from # None, new[q].from \in DOMAIN new
               PROVE  new[new[q].from].to = q /\ new[new[q].from].status # "active"
    BY DEF Linked
  <2>1. q \in DOMAIN d /\ new[q] = d[q]
    BY <1>2
  <2>2. d[q].from \in DOMAIN d
    BY <2>1, <1>2 DEF Sound
  <2> QED BY <2>1, <2>2, <1>2 DEF Sound, Linked
<1>4. \A q \in DOMAIN new : q \in ids \cup {p} /\ (new[q].from # None => new[q].from \in ids \cup {p})
  BY <1>2 DEF Sound
<1> QED BY <1>2, <1>3, <1>4 DEF Sound, Document

LEMMA RolledIsSound ==
    ASSUME NEW d, NEW ids, ids \subseteq Ids, NEW p, NEW new \in Ids \ ids,
           NEW kind \in Kinds, NEW c \in Contracts, Sound(d, ids), CanRoll(d, p)
    PROVE  Sound(Rolled(d, p, new, kind, c), ids \cup {new})
<1> DEFINE e == WithPosition(d, new, kind, c)
           r == Rolled(d, p, new, kind, c)
<1>0. p \in DOMAIN d /\ d[p].status = "active" /\ p \in ids /\ d \in [DOMAIN d -> Position]
  BY DEF CanRoll, Sound, Document
<1>1. d[p] \in Position
  BY <1>0 DEF Position
<1> PICK z : z = [kind |-> kind, status |-> "active", contract |-> c, from |-> None,
                  to |-> None, expirationAt |-> 0, strikeAt |-> 0]
  OBVIOUS
<1>2. /\ DOMAIN e = DOMAIN d \cup {new}
      /\ e[new].from = None
      /\ \A q \in DOMAIN d : e[q] = d[q] /\ q # new
      /\ e \in [DOMAIN d \cup {new} -> Position]
  <2>1. e = [q \in DOMAIN d \cup {new} |-> IF q \in DOMAIN d THEN d[q] ELSE z]
    BY DEF WithPosition
  <2>2. new \notin DOMAIN d /\ z \in Position /\ z.from = None
    BY <1>1, NewEntry DEF Sound
  <2> HIDE DEF e
  <2> QED BY ONLY <1>0, <2>1, <2>2
<1> HIDE DEF e
<1>3. r = [e EXCEPT ![p].status = "rolled", ![p].to = new, ![new].from = p]
  BY DEF r, e, Rolled
<1> HIDE DEF r
<1>4. /\ DOMAIN r = DOMAIN d \cup {new}
      /\ r[p] = [d[p] EXCEPT !.status = "rolled", !.to = new]
      /\ r[new] = [e[new] EXCEPT !.from = p]
      /\ \A q \in DOMAIN d \ {p} : r[q] = d[q]
      /\ r = [q \in DOMAIN d \cup {new} |-> r[q]]
  BY <1>0, <1>2, <1>3
<1>5. /\ r[p].from = d[p].from /\ r[p].to = new /\ r[p].status = "rolled"
      /\ r[p] \in Position
  BY <1>0, <1>1, <1>4 DEF Position
<1>6. r[new].from = p /\ r[new] \in Position
  BY <1>0, <1>2, <1>4, Sound(d, ids), ids \subseteq Ids DEF Position
<1>7. Document(r)
  BY <1>0, <1>4, <1>5, <1>6, Sound(d, ids) DEF Sound, Document
<1>8. Linked(r)
  <2> SUFFICES ASSUME NEW q \in DOMAIN r, r[q].from # None, r[q].from \in DOMAIN r
               PROVE  r[r[q].from].to = q /\ r[r[q].from].status # "active"
    BY DEF Linked
  <2>1. CASE q = new
    BY <1>5, <1>6, <2>1
  <2>2. CASE q # new
    <3>1. q \in DOMAIN d /\ r[q].from = d[q].from
      BY <1>4, <1>5, <2>2
    <3>2. d[q].from \in DOMAIN d
      BY <3>1, <1>4, Sound(d, ids) DEF Sound
    <3>3. d[d[q].from].to = q /\ d[d[q].from].status # "active"
      BY <3>1, <3>2, Sound(d, ids) DEF Sound, Linked
    <3> QED BY <3>1, <3>2, <3>3, <1>0, <1>4
  <2> QED BY <2>1, <2>2
<1>9. \A q \in DOMAIN r : q \in ids \cup {new} /\ (r[q].from # None => r[q].from \in ids \cup {new})
  BY <1>0, <1>4, <1>5, <1>6, Sound(d, ids) DEF Sound
<1> QED BY <1>7, <1>8, <1>9 DEF Sound, r

LEMMA ClosedIsSound ==
    ASSUME NEW d, NEW ids, NEW p \in DOMAIN d, Sound(d, ids)
    PROVE  Sound(Closed(d, p), ids)
<1> DEFINE c == Closed(d, p)
<1>0. d \in [DOMAIN d -> Position] /\ d[p] \in Position
  BY DEF Sound, Document
<1>1. /\ DOMAIN c = DOMAIN d
      /\ c[p] = [d[p] EXCEPT !.status = "closed"]
      /\ \A q \in DOMAIN d \ {p} : c[q] = d[q]
      /\ c = [q \in DOMAIN d |-> c[q]]
  BY <1>0 DEF Closed
<1> HIDE DEF c
<1>2. c[p] \in Position /\ c[p].from = d[p].from /\ c[p].to = d[p].to /\ c[p].status = "closed"
  BY <1>0, <1>1 DEF Position
<1>3. Document(c)
  BY <1>0, <1>1, <1>2, Sound(d, ids) DEF Sound, Document
<1>4. Linked(c)
  <2> SUFFICES ASSUME NEW q \in DOMAIN c, c[q].from # None, c[q].from \in DOMAIN c
               PROVE  c[c[q].from].to = q /\ c[c[q].from].status # "active"
    BY DEF Linked
  <2>1. q \in DOMAIN d /\ c[q].from = d[q].from
    BY <1>1, <1>2
  <2>2. d[d[q].from].to = q /\ d[d[q].from].status # "active"
    BY <1>1, <2>1, Sound(d, ids) DEF Sound, Linked
  <2>3. CASE d[q].from = p
    BY <1>1, <1>2, <2>1, <2>2, <2>3
  <2>4. CASE d[q].from # p
    BY <1>1, <2>1, <2>2, <2>4
  <2> QED BY <2>3, <2>4
<1> QED BY <1>1, <1>2, <1>3, <1>4, Sound(d, ids) DEF Sound, c

LEMMA WithoutIsSound ==
    ASSUME NEW d, NEW ids, NEW p, Sound(d, ids)
    PROVE  Sound(Without(d, p), ids)
  BY DEF Sound, Document, Linked, Without, Restrict

(* A correction changes one half of one contract, and when.                *)
LEMMA Correction ==
    ASSUME NEW d, NEW ids, NEW p \in DOMAIN d, Sound(d, ids), NEW new,
           new \in [DOMAIN d -> Position],
           \A q \in DOMAIN d \ {p} : new[q] = d[q],
           new[p].from = d[p].from, new[p].to = d[p].to, new[p].status = d[p].status,
           new[p].contract.strike = d[p].contract.strike
             \/ new[p].contract.expiration = d[p].contract.expiration
    PROVE  Sound(new, ids) /\ Keeps(d, new, p)
<1>1. Keeps(d, new, p)
  BY DEF Keeps
<1>2. Linked(new)
  BY DEF Sound, Linked
<1> QED BY <1>1, <1>2 DEF Sound, Document

LEMMA ExpirationIsSound ==
    ASSUME NEW d, NEW ids, NEW p \in DOMAIN d, NEW e \in Expirations, Sound(d, ids),
           now \in 1 .. MaxNow
    PROVE  Sound(WithExpiration(d, p, e), ids) /\ Keeps(d, WithExpiration(d, p, e), p)
<1> DEFINE new == WithExpiration(d, p, e)
<1>0. d \in [DOMAIN d -> Position] /\ d[p] \in Position /\ d[p].contract \in Contracts
  BY DEF Sound, Document, Position
<1>1. /\ DOMAIN new = DOMAIN d
      /\ new[p] = [d[p] EXCEPT !.contract = [@ EXCEPT !.expiration = e], !.expirationAt = now]
      /\ \A q \in DOMAIN d \ {p} : new[q] = d[q]
      /\ new = [q \in DOMAIN d |-> new[q]]
  BY <1>0 DEF WithExpiration, Position
<1> HIDE DEF new
<1>2. /\ new[p].from = d[p].from /\ new[p].to = d[p].to /\ new[p].status = d[p].status
      /\ new[p].contract = [d[p].contract EXCEPT !.expiration = e]
  BY <1>0, <1>1 DEF Position
<1>3. new[p].contract \in Contracts /\ new[p].contract.strike = d[p].contract.strike
  BY <1>0, <1>2 DEF Contracts
<1>4. now \in 0 .. MaxNow
  BY PositionsAssumption
<1>5. new[p] \in Position
  <2>1. new[p] = [d[p] EXCEPT !.contract = new[p].contract, !.expirationAt = now]
    BY <1>0, <1>1, <1>2 DEF Position
  <2> QED BY <2>1, <1>0, <1>3, <1>4 DEF Position
<1>6. new \in [DOMAIN d -> Position]
  BY <1>0, <1>1, <1>5
<1> QED BY <1>1, <1>2, <1>3, <1>6, Correction DEF new

LEMMA StrikeIsSound ==
    ASSUME NEW d, NEW ids, NEW p \in DOMAIN d, NEW s \in Strikes, Sound(d, ids),
           now \in 1 .. MaxNow
    PROVE  Sound(WithStrike(d, p, s), ids) /\ Keeps(d, WithStrike(d, p, s), p)
<1> DEFINE new == WithStrike(d, p, s)
<1>0. d \in [DOMAIN d -> Position] /\ d[p] \in Position /\ d[p].contract \in Contracts
  BY DEF Sound, Document, Position
<1>1. /\ DOMAIN new = DOMAIN d
      /\ new[p] = [d[p] EXCEPT !.contract = [@ EXCEPT !.strike = s], !.strikeAt = now]
      /\ \A q \in DOMAIN d \ {p} : new[q] = d[q]
      /\ new = [q \in DOMAIN d |-> new[q]]
  BY <1>0 DEF WithStrike, Position
<1> HIDE DEF new
<1>2. /\ new[p].from = d[p].from /\ new[p].to = d[p].to /\ new[p].status = d[p].status
      /\ new[p].contract = [d[p].contract EXCEPT !.strike = s]
  BY <1>0, <1>1 DEF Position
<1>3. new[p].contract \in Contracts /\ new[p].contract.expiration = d[p].contract.expiration
  BY <1>0, <1>2 DEF Contracts
<1>4. now \in 0 .. MaxNow
  BY PositionsAssumption
<1>5. new[p] \in Position
  <2>1. new[p] = [d[p] EXCEPT !.contract = new[p].contract, !.strikeAt = now]
    BY <1>0, <1>1, <1>2 DEF Position
  <2> QED BY <2>1, <1>0, <1>3, <1>4 DEF Position
<1>6. new \in [DOMAIN d -> Position]
  BY <1>0, <1>1, <1>5
<1> QED BY <1>1, <1>2, <1>3, <1>6, Correction DEF new

-----------------------------------------------------------------------------
(* The steps. *)

(* A copy that is held stays good while the document moves on.             *)
LEMMA Stays ==
    ASSUME NEW copy, NEW d, NEW version \in Nat, NEW ids, CopyOK(copy, d, version, ids),
           NEW e, NEW next \in Nat, NEW more,
           version <= next, next = version => e = d, ids \subseteq more
    PROVE  CopyOK(copy, e, next, more)
<1>1. Pending(copy, next)
  BY DEF CopyOK, Pending
<1>2. Sound(copy.new, more)
  BY MoreIds DEF CopyOK
<1>3. Correcting(copy, e, next)
  BY DEF CopyOK, Pending, Correcting
<1> QED BY <1>1, <1>2, <1>3 DEF CopyOK

(* What a step does to the document and the ids, the copies survive it.    *)
Moves ==
    /\ etag' \in Nat /\ etag <= etag'
    /\ etag' = etag => doc' = doc
    /\ used \subseteq used' /\ used' \subseteq Ids
    /\ doc' # None => Sound(doc', used')
    /\ undone' \subseteq Ids
    /\ now' \in 1 .. MaxNow

LEMMA WebStays ==
    ASSUME IInv, Moves, web # None
    PROVE  CopyOK(web, doc', etag', used')
  BY Stays DEF IInv, TypeOK, Moves

LEMMA SlowStays ==
    ASSUME IInv, Moves, NEW w \in Writers, slow[w] # None
    PROVE  CopyOK(slow[w], doc', etag', used') /\ slow[w].step # "correct"
  BY Stays DEF IInv, TypeOK, Moves

LEMMA Assembled ==
    ASSUME IInv, Moves,
           web' # None => CopyOK(web', doc', etag', used'),
           slow' = [w \in Writers |-> slow'[w]],
           \A w \in Writers : slow'[w] # None =>
               CopyOK(slow'[w], doc', etag', used') /\ slow'[w].step # "correct"
    PROVE  IInv'
<1>1. TypeOK'
  BY DEF TypeOK, CopyOK, Moves, Sound
<1> QED BY <1>1 DEF IInv, Moves

LEMMA StoreMoves ==
    ASSUME IInv, NEW copy, CopyOK(copy, doc, etag, used), Store(copy), UNCHANGED <<used, now>>
    PROVE  Moves
<1>1. CASE Accepted(copy)
  <2>1. doc' = copy.new /\ etag' = etag + 1 /\ undone' = undone \cup Differs(copy.base, doc)
    BY <1>1 DEF Store
  <2>2. Differs(copy.base, doc) \subseteq Ids
    BY <1>1 DEF Accepted, Differs, CopyOK, Pending, IInv, TypeOK, Document
  <2> QED BY <2>1, <2>2 DEF CopyOK, IInv, TypeOK, Moves
<1>2. CASE ~Accepted(copy)
  BY <1>2 DEF Store, IInv, TypeOK, Moves
<1> QED BY <1>1, <1>2

LEMMA RequestKeeps ==
    ASSUME IInv, NEW new, NEW match \in BOOLEAN, NEW step \in Steps, NEW p \in Ids \cup {None},
           Sound(new, used \cup DOMAIN new), Request(new, match, step, p),
           step = "correct" => match /\ Keeps(doc, new, p)
    PROVE  IInv'
<1>1. /\ doc # None /\ web' = Copy(new, match, step, p)
      /\ used' = used \cup DOMAIN new
      /\ doc' = doc /\ etag' = etag /\ slow' = slow /\ undone' = undone /\ now' = now
  BY DEF Request
<1>2. Document(new) /\ used' \subseteq Ids
  BY <1>1 DEF Sound, Document, IInv, TypeOK
<1>3. Moves
  BY <1>1, <1>2, MoreIds DEF Moves, IInv, TypeOK
<1>4. Pending(web', etag')
  BY <1>1, <1>2 DEF Copy, Pending, IInv, TypeOK
<1>5. Correcting(web', doc', etag')
  BY <1>1 DEF Copy, Correcting
<1>6. Sound(web'.new, used')
  BY <1>1 DEF Copy
<1> QED BY <1>1, <1>3, <1>4, <1>5, <1>6, SlowStays, Assembled DEF CopyOK, IInv, TypeOK

LEMMA AddKeeps ==
    ASSUME IInv, NEW p \in Ids, NEW k \in Kinds, NEW c \in Contracts,
           ApiAddPosition(p, k, c) \/ ApiAddPositionFromActivity(p, k, c)
    PROVE  IInv'
<1> PICK new : new = WithPosition(doc, p, k, c)
  OBVIOUS
<1>1. p \in Ids \ used /\ doc # None
  BY DEF ApiAddPosition, ApiAddPositionFromActivity, Fresh, Unconditional, Request
<1>2. Sound(new, used \cup {p}) /\ DOMAIN new = DOMAIN doc \cup {p}
  <2>1. Sound(new, used \cup {p})
    BY <1>1, Added DEF IInv, TypeOK
  <2> QED BY <2>1 DEF WithPosition
<1>3. Sound(new, used \cup DOMAIN new)
  BY <1>1, <1>2, MoreIds DEF Sound
<1>4. CASE ApiAddPosition(p, k, c)
  BY <1>3, <1>4, RequestKeeps DEF ApiAddPosition, Unconditional, Steps
<1>5. CASE ApiAddPositionFromActivity(p, k, c)
  BY <1>3, <1>5, RequestKeeps DEF ApiAddPositionFromActivity, Steps
<1> QED BY <1>4, <1>5

LEMMA RollRequestKeeps ==
    ASSUME IInv, NEW p \in Ids, NEW new \in Ids, NEW kind \in Kinds, NEW c \in Contracts,
           NEW step \in {"replace", "roll"}, NEW q \in Ids \cup {None}, new \in Fresh,
           CanRoll(doc, p), Request(Rolled(doc, p, new, kind, c), FALSE, step, q)
    PROVE  IInv'
<1> PICK d : d = Rolled(doc, p, new, kind, c)
  OBVIOUS
<1>1. new \in Ids \ used /\ doc # None /\ Request(d, FALSE, step, q)
  BY DEF Fresh, Request
<1>2. Sound(d, used \cup {new})
  BY <1>1, RolledIsSound DEF IInv, TypeOK
<1>3. new \in DOMAIN d
  BY DEF Rolled, WithPosition
<1>4. Sound(d, used \cup DOMAIN d)
  BY <1>2, <1>3, MoreIds
<1> QED BY <1>1, <1>4, RequestKeeps DEF Steps

LEMMA RollKeeps ==
    ASSUME IInv, NEW p \in Ids, NEW new \in Ids, NEW c \in Contracts,
           ApiManualRollPosition(p, new, c)
    PROVE  IInv'
<1>1. doc[p].kind \in Kinds
  BY DEF ApiManualRollPosition, Held, IInv, Sound, Document, Position
<1> QED BY <1>1, RollRequestKeeps DEF ApiManualRollPosition

(* A request that stores a sound copy and hands out no id.                 *)
LEMMA PlainKeeps ==
    ASSUME IInv, NEW new, Sound(new, used), NEW step \in Steps \ {"correct"},
           NEW p \in Ids \cup {None}, Request(new, FALSE, step, p)
    PROVE  IInv'
<1>1. Sound(new, used \cup DOMAIN new)
  BY MoreIds
<1> QED BY <1>1, RequestKeeps

LEMMA CloseKeeps ==
    ASSUME IInv, NEW p \in Ids, ApiClosePosition(p)
    PROVE  IInv'
<1> PICK new : new = Closed(doc, p)
  OBVIOUS
<1>1. Sound(new, used)
  BY ClosedIsSound DEF ApiClosePosition, Held, IInv
<1> QED BY <1>1, PlainKeeps DEF ApiClosePosition, Unconditional, Steps

LEMMA DeleteKeeps ==
    ASSUME IInv, NEW p \in Ids, ApiDeletePosition(p)
    PROVE  IInv'
<1> PICK new : new = Without(doc, p)
  OBVIOUS
<1>1. Sound(new, used)
  BY WithoutIsSound DEF ApiDeletePosition, Held, IInv
<1> QED BY <1>1, PlainKeeps DEF ApiDeletePosition, Steps

(* The edits whose data is left out store the document as they read it.    *)
LEMMA RewriteKeeps ==
    ASSUME IInv, Unconditional(doc)
    PROVE  IInv'
<1> PICK new : new = doc
  OBVIOUS
<1> QED BY PlainKeeps DEF Unconditional, Request, Steps, IInv

LEMMA CorrectExpirationKeeps ==
    ASSUME IInv, NEW p \in Ids, NEW e \in Expirations, ApiUpdatePositionExpiration(p, e)
    PROVE  IInv'
<1> PICK new : new = WithExpiration(doc, p, e)
  OBVIOUS
<1>1. Sound(new, used) /\ Keeps(doc, new, p)
  BY ExpirationIsSound DEF ApiUpdatePositionExpiration, Held, IInv, TypeOK
<1>2. Sound(new, used \cup DOMAIN new)
  BY <1>1, MoreIds
<1> QED BY <1>1, <1>2, RequestKeeps DEF ApiUpdatePositionExpiration, Steps

LEMMA CorrectStrikeKeeps ==
    ASSUME IInv, NEW p \in Ids, NEW s \in Strikes, ApiUpdatePositionStrike(p, s)
    PROVE  IInv'
<1> PICK new : new = WithStrike(doc, p, s)
  OBVIOUS
<1>1. Sound(new, used) /\ Keeps(doc, new, p)
  BY StrikeIsSound DEF ApiUpdatePositionStrike, Held, IInv, TypeOK
<1>2. Sound(new, used \cup DOMAIN new)
  BY <1>1, MoreIds
<1> QED BY <1>1, <1>2, RequestKeeps DEF ApiUpdatePositionStrike, Steps

LEMMA EmptyIsSound ==
    ASSUME NEW ids
    PROVE  Sound(<<>>, ids)
<1>1. DOMAIN <<>> = {} /\ <<>> \in [{} -> Position]
  OBVIOUS
<1> QED BY <1>1 DEF Sound, Document, Linked

LEMMA DeleteSymbolKeeps ==
    ASSUME IInv, ApiDeleteSymbol
    PROVE  IInv'
<1>1. /\ doc # None /\ doc' = None /\ etag' = etag + 1 /\ web' = Copy(<<>>, FALSE, "cascade", None)
      /\ slow' = slow /\ used' = used /\ undone' = undone /\ now' = now
  BY DEF ApiDeleteSymbol
<1>2. Moves
  BY <1>1 DEF Moves, IInv, TypeOK
<1>3. Sound(<<>>, used') /\ Document(<<>>)
  BY EmptyIsSound DEF Sound
<1>4. CopyOK(web', doc', etag', used')
  BY <1>1, <1>3 DEF Copy, CopyOK, Pending, Correcting, Steps, IInv, TypeOK
<1> QED BY <1>1, <1>2, <1>4, SlowStays, Assembled DEF IInv, TypeOK

LEMMA EnsureKeeps ==
    ASSUME IInv, EnsureSymbolConfig
    PROVE  IInv'
<1>1. Moves /\ web' = web /\ web = None /\ slow' = slow
  BY EmptyIsSound DEF EnsureSymbolConfig, Moves, IInv, TypeOK
<1> QED BY <1>1, SlowStays, Assembled DEF IInv, TypeOK

LEMMA HandlerKeeps ==
    ASSUME IInv, Handler
    PROVE  IInv'
<1>1. CASE \E p \in Ids : ApiUpdatePositionNotes(p) \/ ApiUpdatePositionPremium(p)
                          \/ ApiSetPositionPaper(p) \/ ApiUpdatePositionBuybackCost(p)
  BY <1>1, RewriteKeeps DEF ApiUpdatePositionNotes, ApiUpdatePositionPremium,
         ApiSetPositionPaper, ApiUpdatePositionBuybackCost
<1>2. CASE ApiPauseSymbolWatchlist
  BY <1>2, RewriteKeeps DEF ApiPauseSymbolWatchlist
<1> QED BY <1>1, <1>2, AddKeeps, RollKeeps, CloseKeeps, DeleteKeeps, CorrectExpirationKeeps,
           CorrectStrikeKeeps, DeleteSymbolKeeps, EnsureKeeps DEF Handler

-----------------------------------------------------------------------------
(* The replaces. *)

LEMMA WebReplaceKeeps ==
    ASSUME IInv, WebReplace
    PROVE  IInv'
<1> PICK copy : copy = web
  OBVIOUS
<1>1. /\ copy # None /\ CopyOK(copy, doc, etag, used) /\ Store(copy)
      /\ web' = Following(copy) /\ slow' = slow /\ used' = used /\ now' = now
  BY DEF WebReplace, IInv
<1>2. Moves
  BY <1>1, StoreMoves
<1>3. web' # None => CopyOK(web', doc', etag', used')
  <2> SUFFICES ASSUME web' # None PROVE CopyOK(web', doc', etag', used')
    OBVIOUS
  <2>1. Accepted(copy) /\ copy.step \in {"roll", "open", "delete"}
    BY <1>1 DEF Following
  <2> PICK then : then = [roll |-> "replace", open |-> "reread", delete |-> "cascade"]
    OBVIOUS
  <2> PICK step : step = then[copy.step]
    OBVIOUS
  <2>2. web' = [base |-> doc', read |-> etag', new |-> doc', match |-> copy.match,
                step |-> step, id |-> copy.id]
    <3>1. web' = [[copy EXCEPT !.base = doc', !.read = etag', !.new = doc'] EXCEPT !.step = step]
      BY <1>1, <2>1 DEF Following
    <3>2. copy = [base |-> copy.base, read |-> copy.read, new |-> copy.new,
                  match |-> copy.match, step |-> copy.step, id |-> copy.id]
      BY <1>1 DEF CopyOK, Pending
    <3> QED BY <3>1, <3>2
  <2>3. doc' = copy.new /\ Document(doc') /\ Sound(doc', used')
    BY <1>1, <2>1 DEF Store, CopyOK, Sound
  <2>4. step \in Steps \ {"correct"}
    BY <2>1 DEF Steps
  <2> QED BY <1>1, <1>2, <2>2, <2>3, <2>4 DEF CopyOK, Pending, Correcting, Moves
<1> QED BY <1>1, <1>2, <1>3, SlowStays, Assembled DEF IInv, TypeOK

LEMMA SlowReplaceKeeps ==
    ASSUME IInv, NEW w \in Writers, SlowReplace(w)
    PROVE  IInv'
<1> PICK copy : copy = slow[w]
  OBVIOUS
<1>1. /\ copy # None /\ CopyOK(copy, doc, etag, used) /\ Store(copy)
      /\ slow' = [slow EXCEPT ![w] = None] /\ web' = web /\ used' = used /\ now' = now
  BY DEF SlowReplace, IInv
<1>2. Moves
  BY <1>1, StoreMoves
<1>3. \A v \in Writers : slow'[v] # None => slow'[v] = slow[v]
  BY <1>1 DEF IInv, TypeOK
<1>4. slow' = [v \in Writers |-> slow'[v]]
  BY <1>1 DEF IInv, TypeOK
<1> QED BY <1>1, <1>2, <1>3, <1>4, SlowStays, WebStays, Assembled

LEMMA SlowReadKeeps ==
    ASSUME IInv, NEW w \in Writers, SlowRead(w)
    PROVE  IInv'
<1> PICK copy : copy = Copy(doc, FALSE, "replace", None)
  OBVIOUS
<1>1. /\ doc # None /\ slow' = [slow EXCEPT ![w] = copy]
      /\ doc' = doc /\ etag' = etag /\ web' = web /\ used' = used /\ undone' = undone
      /\ now' = now
  BY DEF SlowRead
<1>2. Moves
  BY <1>1 DEF Moves, IInv, TypeOK
<1>3. CopyOK(copy, doc', etag', used') /\ copy.step # "correct"
  BY <1>1 DEF Copy, CopyOK, Pending, Correcting, Steps, IInv, TypeOK
<1>4. slow' = [v \in Writers |-> slow'[v]]
  BY <1>1 DEF IInv, TypeOK
<1>5. \A v \in Writers : slow'[v] = IF v = w THEN copy ELSE slow[v]
  BY <1>1 DEF IInv, TypeOK
<1> QED BY <1>1, <1>2, <1>3, <1>4, <1>5, SlowStays, WebStays, Assembled

LEMMA WebReadsAgainKeeps ==
    ASSUME IInv, WebReadsAgain
    PROVE  IInv'
<1>1. /\ web' = IF doc = None THEN None ELSE Copy(doc, FALSE, "replace", None)
      /\ doc' = doc /\ etag' = etag /\ slow' = slow /\ used' = used /\ undone' = undone
      /\ now' = now
  BY DEF WebReadsAgain
<1>2. Moves
  BY <1>1 DEF Moves, IInv, TypeOK
<1>3. web' # None => CopyOK(web', doc', etag', used')
  <2> PICK copy : copy = Copy(doc, FALSE, "replace", None)
    OBVIOUS
  <2>1. doc # None => CopyOK(copy, doc', etag', used')
    BY <1>1 DEF Copy, CopyOK, Pending, Correcting, Steps, IInv, TypeOK
  <2> QED BY <1>1, <2>1
<1> QED BY <1>1, <1>2, <1>3, SlowStays, Assembled DEF IInv, TypeOK

LEMMA NextKeeps ==
    ASSUME IInv, [DocumentNext \/ Cascade]_docVars
    PROVE  IInv'
<1>1. CASE Cascade
  <2>1. Moves /\ web' = None /\ slow' = slow
    BY <1>1 DEF Cascade, Moves, IInv, TypeOK
  <2> QED BY <2>1, SlowStays, Assembled DEF IInv, TypeOK
<1>2. CASE Tick
  <2>1. Moves /\ web' = web /\ slow' = slow
    BY <1>2, PositionsAssumption DEF Tick, Moves, IInv, TypeOK
  <2> QED BY <2>1, SlowStays, WebStays, Assembled DEF IInv, TypeOK
<1>3. CASE UNCHANGED docVars
  <2>1. Moves /\ web' = web /\ slow' = slow
    BY <1>3 DEF docVars, Moves, IInv, TypeOK
  <2> QED BY <2>1, SlowStays, WebStays, Assembled DEF IInv, TypeOK
<1>4. CASE ApiUpdateSymbolReads \/ JobReads \/ WarmUpReads
  BY <1>4, SlowReadKeeps DEF ApiUpdateSymbolReads, JobReads, WarmUpReads, Writers
<1>5. CASE ApiUpdateSymbolReplaces \/ JobReplaces \/ WarmUpReplaces
  BY <1>5, SlowReplaceKeeps DEF ApiUpdateSymbolReplaces, JobReplaces, WarmUpReplaces, Writers
<1> QED BY <1>1, <1>2, <1>3, <1>4, <1>5, HandlerKeeps, WebReplaceKeeps, WebReadsAgainKeeps
        DEF DocumentNext

LEMMA InitIInv == Init => IInv
<1> SUFFICES ASSUME Init PROVE IInv
  OBVIOUS
<1>1. PICK p \in Ids, k \in Kinds, c \in Contracts : doc = WithPosition(<<>>, p, k, c)
  BY DEF Init
<1>2. Sound(doc, {p}) /\ used = {p}
  <2>1. Sound(<<>>, {}) /\ DOMAIN <<>> = {}
    BY EmptyIsSound
  <2>2. Sound(WithPosition(<<>>, p, k, c), {} \cup {p})
    <3> PICK e : e = <<>>
      OBVIOUS
    <3> PICK new : new = WithPosition(e, p, k, c)
      OBVIOUS
    <3>1. Sound(new, {} \cup {p})
      BY <2>1, Added
    <3> QED BY <3>1
  <2>3. DOMAIN doc = {p}
    BY <1>1, <2>1 DEF WithPosition
  <2> QED BY <1>1, <2>2, <2>3 DEF Init
<1>3. now \in 1 .. MaxNow
  BY PositionsAssumption DEF Init
<1> QED BY <1>2, <1>3 DEF Init, IInv, TypeOK, Sound

-----------------------------------------------------------------------------
(* The document, the copies held and the ids handed out keep their types.  *)
THEOREM TypeCorrect == DocumentSpec => []TypeOK
<1>1. IInv => TypeOK
  BY DEF IInv
<1> QED BY InitIInv, NextKeeps, <1>1, PTL DEF DocumentSpec

(* A position has one successor, and is not open beside it, whatever       *)
(* copies of the document are stored over one another.                     *)
THEOREM RollsHaveOneSuccessor == DocumentSpec => []OneSuccessor
<1>1. IInv => OneSuccessor
  BY DEF IInv, Sound, Linked, OneSuccessor, Held
<1> QED BY InitIInv, NextKeeps, <1>1, PTL DEF DocumentSpec

(* A correction changes one position and of it only strike or expiration,  *)
(* also when other requests and jobs replaced the document meanwhile.      *)
THEOREM CorrectionsUndoNothing == DocumentSpec => CorrectionsKeep
<1> DEFINE Kept == web # None /\ web.step = "correct" /\ web' = None /\ doc' # doc
                     => Keeps(doc, doc', web.id)
<1>1. IInv /\ [DocumentNext \/ Cascade]_docVars => [Kept]_docVars
  <2> SUFFICES ASSUME IInv, [DocumentNext \/ Cascade]_docVars, web # None,
                      web.step = "correct", web' = None, doc' # doc
               PROVE  Keeps(doc, doc', web.id)
    OBVIOUS
  <2>1. CASE WebReplace
    <3>1. Accepted(web) /\ doc' = web.new
      BY <2>1 DEF WebReplace, Store
    <3>2. CopyOK(web, doc, etag, used)
      BY DEF IInv
    <3> QED BY <3>1, <3>2 DEF Accepted, CopyOK, Correcting
  <2>2. ~WebReplace => web' = web \/ doc' = doc \/ web = None
    BY DEF DocumentNext, Handler, Cascade, docVars, Tick, WebReadsAgain, ApiUpdateSymbolReads,
           ApiUpdateSymbolReplaces, JobReads, JobReplaces, WarmUpReads, WarmUpReplaces, SlowRead,
           SlowReplace, ApiDeleteSymbol, EnsureSymbolConfig, ApiAddPosition,
           ApiAddPositionFromActivity, ApiManualRollPosition, ApiClosePosition,
           ApiUpdatePositionNotes, ApiUpdatePositionPremium, ApiSetPositionPaper,
           ApiUpdatePositionBuybackCost, ApiUpdatePositionExpiration, ApiUpdatePositionStrike,
           ApiDeletePosition, ApiPauseSymbolWatchlist, Unconditional, Request
  <2> QED BY <2>1, <2>2
<1>2. [Kept]_docVars => [web # None /\ web.step = "correct" /\ web' = None /\ doc' # doc
        => /\ DOMAIN doc' = DOMAIN doc
           /\ \A p \in DOMAIN doc :
                  IF p = web.id
                  THEN /\ doc'[p].status = doc[p].status
                       /\ doc'[p].to = doc[p].to
                       /\ doc'[p].contract.strike = doc[p].contract.strike
                            \/ doc'[p].contract.expiration = doc[p].contract.expiration
                  ELSE doc'[p] = doc[p]]_docVars
  BY DEF Keeps
<1> QED BY InitIInv, NextKeeps, <1>1, <1>2, PTL DEF DocumentSpec, CorrectionsKeep

-----------------------------------------------------------------------------
(* What the monitors hold and have stored; ids holds those handed out.     *)
SeenPositions == [kind : Kinds, contract : Contracts, expirationAt : Nat, strikeAt : Nat]

RunRecords(ids) ==
    [phase : {"read", "started", "fetched", "persisted"}, id : ids, held : SeenPositions,
     at : Nat, ask : BOOLEAN, snapshot : BOOLEAN]

CronRecords(ids) == [phase : {"read"}, id : ids, contract : Contracts]

Observed == [strike : Strikes \cup {None}, expiration : Expirations]

SnapshotRecords(ids) ==
    [id : ids, at : Nat, by : {"monitor", "cron"}, contract : Observed, score : Contracts \cup {None}]

MonitorTypes ==
    /\ run \in [Runs -> {None, Done} \cup RunRecords(used)]
    /\ cron \in [Crons -> {None, Done} \cup CronRecords(used)]
    /\ \A a \in activities : a.id \in used /\ a.kind \in Kinds /\ a.contract \in Contracts
    /\ snapshots \subseteq SnapshotRecords(used)

InFlight(x) == x # None /\ x.phase # "done"

-----------------------------------------------------------------------------
(* A contract that was observed is that of the position, but for what was  *)
(* corrected since.                                                        *)
SameStrike(pos, c) == pos.strikeAt = 0 => c.strike = pos.contract.strike

SameExpiration(pos, c) == pos.expirationAt = 0 => c.expiration = pos.contract.expiration

Same(pos, c) == SameStrike(pos, c) /\ SameExpiration(pos, c)

Follows(p, pos) ==
    /\ \A r \in Runs : InFlight(run[r]) /\ run[r].id = p => Same(pos, run[r].held.contract)
    /\ \A c \in Crons : InFlight(cron[c]) /\ cron[c].id = p => SameExpiration(pos, cron[c].contract)
    /\ \A a \in activities : a.id = p => Same(pos, a.contract)
    /\ \A s \in snapshots :
          s.id = p => /\ SameExpiration(pos, s.contract)
                      /\ s.contract.strike = None \/ SameStrike(pos, s.contract)

(* Nothing was observed of a position that is not stored yet.              *)
Unseen(p) ==
    /\ \A r \in Runs : InFlight(run[r]) => run[r].id # p
    /\ \A c \in Crons : InFlight(cron[c]) => cron[c].id # p
    /\ \A a \in activities : a.id # p
    /\ \A s \in snapshots : s.id # p

(* A position of a copy changes its contract by a correction only.         *)
Corrects(before, after) ==
    /\ after.strikeAt = 0 => before.strikeAt = 0 /\ after.contract.strike = before.contract.strike
    /\ after.expirationAt = 0 =>
          before.expirationAt = 0 /\ after.contract.expiration = before.contract.expiration

CorrectsAll(d, new) == \A p \in DOMAIN d \cap DOMAIN new : Corrects(d[p], new[p])

Rewrites(copy) == CorrectsAll(copy.base, copy.new)

New(copy) == DOMAIN copy.new \ DOMAIN copy.base

Watched ==
    /\ doc # None => \A p \in DOMAIN doc \ undone : Follows(p, doc[p])
    /\ web # None =>
          /\ Rewrites(web)
          /\ \A p \in New(web) :
                /\ ~Held(p) /\ Unseen(p)
                /\ \A w \in Writers : slow[w] # None => p \notin DOMAIN slow[w].new
    /\ \A w \in Writers : slow[w] # None => slow[w].new = slow[w].base

Stored == ScoresMatch /\ DecisionsHold

MInv == IInv /\ MonitorTypes /\ Watched /\ Stored

-----------------------------------------------------------------------------
(* From the agents' answers to what is stored. *)
Holds(kind, ask, o) ==
    /\ o.activity \in VALID_ROLL_ACTIONS => o.target # None
    /\ kind = "call" /\ ~ask /\ o.activity # None => o.activity = "WAIT" /\ ~o.alert

Answer(d) == d = [activity |-> d.activity, target |-> d.target, economics |-> d.economics, incomplete |-> d.incomplete]

(* A roll that is left has a target.                                       *)
LEMMA SafetyNetHolds ==
    ASSUME NEW d, d # None => Answer(d)
    PROVE  /\ SafetyNet(d) # None => Answer(SafetyNet(d))
           /\ SafetyNet(d) # None /\ SafetyNet(d).activity \in VALID_ROLL_ACTIONS
                => SafetyNet(d).target # None
  BY DEF SafetyNet, Answer, VALID_ROLL_ACTIONS

LEMMA DecidedHolds ==
    ASSUME NEW kind, NEW ask \in BOOLEAN, NEW a, NEW r, NEW d, d = Decided(kind, ask, a, r)
    PROVE  /\ d # None /\ d.activity \in VALID_ROLL_ACTIONS => d.target # None
           /\ kind = "call" /\ ~ask => d = None \/ d = Wait
<1> PICK phase2 : phase2 = IF kind = "call" /\ ~ask /\ a.profitOnly THEN Wait ELSE RollManagement(r)
  OBVIOUS
<1> PICK phase1 : phase1 = IF kind = "call" THEN QuoteState(Parsed(a), ask) ELSE Parsed(a)
  OBVIOUS
<1> PICK phase : phase = IF HandsOver(a) THEN phase2 ELSE phase1
  OBVIOUS
<1> PICK v : v = Validated(phase, ask)
  OBVIOUS
<1> PICK checked : checked = SafetyNet(v)
  OBVIOUS
<1>1. d = IF kind = "call" THEN QuoteState(checked, ask) ELSE checked
  BY DEF Decided
<1>2. phase1 # None => Answer(phase1)
  BY DEF Parsed, QuoteState, Answer, Decision, Wait
<1>3. phase2 # None => Answer(phase2)
  BY DEF RollManagement, Answer, Decision, Wait
<1>4. v # None => Answer(v)
  BY <1>2, <1>3 DEF Validated, Answer
<1>5. /\ checked # None => Answer(checked)
      /\ checked # None /\ checked.activity \in VALID_ROLL_ACTIONS => checked.target # None
  BY <1>4, SafetyNetHolds
<1>6. CASE kind # "call"
  BY <1>1, <1>5, <1>6
<1>7. CASE kind = "call" /\ ~ask
  <2>1. d = None \/ d = Wait
    BY <1>1, <1>7 DEF QuoteState
  <2>2. Wait.activity \notin VALID_ROLL_ACTIONS
    BY DEF Wait, Decision, VALID_ROLL_ACTIONS
  <2> QED BY <2>1, <2>2
<1>8. CASE kind = "call" /\ ask
  <2>1. d = IF checked = None THEN None ELSE [checked EXCEPT !.incomplete = FALSE]
    BY <1>1, <1>8 DEF QuoteState
  <2> QED BY <2>1, <1>5, <1>8 DEF Answer
<1> QED BY <1>6, <1>7, <1>8

LEMMA OutcomesHold ==
    ASSUME NEW kind \in {"call", "put"}, NEW ask \in BOOLEAN, NEW o \in Outcomes[kind][ask]
    PROVE  Holds(kind, ask, o)
<1>1. PICK a \in Assessments, r \in RollAnswers :
         o = LET d == Decided(kind, ask, a, r)
                 word == IF d = None THEN None ELSE d.activity
             IN  [activity |-> word,
                  target |-> IF word \in VALID_ROLL_ACTIONS THEN d.target ELSE None,
                  alert |-> Alerts(d, a.alarm)]
  <2> DEFINE O(a, r) == LET d == Decided(kind, ask, a, r)
                            word == IF d = None THEN None ELSE d.activity
                        IN  [activity |-> word,
                             target |-> IF word \in VALID_ROLL_ACTIONS THEN d.target ELSE None,
                             alert |-> Alerts(d, a.alarm)]
  <2>1. Outcomes[kind][ask] = {O(a, r) : a \in Assessments, r \in RollAnswers}
    BY DEF Outcomes
  <2> QED BY <2>1
<1> PICK d : d = Decided(kind, ask, a, r)
  OBVIOUS
<1> PICK word : word = IF d = None THEN None ELSE d.activity
  OBVIOUS
<1>2. o = [activity |-> word, target |-> IF word \in VALID_ROLL_ACTIONS THEN d.target ELSE None,
           alert |-> Alerts(d, a.alarm)]
  BY <1>1
<1>3. /\ d # None /\ d.activity \in VALID_ROLL_ACTIONS => d.target # None
      /\ kind = "call" /\ ~ask => d = None \/ d = Wait
  BY DecidedHolds
<1>4. None \notin VALID_ROLL_ACTIONS
  BY WordsAssumption DEF Words, VALID_ROLL_ACTIONS
<1> QED BY <1>2, <1>3, <1>4 DEF Holds, Alerts, Wait, Decision

-----------------------------------------------------------------------------
(* A step of the monitors observes nothing but what was observed before.   *)
RunsStem ==
    \A r \in Runs : InFlight(run'[r]) =>
        InFlight(run[r]) /\ run'[r].id = run[r].id /\ run'[r].held = run[r].held

CronsStem ==
    \A c \in Crons : InFlight(cron'[c]) =>
        InFlight(cron[c]) /\ cron'[c].id = cron[c].id /\ cron'[c].contract = cron[c].contract

ActivityStems(a) ==
    \/ a \in activities
    \/ \E r \in Runs : InFlight(run[r]) /\ a.id = run[r].id /\ a.contract = run[r].held.contract

SnapshotStems(s) ==
    \/ \E t \in snapshots : s.id = t.id /\ s.contract = t.contract
    \/ \E r \in Runs : InFlight(run[r]) /\ s.id = run[r].id /\ s.contract = run[r].held.contract
    \/ \E c \in Crons :
          /\ InFlight(cron[c]) /\ s.id = cron[c].id
          /\ s.contract.expiration = cron[c].contract.expiration
          /\ s.contract.strike = None
               \/ \E t \in snapshots : t.id = s.id /\ s.contract.strike = t.contract.strike

Derived ==
    /\ RunsStem
    /\ CronsStem
    /\ \A a \in activities' : ActivityStems(a)
    /\ \A s \in snapshots' : SnapshotStems(s)

LEMMA DerivedFollows ==
    ASSUME Derived, NEW p, NEW pos, Follows(p, pos)
    PROVE  Follows(p, pos)'
<1>1. \A r \in Runs : InFlight(run'[r]) /\ run'[r].id = p => Same(pos, run'[r].held.contract)
  BY DEF Derived, RunsStem, Follows
<1>2. \A c \in Crons :
          InFlight(cron'[c]) /\ cron'[c].id = p => SameExpiration(pos, cron'[c].contract)
  BY DEF Derived, CronsStem, Follows
<1>3. \A a \in activities' : a.id = p => Same(pos, a.contract)
  BY DEF Derived, ActivityStems, Follows
<1>4. ASSUME NEW s \in snapshots', s.id = p
      PROVE  /\ SameExpiration(pos, s.contract)
             /\ s.contract.strike = None \/ SameStrike(pos, s.contract)
  <2>1. SnapshotStems(s)
    BY DEF Derived
  <2>2. CASE \E t \in snapshots : s.id = t.id /\ s.contract = t.contract
    BY <1>4, <2>2 DEF Follows
  <2>3. CASE \E r \in Runs :
                InFlight(run[r]) /\ s.id = run[r].id /\ s.contract = run[r].held.contract
    BY <1>4, <2>3 DEF Follows, Same
  <2>4. ASSUME NEW c \in Crons, InFlight(cron[c]), s.id = cron[c].id,
               s.contract.expiration = cron[c].contract.expiration,
               s.contract.strike = None
                 \/ \E t \in snapshots : t.id = s.id /\ s.contract.strike = t.contract.strike
        PROVE  /\ SameExpiration(pos, s.contract)
               /\ s.contract.strike = None \/ SameStrike(pos, s.contract)
    <3>1. SameExpiration(pos, s.contract)
      BY <1>4, <2>4 DEF Follows, SameExpiration
    <3>2. s.contract.strike = None \/ SameStrike(pos, s.contract)
      BY <1>4, <2>4 DEF Follows, SameStrike
    <3> QED BY <3>1, <3>2
  <2> QED BY <2>1, <2>2, <2>3, <2>4 DEF SnapshotStems
<1> QED BY <1>1, <1>2, <1>3, <1>4 DEF Follows

LEMMA DerivedUnseen ==
    ASSUME Derived, NEW p, Unseen(p)
    PROVE  Unseen(p)'
<1>1. \A r \in Runs : InFlight(run'[r]) => run'[r].id # p
  BY DEF Derived, RunsStem, Unseen
<1>2. \A c \in Crons : InFlight(cron'[c]) => cron'[c].id # p
  BY DEF Derived, CronsStem, Unseen
<1>3. \A a \in activities' : a.id # p
  BY DEF Derived, ActivityStems, Unseen
<1>4. \A s \in snapshots' : s.id # p
  BY DEF Derived, SnapshotStems, Unseen
<1> QED BY <1>1, <1>2, <1>3, <1>4 DEF Unseen

(* While the document stays, only what is observed matters.                *)
LEMMA WatchedStays ==
    ASSUME Watched, UNCHANGED <<doc, web, slow, undone>>,
           (doc # None => \A p \in DOMAIN doc \ undone : Follows(p, doc[p]))',
           (web # None => \A p \in New(web) : Unseen(p))'
    PROVE  Watched'
<1>1. (web # None =>
        /\ Rewrites(web)
        /\ \A p \in New(web) :
              /\ ~Held(p) /\ Unseen(p)
              /\ \A w \in Writers : slow[w] # None => p \notin DOMAIN slow[w].new)'
  <2> SUFFICES ASSUME web # None
               PROVE  (/\ Rewrites(web)
                       /\ \A p \in New(web) :
                            /\ ~Held(p) /\ Unseen(p)
                            /\ \A w \in Writers : slow[w] # None => p \notin DOMAIN slow[w].new)'
    OBVIOUS
  <2>1. Rewrites(web)'
    BY DEF Watched, Rewrites, CorrectsAll
  <2>2. ASSUME NEW p \in New(web)'
        PROVE  (/\ ~Held(p) /\ Unseen(p)
                /\ \A w \in Writers : slow[w] # None => p \notin DOMAIN slow[w].new)'
    <3>1. p \in New(web)
      BY DEF New
    <3> QED BY <3>1 DEF Watched, Held
  <2> QED BY <2>1, <2>2
<1>2. (\A w \in Writers : slow[w] # None => slow[w].new = slow[w].base)'
  BY DEF Watched
<1> QED BY <1>1, <1>2 DEF Watched

LEMMA DerivedWatched ==
    ASSUME Watched, Derived, UNCHANGED <<doc, web, slow, undone>>
    PROVE  Watched'
<1>1. (doc # None => \A p \in DOMAIN doc \ undone : Follows(p, doc[p]))'
  <2> SUFFICES ASSUME doc' # None, NEW p \in DOMAIN doc' \ undone'
               PROVE  Follows(p, doc[p])'
    OBVIOUS
  <2> PICK pos : pos = doc[p]
    OBVIOUS
  <2>1. Follows(p, pos)'
    BY DerivedFollows DEF Watched
  <2>2. pos = doc'[p]
    OBVIOUS
  <2> QED BY <2>1, <2>2 DEF Follows
<1>2. (web # None => \A p \in New(web) : Unseen(p))'
  BY DerivedUnseen DEF Watched, New
<1> QED BY <1>1, <1>2, WatchedStays

-----------------------------------------------------------------------------
(* The steps of the monitors. *)

LEMMA RunHeld ==
    ASSUME MonitorTypes, NEW r \in Runs, InFlight(run[r])
    PROVE  /\ run[r] \in RunRecords(used) /\ run[r].id \in used /\ run[r].at \in Nat
           /\ run[r].ask \in BOOLEAN /\ run[r].snapshot \in BOOLEAN
           /\ run[r].held.kind \in Kinds /\ run[r].held.contract \in Contracts
<1>1. run[r] \in RunRecords(used)
  BY DEF MonitorTypes, InFlight, Done
<1> QED BY <1>1 DEF RunRecords, SeenPositions

LEMMA CronHeld ==
    ASSUME MonitorTypes, NEW c \in Crons, InFlight(cron[c])
    PROVE  cron[c] \in CronRecords(used) /\ cron[c].id \in used /\ cron[c].contract \in Contracts
<1>1. cron[c] \in CronRecords(used)
  BY DEF MonitorTypes, InFlight, Done
<1> QED BY <1>1 DEF CronRecords

(* A run takes its next step, or ends.                                     *)
LEMMA RunMoves ==
    ASSUME MonitorTypes, NEW r \in Runs, InFlight(run[r]), NEW new, run' = [run EXCEPT ![r] = new],
           new = Done \/ (new \in RunRecords(used) /\ new.id = run[r].id /\ new.held = run[r].held)
    PROVE  run' \in [Runs -> {None, Done} \cup RunRecords(used)] /\ RunsStem
<1>1. run' \in [Runs -> {None, Done} \cup RunRecords(used)]
  BY DEF MonitorTypes
<1>2. ~InFlight(Done)
  BY DEF InFlight, Done
<1>3. RunsStem
  BY <1>2 DEF MonitorTypes, RunsStem
<1> QED BY <1>1, <1>3

(* The contract of an observation is one the document may have.            *)
LEMMA MonitorSnapshot ==
    ASSUME MonitorTypes, NEW r \in Runs, InFlight(run[r]), NEW s,
           s = [id |-> run[r].id, at |-> run[r].at, by |-> "monitor",
                contract |-> run[r].held.contract, score |-> None]
    PROVE  s \in SnapshotRecords(used) /\ s.score = None /\ SnapshotStems(s)
<1>1. run[r].held.contract \in Observed
  BY RunHeld DEF Contracts, Observed
<1> QED BY <1>1, RunHeld DEF SnapshotRecords, SnapshotStems

LEMMA OldStems ==
    ASSUME TRUE
    PROVE  (\A a \in activities : ActivityStems(a)) /\ (\A s \in snapshots : SnapshotStems(s))
  BY DEF ActivityStems, SnapshotStems

(* What every step of a monitor preserves of types, of what is watched and *)
(* of what is stored; used does not change.                                *)
Holding == MonitorTypes' /\ Derived /\ Stored'

LEMMA Assembling ==
    ASSUME used' = used,
           run' \in [Runs -> {None, Done} \cup RunRecords(used)], RunsStem,
           cron' \in [Crons -> {None, Done} \cup CronRecords(used)], CronsStem,
           \A a \in activities' :
               /\ a.id \in used /\ a.kind \in Kinds /\ a.contract \in Contracts
               /\ ActivityStems(a) /\ Holds(a.kind, a.ask, a),
           \A s \in snapshots' :
               /\ s \in SnapshotRecords(used) /\ SnapshotStems(s)
               /\ s.score # None => s.score.expiration = s.contract.expiration
    PROVE  Holding
<1>1. MonitorTypes'
  BY DEF MonitorTypes
<1>2. Stored'
  BY DEF Stored, ScoresMatch, DecisionsHold, Holds
<1> QED BY <1>1, <1>2 DEF Holding, Derived

LEMMA SameRuns ==
    ASSUME MonitorTypes, run' = run
    PROVE  run' \in [Runs -> {None, Done} \cup RunRecords(used)] /\ RunsStem
  BY DEF MonitorTypes, RunsStem

LEMMA SameCrons ==
    ASSUME MonitorTypes, cron' = cron
    PROVE  cron' \in [Crons -> {None, Done} \cup CronRecords(used)] /\ CronsStem
  BY DEF MonitorTypes, CronsStem

LEMMA OldActivities ==
    ASSUME MonitorTypes, Stored, NEW a \in activities
    PROVE  /\ a.id \in used /\ a.kind \in Kinds /\ a.contract \in Contracts
           /\ ActivityStems(a) /\ Holds(a.kind, a.ask, a)
  BY DEF MonitorTypes, Stored, DecisionsHold, Holds, ActivityStems

LEMMA OldSnapshots ==
    ASSUME MonitorTypes, Stored, NEW s \in snapshots
    PROVE  /\ s \in SnapshotRecords(used) /\ SnapshotStems(s)
           /\ s.score # None => s.score.expiration = s.contract.expiration
<1>1. s \in SnapshotRecords(used)
  BY DEF MonitorTypes
<1>2. SnapshotStems(s)
  BY DEF SnapshotStems
<1>3. s.score # None => s.score.expiration = s.contract.expiration
  BY DEF Stored, ScoresMatch
<1> QED BY <1>1, <1>2, <1>3

LEMMA StartKeeps ==
    ASSUME MInv, NEW r \in Runs, MonitorStarts(r)
    PROVE  Holding
<1>0. MonitorTypes /\ Stored /\ InFlight(run[r]) /\ now \in Nat
  BY DEF MInv, MonitorStarts, InFlight, IInv, TypeOK
<1> PICK new : new = [run[r] EXCEPT !.phase = "started", !.at = now]
  OBVIOUS
<1>1. run' = [run EXCEPT ![r] = new] /\ cron' = cron /\ activities' = activities
      /\ snapshots' = snapshots /\ used' = used
  BY <1>0 DEF MonitorStarts, docVars, MonitorTypes
<1>2. new \in RunRecords(used) /\ new.id = run[r].id /\ new.held = run[r].held
  BY <1>0, RunHeld DEF RunRecords
<1>3. run' \in [Runs -> {None, Done} \cup RunRecords(used)] /\ RunsStem
  BY <1>0, <1>1, <1>2, RunMoves
<1> QED BY <1>0, <1>1, <1>3, SameCrons, OldActivities, OldSnapshots, Assembling

LEMMA FetchKeeps ==
    ASSUME MInv, NEW r \in Runs, NEW price \in BOOLEAN, NEW ask \in BOOLEAN,
           MonitorFetches(r, price, ask)
    PROVE  Holding
<1>0. MonitorTypes /\ Stored /\ InFlight(run[r])
  BY DEF MInv, MonitorFetches, InFlight
<1> PICK new : new = [run[r] EXCEPT !.phase = "fetched", !.ask = ask, !.snapshot = price]
  OBVIOUS
<1> PICK s : s = [id |-> run[r].id, at |-> run[r].at, by |-> "monitor",
                  contract |-> run[r].held.contract, score |-> None]
  OBVIOUS
<1>1. run' = [run EXCEPT ![r] = new] /\ cron' = cron /\ activities' = activities /\ used' = used
  BY <1>0 DEF MonitorFetches, docVars, MonitorTypes
<1>2. new \in RunRecords(used) /\ new.id = run[r].id /\ new.held = run[r].held
  BY <1>0, RunHeld DEF RunRecords
<1>3. run' \in [Runs -> {None, Done} \cup RunRecords(used)] /\ RunsStem
  BY <1>0, <1>1, <1>2, RunMoves
<1>4. snapshots' \subseteq snapshots \cup {s}
  BY DEF MonitorFetches, Create
<1>5. s \in SnapshotRecords(used) /\ s.score = None /\ SnapshotStems(s)
  BY <1>0, MonitorSnapshot
<1> QED BY <1>0, <1>1, <1>3, <1>4, <1>5, SameCrons, OldActivities, OldSnapshots, Assembling

(* An activity of a run.                                                   *)
LEMMA ActivityStored ==
    ASSUME MInv, NEW r \in Runs, InFlight(run[r]), NEW o, NEW c,
           Holds(run[r].held.kind, run[r].ask, o), activities' = Upsert(Activity(r, o, c)),
           run' = [run EXCEPT ![r].phase = "persisted"], UNCHANGED <<cron, snapshots, docVars>>
    PROVE  Holding
<1>0. MonitorTypes /\ Stored /\ used' = used /\ cron' = cron /\ snapshots' = snapshots
  BY DEF MInv, docVars
<1> PICK new : new = [run[r] EXCEPT !.phase = "persisted"]
  OBVIOUS
<1>1. run' = [run EXCEPT ![r] = new]
  BY <1>0 DEF MonitorTypes
<1>2. new \in RunRecords(used) /\ new.id = run[r].id /\ new.held = run[r].held
  BY <1>0, RunHeld DEF RunRecords
<1>3. run' \in [Runs -> {None, Done} \cup RunRecords(used)] /\ RunsStem
  BY <1>0, <1>1, <1>2, RunMoves
<1> PICK a : a = Activity(r, o, c)
  OBVIOUS
<1>4. activities' \subseteq activities \cup {a}
  BY DEF Upsert
<1>5. /\ a.id = run[r].id /\ a.kind = run[r].held.kind /\ a.contract = run[r].held.contract
      /\ a.ask = run[r].ask /\ a.activity = o.activity /\ a.target = o.target
      /\ a.alert = o.alert
  BY DEF Activity
<1>6. Holds(a.kind, a.ask, a)
  BY <1>5 DEF Holds
<1>7. ActivityStems(a)
  BY <1>5 DEF ActivityStems
<1>8. a.id \in used /\ a.kind \in Kinds /\ a.contract \in Contracts
  BY <1>0, <1>5, RunHeld
<1>9. \A b \in activities' :
         /\ b.id \in used /\ b.kind \in Kinds /\ b.contract \in Contracts
         /\ ActivityStems(b) /\ Holds(b.kind, b.ask, b)
  BY <1>0, <1>4, <1>6, <1>7, <1>8, OldActivities
<1> QED BY <1>0, <1>3, <1>9, SameCrons, OldSnapshots, Assembling

LEMMA PersistKeeps ==
    ASSUME MInv, NEW r \in Runs, MonitorPersists(r)
    PROVE  Holding
<1>1. InFlight(run[r])
  BY DEF MonitorPersists, InFlight
<1>2. PICK o \in Outcomes[run[r].held.kind][run[r].ask] :
         \E c : activities' = Upsert(Activity(r, o, c))
  BY DEF MonitorPersists
<1>3. run[r].held.kind \in {"call", "put"} /\ run[r].ask \in BOOLEAN
  BY <1>1, RunHeld, PositionsAssumption DEF MInv
<1>4. Holds(run[r].held.kind, run[r].ask, o)
  <2> PICK kind \in {"call", "put"}, ask \in BOOLEAN : kind = run[r].held.kind /\ ask = run[r].ask
    BY <1>3
  <2> QED BY <1>2, OutcomesHold
<1> QED BY <1>1, <1>2, <1>4, ActivityStored DEF MonitorPersists

LEMMA FailKeeps ==
    ASSUME MInv, NEW r \in Runs, MonitorFails(r)
    PROVE  Holding
<1> PICK o : o = [activity |-> None, target |-> None, alert |-> FALSE]
  OBVIOUS
<1>1. InFlight(run[r]) /\ activities' = Upsert(Activity(r, o, run[r].held.contract))
  BY DEF MonitorFails, InFlight
<1>2. Holds(run[r].held.kind, run[r].ask, o)
  BY WordsAssumption DEF Holds, VALID_ROLL_ACTIONS, Words
<1> QED BY <1>1, <1>2, ActivityStored DEF MonitorFails

(* Scoring changes the score of a snapshot and nothing else of it.         *)
LEMMA ScoredSnapshot ==
    ASSUME MonitorTypes, NEW s \in snapshots, NEW c \in Contracts,
           s.contract.expiration = c.expiration, NEW t, t = [s EXCEPT !.score = c]
    PROVE  /\ t \in SnapshotRecords(used) /\ SnapshotStems(t)
           /\ t.score.expiration = t.contract.expiration
<1>1. s \in SnapshotRecords(used)
  BY DEF MonitorTypes
<1>2. t.id = s.id /\ t.contract = s.contract /\ t.score = c
  BY <1>1 DEF SnapshotRecords
<1>3. t \in SnapshotRecords(used)
  BY <1>1 DEF SnapshotRecords
<1>4. SnapshotStems(t)
  BY <1>2 DEF SnapshotStems
<1> QED BY <1>2, <1>3, <1>4

LEMMA ScoreKeeps ==
    ASSUME MInv, NEW r \in Runs, MonitorScores(r)
    PROVE  Holding
<1>0. MonitorTypes /\ Stored /\ InFlight(run[r])
  BY DEF MInv, MonitorScores, InFlight
<1>1. run' = [run EXCEPT ![r] = Done] /\ cron' = cron /\ activities' = activities /\ used' = used
  BY DEF MonitorScores, docVars
<1>2. run' \in [Runs -> {None, Done} \cup RunRecords(used)] /\ RunsStem
  BY <1>0, <1>1, RunMoves
<1> PICK c : c = run[r].held.contract
  OBVIOUS
<1>3. c \in Contracts
  BY <1>0, RunHeld
<1>4. ASSUME NEW t \in snapshots'
      PROVE  t \in snapshots
               \/ \E s \in snapshots : s.contract.expiration = c.expiration
                                       /\ t = [s EXCEPT !.score = c]
  BY DEF MonitorScores, update_snapshot_dps, Scored, Newest, CurrentSnapshots
<1>5. ASSUME NEW t \in snapshots'
      PROVE  /\ t \in SnapshotRecords(used) /\ SnapshotStems(t)
             /\ t.score # None => t.score.expiration = t.contract.expiration
  BY <1>0, <1>3, <1>4, ScoredSnapshot, OldSnapshots
<1> QED BY <1>0, <1>1, <1>2, <1>5, SameCrons, OldActivities, Assembling

LEMMA CronScoreKeeps ==
    ASSUME MInv, NEW c \in Crons, DpsCronScores(c)
    PROVE  Holding
<1>0. MonitorTypes /\ Stored /\ InFlight(cron[c]) /\ now \in Nat
  BY DEF MInv, DpsCronScores, InFlight, IInv, TypeOK
<1>1. run' = run /\ cron' = [cron EXCEPT ![c] = Done] /\ activities' = activities /\ used' = used
  BY DEF DpsCronScores, docVars
<1>2. cron' \in [Crons -> {None, Done} \cup CronRecords(used)] /\ CronsStem
  <2>1. ~InFlight(Done)
    BY DEF InFlight, Done
  <2>2. cron' \in [Crons -> {None, Done} \cup CronRecords(used)]
    BY <1>0, <1>1 DEF MonitorTypes
  <2>3. CronsStem
    BY <1>0, <1>1, <2>1 DEF MonitorTypes, CronsStem
  <2> QED BY <2>2, <2>3
<1> PICK newest : newest = Newest(CurrentSnapshots(cron[c].id))
  OBVIOUS
<1>3. PICK strike \in (IF newest = {} THEN {None} ELSE {s.contract.strike : s \in newest}) :
         snapshots' = Create([id |-> cron[c].id, at |-> now, by |-> "cron",
                              contract |-> [cron[c].contract EXCEPT !.strike = strike],
                              score |-> cron[c].contract])
  BY DEF DpsCronScores
<1>4. /\ strike = None \/ \E t \in snapshots : t.id = cron[c].id /\ strike = t.contract.strike
      /\ strike \in Strikes \cup {None}
  <2>1. newest \subseteq snapshots /\ \A t \in newest : t.id = cron[c].id
    BY DEF Newest, CurrentSnapshots
  <2>2. \A t \in snapshots : t.contract.strike \in Strikes \cup {None}
    BY <1>0 DEF MonitorTypes, SnapshotRecords, Observed
  <2>3. strike = None \/ \E t \in newest : strike = t.contract.strike
    BY <1>3
  <2> QED BY <2>1, <2>2, <2>3
<1> PICK held : held = cron[c].contract
  OBVIOUS
<1> PICK k : k = [held EXCEPT !.strike = strike]
  OBVIOUS
<1> PICK s : s = [id |-> cron[c].id, at |-> now, by |-> "cron", contract |-> k, score |-> held]
  OBVIOUS
<1>5. held \in Contracts
  BY <1>0, CronHeld
<1>6. k \in Observed /\ k.expiration = held.expiration /\ k.strike = strike
  BY <1>4, <1>5 DEF Contracts, Observed
<1>7. s \in SnapshotRecords(used)
  BY <1>0, <1>5, <1>6, CronHeld DEF SnapshotRecords
<1>8. SnapshotStems(s)
  BY <1>0, <1>4, <1>6 DEF SnapshotStems
<1>9. snapshots' \subseteq snapshots \cup {s}
  BY <1>3 DEF Create
<1>10. ASSUME NEW t \in snapshots'
       PROVE  /\ t \in SnapshotRecords(used) /\ SnapshotStems(t)
              /\ t.score # None => t.score.expiration = t.contract.expiration
  <2>1. CASE t \in snapshots
    BY <1>0, <2>1, OldSnapshots
  <2>2. CASE t = s
    <3>1. s.score = held /\ s.contract = k
      OBVIOUS
    <3> QED BY <1>6, <1>7, <1>8, <2>2, <3>1
  <2> QED BY <1>9, <2>1, <2>2
<1> QED BY <1>0, <1>1, <1>2, <1>10, SameRuns, OldActivities, Assembling

(* A run reads a position, and with it the contract it has now.            *)
LEMMA ReadKeeps ==
    ASSUME MInv, NEW r \in Runs, NEW p \in Ids, MonitorReads(r, p)
    PROVE  MonitorTypes' /\ Watched' /\ Stored'
<1>0. /\ IInv /\ MonitorTypes /\ Watched /\ Stored /\ doc # None /\ p \in DOMAIN doc
      /\ cron' = cron /\ activities' = activities /\ snapshots' = snapshots /\ used' = used
      /\ UNCHANGED <<doc, web, slow, undone>>
  BY DEF MInv, MonitorReads, Held, docVars
<1> PICK held : held = Seen(doc[p])
  OBVIOUS
<1> PICK new : new = [phase |-> "read", id |-> p, held |-> held, at |-> 0,
                      ask |-> FALSE, snapshot |-> FALSE]
  OBVIOUS
<1>1. run' = [run EXCEPT ![r] = new]
  BY DEF MonitorReads
<1>2. p \in used /\ doc[p] \in Position
  BY <1>0 DEF IInv, Sound, Document
<1>3. held \in SeenPositions /\ held.contract = doc[p].contract
  BY <1>2, PositionsAssumption DEF Seen, SeenPositions, Position
<1>4. new \in RunRecords(used)
  BY <1>2, <1>3 DEF RunRecords
<1>5. MonitorTypes'
  BY <1>0, <1>1, <1>4 DEF MonitorTypes
<1>6. \A q \in Runs : InFlight(run'[q]) => run'[q] = new \/ (InFlight(run[q]) /\ run'[q] = run[q])
  BY <1>0, <1>1 DEF MonitorTypes
<1>7. (doc # None => \A q \in DOMAIN doc \ undone : Follows(q, doc[q]))'
  <2> SUFFICES ASSUME NEW q \in DOMAIN doc \ undone
               PROVE  Follows(q, doc[q])'
    BY <1>0
  <2>1. Follows(q, doc[q])
    BY <1>0 DEF Watched
  <2>2. q = p => Same(doc[q], new.held.contract)
    BY <1>3 DEF Same, SameStrike, SameExpiration
  <2>3. \A v \in Runs :
          InFlight(run'[v]) /\ run'[v].id = q => Same(doc[q], run'[v].held.contract)
    BY <1>6, <2>1, <2>2 DEF Follows
  <2> QED BY <1>0, <2>1, <2>3 DEF Follows
<1>8. (web # None => \A q \in New(web) : Unseen(q))'
  <2> SUFFICES ASSUME web # None, NEW q \in New(web)
               PROVE  Unseen(q)'
    BY <1>0
  <2>1. Unseen(q) /\ q # p
    BY <1>0 DEF Watched, Held
  <2> QED BY <1>0, <1>6, <2>1 DEF Unseen
<1> QED BY <1>0, <1>5, <1>7, <1>8, WatchedStays DEF Stored, ScoresMatch, DecisionsHold

LEMMA CronReadKeeps ==
    ASSUME MInv, NEW c \in Crons, NEW p \in Ids, DpsCronReads(c, p)
    PROVE  MonitorTypes' /\ Watched' /\ Stored'
<1>0. /\ IInv /\ MonitorTypes /\ Watched /\ Stored /\ doc # None /\ p \in DOMAIN doc
      /\ run' = run /\ activities' = activities /\ snapshots' = snapshots /\ used' = used
      /\ UNCHANGED <<doc, web, slow, undone>>
  BY DEF MInv, DpsCronReads, Held, docVars
<1> PICK new : new = [phase |-> "read", id |-> p, contract |-> doc[p].contract]
  OBVIOUS
<1>1. cron' = [cron EXCEPT ![c] = new]
  BY DEF DpsCronReads
<1>2. p \in used /\ doc[p] \in Position
  BY <1>0 DEF IInv, Sound, Document
<1>3. new \in CronRecords(used)
  BY <1>2 DEF CronRecords, Position
<1>4. MonitorTypes'
  BY <1>0, <1>1, <1>3 DEF MonitorTypes
<1>5. \A q \in Crons :
         InFlight(cron'[q]) => cron'[q] = new \/ (InFlight(cron[q]) /\ cron'[q] = cron[q])
  BY <1>0, <1>1 DEF MonitorTypes
<1>6. (doc # None => \A q \in DOMAIN doc \ undone : Follows(q, doc[q]))'
  <2> SUFFICES ASSUME NEW q \in DOMAIN doc \ undone
               PROVE  Follows(q, doc[q])'
    BY <1>0
  <2>1. Follows(q, doc[q])
    BY <1>0 DEF Watched
  <2>2. q = p => SameExpiration(doc[q], new.contract)
    BY DEF SameExpiration
  <2>3. \A v \in Crons :
          InFlight(cron'[v]) /\ cron'[v].id = q => SameExpiration(doc[q], cron'[v].contract)
    BY <1>5, <2>1, <2>2 DEF Follows
  <2> QED BY <1>0, <2>1, <2>3 DEF Follows
<1>7. (web # None => \A q \in New(web) : Unseen(q))'
  <2> SUFFICES ASSUME web # None, NEW q \in New(web)
               PROVE  Unseen(q)'
    BY <1>0
  <2>1. Unseen(q) /\ q # p
    BY <1>0 DEF Watched, Held
  <2> QED BY <1>0, <1>5, <2>1 DEF Unseen
<1> QED BY <1>0, <1>4, <1>6, <1>7, WatchedStays DEF Stored, ScoresMatch, DecisionsHold

LEMMA MonitorKeeps ==
    ASSUME MInv, MonitorStep
    PROVE  MInv'
<1>0. IInv' /\ UNCHANGED docVars
  <2>1. UNCHANGED docVars
    BY DEF MonitorStep, MonitorReads, MonitorStarts, MonitorFetches, MonitorPersists, MonitorFails,
           MonitorScores, DpsCronReads, DpsCronScores
  <2> QED BY <2>1, NextKeeps DEF MInv
<1>1. CASE \E r \in Runs, p \in Ids : MonitorReads(r, p)
  BY <1>0, <1>1, ReadKeeps DEF MInv
<1>2. CASE \E c \in Crons, p \in Ids : DpsCronReads(c, p)
  BY <1>0, <1>2, CronReadKeeps DEF MInv
<1>3. CASE Holding
  BY <1>0, <1>3, DerivedWatched DEF MInv, Holding, docVars
<1> QED BY <1>1, <1>2, <1>3, StartKeeps, FetchKeeps, PersistKeeps, FailKeeps, ScoreKeeps,
           CronScoreKeeps DEF MonitorStep

-----------------------------------------------------------------------------
(* The operations on a copy change a contract by a correction only. *)

LEMMA AddCorrects ==
    ASSUME NEW d, NEW p, NEW kind, NEW c
    PROVE  /\ CorrectsAll(d, WithPosition(d, p, kind, c))
           /\ DOMAIN WithPosition(d, p, kind, c) = DOMAIN d \cup {p}
  BY DEF CorrectsAll, Corrects, WithPosition

LEMMA RollCorrects ==
    ASSUME NEW d, Document(d), NEW p \in DOMAIN d, NEW new \in Ids \ DOMAIN d, NEW kind \in Kinds,
           NEW c \in Contracts, NEW r, r = Rolled(d, p, new, kind, c)
    PROVE  CorrectsAll(d, r) /\ DOMAIN r = DOMAIN d \cup {new}
<1> PICK e : e = WithPosition(d, new, kind, c)
  OBVIOUS
<1> PICK z : z = [kind |-> kind, status |-> "active", contract |-> c, from |-> None,
                  to |-> None, expirationAt |-> 0, strikeAt |-> 0]
  OBVIOUS
<1>1. d \in [DOMAIN d -> Position] /\ d[p] \in Position /\ p # new
  BY DEF Document
<1>2. /\ DOMAIN e = DOMAIN d \cup {new}
      /\ \A q \in DOMAIN d : e[q] = d[q]
      /\ e \in [DOMAIN d \cup {new} -> Position]
  <2>1. e = [q \in DOMAIN d \cup {new} |-> IF q \in DOMAIN d THEN d[q] ELSE z]
    BY DEF WithPosition
  <2>2. z \in Position
    BY NewEntry
  <2> QED BY ONLY <1>1, <2>1, <2>2
<1>3. r = [e EXCEPT ![p].status = "rolled", ![p].to = new, ![new].from = p]
  BY DEF Rolled
<1>4. /\ DOMAIN r = DOMAIN d \cup {new}
      /\ r[p] = [d[p] EXCEPT !.status = "rolled", !.to = new]
      /\ \A q \in DOMAIN d \ {p} : r[q] = d[q]
  BY <1>1, <1>2, <1>3
<1>5. /\ r[p].contract = d[p].contract /\ r[p].strikeAt = d[p].strikeAt
      /\ r[p].expirationAt = d[p].expirationAt
  BY <1>1, <1>4 DEF Position
<1>6. CorrectsAll(d, r)
  BY <1>4, <1>5 DEF CorrectsAll, Corrects
<1> QED BY <1>4, <1>6

LEMMA CloseCorrects ==
    ASSUME NEW d, Document(d), NEW p \in DOMAIN d
    PROVE  CorrectsAll(d, Closed(d, p)) /\ DOMAIN Closed(d, p) = DOMAIN d
<1> PICK c : c = Closed(d, p)
  OBVIOUS
<1>1. d \in [DOMAIN d -> Position] /\ d[p] \in Position
  BY DEF Document
<1>2. /\ DOMAIN c = DOMAIN d /\ c[p] = [d[p] EXCEPT !.status = "closed"]
      /\ \A q \in DOMAIN d \ {p} : c[q] = d[q]
  BY <1>1 DEF Closed
<1>3. /\ c[p].contract = d[p].contract /\ c[p].strikeAt = d[p].strikeAt
      /\ c[p].expirationAt = d[p].expirationAt
  BY <1>1, <1>2 DEF Position
<1>4. CorrectsAll(d, c)
  BY <1>2, <1>3 DEF CorrectsAll, Corrects
<1> QED BY <1>2, <1>4

LEMMA DeleteCorrects ==
    ASSUME NEW d, NEW p
    PROVE  CorrectsAll(d, Without(d, p)) /\ DOMAIN Without(d, p) \subseteq DOMAIN d
  BY DEF CorrectsAll, Corrects, Without, Restrict

LEMMA ExpirationCorrects ==
    ASSUME NEW d, Document(d), NEW p \in DOMAIN d, NEW e \in Expirations, now \in 1 .. MaxNow
    PROVE  /\ CorrectsAll(d, WithExpiration(d, p, e))
           /\ DOMAIN WithExpiration(d, p, e) = DOMAIN d
<1> PICK c : c = WithExpiration(d, p, e)
  OBVIOUS
<1>1. d \in [DOMAIN d -> Position] /\ d[p] \in Position /\ d[p].contract \in Contracts
  BY DEF Document, Position
<1>2. /\ DOMAIN c = DOMAIN d
      /\ c[p] = [d[p] EXCEPT !.contract = [@ EXCEPT !.expiration = e], !.expirationAt = now]
      /\ \A q \in DOMAIN d \ {p} : c[q] = d[q]
  BY <1>1 DEF WithExpiration, Position
<1>3. /\ c[p].contract = [d[p].contract EXCEPT !.expiration = e]
      /\ c[p].strikeAt = d[p].strikeAt /\ c[p].expirationAt = now
  BY <1>1, <1>2 DEF Position
<1>4. c[p].contract.strike = d[p].contract.strike
  BY <1>1, <1>3 DEF Contracts
<1>5. now # 0
  BY PositionsAssumption
<1>6. CorrectsAll(d, c)
  BY <1>2, <1>3, <1>4, <1>5 DEF CorrectsAll, Corrects
<1> QED BY <1>2, <1>6

LEMMA StrikeCorrects ==
    ASSUME NEW d, Document(d), NEW p \in DOMAIN d, NEW s \in Strikes, now \in 1 .. MaxNow
    PROVE  /\ CorrectsAll(d, WithStrike(d, p, s))
           /\ DOMAIN WithStrike(d, p, s) = DOMAIN d
<1> PICK c : c = WithStrike(d, p, s)
  OBVIOUS
<1>1. d \in [DOMAIN d -> Position] /\ d[p] \in Position /\ d[p].contract \in Contracts
  BY DEF Document, Position
<1>2. /\ DOMAIN c = DOMAIN d
      /\ c[p] = [d[p] EXCEPT !.contract = [@ EXCEPT !.strike = s], !.strikeAt = now]
      /\ \A q \in DOMAIN d \ {p} : c[q] = d[q]
  BY <1>1 DEF WithStrike, Position
<1>3. /\ c[p].contract = [d[p].contract EXCEPT !.strike = s]
      /\ c[p].expirationAt = d[p].expirationAt /\ c[p].strikeAt = now
  BY <1>1, <1>2 DEF Position
<1>4. c[p].contract.expiration = d[p].contract.expiration
  BY <1>1, <1>3 DEF Contracts
<1>5. now # 0
  BY PositionsAssumption
<1>6. CorrectsAll(d, c)
  BY <1>2, <1>3, <1>4, <1>5 DEF CorrectsAll, Corrects
<1> QED BY <1>2, <1>6

-----------------------------------------------------------------------------
(* The steps of the document. *)

(* The cascade of a deletion takes observations away, the others none.     *)
Fewer ==
    /\ run' = run /\ cron' = cron
    /\ activities' \subseteq activities /\ snapshots' \subseteq snapshots

LEMMA FewerDerived ==
    ASSUME Fewer
    PROVE  Derived
  BY OldStems DEF Fewer, Derived, RunsStem, CronsStem

LEMMA FewerStored ==
    ASSUME MonitorTypes, Stored, Fewer, used \subseteq used'
    PROVE  MonitorTypes' /\ Stored'
<1>1. RunRecords(used) \subseteq RunRecords(used') /\ CronRecords(used) \subseteq CronRecords(used')
      /\ SnapshotRecords(used) \subseteq SnapshotRecords(used')
  BY DEF RunRecords, CronRecords, SnapshotRecords
<1>2. MonitorTypes'
  <2>1. run' \in [Runs -> {None, Done} \cup RunRecords(used')]
    BY <1>1 DEF MonitorTypes, Fewer
  <2>2. cron' \in [Crons -> {None, Done} \cup CronRecords(used')]
    BY <1>1 DEF MonitorTypes, Fewer
  <2> QED BY <1>1, <2>1, <2>2 DEF MonitorTypes, Fewer
<1>3. Stored'
  BY DEF Stored, ScoresMatch, DecisionsHold, Fewer
<1> QED BY <1>2, <1>3

(* An id that was not handed out yet was not observed.                     *)
LEMMA FreshIsUnseen ==
    ASSUME MonitorTypes, NEW p, p \notin used
    PROVE  Unseen(p)
<1>1. \A r \in Runs : InFlight(run[r]) => run[r].id # p
  BY RunHeld
<1>2. \A c \in Crons : InFlight(cron[c]) => cron[c].id # p
  BY CronHeld
<1>3. \A s \in snapshots : s.id # p
  BY DEF MonitorTypes, SnapshotRecords
<1> QED BY <1>1, <1>2, <1>3 DEF MonitorTypes, Unseen

LEMMA CorrectFollows ==
    ASSUME NEW p, NEW before, NEW after, Corrects(before, after), Follows(p, before)
    PROVE  Follows(p, after)
<1>1. \A c : SameStrike(before, c) => SameStrike(after, c)
  BY DEF Corrects, SameStrike
<1>2. \A c : SameExpiration(before, c) => SameExpiration(after, c)
  BY DEF Corrects, SameExpiration
<1> QED BY <1>1, <1>2 DEF Follows, Same

LEMMA UnseenFollows ==
    ASSUME NEW p, NEW pos, Unseen(p)
    PROVE  Follows(p, pos)
  BY DEF Unseen, Follows

(* The document stays watched while it is not replaced.                    *)
LEMMA DocumentStays ==
    ASSUME Watched, Derived, doc' = doc, undone' = undone
    PROVE  (doc # None => \A p \in DOMAIN doc \ undone : Follows(p, doc[p]))'
<1> SUFFICES ASSUME doc' # None, NEW p \in DOMAIN doc' \ undone'
             PROVE  Follows(p, doc[p])'
  OBVIOUS
<1> PICK pos : pos = doc[p]
  OBVIOUS
<1>1. Follows(p, pos)'
  BY DerivedFollows DEF Watched
<1>2. pos = doc'[p]
  OBVIOUS
<1> QED BY <1>1, <1>2 DEF Follows

LEMMA RequestWatched ==
    ASSUME IInv, MonitorTypes, Watched, Fewer, NEW new, NEW match, NEW step, NEW q,
           Request(new, match, step, q), CorrectsAll(doc, new),
           DOMAIN new \ DOMAIN doc \subseteq Ids \ used
    PROVE  Watched'
<1>1. /\ web' = Copy(new, match, step, q) /\ slow' = slow /\ doc' = doc /\ undone' = undone
      /\ doc # None
  BY DEF Request
<1>2. (doc # None => \A p \in DOMAIN doc \ undone : Follows(p, doc[p]))'
  BY <1>1, DocumentStays, FewerDerived
<1>3. web'.base = doc /\ web'.new = new
  BY <1>1 DEF Copy
<1>4. Rewrites(web)'
  BY <1>3 DEF Rewrites, CorrectsAll
<1>5. ASSUME NEW p \in New(web)'
      PROVE  (/\ ~Held(p) /\ Unseen(p)
              /\ \A w \in Writers : slow[w] # None => p \notin DOMAIN slow[w].new)'
  <2>1. p \in DOMAIN new \ DOMAIN doc /\ p \notin used
    BY <1>3 DEF New
  <2>2. Unseen(p)'
    BY <2>1, FreshIsUnseen, FewerDerived, DerivedUnseen
  <2>3. \A w \in Writers : slow'[w] # None => p \notin DOMAIN slow'[w].new
    BY <1>1, <2>1 DEF IInv, CopyOK, Sound
  <2> QED BY <1>1, <2>1, <2>2, <2>3 DEF Held
<1>6. (\A w \in Writers : slow[w] # None => slow[w].new = slow[w].base)'
  BY <1>1 DEF Watched
<1> QED BY <1>2, <1>4, <1>5, <1>6 DEF Watched

(* A handler's request, the roll of an activity's position included.       *)
LEMMA PlainWatched ==
    ASSUME IInv, MonitorTypes, Watched, Fewer, NEW new, NEW match, NEW step, NEW q,
           Request(new, match, step, q), CorrectsAll(doc, new), DOMAIN new \subseteq DOMAIN doc
    PROVE  Watched'
  BY RequestWatched

LEMMA RewriteWatched ==
    ASSUME IInv, MonitorTypes, Watched, Fewer, Unconditional(doc)
    PROVE  Watched'
<1> PICK new : new = doc
  OBVIOUS
<1>1. CorrectsAll(doc, new) /\ DOMAIN new \subseteq DOMAIN doc
  BY DEF CorrectsAll, Corrects
<1> QED BY <1>1, PlainWatched DEF Unconditional

LEMMA AddWatched ==
    ASSUME IInv, MonitorTypes, Watched, Fewer, NEW p \in Ids, NEW k \in Kinds, NEW c \in Contracts,
           ApiAddPosition(p, k, c) \/ ApiAddPositionFromActivity(p, k, c)
    PROVE  Watched'
<1> PICK new : new = WithPosition(doc, p, k, c)
  OBVIOUS
<1>1. CorrectsAll(doc, new) /\ DOMAIN new = DOMAIN doc \cup {p}
  BY AddCorrects
<1>2. p \in Ids \ used
  BY DEF ApiAddPosition, ApiAddPositionFromActivity, Fresh
<1>3. CASE ApiAddPosition(p, k, c)
  BY <1>1, <1>2, <1>3, RequestWatched DEF ApiAddPosition, Unconditional
<1>4. CASE ApiAddPositionFromActivity(p, k, c)
  BY <1>1, <1>2, <1>4, RequestWatched DEF ApiAddPositionFromActivity
<1> QED BY <1>3, <1>4

LEMMA RollRequestWatched ==
    ASSUME IInv, MonitorTypes, Watched, Fewer, NEW p \in DOMAIN doc, NEW new \in Fresh,
           NEW kind \in Kinds, NEW c \in Contracts, NEW step, NEW q,
           Request(Rolled(doc, p, new, kind, c), FALSE, step, q)
    PROVE  Watched'
<1> PICK d : d = Rolled(doc, p, new, kind, c)
  OBVIOUS
<1>1. Document(doc) /\ new \in Ids \ DOMAIN doc /\ new \in Ids \ used
  BY DEF Request, Fresh, IInv, Sound
<1>2. CorrectsAll(doc, d) /\ DOMAIN d = DOMAIN doc \cup {new}
  BY <1>1, RollCorrects
<1> QED BY <1>1, <1>2, RequestWatched

LEMMA RollWatched ==
    ASSUME IInv, MonitorTypes, Watched, Fewer, NEW p \in Ids, NEW new \in Ids, NEW c \in Contracts,
           ApiManualRollPosition(p, new, c)
    PROVE  Watched'
<1>1. p \in DOMAIN doc /\ doc[p].kind \in Kinds /\ new \in Fresh
  BY DEF ApiManualRollPosition, Held, IInv, Sound, Document, Position
<1>2. PICK step : Request(Rolled(doc, p, new, doc[p].kind, c), FALSE, step, p)
  BY DEF ApiManualRollPosition
<1> QED BY <1>1, <1>2, RollRequestWatched

LEMMA CloseWatched ==
    ASSUME IInv, MonitorTypes, Watched, Fewer, NEW p \in Ids, ApiClosePosition(p)
    PROVE  Watched'
<1> PICK new : new = Closed(doc, p)
  OBVIOUS
<1>1. CorrectsAll(doc, new) /\ DOMAIN new = DOMAIN doc
  BY CloseCorrects DEF ApiClosePosition, Held, IInv, Sound
<1> QED BY <1>1, PlainWatched DEF ApiClosePosition, Unconditional

LEMMA DeleteWatched ==
    ASSUME IInv, MonitorTypes, Watched, Fewer, NEW p \in Ids, ApiDeletePosition(p)
    PROVE  Watched'
<1> PICK new : new = Without(doc, p)
  OBVIOUS
<1>1. CorrectsAll(doc, new) /\ DOMAIN new \subseteq DOMAIN doc
  BY DeleteCorrects
<1> QED BY <1>1, PlainWatched DEF ApiDeletePosition

LEMMA CorrectWatched ==
    ASSUME IInv, MonitorTypes, Watched, Fewer, NEW p \in Ids,
           \/ \E e \in Expirations : ApiUpdatePositionExpiration(p, e)
           \/ \E s \in Strikes : ApiUpdatePositionStrike(p, s)
    PROVE  Watched'
<1>1. ASSUME NEW e \in Expirations, ApiUpdatePositionExpiration(p, e)
      PROVE  Watched'
  <2> PICK new : new = WithExpiration(doc, p, e)
    OBVIOUS
  <2>1. CorrectsAll(doc, new) /\ DOMAIN new = DOMAIN doc
    BY <1>1, ExpirationCorrects DEF ApiUpdatePositionExpiration, Held, IInv, Sound, TypeOK
  <2> QED BY <1>1, <2>1, PlainWatched DEF ApiUpdatePositionExpiration
<1>2. ASSUME NEW s \in Strikes, ApiUpdatePositionStrike(p, s)
      PROVE  Watched'
  <2> PICK new : new = WithStrike(doc, p, s)
    OBVIOUS
  <2>1. CorrectsAll(doc, new) /\ DOMAIN new = DOMAIN doc
    BY <1>2, StrikeCorrects DEF ApiUpdatePositionStrike, Held, IInv, Sound, TypeOK
  <2> QED BY <1>2, <2>1, PlainWatched DEF ApiUpdatePositionStrike
<1> QED BY <1>1, <1>2

LEMMA SymbolWatched ==
    ASSUME IInv, Watched, Fewer, ApiDeleteSymbol \/ EnsureSymbolConfig
    PROVE  Watched'
<1>1. DOMAIN <<>> = {}
  OBVIOUS
<1>2. (doc # None => \A p \in DOMAIN doc \ undone : Follows(p, doc[p]))'
  BY <1>1 DEF ApiDeleteSymbol, EnsureSymbolConfig
<1>3. web' # None => web'.new = <<>>
  BY DEF ApiDeleteSymbol, EnsureSymbolConfig, Copy
<1>4. (web # None =>
        /\ Rewrites(web)
        /\ \A p \in New(web) :
              /\ ~Held(p) /\ Unseen(p)
              /\ \A w \in Writers : slow[w] # None => p \notin DOMAIN slow[w].new)'
  BY <1>1, <1>3 DEF Rewrites, CorrectsAll, New
<1>5. (\A w \in Writers : slow[w] # None => slow[w].new = slow[w].base)'
  BY DEF Watched, ApiDeleteSymbol, EnsureSymbolConfig
<1> QED BY <1>2, <1>4, <1>5 DEF Watched

LEMMA HandlerWatched ==
    ASSUME IInv, MonitorTypes, Watched, Fewer, Handler
    PROVE  Watched'
<1>1. CASE \E p \in Ids : ApiUpdatePositionNotes(p) \/ ApiUpdatePositionPremium(p)
                          \/ ApiSetPositionPaper(p) \/ ApiUpdatePositionBuybackCost(p)
  BY <1>1, RewriteWatched DEF ApiUpdatePositionNotes, ApiUpdatePositionPremium,
         ApiSetPositionPaper, ApiUpdatePositionBuybackCost
<1>2. CASE ApiPauseSymbolWatchlist
  BY <1>2, RewriteWatched DEF ApiPauseSymbolWatchlist
<1> QED BY <1>1, <1>2, AddWatched, RollWatched, CloseWatched, DeleteWatched, CorrectWatched,
           SymbolWatched DEF Handler

-----------------------------------------------------------------------------
(* The replaces.  What a copy held is the document's, or undone.           *)

(* A copy just read holds nothing new.                                     *)
LEMMA FreshCopy ==
    ASSUME NEW copy, copy.new = copy.base
    PROVE  Rewrites(copy) /\ New(copy) = {}
  BY DEF Rewrites, CorrectsAll, Corrects, New

LEMMA Unreplaced ==
    ASSUME NEW copy, doc # None, undone' = undone \cup Differs(copy.base, doc),
           NEW p \in DOMAIN copy.base, p \notin undone'
    PROVE  p \in DOMAIN doc \ undone /\ doc[p] = copy.base[p]
  BY DEF Differs

LEMMA WebReplaceWatched ==
    ASSUME IInv, Watched, Fewer, WebReplace
    PROVE  Watched'
<1> PICK copy : copy = web
  OBVIOUS
<1>1. /\ copy # None /\ Store(copy) /\ web' = Following(copy) /\ slow' = slow
  BY DEF WebReplace
<1>2. \A w \in Writers : slow'[w] # None => slow'[w].new = slow'[w].base
  BY <1>1 DEF Watched
<1>3. (doc # None => \A p \in DOMAIN doc \ undone : Follows(p, doc[p]))'
  <2>1. CASE ~Accepted(copy)
    BY <1>1, <2>1, DocumentStays, FewerDerived DEF Store
  <2>2. CASE Accepted(copy)
    <3>1. /\ doc # None /\ doc' = copy.new
          /\ undone' = undone \cup Differs(copy.base, doc)
      BY <1>1, <2>2 DEF Store, Accepted
    <3> SUFFICES ASSUME doc' # None, NEW p \in DOMAIN doc' \ undone'
                 PROVE  Follows(p, doc[p])'
      OBVIOUS
    <3> PICK pos : pos = copy.new[p]
      OBVIOUS
    <3>2. CASE p \in DOMAIN copy.base
      <4> PICK before : before = doc[p]
        OBVIOUS
      <4>1. p \in DOMAIN doc \ undone /\ doc[p] = copy.base[p]
        BY <3>1, <3>2, Unreplaced
      <4>2. Corrects(before, pos)
        BY <1>1, <3>1, <3>2, <4>1 DEF Watched, Rewrites, CorrectsAll
      <4>3. Follows(p, before)
        BY <3>1, <4>1 DEF Watched
      <4>4. Follows(p, pos)'
        BY <4>2, <4>3, CorrectFollows, FewerDerived, DerivedFollows
      <4> QED BY <3>1, <4>4 DEF Follows
    <3>3. CASE p \notin DOMAIN copy.base
      <4>1. Unseen(p)
        BY <1>1, <3>1, <3>3 DEF Watched, New
      <4>2. Follows(p, pos)'
        BY <4>1, UnseenFollows, FewerDerived, DerivedFollows
      <4> QED BY <3>1, <4>2 DEF Follows
    <3> QED BY <3>2, <3>3
  <2> QED BY <2>1, <2>2
<1>4. web' # None => Rewrites(web') /\ New(web') = {}
  <2> SUFFICES ASSUME web' # None PROVE Rewrites(web') /\ New(web') = {}
    OBVIOUS
  <2> PICK next : next = web'
    OBVIOUS
  <2>1. next.new = next.base
    <3>1. copy = [base |-> copy.base, read |-> copy.read, new |-> copy.new,
                  match |-> copy.match, step |-> copy.step, id |-> copy.id]
      BY <1>1 DEF IInv, CopyOK, Pending
    <3>2. PICK step : web' = [[copy EXCEPT !.base = doc', !.read = etag', !.new = doc']
                                EXCEPT !.step = step]
      BY <1>1 DEF Following
    <3> QED BY <3>1, <3>2
  <2> QED BY <2>1, FreshCopy
<1>5. (web # None =>
        /\ Rewrites(web)
        /\ \A p \in New(web) :
              /\ ~Held(p) /\ Unseen(p)
              /\ \A w \in Writers : slow[w] # None => p \notin DOMAIN slow[w].new)'
  BY <1>4 DEF Rewrites, CorrectsAll, New
<1> QED BY <1>2, <1>3, <1>5 DEF Watched

LEMMA SlowReplaceWatched ==
    ASSUME IInv, Watched, Fewer, NEW w \in Writers, SlowReplace(w)
    PROVE  Watched'
<1> PICK copy : copy = slow[w]
  OBVIOUS
<1>1. /\ copy # None /\ Store(copy) /\ web' = web /\ slow' = [slow EXCEPT ![w] = None]
      /\ copy.new = copy.base
  BY DEF SlowReplace, Watched
<1>2. \A v \in Writers : slow'[v] # None => slow'[v] = slow[v] /\ slow[v] # None
  BY <1>1 DEF IInv, TypeOK
<1>3. (\A v \in Writers : slow[v] # None => slow[v].new = slow[v].base)'
  BY <1>2 DEF Watched
<1>4. (doc # None => \A p \in DOMAIN doc \ undone : Follows(p, doc[p]))'
  <2>1. CASE ~Accepted(copy)
    BY <1>1, <2>1, DocumentStays, FewerDerived DEF Store
  <2>2. CASE Accepted(copy)
    <3>1. /\ doc # None /\ doc' = copy.base
          /\ undone' = undone \cup Differs(copy.base, doc)
      BY <1>1, <2>2 DEF Store, Accepted
    <3> SUFFICES ASSUME doc' # None, NEW p \in DOMAIN doc' \ undone'
                 PROVE  Follows(p, doc[p])'
      OBVIOUS
    <3> PICK pos : pos = doc[p]
      OBVIOUS
    <3>2. p \in DOMAIN doc \ undone /\ doc[p] = copy.base[p]
      BY <3>1, Unreplaced
    <3>3. Follows(p, pos)'
      BY <3>1, <3>2, FewerDerived, DerivedFollows DEF Watched
    <3>4. pos = doc'[p]
      BY <3>1, <3>2
    <3> QED BY <3>3, <3>4 DEF Follows
  <2> QED BY <2>1, <2>2
<1>5. (web # None =>
        /\ Rewrites(web)
        /\ \A p \in New(web) :
              /\ ~Held(p) /\ Unseen(p)
              /\ \A v \in Writers : slow[v] # None => p \notin DOMAIN slow[v].new)'
  <2> SUFFICES ASSUME web # None
               PROVE  (/\ Rewrites(web)
                       /\ \A p \in New(web) :
                            /\ ~Held(p) /\ Unseen(p)
                            /\ \A v \in Writers : slow[v] # None => p \notin DOMAIN slow[v].new)'
    BY <1>1
  <2>1. Rewrites(web)'
    BY <1>1 DEF Watched, Rewrites, CorrectsAll
  <2>2. ASSUME NEW p \in New(web)'
        PROVE  (/\ ~Held(p) /\ Unseen(p)
                /\ \A v \in Writers : slow[v] # None => p \notin DOMAIN slow[v].new)'
    <3>1. p \in New(web)
      BY <1>1 DEF New
    <3>2. /\ ~Held(p) /\ Unseen(p)
          /\ \A v \in Writers : slow[v] # None => p \notin DOMAIN slow[v].new
      BY <3>1 DEF Watched
    <3>3. Unseen(p)'
      BY <3>2, FewerDerived, DerivedUnseen
    <3>4. doc' = doc \/ doc' = copy.new
      BY <1>1 DEF Store
    <3>5. ~Held(p)'
      BY <1>1, <3>2, <3>4 DEF Held
    <3> QED BY <1>2, <3>2, <3>3, <3>5
  <2> QED BY <2>1, <2>2
<1> QED BY <1>3, <1>4, <1>5 DEF Watched

LEMMA SlowReadWatched ==
    ASSUME IInv, Watched, Fewer, NEW w \in Writers, SlowRead(w)
    PROVE  Watched'
<1> PICK copy : copy = Copy(doc, FALSE, "replace", None)
  OBVIOUS
<1>1. /\ doc # None /\ slow' = [slow EXCEPT ![w] = copy]
      /\ doc' = doc /\ web' = web /\ undone' = undone
      /\ copy.new = doc /\ copy.base = doc
  BY DEF SlowRead, Copy
<1>2. \A v \in Writers : slow'[v] = copy \/ slow'[v] = slow[v]
  BY <1>1 DEF IInv, TypeOK
<1>3. (\A v \in Writers : slow[v] # None => slow[v].new = slow[v].base)'
  BY <1>1, <1>2 DEF Watched
<1>4. (doc # None => \A p \in DOMAIN doc \ undone : Follows(p, doc[p]))'
  BY <1>1, DocumentStays, FewerDerived
<1>5. (web # None =>
        /\ Rewrites(web)
        /\ \A p \in New(web) :
              /\ ~Held(p) /\ Unseen(p)
              /\ \A v \in Writers : slow[v] # None => p \notin DOMAIN slow[v].new)'
  <2> SUFFICES ASSUME web # None
               PROVE  (/\ Rewrites(web)
                       /\ \A p \in New(web) :
                            /\ ~Held(p) /\ Unseen(p)
                            /\ \A v \in Writers : slow[v] # None => p \notin DOMAIN slow[v].new)'
    BY <1>1
  <2>1. Rewrites(web)'
    BY <1>1 DEF Watched, Rewrites, CorrectsAll
  <2>2. ASSUME NEW p \in New(web)'
        PROVE  (/\ ~Held(p) /\ Unseen(p)
                /\ \A v \in Writers : slow[v] # None => p \notin DOMAIN slow[v].new)'
    <3>1. p \in New(web)
      BY <1>1 DEF New
    <3>2. /\ ~Held(p) /\ Unseen(p)
          /\ \A v \in Writers : slow[v] # None => p \notin DOMAIN slow[v].new
      BY <3>1 DEF Watched
    <3>3. Unseen(p)'
      BY <3>2, FewerDerived, DerivedUnseen
    <3>4. p \notin DOMAIN doc
      BY <1>1, <3>2 DEF Held
    <3> QED BY <1>1, <1>2, <3>2, <3>3, <3>4 DEF Held
  <2> QED BY <2>1, <2>2
<1> QED BY <1>3, <1>4, <1>5 DEF Watched

(* Where the document stays and the copy of the handler is given up, read  *)
(* anew or left alone.                                                     *)
LEMMA QuietWatched ==
    ASSUME Watched, Fewer, UNCHANGED <<doc, slow, undone>>,
           web' = web \/ web' = None \/ web' = Copy(doc, FALSE, "replace", None)
    PROVE  Watched'
<1>1. (doc # None => \A p \in DOMAIN doc \ undone : Follows(p, doc[p]))'
  BY DocumentStays, FewerDerived
<1>2. CASE web' = web
  <2>1. (web # None => \A p \in New(web) : Unseen(p))'
    BY <1>2, FewerDerived, DerivedUnseen DEF Watched, New
  <2> QED BY <1>1, <1>2, <2>1, WatchedStays
<1>3. CASE web' # web
  <2>1. web' # None => Rewrites(web') /\ New(web') = {}
    <3> PICK next : next = web'
      OBVIOUS
    <3>1. next # None => next.new = next.base
      BY <1>3 DEF Copy
    <3> QED BY <3>1, FreshCopy
  <2>2. (web # None =>
          /\ Rewrites(web)
          /\ \A p \in New(web) :
                /\ ~Held(p) /\ Unseen(p)
                /\ \A w \in Writers : slow[w] # None => p \notin DOMAIN slow[w].new)'
    BY <2>1 DEF Rewrites, CorrectsAll, New
  <2>3. (\A w \in Writers : slow[w] # None => slow[w].new = slow[w].base)'
    BY DEF Watched
  <2> QED BY <1>1, <2>2, <2>3 DEF Watched
<1> QED BY <1>2, <1>3

LEMMA DocumentWatched ==
    ASSUME IInv, MonitorTypes, Watched, Fewer, DocumentNext \/ Cascade
    PROVE  Watched'
<1>1. CASE Tick \/ Cascade \/ WebReadsAgain
  BY <1>1, QuietWatched DEF Tick, Cascade, WebReadsAgain
<1>2. CASE ApiUpdateSymbolReads \/ JobReads \/ WarmUpReads
  BY <1>2, SlowReadWatched DEF ApiUpdateSymbolReads, JobReads, WarmUpReads, Writers
<1>3. CASE ApiUpdateSymbolReplaces \/ JobReplaces \/ WarmUpReplaces
  BY <1>3, SlowReplaceWatched DEF ApiUpdateSymbolReplaces, JobReplaces, WarmUpReplaces, Writers
<1> QED BY <1>1, <1>2, <1>3, HandlerWatched, WebReplaceWatched DEF DocumentNext

LEMMA UsedGrows ==
    ASSUME DocumentNext \/ Cascade
    PROVE  used \subseteq used'
  BY DEF DocumentNext, Handler, Cascade, Tick, WebReplace, WebReadsAgain, ApiUpdateSymbolReads,
         ApiUpdateSymbolReplaces, JobReads, JobReplaces, WarmUpReads, WarmUpReplaces, SlowRead,
         SlowReplace, ApiDeleteSymbol, EnsureSymbolConfig, ApiAddPosition,
         ApiAddPositionFromActivity, ApiManualRollPosition, ApiClosePosition,
         ApiUpdatePositionNotes, ApiUpdatePositionPremium, ApiSetPositionPaper,
         ApiUpdatePositionBuybackCost, ApiUpdatePositionExpiration, ApiUpdatePositionStrike,
         ApiDeletePosition, ApiPauseSymbolWatchlist, Unconditional, Request

LEMMA DocumentKeeps ==
    ASSUME MInv, Fewer, DocumentNext \/ Cascade
    PROVE  MInv'
<1>1. IInv'
  BY NextKeeps DEF MInv
<1>2. MonitorTypes' /\ Stored'
  BY FewerStored, UsedGrows DEF MInv
<1>3. Watched'
  BY DocumentWatched DEF MInv
<1> QED BY <1>1, <1>2, <1>3 DEF MInv

LEMMA ActivityRollKeeps ==
    ASSUME MInv, NEW a \in activities, NEW new \in Ids, ApiRollPositionFromActivity(a, new)
    PROVE  MInv'
<1>1. /\ IInv /\ MonitorTypes /\ Watched /\ Stored /\ Fewer /\ used \subseteq used'
      /\ new \in Fresh /\ CanRoll(doc, a.id)
      /\ Request(Rolled(doc, a.id, new, a.kind, a.contract), FALSE, "replace", None)
  BY DEF MInv, ApiRollPositionFromActivity, Request, Fewer, monitorVars
<1> PICK p, kind, c : p = a.id /\ kind = a.kind /\ c = a.contract
  OBVIOUS
<1>2. p \in Ids /\ kind \in Kinds /\ c \in Contracts /\ p \in DOMAIN doc
  BY <1>1 DEF MonitorTypes, IInv, TypeOK, CanRoll
<1>3. IInv'
  BY <1>1, <1>2, RollRequestKeeps
<1>4. Watched'
  BY <1>1, <1>2, RollRequestWatched
<1> QED BY <1>1, <1>3, <1>4, FewerStored DEF MInv

LEMMA MonitorNextKeeps ==
    ASSUME MInv, [MonitorNext]_vars
    PROVE  MInv'
<1>1. CASE DocumentNext /\ UNCHANGED monitorVars
  BY <1>1, DocumentKeeps DEF Fewer, monitorVars
<1>2. CASE DeleteCascade
  BY <1>2, DocumentKeeps DEF DeleteCascade, Fewer
<1>3. CASE UNCHANGED vars
  <2>1. Fewer /\ UNCHANGED docVars /\ UNCHANGED <<doc, web, slow, undone, used>>
    BY <1>3 DEF vars, docVars, monitorVars, Fewer
  <2>2. IInv'
    BY <2>1, NextKeeps DEF MInv
  <2>3. MonitorTypes' /\ Stored'
    BY <2>1, FewerStored DEF MInv
  <2> QED BY <2>1, <2>2, <2>3, FewerDerived, DerivedWatched DEF MInv
<1> QED BY <1>1, <1>2, <1>3, ActivityRollKeeps, MonitorKeeps DEF MonitorNext

LEMMA MonitorInitMInv == MonitorInit => MInv
<1> SUFFICES ASSUME MonitorInit PROVE MInv
  OBVIOUS
<1>1. /\ IInv /\ web = None /\ slow = [w \in Writers |-> None]
      /\ run = [r \in Runs |-> None] /\ cron = [c \in Crons |-> None]
      /\ activities = {} /\ snapshots = {}
  BY InitIInv DEF MonitorInit, Init
<1>2. MonitorTypes /\ Stored
  BY <1>1 DEF MonitorTypes, Stored, ScoresMatch, DecisionsHold
<1>3. \A p : Unseen(p)
  BY <1>1 DEF Unseen, InFlight
<1>4. Watched
  BY <1>1, <1>3, UnseenFollows DEF Watched
<1> QED BY <1>1, <1>2, <1>4 DEF MInv

-----------------------------------------------------------------------------
(* What is read back of a position is of its present contract.             *)

LEMMA ReadBack ==
    ASSUME NEW pos, NEW x, pos.expirationAt \in Nat, pos.strikeAt \in Nat,
           Corrected(pos) => /\ x.contract.expiration = pos.contract.expiration
                             /\ monitoring_after_expiration_correction(pos, x.contract.strike, x.at),
           SameExpiration(pos, x.contract),
           x.contract.strike = None \/ SameStrike(pos, x.contract)
    PROVE  /\ x.contract.expiration = pos.contract.expiration
           /\ x.contract.strike \in {None, pos.contract.strike}
<1>1. CASE Corrected(pos)
  BY <1>1 DEF monitoring_after_expiration_correction, SameStrike
<1>2. CASE ~Corrected(pos)
  <2>1. pos.expirationAt = 0 /\ pos.strikeAt = 0
    BY <1>2 DEF Corrected, CorrectedAt
  <2> QED BY <2>1 DEF SameExpiration, SameStrike
<1> QED BY <1>1, <1>2

LEMMA ObservedNow == MInv => ObservationsCurrent
<1> SUFFICES ASSUME MInv, doc # None, NEW p \in DOMAIN doc \ undone
             PROVE  /\ \A s \in CurrentSnapshots(p) :
                          /\ s.contract.expiration = doc[p].contract.expiration
                          /\ s.contract.strike \in {None, doc[p].contract.strike}
                    /\ \A a \in Context(p, doc[p]) : \A half \in {"strike", "expiration"} :
                          doc[p].contract[half] \in {a.contract[half], a.named[half]}
  BY DEF ObservationsCurrent, SnapshotsCurrent, ContextCurrent
<1> PICK pos : pos = doc[p]
  OBVIOUS
<1>1. /\ pos \in Position /\ Follows(p, pos) /\ Held(p)
      /\ pos.expirationAt \in Nat /\ pos.strikeAt \in Nat
  <2>1. pos \in Position /\ Follows(p, pos) /\ Held(p)
    BY DEF MInv, IInv, Sound, Document, Watched, Held
  <2> QED BY <2>1, PositionsAssumption DEF Position
<1>2. ASSUME NEW s \in CurrentSnapshots(p)
      PROVE  /\ s.contract.expiration = pos.contract.expiration
             /\ s.contract.strike \in {None, pos.contract.strike}
  <2>1. /\ SameExpiration(pos, s.contract)
        /\ s.contract.strike = None \/ SameStrike(pos, s.contract)
    BY <1>1, <1>2 DEF CurrentSnapshots, Follows
  <2>2. Corrected(pos) => s.contract.expiration = pos.contract.expiration
    BY <1>1, <1>2 DEF CurrentSnapshots
  <2>3. monitoring_after_expiration_correction(pos, s.contract.strike, s.at)
    BY <1>1, <1>2 DEF CurrentSnapshots
  <2> QED BY <1>1, <2>1, <2>2, <2>3, ReadBack
<1>3. ASSUME NEW a \in Context(p, pos)
      PROVE  /\ pos.contract.strike \in {a.contract.strike, a.named.strike}
             /\ pos.contract.expiration \in {a.contract.expiration, a.named.expiration}
  <2>1. a \in activities /\ a.id = p
    BY <1>3 DEF Context
  <2>2. SameExpiration(pos, a.contract) /\ SameStrike(pos, a.contract)
    BY <1>1, <2>1 DEF Follows, Same
  <2>3. Corrected(pos) => /\ a.named.expiration = pos.contract.expiration
                          /\ monitoring_after_expiration_correction(pos, a.named.strike, a.at)
    BY <1>3 DEF Context
  <2>4. CASE Corrected(pos)
    BY <1>1, <2>2, <2>3, <2>4 DEF monitoring_after_expiration_correction, SameStrike
  <2>5. CASE ~Corrected(pos)
    <3>1. pos.expirationAt = 0 /\ pos.strikeAt = 0
      BY <1>1, <2>5 DEF Corrected, CorrectedAt
    <3> QED BY <3>1, <2>2 DEF SameExpiration, SameStrike
  <2> QED BY <2>4, <2>5
<1> QED BY <1>2, <1>3

-----------------------------------------------------------------------------
(* Neither a score nor an agent is given an observation of a contract that *)
(* the position no longer is, however the reads, the writes, the           *)
(* corrections and the replaces of old copies interleave; but for an       *)
(* activity whose agent named the present strike or expiration, although   *)
(* its run was on the old one.                                             *)
THEOREM ObservationsStayCurrent == MonitorSpec => []ObservationsCurrent
  BY MonitorInitMInv, MonitorNextKeeps, ObservedNow, PTL DEF MonitorSpec

(* A run that scores long after it wrote its snapshot, and a pass over the *)
(* positions it read before, put no score of one expiration on another.    *)
THEOREM ScoresBelong == MonitorSpec => []ScoresMatch
<1>1. MInv => ScoresMatch
  BY DEF MInv, Stored
<1> QED BY MonitorInitMInv, MonitorNextKeeps, <1>1, PTL DEF MonitorSpec

(* Whatever the two agents answer: a stored roll says where to, and a call *)
(* that cannot be bought back is told to wait.                             *)
THEOREM DecisionsAreSafe == MonitorSpec => []DecisionsHold
<1>1. MInv => DecisionsHold
  BY DEF MInv, Stored
<1> QED BY MonitorInitMInv, MonitorNextKeeps, <1>1, PTL DEF MonitorSpec
=============================================================================
