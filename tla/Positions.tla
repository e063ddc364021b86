------------------------------ MODULE Positions ------------------------------
(***************************************************************************)
(* The document of one symbol and the positions in it.  Every operation    *)
(* of cosmos_db.py reads the whole document, changes its copy and replaces *)
(* the stored one; only the two corrections make the replace conditional   *)
(* on the ETag they read.  The web handlers run one at a time on the event *)
(* loop, but the scheduler's worker and the warm-up thread read and        *)
(* replace the same document beside them, and the handler of PUT           *)
(* /api/symbols reads it before it awaits the request's body.              *)
(*                                                                         *)
(* Abstracted: notes, premiums, buyback costs, the paper flag, watchlist   *)
(* flags, prices and enrichment are not kept; that their writes rewrite    *)
(* the whole document is.  A position id is fresh (it carries the second). *)
(* A tick of `now` is a second, the grain of the monitor's timestamps.     *)
(***************************************************************************)
EXTENDS Integers, FiniteSets, Functions, TLC

CONSTANTS
    Ids,            \* position ids
    Strikes,
    Expirations,
    Kinds,          \* {"call", "put"}
    None,
    MaxWrites,      \* bound: replaces of the document
    MaxSlow,        \* bound: copies held by slow writers at one time
    MaxNow          \* bound: seconds

ASSUME PositionsAssumption ==
    /\ None \notin Ids
    /\ Kinds \subseteq {"call", "put"}
    /\ MaxWrites \in Nat
    /\ MaxSlow \in Nat
    /\ MaxNow \in Nat \ {0}

VARIABLES
    doc,            \* position id -> position, None when the document is deleted
    etag,           \* its version
    web,            \* the request the event loop is in the middle of, or None
    slow,           \* writer -> the copy it read, or None
    used,           \* the position ids handed out so far
    undone,         \* history: positions a replace of an old copy set back
    now

docVars == <<doc, etag, web, slow, used, undone, now>>

Contracts == [strike : Strikes, expiration : Expirations]

Position == [kind : Kinds, status : {"active", "rolled", "closed"},
             contract : Contracts, from : Ids \cup {None}, to : Ids \cup {None},
             expirationAt : 0 .. MaxNow, strikeAt : 0 .. MaxNow]

Writers == {"update", "pricing", "warmup"}

Held(p) == doc # None /\ p \in DOMAIN doc

--------------------------------------------------------------------------
(* The operations on the copy. *)

(* add_position *)
WithPosition(d, p, kind, c) ==
    [q \in DOMAIN d \cup {p} |->
        IF q \in DOMAIN d THEN d[q]
        ELSE [kind |-> kind, status |-> "active", contract |-> c, from |-> None, to |-> None,
              expirationAt |-> 0, strikeAt |-> 0]]

CanRollTwice(d, p) == p \in DOMAIN d           \* mutant

CanRoll(d, p) == p \in DOMAIN d /\ d[p].status = "active"

(* roll_position: the old position is rolled and points to the new one,    *)
(* which points back, in one replace.                                      *)
Rolled(d, p, new, kind, c) ==
    [WithPosition(d, new, kind, c) EXCEPT
        ![p].status = "rolled", ![p].to = new, ![new].from = p]

(* close_position does not ask whether the position is active: a rolled    *)
(* one may be closed as well.                                              *)
Closed(d, p) == [d EXCEPT ![p].status = "closed"]

(* delete_position takes the entry out; links to it stay.                  *)
Without(d, p) == Restrict(d, DOMAIN d \ {p})

(* update_position_expiration: any status.                                 *)
WithExpiration(d, p, e) ==
    [d EXCEPT ![p].contract.expiration = e, ![p].expirationAt = now]

(* update_position_strike: active option positions only.                   *)
WithStrike(d, p, s) == [d EXCEPT ![p].contract.strike = s, ![p].strikeAt = now]

--------------------------------------------------------------------------
Init ==
    /\ \E p \in Ids, k \in Kinds, c \in Contracts : doc = WithPosition(<<>>, p, k, c)
    /\ etag = 0
    /\ web = None
    /\ slow = [w \in Writers |-> None]
    /\ used = DOMAIN doc
    /\ undone = {}
    /\ now = 1

Copy(new, match, step, p) ==
    [base |-> doc, read |-> etag, new |-> new, match |-> match, step |-> step, id |-> p]

(* A handler read the document and computed its replacement; the event     *)
(* loop is in its replace call.                                            *)
Request(new, match, step, p) ==
    /\ web = None
    /\ doc # None
    /\ etag < MaxWrites
    /\ web' = Copy(new, match, step, p)
    /\ used' = used \cup DOMAIN new
    /\ UNCHANGED <<doc, etag, slow, undone, now>>

Unconditional(new) == Request(new, FALSE, "replace", None)

Fresh == Ids \ used

ApiAddPosition(p, k, c) == p \in Fresh /\ Unconditional(WithPosition(doc, p, k, c))

(* A second read and replace then switches the watchlist off.              *)
ApiAddPositionFromActivity(p, k, c) ==
    p \in Fresh /\ Request(WithPosition(doc, p, k, c), FALSE, "open", p)

(* The buyback cost is written by a second replace, of the document the    *)
(* first one returned.                                                     *)
ApiManualRollPosition(p, new, c) ==
    /\ new \in Fresh
    /\ Held(p) /\ CanRoll(doc, p)
    /\ \E step \in {"replace", "roll"} :
        Request(Rolled(doc, p, new, doc[p].kind, c), FALSE, step, p)

ApiClosePosition(p) == Held(p) /\ doc[p].status # "closed" /\ Unconditional(Closed(doc, p))

ApiUpdatePositionNotes(p) == Held(p) /\ Unconditional(doc)

ApiUpdatePositionPremium(p) == Held(p) /\ Unconditional(doc)

ApiSetPositionPaper(p) == Held(p) /\ Unconditional(doc)

ApiUpdatePositionBuybackCost(p) == Held(p) /\ doc[p].to # None /\ Unconditional(doc)

ApiUpdatePositionExpirationBlind(p, e) ==      \* mutant
    /\ Held(p) /\ doc[p].contract.expiration # e
    /\ Request(WithExpiration(doc, p, e), FALSE, "correct", p)

ApiUpdatePositionExpiration(p, e) ==
    /\ Held(p)
    /\ doc[p].contract.expiration # e
    /\ Request(WithExpiration(doc, p, e), TRUE, "correct", p)

ApiUpdatePositionStrike(p, s) ==
    /\ Held(p)
    /\ doc[p].status = "active"
    /\ doc[p].contract.strike # s
    /\ Request(WithStrike(doc, p, s), TRUE, "correct", p)

ApiDeletePosition(p) == Held(p) /\ Request(Without(doc, p), FALSE, "delete", p)

(* set_watchlist_pause and clear_watchlist_pause by hand.                  *)
ApiPauseSymbolWatchlist == doc # None /\ Unconditional(doc)

(* The document goes, then what belongs to the symbol.                     *)
ApiDeleteSymbol ==
    /\ web = None
    /\ doc # None
    /\ etag < MaxWrites
    /\ doc' = None
    /\ etag' = etag + 1
    /\ web' = Copy(<<>>, FALSE, "cascade", None)
    /\ UNCHANGED <<slow, used, undone, now>>

(* ensure_symbol_config: the symbol is added again, without positions.     *)
EnsureSymbolConfig ==
    /\ web = None
    /\ doc = None
    /\ etag < MaxWrites
    /\ doc' = <<>>
    /\ etag' = etag + 1
    /\ UNCHANGED <<web, slow, used, undone, now>>

--------------------------------------------------------------------------
(* replace_item: refused when the document is gone, or when it is          *)
(* conditional and the document changed.  A replace of an old copy sets    *)
(* back whatever was written since the copy was read.                      *)
Accepted(copy) == doc # None /\ (copy.match => copy.read = etag)

Differs(d1, d2) ==
    {p \in DOMAIN d1 \cup DOMAIN d2 :
        p \notin DOMAIN d1 \/ p \notin DOMAIN d2 \/ d1[p] # d2[p]}

Store(copy) ==
    IF Accepted(copy)
    THEN /\ doc' = copy.new
         /\ etag' = etag + 1
         /\ undone' = undone \cup Differs(copy.base, doc)
    ELSE UNCHANGED <<doc, etag, undone>>

(* What follows an accepted replace in the same handler: the buyback cost  *)
(* on the returned document, the watchlist on the document read again, the *)
(* cascade; a refused one raises out of the handler.                       *)
Following(copy) ==
    LET next == [copy EXCEPT !.base = doc', !.read = etag', !.new = doc']
        then == [roll |-> "replace", open |-> "reread", delete |-> "cascade"]
    IN  IF Accepted(copy) /\ copy.step \in DOMAIN then
        THEN [next EXCEPT !.step = then[copy.step]] ELSE None

WebReplace ==
    /\ web # None
    /\ web.step \notin {"reread", "cascade"}
    /\ etag < MaxWrites
    /\ Store(web)
    /\ web' = Following(web)
    /\ UNCHANGED <<slow, used, now>>

WebReadsAgain ==
    /\ web # None
    /\ web.step = "reread"
    /\ web' = IF doc = None THEN None ELSE Copy(doc, FALSE, "replace", None)
    /\ UNCHANGED <<doc, etag, slow, used, undone, now>>

(* delete_position and delete_symbol: what hangs on the position, or on    *)
(* the symbol, is deleted last.                                            *)
Cascade ==
    /\ web # None
    /\ web.step = "cascade"
    /\ web' = None
    /\ UNCHANGED <<doc, etag, slow, used, undone, now>>

(* A thread, or the handler that awaits its body, reads the document...    *)
SlowRead(w) ==
    /\ doc # None
    /\ slow[w] = None
    /\ Cardinality({v \in Writers : slow[v] # None}) < MaxSlow
    /\ etag < MaxWrites
    /\ slow' = [slow EXCEPT ![w] = Copy(doc, FALSE, "replace", None)]
    /\ UNCHANGED <<doc, etag, web, used, undone, now>>

(* ...and replaces it.  The handler needs the event loop for that.         *)
SlowReplace(w) ==
    /\ slow[w] # None
    /\ etag < MaxWrites
    /\ Store(slow[w])
    /\ slow' = [slow EXCEPT ![w] = None]
    /\ UNCHANGED <<web, used, now>>

ApiUpdateSymbolReads == web = None /\ SlowRead("update")

ApiUpdateSymbolReplaces == web = None /\ SlowReplace("update")

(* refresh_symbol_pricing, run_portfolio_enrichment and the reactivation   *)
(* of paused symbols, on the scheduler's worker.                           *)
JobReads == SlowRead("pricing")

JobReplaces == SlowReplace("pricing")

(* The enrichment of the warm-up thread of a new holding.                  *)
WarmUpReads == SlowRead("warmup")

WarmUpReplaces == SlowReplace("warmup")

Tick ==
    /\ now < MaxNow
    /\ now' = now + 1
    /\ UNCHANGED <<doc, etag, web, slow, used, undone>>

Handler ==
    \/ \E p \in Ids, k \in Kinds, c \in Contracts : ApiAddPosition(p, k, c)
    \/ \E p \in Ids, k \in Kinds, c \in Contracts : ApiAddPositionFromActivity(p, k, c)
    \/ \E p, new \in Ids, c \in Contracts : ApiManualRollPosition(p, new, c)
    \/ \E p \in Ids : ApiClosePosition(p)
    \/ \E p \in Ids : ApiUpdatePositionNotes(p)
    \/ \E p \in Ids : ApiUpdatePositionPremium(p)
    \/ \E p \in Ids : ApiSetPositionPaper(p)
    \/ \E p \in Ids : ApiUpdatePositionBuybackCost(p)
    \/ \E p \in Ids, e \in Expirations : ApiUpdatePositionExpiration(p, e)
    \/ \E p \in Ids, s \in Strikes : ApiUpdatePositionStrike(p, s)
    \/ \E p \in Ids : ApiDeletePosition(p)
    \/ ApiPauseSymbolWatchlist
    \/ ApiDeleteSymbol
    \/ EnsureSymbolConfig

(* Everything but the cascade of a deletion, which touches the activities. *)
DocumentNext ==
    \/ Handler
    \/ WebReplace
    \/ WebReadsAgain
    \/ ApiUpdateSymbolReads
    \/ ApiUpdateSymbolReplaces
    \/ JobReads
    \/ JobReplaces
    \/ WarmUpReads
    \/ WarmUpReplaces
    \/ Tick

(* The documents alone; PositionMonitor adds the reviews and snapshots.    *)
DocumentSpec == Init /\ [][DocumentNext \/ Cascade]_docVars

Interchangeable == Permutations(Ids) \cup Permutations(Strikes) \cup Permutations(Expirations)

--------------------------------------------------------------------------
Document(d) == DOMAIN d \subseteq Ids /\ d \in [DOMAIN d -> Position]

Steps == {"replace", "roll", "open", "reread", "correct", "delete", "cascade"}

Pending(copy, version) ==
    /\ copy = [base |-> copy.base, read |-> copy.read, new |-> copy.new,
               match |-> copy.match, step |-> copy.step, id |-> copy.id]
    /\ Document(copy.base) /\ Document(copy.new)
    /\ copy.read \in 0 .. version
    /\ copy.match \in BOOLEAN
    /\ copy.step \in Steps
    /\ copy.id \in Ids \cup {None}

TypeOK ==
    /\ doc # None => Document(doc)
    /\ etag \in Nat
    /\ web # None => Pending(web, etag)
    /\ slow = [w \in Writers |-> slow[w]]
    /\ \A w \in Writers : slow[w] # None => Pending(slow[w], etag)
    /\ used \subseteq Ids
    /\ undone \subseteq Ids
    /\ now \in 1 .. MaxNow

(* A roll leaves one successor: whoever says that it was rolled from a     *)
(* position is the one that position was rolled to, and the position it    *)
(* was rolled from is not open any more (concepts.md: closes the current   *)
(* position and opens a new one, keeping the chain), whatever copies of    *)
(* the document are stored over one another.                               *)
OneSuccessor ==
    doc # None =>
        \A q \in DOMAIN doc :
            LET p == doc[q].from
            IN  p # None /\ Held(p) => doc[p].to = q /\ doc[p].status # "active"

(* A correction of strike or expiration changes nothing else: it never     *)
(* undoes a close, a roll, an edit or another correction that was stored   *)
(* after it read the document.                                             *)
CorrectionsKeep ==
    [][web # None /\ web.step = "correct" /\ web' = None /\ doc' # doc
        => /\ DOMAIN doc' = DOMAIN doc
           /\ \A p \in DOMAIN doc :
                  IF p = web.id
                  THEN /\ doc'[p].status = doc[p].status
                       /\ doc'[p].to = doc[p].to
                       /\ doc'[p].contract.strike = doc[p].contract.strike
                            \/ doc'[p].contract.expiration = doc[p].contract.expiration
                  ELSE doc'[p] = doc[p]]_docVars

=============================================================================
