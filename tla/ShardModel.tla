----------------------------- MODULE ShardModel -----------------------------
(***************************************************************************)
(* The documents of options_chain_store.py: one shard per expiration, a    *)
(* bucket of contracts.  A contract is abstracted to its recency key       *)
(* (_contract_last_touch), its market-observable content and the carried   *)
(* flag; all operators here are pure.                                      *)
(***************************************************************************)
EXTENDS Integers, FiniteSets

CONSTANTS
    Writers,        \* processes that persist the symbol's chain
    Contracts,      \* contracts, numbered
    ExpOf,          \* expiration day of each contract
    Obs,            \* market-observable contents a contract may have
    Dead,           \* contracts whose openInterest is 0 or None
    MaxBucket,      \* contracts that fit in a shard (max_shard_bytes)
    Unseen,         \* _SIZE_VALVE_UNSEEN_DAYS, in clock units
    Grace           \* expired_shard_grace_days

ASSUME ShardAssumption ==
    /\ Contracts \subseteq Nat /\ IsFiniteSet(Contracts)
    /\ ExpOf \in [Contracts -> Nat]
    /\ Dead \subseteq Contracts
    /\ MaxBucket \in Nat /\ Unseen \in Nat \ {0} /\ Grace \in Nat

Expirations == {ExpOf[c] : c \in Contracts}
Contract == [touch : Nat, obs : Obs, carried : BOOLEAN]
IsBucket(b) == /\ DOMAIN b \subseteq Contracts
               /\ b \in [DOMAIN b -> Contract]
Empty == [c \in {} |-> 0]

BucketOf(chain, e) == [c \in {x \in DOMAIN chain : ExpOf[x] = e} |-> chain[c]]

(* _reconcile_bucket: union; on both sides the later touch, ties to want.  *)
Reconcile(stored, want) ==
    [c \in DOMAIN stored \cup DOMAIN want |->
        IF /\ c \in DOMAIN want
           /\ c \in DOMAIN stored => want[c].touch >= stored[c].touch
        THEN want[c] ELSE stored[c]]

(* _apply_size_valve: of the carried, dead contracts unseen for long, the  *)
(* oldest go first until the shard fits or none of them is left.           *)
Evictable(b, now) ==
    {c \in DOMAIN b : b[c].carried /\ c \in Dead /\ b[c].touch + Unseen <= now}
Older(b, d, c) == b[d].touch < b[c].touch \/ (b[d].touch = b[c].touch /\ d < c)
Evicted(b, now) ==
    {c \in Evictable(b, now) :
        Cardinality({d \in Evictable(b, now) : Older(b, d, c)}) < Cardinality(DOMAIN b) - MaxBucket}
SizeValve(b, now) == [c \in DOMAIN b \ Evicted(b, now) |-> b[c]]

(* _content_hash: the touch is volatile and not part of it.                *)
Content(b) == [c \in DOMAIN b |-> <<b[c].obs, b[c].carried>>]

PastGrace(e, day) == e + Grace < day
=============================================================================
