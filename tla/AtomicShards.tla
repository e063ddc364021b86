---------------------------- MODULE AtomicShards ----------------------------
(***************************************************************************)
(* What OptionsChainStore promises its callers: the persisted shards       *)
(* change only by whole, indivisible merges of an offered chain into       *)
(* whatever is stored at that instant, and by the deletion of shards whose *)
(* expiration lies more than the grace period back.                        *)
(***************************************************************************)
EXTENDS ShardModel

VARIABLES
    bucket,         \* bucket[e]: the contracts stored for expiration e
    want,           \* want[w]: the chain w offers
    clock,          \* time of the latest observation
    today           \* the date in New York

vars == <<bucket, want, clock, today>>

Init == /\ bucket = [e \in Expirations |-> Empty]
        /\ want = [w \in Writers |-> Empty]
        /\ clock = 0
        /\ today = 0

(* Callers come with new chains and time passes; the store stays.          *)
Environment ==
    /\ \A w \in Writers : IsBucket(want'[w])
    /\ clock' >= clock /\ today' >= today
    /\ UNCHANGED bucket

Store(w, e) ==
    /\ bucket' = [bucket EXCEPT ![e] =
                     SizeValve(Reconcile(@, BucketOf(want[w], e)), clock)]
    /\ UNCHANGED <<want, clock, today>>

Prune(e) ==
    /\ PastGrace(e, today)
    /\ bucket' = [bucket EXCEPT ![e] = Empty]
    /\ UNCHANGED <<want, clock, today>>

Next == \/ Environment
        \/ \E w \in Writers, e \in Expirations : Store(w, e)
        \/ \E e \in Expirations : Prune(e)

Spec == Init /\ [][Next]_vars
=============================================================================
