------------------------- MODULE OptionsChainStore -------------------------
(***************************************************************************)
(* options_chain_store.py: several processes (web replicas, scheduler)     *)
(* persist the accumulated chain of one symbol into shards, one document   *)
(* per expiration, by read, reconcile and conditional replace on the ETag. *)
(* Each process feeds it the chain of its own memory, extended by the      *)
(* observations of a refresh cycle.  Everything a container call can do is *)
(* one action: it may answer, conflict, fail, or be applied with its       *)
(* answer lost; a process may restart between any two calls.               *)
(***************************************************************************)
EXTENDS ShardModel, FiniteSetsExt

CONSTANTS
    NoChain,        \* nothing in memory, or the shard does not exist
    MaxAttempts,    \* _MAX_CAS_ATTEMPTS
    MaxClock,       \* bound: refresh cycles of all processes
    LastDay,        \* bound: last day of the model
    MayFail         \* whether container calls may fail and processes restart

ASSUME StoreAssumption ==
    /\ MaxAttempts \in Nat \ {0}
    /\ MaxClock \in Nat /\ LastDay \in Nat
    /\ MayFail \in BOOLEAN

AllToday == [c \in Contracts |-> 0]     \* an ExpOf for small instances

VARIABLES
    shards,         \* expiration -> [etag, bucket]; etag 0: no document
    etags,          \* ETags handed out so far
    mem,            \* chain in the memory of each process
    want,           \* chain being persisted
    pc,             \* "idle", "read", "write", "prune"
    todo,           \* expirations still to be persisted, or to be deleted
    attempt,        \* CAS attempt on the first of them
    seen,           \* the document read by it
    clock,
    today,
    written         \* history: touch of the newest contract a persist says it wrote

procVars == <<mem, want, pc, todo, attempt, seen>>
timeVars == <<clock, today>>
vars == <<shards, etags, procVars, timeVars, written>>

NoDoc == [etag |-> 0, bucket |-> Empty]
Exp(w) == Min(todo[w])
Offered(w) == BucketOf(want[w], Exp(w))
Stored == [e \in Expirations |-> shards[e].bucket]

(* hydrate: all documents of the symbol, None when there are none.         *)
Hydrated == [c \in UNION {DOMAIN Stored[e] : e \in Expirations} |-> Stored[ExpOf[c]][c]]

Init == /\ shards = [e \in Expirations |-> NoDoc]
        /\ etags = 0
        /\ mem = [w \in Writers |-> NoChain]
        /\ want = [w \in Writers |-> Empty]
        /\ pc = [w \in Writers |-> "idle"]
        /\ todo = [w \in Writers |-> {}]
        /\ attempt = [w \in Writers |-> 0]
        /\ seen = [w \in Writers |-> NoDoc]
        /\ clock = 0
        /\ today = 0
        /\ written = [c \in Contracts |-> 0]

-----------------------------------------------------------------------------
(* A refresh cycle of the process, up to the call of persist: the prior is *)
(* the memory, else the hydrated store, else nothing; contracts listed now *)
(* are touched, the others carried; expired days are not served.           *)
Merged(prior, live, now) ==
    [c \in {x \in DOMAIN prior \cup DOMAIN live : ExpOf[x] >= today} |->
        IF c \in DOMAIN live
        THEN [touch |-> now, obs |-> live[c], carried |-> FALSE]
        ELSE [prior[c] EXCEPT !.carried = TRUE]]

Refresh(w, prior, live) ==
    LET chain == Merged(prior, live, clock + 1)
    IN  /\ pc[w] = "idle"
        /\ clock < MaxClock
        /\ \A c \in DOMAIN live : ExpOf[c] >= today
        /\ clock' = clock + 1
        /\ mem' = [mem EXCEPT ![w] = chain]
        /\ want' = [want EXCEPT ![w] = chain]
        /\ todo' = [todo EXCEPT ![w] = {ExpOf[c] : c \in DOMAIN chain}]
        /\ attempt' = [attempt EXCEPT ![w] = 1]
        /\ pc' = [pc EXCEPT ![w] = IF DOMAIN chain = {} THEN "prune" ELSE "read"]
        /\ UNCHANGED <<shards, etags, seen, today, written>>

WarmRefresh(w) == /\ mem[w] # NoChain
                  /\ \E C \in SUBSET Contracts : \E live \in [C -> Obs] :
                        Refresh(w, mem[w], live)
ColdRefresh(w) == /\ mem[w] = NoChain
                  /\ \E C \in SUBSET Contracts : \E live \in [C -> Obs] :
                        Refresh(w, Hydrated, live)

(* hydrate failed and returned None: the cycle starts from nothing.        *)
BlindRefresh(w) == /\ MayFail /\ mem[w] = NoChain
                   /\ \E C \in SUBSET Contracts : \E live \in [C -> Obs] :
                         Refresh(w, Empty, live)

-----------------------------------------------------------------------------
(* persist and _write_shard.  NextShard: this expiration is settled.       *)
NextShard(w) ==
    /\ todo' = [todo EXCEPT ![w] = @ \ {Exp(w)}]
    /\ attempt' = [attempt EXCEPT ![w] = 1]
    /\ seen' = [seen EXCEPT ![w] = NoDoc]
    /\ pc' = [pc EXCEPT ![w] = IF todo[w] = {Exp(w)} THEN "prune" ELSE "read"]
    /\ UNCHANGED <<mem, want>>

BodyAsOffered(w, stored) == Reconcile(stored, Offered(w))          \* mutant
Body(w, stored) == SizeValve(Reconcile(stored, Offered(w)), clock)

ReadShard(w) ==
    /\ pc[w] = "read"
    /\ seen' = [seen EXCEPT ![w] = shards[Exp(w)]]
    /\ pc' = [pc EXCEPT ![w] = "write"]
    /\ UNCHANGED <<shards, etags, mem, want, todo, attempt, timeVars, written>>

(* The content hash of the merge equals the stored one: no write.          *)
Unchanged(w) ==
    /\ pc[w] = "write"
    /\ seen[w].etag # 0
    /\ Content(Body(w, seen[w].bucket)) = Content(seen[w].bucket)
    /\ NextShard(w)
    /\ UNCHANGED <<shards, etags, timeVars, written>>

Differs(w) == \/ seen[w].etag = 0
              \/ Content(Body(w, seen[w].bucket)) # Content(seen[w].bucket)

Replace(w) ==
    /\ etags' = etags + 1
    /\ shards' = [shards EXCEPT ![Exp(w)] =
                     [etag |-> etags + 1, bucket |-> Body(w, seen[w].bucket)]]

EtagIgnored(w) == TRUE                                             \* mutant

(* replace_item with IfNotModified, or create_item: the server accepts     *)
(* only a document that is still the one read, or still absent.            *)
EtagMatches(w) == shards[Exp(w)].etag = seen[w].etag

Write(w) ==
    /\ pc[w] = "write" /\ Differs(w) /\ EtagMatches(w)
    /\ Replace(w)
    /\ written' = [c \in Contracts |->
                     IF /\ c \in DOMAIN Offered(w) \cap DOMAIN Body(w, seen[w].bucket)
                        /\ Offered(w)[c].touch > written[c]
                     THEN Offered(w)[c].touch ELSE written[c]]
    /\ NextShard(w)
    /\ UNCHANGED timeVars

(* 409 or 412: read and reconcile again, or give the shard up this cycle.  *)
Conflict(w) ==
    /\ pc[w] = "write" /\ Differs(w) /\ ~EtagMatches(w)
    /\ shards[Exp(w)].etag # 0
    /\ IF attempt[w] < MaxAttempts
       THEN /\ attempt' = [attempt EXCEPT ![w] = @ + 1]
            /\ pc' = [pc EXCEPT ![w] = "read"]
            /\ UNCHANGED <<mem, want, todo, seen>>
       ELSE NextShard(w)
    /\ UNCHANGED <<shards, etags, timeVars, written>>

(* 404: the document was deleted since it was read; replace_item raises,   *)
(* which persist counts as an error before it goes on.                     *)
Vanished(w) ==
    /\ pc[w] = "write" /\ Differs(w) /\ ~EtagMatches(w)
    /\ shards[Exp(w)].etag = 0
    /\ NextShard(w)
    /\ UNCHANGED <<shards, etags, timeVars, written>>

(* Any other failure of a call: persist counts it and goes on.             *)
CallFails(w) ==
    /\ MayFail
    /\ pc[w] \in {"read", "write"}
    /\ NextShard(w)
    /\ UNCHANGED <<shards, etags, timeVars, written>>

(* The server applied the write but the answer was lost.                   *)
AnswerLost(w) ==
    /\ MayFail
    /\ pc[w] = "write" /\ Differs(w) /\ EtagMatches(w)
    /\ Replace(w)
    /\ NextShard(w)
    /\ UNCHANGED <<timeVars, written>>

-----------------------------------------------------------------------------
(* prune_expired: one query, then an unconditional delete per shard.       *)
Due(e) == PastGrace(e, today)

PruneQuery(w) ==
    /\ pc[w] = "prune"
    /\ todo' = [todo EXCEPT ![w] = {e \in Expirations : shards[e].etag # 0 /\ Due(e)}]
    /\ pc' = [pc EXCEPT ![w] = IF todo'[w] = {} THEN "idle" ELSE "delete"]
    /\ UNCHANGED <<shards, etags, mem, want, attempt, seen, timeVars, written>>

Deleted(w) ==
    /\ todo' = [todo EXCEPT ![w] = @ \ {Exp(w)}]
    /\ pc' = [pc EXCEPT ![w] = IF todo[w] = {Exp(w)} THEN "idle" ELSE @]
    /\ UNCHANGED <<etags, mem, want, attempt, seen, timeVars, written>>

Delete(w) ==
    /\ pc[w] = "delete"
    /\ shards' = [shards EXCEPT ![Exp(w)] = NoDoc]
    /\ Deleted(w)

DeleteFails(w) ==
    /\ MayFail /\ pc[w] = "delete"
    /\ Deleted(w)
    /\ UNCHANGED shards

(* The process dies and comes back with an empty memory.                   *)
Restart(w) ==
    /\ MayFail
    /\ mem[w] # NoChain
    /\ mem' = [mem EXCEPT ![w] = NoChain]
    /\ pc' = [pc EXCEPT ![w] = "idle"]
    /\ todo' = [todo EXCEPT ![w] = {}]
    /\ attempt' = [attempt EXCEPT ![w] = 0]
    /\ seen' = [seen EXCEPT ![w] = NoDoc]
    /\ UNCHANGED <<shards, etags, want, timeVars, written>>

NextDay ==
    /\ today < LastDay
    /\ today' = today + 1
    /\ UNCHANGED <<shards, etags, procVars, clock, written>>

Step(w) == \/ WarmRefresh(w) \/ ColdRefresh(w) \/ BlindRefresh(w)
           \/ ReadShard(w) \/ Unchanged(w) \/ Write(w) \/ Conflict(w) \/ Vanished(w)
           \/ CallFails(w) \/ AnswerLost(w)
           \/ PruneQuery(w) \/ Delete(w) \/ DeleteFails(w)
           \/ Restart(w)

Next == NextDay \/ \E w \in Writers : Step(w)

Spec == Init /\ [][Next]_vars
-----------------------------------------------------------------------------
(* The state is well typed, a shard is never tried more than MaxAttempts   *)
(* times in a cycle, and a writer with work to do knows on which shard.    *)
TypeOK ==
    /\ \A e \in Expirations :
         /\ shards[e].etag \in 0..etags /\ IsBucket(shards[e].bucket)
         /\ \A c \in DOMAIN shards[e].bucket : ExpOf[c] = e
    /\ \A w \in Writers :
         /\ mem[w] = NoChain \/ IsBucket(mem[w])
         /\ IsBucket(want[w])
         /\ pc[w] \in {"idle", "read", "write", "prune", "delete"}
         /\ todo[w] \subseteq Expirations
         /\ todo[w] # {} <=> pc[w] \in {"read", "write", "delete"}
         /\ attempt[w] \in 0..MaxAttempts
    /\ clock \in 0..MaxClock /\ today \in 0..LastDay

(* No acknowledged write is ever lost: once persist reports a shard        *)
(* written, each contract of it stays stored, at that recency or a later   *)
(* one, whatever the other processes read before and write after           *)
(* ("monotone and safe to retry"), until its grace period is over.  Dead   *)
(* contracts may leave through the size valve.                             *)
Durable ==
    \A c \in Contracts \ Dead :
        written[c] > 0 /\ ~PastGrace(ExpOf[c], today) =>
            /\ c \in DOMAIN Stored[ExpOf[c]]
            /\ Stored[ExpOf[c]][c].touch >= written[c]

(* persist is atomic: read, reconcile, compare and replace, interleaved    *)
(* with the same steps of other processes, with failures and restarts,     *)
(* change a shard only as one indivisible merge of the writer's chain into *)
(* the shard as it is at that moment; shards vanish only past their grace. *)
Abs == INSTANCE AtomicShards WITH bucket <- Stored
AbsSpec == Abs!Spec

=============================================================================
