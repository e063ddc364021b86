---------------------- MODULE OptionsChainStore_proofs ----------------------
(***************************************************************************)
(* Proofs about OptionsChainStore, for every set of processes, contracts   *)
(* and expirations, every size limit and grace period: the state is well   *)
(* typed, no acknowledged write is lost, and the store implements          *)
(* AtomicShards.                                                           *)
(***************************************************************************)
EXTENDS OptionsChainStore, WellFoundedInduction, TLAPS

(* A non-empty set of naturals has a least element: the expiration on      *)
(* which persist or prune_expired works is one of those to do.             *)
LEMMA NatMin == \A S \in SUBSET Nat : S # {} => Min(S) \in S
<1> SUFFICES ASSUME NEW S \in SUBSET Nat, S # {} PROVE Min(S) \in S  OBVIOUS
<1> DEFINE R == {ss \in Nat \X Nat : ss[1] < ss[2]}
<1>1. IsWellFoundedOn(R, Nat)  BY NatLessThanWellFounded, Zenon DEF OpToRel
<1> HIDE DEF R
<1>2. PICK x \in S : \A y \in S : ~(<<y, x>> \in R)  BY <1>1, WFMin
<1>3. \A y \in S : y < x => <<y, x>> \in R  BY DEF R
<1>4. \A y \in S : ~(y < x)  BY <1>2, <1>3, Zenon
<1>5. \A y \in S : x <= y  BY <1>4
<1> QED BY <1>5 DEF Min

(* Expirations are day numbers, so that they are taken in order.           *)
LEMMA ExpirationsAreDays == Expirations \subseteq Nat
BY ShardAssumption DEF Expirations

-----------------------------------------------------------------------------
(* _reconcile_bucket returns the union, each contract taken from one of    *)
(* the two sides and no older than on either.                              *)
LEMMA ReconcileUnites ==
    ASSUME NEW s, IsBucket(s), NEW v, IsBucket(v)
    PROVE  /\ IsBucket(Reconcile(s, v))
           /\ DOMAIN Reconcile(s, v) = DOMAIN s \cup DOMAIN v
           /\ \A c \in DOMAIN s : Reconcile(s, v)[c].touch >= s[c].touch
           /\ \A c \in DOMAIN v : Reconcile(s, v)[c].touch >= v[c].touch
<1> DEFINE r == Reconcile(s, v)
<1>1. \A c \in DOMAIN s : s[c] \in Contract /\ s[c].touch \in Nat
  BY DEF IsBucket, Contract
<1>2. \A c \in DOMAIN v : v[c] \in Contract /\ v[c].touch \in Nat
  BY DEF IsBucket, Contract
<1>3. DOMAIN r = DOMAIN s \cup DOMAIN v  BY DEF Reconcile
<1>4. \A c \in DOMAIN r :
         r[c] = IF /\ c \in DOMAIN v
                   /\ c \in DOMAIN s => v[c].touch >= s[c].touch
                THEN v[c] ELSE s[c]
  BY DEF Reconcile
<1>5. IsBucket(r)
  <2>1. \A c \in DOMAIN r : r[c] \in Contract  BY <1>1, <1>2, <1>3, <1>4
  <2>2. r = [c \in DOMAIN r |-> r[c]]  BY DEF Reconcile
  <2>3. DOMAIN r \subseteq Contracts  BY <1>3 DEF IsBucket
  <2> QED BY <2>1, <2>2, <2>3 DEF IsBucket
<1> QED BY <1>1, <1>2, <1>3, <1>4, <1>5

(* _apply_size_valve only removes contracts, and only dead ones.           *)
LEMMA ValveSparesLiving ==
    ASSUME NEW b, IsBucket(b), NEW now
    PROVE  /\ IsBucket(SizeValve(b, now))
           /\ DOMAIN SizeValve(b, now) \subseteq DOMAIN b
           /\ DOMAIN b \ Dead \subseteq DOMAIN SizeValve(b, now)
           /\ \A c \in DOMAIN SizeValve(b, now) : SizeValve(b, now)[c] = b[c]
BY DEF SizeValve, Evicted, Evictable, IsBucket

(* persist splits the chain by expiration.                                 *)
LEMMA BucketOfChain ==
    ASSUME NEW chain, IsBucket(chain), NEW e
    PROVE  /\ IsBucket(BucketOf(chain, e))
           /\ \A c \in DOMAIN BucketOf(chain, e) : ExpOf[c] = e
BY DEF BucketOf, IsBucket

-----------------------------------------------------------------------------
(* Every variable is a function of the expirations, writers or contracts.  *)
Shape ==
    /\ shards = [e \in Expirations |-> shards[e]]
    /\ mem = [w \in Writers |-> mem[w]]
    /\ want = [w \in Writers |-> want[w]]
    /\ pc = [w \in Writers |-> pc[w]]
    /\ todo = [w \in Writers |-> todo[w]]
    /\ attempt = [w \in Writers |-> attempt[w]]
    /\ seen = [w \in Writers |-> seen[w]]
    /\ written \in [Contracts -> Nat]
    /\ etags \in Nat

(* The document of an expiration holds its contracts only, under an ETag   *)
(* handed out before; ETag 0 is the absent document.                       *)
IsDoc(d, e, issued) ==
    /\ d.etag \in 0..issued
    /\ IsBucket(d.bucket)
    /\ \A c \in DOMAIN d.bucket : ExpOf[c] = e
    /\ d.etag = 0 => d.bucket = Empty

DocsOK == \A e \in Expirations : IsDoc(shards[e], e, etags)

(* An ETag names one content: a document read earlier whose ETag is still  *)
(* the current one is the current one.                                     *)
SeenOK(w) ==
    pc[w] = "write" =>
        /\ IsDoc(seen[w], Exp(w), etags)
        /\ seen[w].etag = shards[Exp(w)].etag => seen[w].bucket = shards[Exp(w)].bucket

(* What prune_expired listed stays deletable.                              *)
PruneOK(w) == pc[w] = "delete" => \A e \in todo[w] : PastGrace(e, today)

WriterOK(w) ==
    /\ mem[w] = NoChain \/ IsBucket(mem[w])
    /\ IsBucket(want[w])
    /\ pc[w] \in {"idle", "read", "write", "prune", "delete"}
    /\ todo[w] \subseteq Expirations
    /\ todo[w] # {} <=> pc[w] \in {"read", "write", "delete"}
    /\ attempt[w] \in 0..MaxAttempts
    /\ SeenOK(w)
    /\ PruneOK(w)

TimeOK == clock \in 0..MaxClock /\ today \in 0..LastDay

IInv == Shape /\ DocsOK /\ (\A w \in Writers : WriterOK(w)) /\ TimeOK /\ Durable

(* The invariant contains the one the runs check.                          *)
LEMMA IInvTypeOK == IInv => TypeOK
BY DEF IInv, DocsOK, IsDoc, WriterOK, TimeOK, TypeOK

(* The chain with no contract is a chain.                                  *)
LEMMA EmptyIsBucket == IsBucket(Empty) /\ DOMAIN Empty = {}
BY DEF IsBucket, Empty

(* An empty store and idle processes satisfy it.                           *)
LEMMA InitIInv == Init => IInv
<1> SUFFICES ASSUME Init PROVE IInv  OBVIOUS
<1> USE StoreAssumption, EmptyIsBucket
<1>1. Shape  BY ShardAssumption DEF Init, Shape
<1>2. DocsOK  BY DEF Init, DocsOK, IsDoc, NoDoc
<1>3. \A w \in Writers : WriterOK(w)  BY DEF Init, WriterOK, SeenOK, PruneOK
<1>4. TimeOK  BY DEF Init, TimeOK
<1>5. Durable  BY DEF Init, Durable
<1> QED BY <1>1, <1>2, <1>3, <1>4, <1>5 DEF IInv

(* The expiration at hand is one of those to do.                           *)
LEMMA ExpToDo ==
    ASSUME NEW w \in Writers, WriterOK(w), pc[w] \in {"read", "write", "delete"}
    PROVE  Exp(w) \in todo[w] /\ Exp(w) \in Expirations
<1>1. todo[w] \in SUBSET Nat /\ todo[w] # {} /\ todo[w] \subseteq Expirations
  BY ExpirationsAreDays DEF WriterOK
<1> QED BY <1>1, NatMin DEF Exp

(* What a write puts in the shard: a bucket of the expiration that keeps   *)
(* every living contract read or offered, at no earlier touch.             *)
LEMMA BodyKeeps ==
    ASSUME NEW w \in Writers, WriterOK(w), NEW d, IsDoc(d, Exp(w), etags)
    PROVE  /\ IsBucket(Body(w, d.bucket))
           /\ \A c \in DOMAIN Body(w, d.bucket) : ExpOf[c] = Exp(w)
           /\ \A c \in DOMAIN d.bucket \ Dead :
                 /\ c \in DOMAIN Body(w, d.bucket)
                 /\ Body(w, d.bucket)[c].touch >= d.bucket[c].touch
           /\ \A c \in DOMAIN Offered(w) \cap DOMAIN Body(w, d.bucket) :
                 /\ ExpOf[c] = Exp(w) /\ Offered(w)[c].touch \in Nat
                 /\ Body(w, d.bucket)[c].touch >= Offered(w)[c].touch
<1> DEFINE r == Reconcile(d.bucket, Offered(w))
<1>1. IsBucket(d.bucket) /\ \A c \in DOMAIN d.bucket : ExpOf[c] = Exp(w)
  BY DEF IsDoc
<1>2. IsBucket(Offered(w)) /\ \A c \in DOMAIN Offered(w) : ExpOf[c] = Exp(w)
  BY BucketOfChain DEF WriterOK, Offered
<1>3. /\ IsBucket(r) /\ DOMAIN r = DOMAIN d.bucket \cup DOMAIN Offered(w)
      /\ \A c \in DOMAIN d.bucket : r[c].touch >= d.bucket[c].touch
      /\ \A c \in DOMAIN Offered(w) : r[c].touch >= Offered(w)[c].touch
  BY <1>1, <1>2, ReconcileUnites
<1>4. /\ IsBucket(SizeValve(r, clock))
      /\ DOMAIN SizeValve(r, clock) \subseteq DOMAIN r
      /\ DOMAIN r \ Dead \subseteq DOMAIN SizeValve(r, clock)
      /\ \A c \in DOMAIN SizeValve(r, clock) : SizeValve(r, clock)[c] = r[c]
  BY <1>3, ValveSparesLiving
<1>5. Body(w, d.bucket) = SizeValve(r, clock)  BY DEF Body
<1>6. \A c \in DOMAIN Offered(w) : Offered(w)[c].touch \in Nat
  BY <1>2 DEF IsBucket, Contract
<1> HIDE DEF r
<1> QED BY <1>1, <1>2, <1>3, <1>4, <1>5, <1>6

-----------------------------------------------------------------------------
(* A shard only ever gets a new ETag or disappears.                        *)
StoreMoves ==
    /\ etags' >= etags
    /\ \A e \in Expirations :
          \/ shards'[e] = shards[e]
          \/ shards'[e] = NoDoc
          \/ shards'[e].etag > etags

(* A process keeps its part of the invariant while others move the store.  *)
LEMMA OthersStand ==
    ASSUME IInv, StoreMoves, etags' \in Nat, today' >= today, today' \in Nat,
           NEW v \in Writers,
           mem'[v] = mem[v], want'[v] = want[v], pc'[v] = pc[v],
           todo'[v] = todo[v], attempt'[v] = attempt[v], seen'[v] = seen[v]
    PROVE  WriterOK(v)'
<1>1. WriterOK(v) /\ etags \in Nat  BY DEF IInv, Shape
<1>2. Exp(v)' = Exp(v)  BY DEF Exp
<1>3. SeenOK(v)'
  <2> SUFFICES ASSUME pc[v] = "write"
               PROVE  /\ IsDoc(seen[v], Exp(v), etags')
                      /\ seen[v].etag = shards'[Exp(v)].etag
                           => seen[v].bucket = shards'[Exp(v)].bucket
    BY <1>2 DEF SeenOK
  <2>1. IsDoc(seen[v], Exp(v), etags)
    BY <1>1 DEF WriterOK, SeenOK
  <2>2. IsDoc(seen[v], Exp(v), etags')
    BY <1>1, <2>1 DEF IsDoc, StoreMoves
  <2>3. Exp(v) \in Expirations  BY <1>1, ExpToDo
  <2>4. CASE shards'[Exp(v)] = shards[Exp(v)]
    BY <1>1, <2>2, <2>4 DEF WriterOK, SeenOK
  <2>5. CASE shards'[Exp(v)] = NoDoc
    BY <2>1, <2>2, <2>5 DEF NoDoc, IsDoc
  <2>6. CASE shards'[Exp(v)].etag > etags
    BY <1>1, <2>1, <2>2, <2>6 DEF IsDoc
  <2> QED BY <2>3, <2>4, <2>5, <2>6 DEF StoreMoves
<1>4. PruneOK(v)'
  <2> SUFFICES ASSUME pc[v] = "delete", NEW e \in todo[v] PROVE PastGrace(e, today')
    BY DEF PruneOK
  <2>1. e \in Nat /\ PastGrace(e, today)
    BY <1>1, ExpirationsAreDays DEF WriterOK, PruneOK
  <2> QED BY <2>1, ShardAssumption DEF PastGrace, IInv, TimeOK
<1> QED BY <1>1, <1>3, <1>4 DEF WriterOK

(* A step of one process does not touch the others.                        *)
OnlyMoves(w) ==
    \A v \in Writers \ {w} :
        /\ mem'[v] = mem[v] /\ want'[v] = want[v] /\ pc'[v] = pc[v]
        /\ todo'[v] = todo[v] /\ attempt'[v] = attempt[v] /\ seen'[v] = seen[v]

LEMMA OneWriterSuffices ==
    ASSUME IInv, NEW w \in Writers, OnlyMoves(w), today' = today,
           Shape', StoreMoves, DocsOK', Durable', TimeOK', WriterOK(w)'
    PROVE  IInv'
<1>1. ASSUME NEW v \in Writers PROVE WriterOK(v)'
  <2>1. CASE v = w  BY <2>1
  <2>2. CASE v # w
    <3>1. /\ mem'[v] = mem[v] /\ want'[v] = want[v] /\ pc'[v] = pc[v]
          /\ todo'[v] = todo[v] /\ attempt'[v] = attempt[v] /\ seen'[v] = seen[v]
      BY <2>2 DEF OnlyMoves
    <3>2. etags' \in Nat /\ today' >= today /\ today' \in Nat
      BY DEF IInv, Shape, TimeOK
    <3> QED BY <3>1, <3>2, OthersStand
  <2> QED BY <2>1, <2>2
<1> QED BY <1>1 DEF IInv

(* Steps that leave the store alone keep what it promises; with time the   *)
(* promise only gets weaker.                                               *)
LEMMA StoreStands ==
    ASSUME IInv, UNCHANGED <<shards, etags, written>>, today' >= today, today' \in Nat
    PROVE  StoreMoves /\ DocsOK' /\ Durable'
<1>1. StoreMoves /\ DocsOK'
  BY DEF IInv, Shape, StoreMoves, DocsOK, IsDoc
<1>2. Durable'
  <2> SUFFICES ASSUME NEW c \in Contracts \ Dead,
                      written[c] > 0, ~PastGrace(ExpOf[c], today')
               PROVE  /\ c \in DOMAIN shards[ExpOf[c]].bucket
                      /\ shards[ExpOf[c]].bucket[c].touch >= written[c]
    BY DEF Durable, Stored, Expirations
  <2>1. ~PastGrace(ExpOf[c], today)
    BY ShardAssumption DEF PastGrace, IInv, TimeOK
  <2> QED BY <2>1 DEF Durable, Stored, Expirations, IInv
<1> QED BY <1>1, <1>2

-----------------------------------------------------------------------------
(* What a refresh starts from and what it makes of it are buckets.         *)
LEMMA HydratedIsBucket == IInv => IsBucket(Hydrated)
<1> SUFFICES ASSUME IInv PROVE IsBucket(Hydrated)  OBVIOUS
<1>1. \A e \in Expirations : \A c \in DOMAIN Stored[e] :
         /\ c \in Contracts /\ ExpOf[c] = e
         /\ Stored[e][c] \in Contract
  BY DEF IInv, DocsOK, IsDoc, IsBucket, Stored
<1>2. \A c \in DOMAIN Hydrated : c \in Contracts /\ Hydrated[c] \in Contract
  BY <1>1 DEF Hydrated
<1>3. Hydrated = [c \in DOMAIN Hydrated |-> Hydrated[c]]  BY DEF Hydrated
<1> QED BY <1>2, <1>3 DEF IsBucket

(* The merge of a refresh cycle yields a chain.                            *)
LEMMA MergedIsBucket ==
    ASSUME NEW prior, IsBucket(prior), NEW C \in SUBSET Contracts,
           NEW live \in [C -> Obs], NEW now \in Nat
    PROVE  IsBucket(Merged(prior, live, now))
<1> DEFINE m == Merged(prior, live, now)
<1>1. DOMAIN m \subseteq Contracts  BY DEF Merged, IsBucket
<1>2. ASSUME NEW c \in DOMAIN m PROVE m[c] \in Contract
  <2>1. CASE c \in DOMAIN live  BY <2>1 DEF Merged, Contract
  <2>2. CASE c \notin DOMAIN live
    <3>1. c \in DOMAIN prior /\ m[c] = [prior[c] EXCEPT !.carried = TRUE]
      BY <2>2 DEF Merged
    <3>2. prior[c] \in Contract  BY <3>1 DEF IsBucket
    <3> QED BY <3>1, <3>2 DEF Contract
  <2> QED BY <2>1, <2>2
<1>3. m = [c \in DOMAIN m |-> m[c]]  BY DEF Merged
<1> QED BY <1>1, <1>2, <1>3 DEF IsBucket

(* A refresh cycle only changes what its own process offers.               *)
LEMMA RefreshPreserves ==
    ASSUME IInv, NEW w \in Writers, NEW C \in SUBSET Contracts, NEW live \in [C -> Obs],
           NEW prior, IsBucket(prior), Refresh(w, prior, live)
    PROVE  IInv'
<1> DEFINE chain == Merged(prior, live, clock + 1)
<1>1. IsBucket(chain)  BY MergedIsBucket DEF IInv, TimeOK
<1>2. /\ mem' = [mem EXCEPT ![w] = chain]
      /\ want' = [want EXCEPT ![w] = chain]
      /\ todo' = [todo EXCEPT ![w] = {ExpOf[c] : c \in DOMAIN chain}]
      /\ attempt' = [attempt EXCEPT ![w] = 1]
      /\ pc' = [pc EXCEPT ![w] = IF DOMAIN chain = {} THEN "prune" ELSE "read"]
      /\ clock' = clock + 1 /\ clock < MaxClock
      /\ UNCHANGED <<shards, etags, seen, today, written>>
  BY DEF Refresh
<1> HIDE DEF chain
<1>3. Shape'  BY <1>2 DEF IInv, Shape
<1>4. StoreMoves /\ DocsOK' /\ Durable'
  BY <1>2, StoreStands DEF IInv, TimeOK
<1>5. TimeOK'  BY <1>2, StoreAssumption DEF IInv, TimeOK
<1>6. OnlyMoves(w)  BY <1>2 DEF OnlyMoves, IInv, Shape
<1>7. WriterOK(w)'
  <2>1. /\ mem'[w] = chain /\ want'[w] = chain
        /\ todo'[w] = {ExpOf[c] : c \in DOMAIN chain} /\ attempt'[w] = 1
        /\ pc'[w] = IF DOMAIN chain = {} THEN "prune" ELSE "read"
    BY <1>2 DEF IInv, Shape
  <2>2. todo'[w] \subseteq Expirations  BY <1>1, <2>1 DEF IsBucket, Expirations
  <2>3. SeenOK(w)' /\ PruneOK(w)'  BY <2>1 DEF SeenOK, PruneOK
  <2>4. todo'[w] = {} <=> DOMAIN chain = {}  BY <2>1
  <2>5. (mem'[w] = NoChain \/ IsBucket(mem'[w])) /\ IsBucket(want'[w])
    BY <1>1, <2>1
  <2>6. attempt'[w] \in 0..MaxAttempts  BY <2>1, StoreAssumption
  <2>7. pc'[w] \in {"read", "prune"} /\ (todo'[w] # {} <=> pc'[w] = "read")
    BY <2>1, <2>4
  <2> QED BY <2>2, <2>3, <2>5, <2>6, <2>7 DEF WriterOK
<1> QED BY <1>2, <1>3, <1>4, <1>5, <1>6, <1>7, OneWriterSuffices

(* The chain of a writer that settled one shard is as good as before.      *)
LEMMA NextShardStands ==
    ASSUME IInv, NEW w \in Writers, NextShard(w), pc[w] \in {"read", "write"}
    PROVE  WriterOK(w)'
<1>1. WriterOK(w)  BY DEF IInv
<1>2. /\ todo'[w] = todo[w] \ {Exp(w)} /\ attempt'[w] = 1
      /\ pc'[w] = IF todo[w] = {Exp(w)} THEN "prune" ELSE "read"
      /\ mem'[w] = mem[w] /\ want'[w] = want[w]
  BY DEF NextShard, IInv, Shape
<1>3. SeenOK(w)' /\ PruneOK(w)'  BY <1>2 DEF SeenOK, PruneOK
<1>4. Exp(w) \in todo[w]  BY <1>1, ExpToDo
<1>5. todo'[w] = {} <=> todo[w] = {Exp(w)}  BY <1>2, <1>4
<1> QED BY <1>1, <1>2, <1>3, <1>5, StoreAssumption DEF WriterOK

(* It does so for the process alone.                                       *)
LEMMA NextShardFrame ==
    ASSUME IInv, NEW w \in Writers, NextShard(w)
    PROVE  /\ mem' = [v \in Writers |-> mem'[v]]
           /\ want' = [v \in Writers |-> want'[v]]
           /\ pc' = [v \in Writers |-> pc'[v]]
           /\ todo' = [v \in Writers |-> todo'[v]]
           /\ attempt' = [v \in Writers |-> attempt'[v]]
           /\ seen' = [v \in Writers |-> seen'[v]]
           /\ OnlyMoves(w)
BY DEF NextShard, IInv, Shape, OnlyMoves

(* Giving a shard up, or finding it unchanged, costs no promise.           *)
LEMMA SettlePreserves ==
    ASSUME IInv, NEW w \in Writers, pc[w] \in {"read", "write"}, NextShard(w),
           UNCHANGED <<shards, etags, timeVars, written>>
    PROVE  IInv'
<1>1. Shape'  BY NextShardFrame DEF IInv, Shape
<1>2. StoreMoves /\ DocsOK' /\ Durable'
  BY StoreStands DEF timeVars, IInv, TimeOK
<1>3. TimeOK'  BY DEF timeVars, IInv, TimeOK
<1> QED BY <1>1, <1>2, <1>3, NextShardFrame, NextShardStands, OneWriterSuffices DEF timeVars

(* 409 or 412 with attempts left.                                          *)
LEMMA ConflictPreserves ==
    ASSUME IInv, NEW w \in Writers, Conflict(w)
    PROVE  IInv'
<1>1. CASE attempt[w] < MaxAttempts
  <2>1. /\ pc[w] = "write"
        /\ attempt' = [attempt EXCEPT ![w] = @ + 1]
        /\ pc' = [pc EXCEPT ![w] = "read"]
        /\ UNCHANGED <<shards, etags, mem, want, todo, seen, timeVars, written>>
    BY <1>1 DEF Conflict
  <2>2. Shape' /\ OnlyMoves(w)  BY <2>1 DEF IInv, Shape, OnlyMoves
  <2>3. StoreMoves /\ DocsOK' /\ Durable' /\ TimeOK'
    BY <2>1, StoreStands DEF timeVars, IInv, TimeOK
  <2>4. WriterOK(w)'
    <3>1. WriterOK(w) /\ pc'[w] = "read" /\ attempt'[w] = attempt[w] + 1
      BY <2>1 DEF IInv, Shape
    <3>2. SeenOK(w)' /\ PruneOK(w)'  BY <3>1 DEF SeenOK, PruneOK
    <3> QED BY <1>1, <2>1, <3>1, <3>2, StoreAssumption DEF WriterOK
  <2> QED BY <2>1, <2>2, <2>3, <2>4, OneWriterSuffices DEF timeVars
<1>2. CASE ~(attempt[w] < MaxAttempts)
  BY <1>2, SettlePreserves DEF Conflict
<1> QED BY <1>1, <1>2

(* What was just read is what is stored.                                   *)
LEMMA ReadPreserves ==
    ASSUME IInv, NEW w \in Writers, ReadShard(w)
    PROVE  IInv'
<1>1. /\ pc[w] = "read"
      /\ seen' = [seen EXCEPT ![w] = shards[Exp(w)]]
      /\ pc' = [pc EXCEPT ![w] = "write"]
      /\ UNCHANGED <<shards, etags, mem, want, todo, attempt, timeVars, written>>
  BY DEF ReadShard
<1>2. Shape' /\ OnlyMoves(w)  BY <1>1 DEF IInv, Shape, OnlyMoves
<1>3. StoreMoves /\ DocsOK' /\ Durable' /\ TimeOK'
  BY <1>1, StoreStands DEF timeVars, IInv, TimeOK
<1>4. WriterOK(w)'
  <2>1. WriterOK(w) /\ pc'[w] = "write" /\ seen'[w] = shards[Exp(w)]
    BY <1>1 DEF IInv, Shape
  <2>2. Exp(w) \in Expirations /\ Exp(w)' = Exp(w)
    BY <1>1, <2>1, ExpToDo DEF Exp
  <2>3. SeenOK(w)' /\ PruneOK(w)'
    BY <1>1, <2>1, <2>2 DEF SeenOK, PruneOK, IInv, DocsOK
  <2> QED BY <1>1, <2>1, <2>3 DEF WriterOK
<1> QED BY <1>1, <1>2, <1>3, <1>4, OneWriterSuffices DEF timeVars

-----------------------------------------------------------------------------
(* Where the server accepts a write, the document read is the one stored.  *)
LEMMA WriteSeesStored ==
    ASSUME IInv, NEW w \in Writers, pc[w] = "write", EtagMatches(w)
    PROVE  /\ Exp(w) \in Expirations
           /\ IsDoc(seen[w], Exp(w), etags)
           /\ seen[w].bucket = shards[Exp(w)].bucket
<1>1. WriterOK(w) /\ SeenOK(w)  BY DEF IInv, WriterOK
<1>2. Exp(w) \in Expirations  BY <1>1, ExpToDo
<1> QED BY <1>1, <1>2 DEF SeenOK, EtagMatches

(* The merged document replaces the stored one: nothing living leaves it,  *)
(* and the contracts acknowledged with it are in it.                       *)
LEMMA ReplacePreserves ==
    ASSUME IInv, NEW w \in Writers, Write(w) \/ AnswerLost(w)
    PROVE  IInv'
<1> DEFINE body == Body(w, seen[w].bucket)
           kept(c) == c \in DOMAIN Offered(w) \cap DOMAIN body
<1>1. /\ pc[w] = "write" /\ EtagMatches(w) /\ NextShard(w)
      /\ etags' = etags + 1
      /\ shards' = [shards EXCEPT ![Exp(w)] = [etag |-> etags + 1, bucket |-> body]]
      /\ UNCHANGED timeVars
  BY DEF Write, AnswerLost, Replace
<1>2. /\ written' \in [Contracts -> Nat]
      /\ \A c \in Contracts :
            \/ written'[c] = written[c]
            \/ kept(c) /\ written'[c] = Offered(w)[c].touch
  <2>1. CASE Write(w)
    <3>1. written' = [c \in Contracts |->
                        IF kept(c) /\ Offered(w)[c].touch > written[c]
                        THEN Offered(w)[c].touch ELSE written[c]]
      BY <2>1 DEF Write
    <3>2. \A c \in DOMAIN Offered(w) : Offered(w)[c].touch \in Nat
      BY BucketOfChain DEF IInv, WriterOK, Offered, IsBucket, Contract
    <3> HIDE DEF body
    <3> QED BY <3>1, <3>2 DEF IInv, Shape
  <2>2. CASE AnswerLost(w)
    <3>1. written' = written  BY <2>2 DEF AnswerLost
    <3> QED BY <3>1 DEF IInv, Shape
  <2> QED BY <2>1, <2>2
<1>3. /\ Exp(w) \in Expirations
      /\ IsDoc(seen[w], Exp(w), etags)
      /\ seen[w].bucket = shards[Exp(w)].bucket
  BY <1>1, WriteSeesStored
<1>4. /\ IsBucket(body)
      /\ \A c \in DOMAIN body : ExpOf[c] = Exp(w)
      /\ \A c \in DOMAIN seen[w].bucket \ Dead :
            c \in DOMAIN body /\ body[c].touch >= seen[w].bucket[c].touch
      /\ \A c : kept(c) =>
            ExpOf[c] = Exp(w) /\ body[c].touch >= Offered(w)[c].touch
  BY <1>3, BodyKeeps DEF IInv
<1> HIDE DEF body, kept
<1>5. /\ \A e \in Expirations \ {Exp(w)} : shards'[e] = shards[e]
      /\ shards'[Exp(w)] = [etag |-> etags + 1, bucket |-> body]
      /\ shards' = [e \in Expirations |-> shards'[e]]
      /\ etags \in Nat /\ etags' = etags + 1
  BY <1>1, <1>3 DEF IInv, Shape
<1>6. Shape' /\ StoreMoves
  <2>1. Shape'  BY <1>2, <1>5, <1>1, NextShardFrame DEF IInv, Shape
  <2>2. StoreMoves  BY <1>5 DEF StoreMoves
  <2> QED BY <2>1, <2>2
<1>7. DocsOK'
  <2>1. IsDoc(shards'[Exp(w)], Exp(w), etags')  BY <1>4, <1>5 DEF IsDoc
  <2>2. ASSUME NEW e \in Expirations \ {Exp(w)} PROVE IsDoc(shards'[e], e, etags')
    BY <1>5 DEF IsDoc, IInv, DocsOK
  <2> QED BY <2>1, <2>2 DEF DocsOK
<1>8. Durable'
  <2> SUFFICES ASSUME NEW c \in Contracts \ Dead,
                      written'[c] > 0, ~PastGrace(ExpOf[c], today')
               PROVE  /\ c \in DOMAIN shards'[ExpOf[c]].bucket
                      /\ shards'[ExpOf[c]].bucket[c].touch >= written'[c]
    BY DEF Durable, Stored, Expirations
  <2>1. ExpOf[c] \in Expirations  BY DEF Expirations
  <2>2. today' = today  BY <1>1 DEF timeVars
  <2>3. CASE kept(c) /\ written'[c] = Offered(w)[c].touch
    <3>1. ExpOf[c] = Exp(w) /\ c \in DOMAIN body /\ body[c].touch >= Offered(w)[c].touch
      BY <1>4, <2>3 DEF kept
    <3> QED BY <1>5, <2>3, <3>1
  <2>4. CASE written'[c] = written[c]
    <3>1. /\ c \in DOMAIN shards[ExpOf[c]].bucket
          /\ shards[ExpOf[c]].bucket[c].touch >= written[c]
      BY <2>1, <2>2, <2>4 DEF IInv, Durable, Stored
    <3>2. CASE ExpOf[c] = Exp(w)
      <4>1. c \in DOMAIN body /\ body[c].touch >= shards[ExpOf[c]].bucket[c].touch
        BY <1>3, <1>4, <3>1, <3>2
      <4>2. /\ body[c].touch \in Nat /\ shards[ExpOf[c]].bucket[c].touch \in Nat
            /\ written[c] \in Nat
        BY <1>3, <1>4, <3>1, <3>2, <4>1 DEF IsDoc, IsBucket, Contract, IInv, Shape
      <4> QED BY <1>5, <2>4, <3>1, <3>2, <4>1, <4>2
    <3>3. CASE ExpOf[c] # Exp(w)
      BY <1>5, <2>1, <2>4, <3>1, <3>3
    <3> QED BY <3>2, <3>3
  <2> QED BY <1>2, <2>3, <2>4
<1>9. TimeOK' /\ today' = today  BY <1>1 DEF timeVars, IInv, TimeOK
<1> QED BY <1>1, <1>6, <1>7, <1>8, <1>9, NextShardFrame, NextShardStands, OneWriterSuffices

-----------------------------------------------------------------------------
(* prune_expired: what is listed is past its grace, so that its deletion   *)
(* takes back no promise.                                                  *)
LEMMA PruneQueryPreserves ==
    ASSUME IInv, NEW w \in Writers, PruneQuery(w)
    PROVE  IInv'
<1> DEFINE due == {e \in Expirations : shards[e].etag # 0 /\ Due(e)}
<1>1. /\ pc[w] = "prune"
      /\ todo' = [todo EXCEPT ![w] = due]
      /\ pc' = [pc EXCEPT ![w] = IF todo'[w] = {} THEN "idle" ELSE "delete"]
      /\ UNCHANGED <<shards, etags, mem, want, attempt, seen, timeVars, written>>
  BY DEF PruneQuery
<1>2. Shape' /\ OnlyMoves(w)  BY <1>1 DEF IInv, Shape, OnlyMoves
<1>3. StoreMoves /\ DocsOK' /\ Durable' /\ TimeOK'
  BY <1>1, StoreStands DEF timeVars, IInv, TimeOK
<1>4. WriterOK(w)'
  <2>1. /\ WriterOK(w) /\ todo'[w] = due
        /\ pc'[w] = IF due = {} THEN "idle" ELSE "delete"
    BY <1>1 DEF IInv, Shape
  <2>2. due \subseteq Expirations /\ \A e \in due : PastGrace(e, today)
    BY DEF Due
  <2> HIDE DEF due
  <2>3. SeenOK(w)' /\ PruneOK(w)'
    BY <1>1, <2>1, <2>2 DEF SeenOK, PruneOK, timeVars
  <2> QED BY <1>1, <2>1, <2>2, <2>3 DEF WriterOK
<1> QED BY <1>1, <1>2, <1>3, <1>4, OneWriterSuffices DEF timeVars

(* Deleting a listed shard, or failing to.                                 *)
LEMMA DeletePreserves ==
    ASSUME IInv, NEW w \in Writers, Delete(w) \/ DeleteFails(w)
    PROVE  IInv'
<1>1. /\ pc[w] = "delete"
      /\ todo' = [todo EXCEPT ![w] = @ \ {Exp(w)}]
      /\ pc' = [pc EXCEPT ![w] = IF todo[w] = {Exp(w)} THEN "idle" ELSE @]
      /\ UNCHANGED <<etags, mem, want, attempt, seen, timeVars, written>>
  BY DEF Delete, DeleteFails, Deleted
<1>2. WriterOK(w)  BY DEF IInv
<1>3. /\ Exp(w) \in todo[w] /\ Exp(w) \in Expirations
      /\ PastGrace(Exp(w), today)
  BY <1>1, <1>2, ExpToDo DEF WriterOK, PruneOK
<1>4. /\ shards' = [e \in Expirations |-> shards'[e]]
      /\ \A e \in Expirations : \/ shards'[e] = shards[e]
                                \/ e = Exp(w) /\ shards'[e] = NoDoc
  BY <1>3 DEF Delete, DeleteFails, IInv, Shape
<1>5. Shape' /\ OnlyMoves(w)  BY <1>1, <1>4 DEF IInv, Shape, OnlyMoves
<1>6. StoreMoves  BY <1>1, <1>4 DEF StoreMoves, IInv, Shape
<1>7. DocsOK'
  <2>1. \A e \in Expirations : IsDoc(NoDoc, e, etags)
    BY EmptyIsBucket DEF IsDoc, NoDoc, IInv, Shape
  <2> QED BY <1>1, <1>4, <2>1 DEF IInv, DocsOK, IsDoc
<1>8. Durable'
  <2> SUFFICES ASSUME NEW c \in Contracts \ Dead,
                      written[c] > 0, ~PastGrace(ExpOf[c], today)
               PROVE  /\ c \in DOMAIN shards'[ExpOf[c]].bucket
                      /\ shards'[ExpOf[c]].bucket[c].touch >= written[c]
    BY <1>1 DEF Durable, Stored, Expirations, timeVars
  <2>1. ExpOf[c] \in Expirations  BY DEF Expirations
  <2>2. shards'[ExpOf[c]] = shards[ExpOf[c]]  BY <1>3, <1>4, <2>1
  <2> QED BY <2>1, <2>2 DEF IInv, Durable, Stored
<1>9. WriterOK(w)'
  <2>1. /\ todo'[w] = todo[w] \ {Exp(w)}
        /\ pc'[w] = IF todo[w] = {Exp(w)} THEN "idle" ELSE "delete"
    BY <1>1 DEF IInv, Shape
  <2>2. todo'[w] = {} <=> todo[w] = {Exp(w)}  BY <1>3, <2>1
  <2>3. SeenOK(w)' /\ PruneOK(w)'
    BY <1>1, <1>2, <2>1 DEF SeenOK, PruneOK, WriterOK, timeVars
  <2> QED BY <1>1, <1>2, <2>1, <2>2, <2>3 DEF WriterOK
<1> QED BY <1>1, <1>5, <1>6, <1>7, <1>8, <1>9, OneWriterSuffices DEF timeVars, IInv, TimeOK

(* A restart forgets the memory of the process and its place.              *)
LEMMA RestartPreserves ==
    ASSUME IInv, NEW w \in Writers, Restart(w)
    PROVE  IInv'
<1>1. /\ mem' = [mem EXCEPT ![w] = NoChain]
      /\ pc' = [pc EXCEPT ![w] = "idle"]
      /\ todo' = [todo EXCEPT ![w] = {}]
      /\ attempt' = [attempt EXCEPT ![w] = 0]
      /\ seen' = [seen EXCEPT ![w] = NoDoc]
      /\ UNCHANGED <<shards, etags, want, timeVars, written>>
  BY DEF Restart
<1>2. Shape' /\ OnlyMoves(w)  BY <1>1 DEF IInv, Shape, OnlyMoves
<1>3. StoreMoves /\ DocsOK' /\ Durable' /\ TimeOK'
  BY <1>1, StoreStands DEF timeVars, IInv, TimeOK
<1>4. WriterOK(w)'
  <2>1. /\ WriterOK(w) /\ mem'[w] = NoChain /\ pc'[w] = "idle" /\ todo'[w] = {}
        /\ attempt'[w] = 0
    BY <1>1 DEF IInv, Shape
  <2>2. SeenOK(w)' /\ PruneOK(w)'  BY <2>1 DEF SeenOK, PruneOK
  <2> QED BY <1>1, <2>1, <2>2, StoreAssumption DEF WriterOK
<1> QED BY <1>1, <1>2, <1>3, <1>4, OneWriterSuffices DEF timeVars

(* With a new day more shards are past their grace, never fewer.           *)
LEMMA NextDayPreserves == IInv /\ NextDay => IInv'
<1> SUFFICES ASSUME IInv, NextDay PROVE IInv'  OBVIOUS
<1>1. /\ today' = today + 1 /\ today < LastDay
      /\ UNCHANGED <<shards, etags, mem, want, pc, todo, attempt, seen, clock, written>>
  BY DEF NextDay, procVars
<1>2. Shape' /\ TimeOK'  BY <1>1, StoreAssumption DEF IInv, Shape, TimeOK
<1>3. today' >= today /\ today' \in Nat /\ etags' \in Nat
  BY <1>1 DEF IInv, Shape, TimeOK
<1>4. StoreMoves /\ DocsOK' /\ Durable'  BY <1>1, <1>3, StoreStands
<1>5. ASSUME NEW v \in Writers PROVE WriterOK(v)'
  BY <1>1, <1>3, <1>4, OthersStand
<1> QED BY <1>2, <1>4, <1>5 DEF IInv

(* Nothing happens.                                                        *)
LEMMA StutterPreserves == IInv /\ UNCHANGED vars => IInv'
<1> SUFFICES ASSUME IInv, UNCHANGED vars PROVE IInv'  OBVIOUS
<1>1. UNCHANGED <<shards, etags, mem, want, pc, todo, attempt, seen, clock, today, written>>
  BY DEF vars, procVars, timeVars
<1>2. Shape' /\ TimeOK'  BY <1>1 DEF IInv, Shape, TimeOK
<1>3. today' >= today /\ today' \in Nat /\ etags' \in Nat
  BY <1>1 DEF IInv, Shape, TimeOK
<1>4. StoreMoves /\ DocsOK' /\ Durable'  BY <1>1, <1>3, StoreStands
<1>5. ASSUME NEW v \in Writers PROVE WriterOK(v)'
  BY <1>1, <1>3, <1>4, OthersStand
<1> QED BY <1>2, <1>4, <1>5 DEF IInv

(* The invariant is inductive: one case per action.                        *)
LEMMA NextPreserves == IInv /\ [Next]_vars => IInv'
<1> SUFFICES ASSUME IInv, [Next]_vars PROVE IInv'  OBVIOUS
<1>1. CASE NextDay  BY <1>1, NextDayPreserves
<1>2. ASSUME NEW w \in Writers, Step(w) PROVE IInv'
  <2>1. CASE WarmRefresh(w)
    <3>1. IsBucket(mem[w])  BY <2>1 DEF WarmRefresh, IInv, WriterOK
    <3> QED BY <2>1, <3>1, RefreshPreserves DEF WarmRefresh
  <2>2. CASE ColdRefresh(w)
    BY <2>2, HydratedIsBucket, RefreshPreserves DEF ColdRefresh
  <2>3. CASE BlindRefresh(w)
    BY <2>3, EmptyIsBucket, RefreshPreserves DEF BlindRefresh
  <2>4. CASE ReadShard(w)  BY <2>4, ReadPreserves
  <2>5. CASE Unchanged(w)  BY <2>5, SettlePreserves DEF Unchanged
  <2>6. CASE Write(w) \/ AnswerLost(w)  BY <2>6, ReplacePreserves
  <2>7. CASE Conflict(w)  BY <2>7, ConflictPreserves
  <2>8. CASE Vanished(w)  BY <2>8, SettlePreserves DEF Vanished
  <2>9. CASE CallFails(w)  BY <2>9, SettlePreserves DEF CallFails
  <2>10. CASE PruneQuery(w)  BY <2>10, PruneQueryPreserves
  <2>11. CASE Delete(w) \/ DeleteFails(w)  BY <2>11, DeletePreserves
  <2>12. CASE Restart(w)  BY <2>12, RestartPreserves
  <2> QED BY <1>2, <2>1, <2>2, <2>3, <2>4, <2>5, <2>6, <2>7, <2>8, <2>9, <2>10, <2>11, <2>12
          DEF Step
<1>3. CASE UNCHANGED vars  BY <1>3, StutterPreserves
<1> QED BY <1>1, <1>2, <1>3 DEF Next

(* Hence it holds in every reachable state.                                *)
LEMMA Invariant == Spec => []IInv
BY InitIInv, NextPreserves, PTL DEF Spec

(* Whatever the processes, failures and restarts, the state is well typed  *)
(* and a shard is tried at most MaxAttempts times in a cycle.              *)
THEOREM TypeCorrect == Spec => []TypeOK
BY Invariant, IInvTypeOK, PTL

(* No acknowledged write of a living contract is lost before its grace     *)
(* period is over, for any number of processes and any interleaving.       *)
THEOREM WritesAreDurable == Spec => []Durable
<1>1. IInv => Durable  BY DEF IInv
<1> QED BY <1>1, Invariant, PTL

-----------------------------------------------------------------------------
(* Every step of the processes is a step of AtomicShards or changes none   *)
(* of what it speaks of.                                                   *)
LEMMA InitRefines == Init => Abs!Init
<1> SUFFICES ASSUME Init PROVE Abs!Init  OBVIOUS
<1>1. Stored = [e \in Expirations |-> Empty]  BY DEF Init, Stored, NoDoc
<1>2. Abs!Empty = Empty /\ Abs!Expirations = Expirations
  BY DEF Abs!Empty, Empty, Abs!Expirations, Expirations
<1> QED BY <1>1, <1>2 DEF Abs!Init, Init

(* Refreshes and the passing of days are the environment's.                *)
LEMMA EnvironmentRefines ==
    ASSUME IInv, IInv', UNCHANGED shards, clock' >= clock, today' >= today
    PROVE  Abs!Environment
<1>1. \A w \in Writers : Abs!IsBucket(want'[w])
  BY DEF IInv, WriterOK, IsBucket, Contract, Abs!IsBucket, Abs!Contract
<1>2. Stored' = Stored  BY DEF Stored
<1> QED BY <1>1, <1>2 DEF Abs!Environment

(* An accepted write is the atomic merge of AtomicShards.                  *)
LEMMA ReplaceRefines ==
    ASSUME IInv, NEW w \in Writers, Write(w) \/ AnswerLost(w)
    PROVE  Abs!Next
<1>1. /\ pc[w] = "write" /\ EtagMatches(w)
      /\ shards' = [shards EXCEPT ![Exp(w)] =
                       [etag |-> etags + 1, bucket |-> Body(w, seen[w].bucket)]]
      /\ UNCHANGED <<want, clock, today>>
  BY DEF Write, AnswerLost, Replace, NextShard, timeVars
<1>2. Exp(w) \in Expirations /\ seen[w].bucket = shards[Exp(w)].bucket
  BY <1>1, WriteSeesStored
<1>3. Body(w, seen[w].bucket) =
        SizeValve(Reconcile(Stored[Exp(w)], BucketOf(want[w], Exp(w))), clock)
  BY <1>2 DEF Body, Offered, Stored
<1>4. Stored' = [Stored EXCEPT ![Exp(w)] =
                   SizeValve(Reconcile(@, BucketOf(want[w], Exp(w))), clock)]
  BY <1>1, <1>2, <1>3 DEF Stored, IInv, Shape
<1>5. /\ Abs!BucketOf(want[w], Exp(w)) = BucketOf(want[w], Exp(w))
      /\ \A s, v : Abs!Reconcile(s, v) = Reconcile(s, v)
      /\ \A b, now : Abs!SizeValve(b, now) = SizeValve(b, now)
  <2>1. Abs!BucketOf(want[w], Exp(w)) = BucketOf(want[w], Exp(w))
    BY DEF Abs!BucketOf, BucketOf
  <2>2. ASSUME NEW s, NEW v PROVE Abs!Reconcile(s, v) = Reconcile(s, v)
    BY DEF Abs!Reconcile, Reconcile
  <2>3. ASSUME NEW b, NEW now PROVE Abs!SizeValve(b, now) = SizeValve(b, now)
    <3>1. Abs!Evictable(b, now) = Evictable(b, now)
      BY DEF Abs!Evictable, Evictable
    <3>2. ASSUME NEW c, NEW d PROVE Abs!Older(b, d, c) <=> Older(b, d, c)
      BY DEF Abs!Older, Older
    <3>3. ASSUME NEW c
          PROVE  {d \in Abs!Evictable(b, now) : Abs!Older(b, d, c)}
                   = {d \in Evictable(b, now) : Older(b, d, c)}
      BY <3>1, <3>2
    <3> DEFINE absolder(c) ==
                 Abs!Cardinality({d \in Abs!Evictable(b, now) : Abs!Older(b, d, c)})
               older(c) == Cardinality({d \in Evictable(b, now) : Older(b, d, c)})
               excess == Cardinality(DOMAIN b) - MaxBucket
               absexcess == Abs!Cardinality(DOMAIN b) - MaxBucket
    <3>4. ASSUME NEW S PROVE Abs!Cardinality(S) = Cardinality(S)
      BY DEF Abs!Cardinality, Cardinality
    <3>5. Abs!Evicted(b, now) = {c \in Abs!Evictable(b, now) : absolder(c) < absexcess}
      BY DEF Abs!Evicted
    <3>6. Evicted(b, now) = {c \in Evictable(b, now) : older(c) < excess}
      BY DEF Evicted
    <3>7. absexcess = excess /\ \A c : absolder(c) = older(c)  BY <3>3, <3>4
    <3> HIDE DEF absolder, older, excess, absexcess
    <3>8. Abs!Evicted(b, now) = Evicted(b, now)  BY <3>1, <3>5, <3>6, <3>7
    <3> QED BY <3>8 DEF Abs!SizeValve, SizeValve
  <2> QED BY <2>1, <2>2, <2>3
<1>6. Exp(w) \in Abs!Expirations  BY <1>2 DEF Expirations, Abs!Expirations
<1>7. Abs!Store(w, Exp(w))  BY <1>1, <1>4, <1>5 DEF Abs!Store
<1> QED BY <1>6, <1>7 DEF Abs!Next

(* A deletion is its pruning.                                              *)
LEMMA DeleteRefines ==
    ASSUME IInv, NEW w \in Writers, Delete(w)
    PROVE  Abs!Next
<1>1. /\ pc[w] = "delete" /\ shards' = [shards EXCEPT ![Exp(w)] = NoDoc]
      /\ UNCHANGED <<want, clock, today>>
  BY DEF Delete, Deleted, timeVars
<1>2. Exp(w) \in Expirations /\ PastGrace(Exp(w), today)
  BY <1>1, ExpToDo DEF IInv, WriterOK, PruneOK
<1>3. Stored' = [Stored EXCEPT ![Exp(w)] = Empty]
  BY <1>1, <1>2 DEF Stored, NoDoc, IInv, Shape
<1>4. /\ Exp(w) \in Abs!Expirations /\ Abs!PastGrace(Exp(w), today)
      /\ Abs!Empty = Empty
  BY <1>2 DEF Expirations, Abs!Expirations, PastGrace, Abs!PastGrace, Empty, Abs!Empty
<1>5. Abs!Prune(Exp(w))  BY <1>1, <1>3, <1>4 DEF Abs!Prune
<1> QED BY <1>4, <1>5 DEF Abs!Next

(* Every other step stutters or belongs to the environment.                *)
LEMMA StepRefines == IInv /\ IInv' /\ [Next]_vars => [Abs!Next]_(Abs!vars)
<1> SUFFICES ASSUME IInv, IInv', [Next]_vars PROVE Abs!Next \/ UNCHANGED Abs!vars
  OBVIOUS
<1>1. ASSUME UNCHANGED <<shards, want, clock, today>> PROVE UNCHANGED Abs!vars
  BY <1>1 DEF Abs!vars, Stored
<1>2. CASE NextDay
  <2>1. UNCHANGED shards /\ clock' >= clock /\ today' >= today
    BY <1>2 DEF NextDay, IInv, TimeOK
  <2> QED BY <2>1, EnvironmentRefines DEF Abs!Next
<1>3. ASSUME NEW w \in Writers, Step(w) PROVE Abs!Next \/ UNCHANGED Abs!vars
  <2>1. CASE WarmRefresh(w) \/ ColdRefresh(w) \/ BlindRefresh(w)
    <3>1. UNCHANGED shards /\ clock' >= clock /\ today' >= today
      BY <2>1 DEF WarmRefresh, ColdRefresh, BlindRefresh, Refresh, IInv, TimeOK
    <3> QED BY <3>1, EnvironmentRefines DEF Abs!Next
  <2>2. CASE Write(w) \/ AnswerLost(w)  BY <2>2, ReplaceRefines
  <2>3. CASE Delete(w)  BY <2>3, DeleteRefines
  <2>4. CASE \/ ReadShard(w) \/ Unchanged(w) \/ Conflict(w) \/ Vanished(w)
             \/ CallFails(w) \/ PruneQuery(w) \/ DeleteFails(w) \/ Restart(w)
    BY <1>1, <2>4 DEF ReadShard, Unchanged, Conflict, Vanished, CallFails, PruneQuery,
                      DeleteFails, Deleted, Restart, NextShard, timeVars
  <2> QED BY <1>3, <2>1, <2>2, <2>3, <2>4 DEF Step
<1>4. CASE UNCHANGED vars
  BY <1>1, <1>4 DEF vars, procVars, timeVars
<1> QED BY <1>2, <1>3, <1>4 DEF Next

(* persist, prune_expired and their failures, as seen by anyone who reads  *)
(* the shards, are the atomic merges and prunings of AtomicShards.         *)
THEOREM StoreIsAtomic == Spec => AbsSpec
<1>1. IInv /\ IInv' /\ [Next]_vars => [Abs!Next]_(Abs!vars)  BY StepRefines
<1> QED BY InitRefines, <1>1, Invariant, PTL DEF Spec, AbsSpec, Abs!Spec
=============================================================================
