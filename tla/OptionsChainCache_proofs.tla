---------------------- MODULE OptionsChainCache_proofs ----------------------
(***************************************************************************)
(* Proofs about OptionsChainCache for any contracts, tasks, readers and    *)
(* number of refreshes: once nothing refreshes, what is served has been    *)
(* persisted, and no refresh serves less than was served before it.        *)
(***************************************************************************)
EXTENDS OptionsChainCache, TLAPS

Observed == [Contracts -> Nat]
Phases == {"idle", "acquire", "load", "fetch", "hung", "persist", "release"}

TypeOK ==
    /\ memory \in Observed \cup {Nobody} /\ store \in Observed
    /\ fresh \in BOOLEAN /\ reachable \in BOOLEAN
    /\ blind \in BOOLEAN /\ unsaved \in BOOLEAN
    /\ backend \in {"unresolved", "live", "disabled"}
    /\ lock \in Tasks \cup {Nobody} /\ slot \in Tasks \cup {Nobody}
    /\ pc \in [Tasks -> Phases] /\ kind \in [Tasks -> {"refresh", "background"}]
    /\ chain \in [Tasks -> Observed]
    /\ held \in [Readers -> Observed \cup {Nobody}]
    /\ clock \in Nat /\ started \in Nat

-----------------------------------------------------------------------------
(* The symbol's lock is held from the load to the release.                 *)
Exclusive ==
    \A t \in Tasks : pc[t] \in {"load", "fetch", "hung", "persist", "release"} => lock = t

(* Whoever has a chain has asked for the backend, which then stays; only a *)
(* live one was read.                                                      *)
BackendKept ==
    /\ memory # Nobody => backend # "unresolved"
    /\ \A t \in Tasks : pc[t] = "fetch" => backend # "unresolved"
    /\ \A r \in Readers : held[r] # Nobody => backend = "live"

(* Nothing was observed later than now.                                    *)
Dated ==
    \A c \in Contracts :
        /\ memory # Nobody => memory[c] <= clock
        /\ \A t \in Tasks : chain[t][c] <= clock
        /\ \A r \in Readers : held[r] # Nobody => held[r][c] <= clock
        /\ store[c] <= clock

(* What a reader holds is stored; what is served is stored, or about to    *)
(* be, or its last write failed.                                           *)
Stored ==
    /\ \A r \in Readers : held[r] # Nobody => Covers(store, held[r])
    /\ \A t \in Tasks : pc[t] = "persist" =>
          memory # Nobody /\ (memory = chain[t] \/ Covers(store, memory))
    /\ backend = "live" /\ ~unsaved /\ memory # Nobody /\ (\A t \in Tasks : pc[t] # "persist")
          => Covers(store, memory)

(* All readers hold the same chain: they read it while nothing was served, *)
(* and as long as nothing is, nothing is written.  So what is served, and  *)
(* what a refresh started from, includes it.                               *)
OneBase ==
    /\ \A r, s \in Readers : held[r] # Nobody /\ held[s] # Nobody => held[r] = held[s]
    /\ \A r \in Readers : held[r] # Nobody /\ memory = Nobody => held[r] = store
    /\ \A r \in Readers : held[r] # Nobody /\ memory # Nobody /\ ~blind
                             => Covers(memory, held[r])

(* While a refresh waits for the providers, its prior covers what is       *)
(* served, what the readers hold, and what they would read.                *)
PriorCovers ==
    \A t \in Tasks : pc[t] = "fetch" /\ ~blind =>
        /\ memory # Nobody => Covers(chain[t], memory)
        /\ memory = Nobody /\ backend = "live" => Covers(chain[t], store)
        /\ \A r \in Readers : held[r] # Nobody => Covers(chain[t], held[r])

IInv == TypeOK /\ Exclusive /\ BackendKept /\ Dated /\ Stored /\ OneBase /\ PriorCovers

-----------------------------------------------------------------------------
(* To cover is reflexive and transitive, and a join covers both its parts. *)
LEMMA CoversItself ==
    ASSUME NEW a \in Observed PROVE Covers(a, a)
  BY DEF Covers, Observed

LEMMA JoinCovers ==
    ASSUME NEW a \in Observed, NEW b \in Observed
    PROVE  /\ Join(a, b) \in Observed
           /\ Covers(Join(a, b), a) /\ Covers(Join(a, b), b)
           /\ \A n \in Nat : (\A c \in Contracts : a[c] <= n /\ b[c] <= n)
                                => \A c \in Contracts : Join(a, b)[c] <= n
  BY DEF Join, Covers, Observed

LEMMA CoversTransitive ==
    ASSUME NEW a \in Observed, NEW b \in Observed, NEW d \in Observed,
           Covers(a, b), Covers(b, d)
    PROVE  Covers(a, d)
<1> SUFFICES ASSUME NEW c \in Contracts PROVE a[c] >= d[c]
  BY DEF Covers
<1>1. a[c] \in Nat /\ b[c] \in Nat /\ d[c] \in Nat /\ a[c] >= b[c] /\ b[c] >= d[c]
  BY DEF Observed, Covers
<1> QED BY <1>1

(* The empty chain is one, and Nobody is none.                             *)
LEMMA NoneObserved == None \in Observed /\ Nobody \notin Observed
  BY CacheAssumption DEF None, Observed

LEMMA InitIInv == Init => IInv
<1> SUFFICES ASSUME Init PROVE IInv
  OBVIOUS
<1>1. store \in Observed /\ \A c \in Contracts : store[c] <= 1
  BY DEF Init, Observed
<1>2. TypeOK
  BY <1>1, NoneObserved DEF Init, TypeOK, Phases
<1>3. Exclusive /\ BackendKept /\ Stored /\ OneBase /\ PriorCovers
  BY DEF Init, Exclusive, BackendKept, Stored, OneBase, PriorCovers
<1>4. Dated
  BY <1>1 DEF Init, Dated, None
<1> QED BY <1>2, <1>3, <1>4 DEF IInv

-----------------------------------------------------------------------------
(* Steps that touch no chain: requests, locks, the clock of the TTL.       *)
Quiet(t) == RequestRefresh(t) \/ ScheduleBackground(t) \/ Acquire(t)

LEMMA QuietPreserves ==
    ASSUME IInv, NEW t \in Tasks, Quiet(t)
    PROVE  IInv'
<1> USE DEF IInv
<1>1. /\ UNCHANGED <<memory, store, backend, reachable, chain, held, clock, blind, unsaved, fresh>>
      /\ \E phase \in {"acquire", "load"} : pc' = [pc EXCEPT ![t] = phase]
      /\ \/ lock' = lock /\ pc'[t] = "acquire"
         \/ lock = Nobody /\ lock' = t
  BY DEF Quiet, RequestRefresh, ScheduleBackground, Acquire, TryAcquire, TypeOK
<1>2. /\ kind' \in [Tasks -> {"refresh", "background"}]
      /\ slot' \in Tasks \cup {Nobody} /\ started' \in Nat
  BY DEF Quiet, RequestRefresh, ScheduleBackground, Acquire, TypeOK
<1>3. TypeOK'
  BY <1>1, <1>2 DEF TypeOK, Phases
<1>4. \A u \in Tasks : pc'[u] \in {"fetch", "hung", "persist", "release"} => pc'[u] = pc[u]
  BY <1>1 DEF TypeOK
<1>5. Exclusive'
  BY <1>1, <1>4, CacheAssumption DEF Exclusive, TypeOK, Tasks
<1>6. BackendKept' /\ Dated' /\ OneBase' /\ PriorCovers'
  BY <1>1, <1>4 DEF BackendKept, Dated, OneBase, PriorCovers, Covers
<1>7. Stored'
  <2>1. \A u \in Tasks : pc[u] = "persist" => pc'[u] = "persist"
    BY <1>1 DEF TypeOK, Quiet, RequestRefresh, ScheduleBackground, Acquire
  <2> QED BY <1>1, <1>4, <2>1 DEF Stored, Covers
<1> QED BY <1>3, <1>5, <1>6, <1>7

LEMMA LoadPreserves ==
    ASSUME IInv, NEW t \in Tasks, Load(t)
    PROVE  IInv'
<1> USE DEF IInv
<1>1. PICK prior \in IF memory = Nobody THEN Hydrated ELSE {memory} :
          /\ chain' = [chain EXCEPT ![t] = prior]
          /\ blind' = (blind \/ (memory = Nobody /\ Failed(prior)))
  BY DEF Load
<1>2. PICK phase \in {"hung", "fetch"} : pc' = [pc EXCEPT ![t] = phase]
  BY DEF Load
<1>3. /\ pc[t] = "load" /\ backend' = IF memory = Nobody THEN Resolve ELSE backend
      /\ UNCHANGED <<memory, fresh, store, reachable, lock, slot, kind, held, clock, started,
                     unsaved>>
  BY DEF Load
<1>4. /\ Resolve \in {"live", "disabled"} /\ (backend # "unresolved" => Resolve = backend)
      /\ prior \in Observed /\ (memory = Nobody => prior \in {store, None})
  BY <1>1, NoneObserved DEF Resolve, Hydrated, TypeOK
<1>5. TypeOK'
  BY <1>1, <1>2, <1>3, <1>4 DEF TypeOK, Phases, Failed
<1>6. \A u \in Tasks \ {t} : pc[u] # "fetch" /\ pc'[u] # "fetch" /\ chain'[u] = chain[u]
  BY <1>1, <1>2, <1>3 DEF Exclusive, TypeOK
<1>7. Exclusive'
  BY <1>2, <1>3 DEF Exclusive, TypeOK
<1>8. BackendKept'
  BY <1>3, <1>4, <1>6 DEF BackendKept, TypeOK
<1>9. \A c \in Contracts : prior[c] <= clock
  BY <1>1, <1>4 DEF Dated, None, TypeOK
<1>10. Dated'
  BY <1>1, <1>3, <1>9 DEF Dated, TypeOK
<1>11. \A u \in Tasks : (pc'[u] = "persist" <=> pc[u] = "persist") /\ (pc[u] = "persist" => u # t)
  BY <1>2, <1>3 DEF TypeOK
<1>12. Stored'
  <2>1. \A u \in Tasks : pc'[u] = "persist" => chain'[u] = chain[u]
    BY <1>1, <1>11 DEF TypeOK
  <2> QED BY <1>3, <1>11, <2>1 DEF Stored, Covers
<1>13. OneBase'
  BY <1>1, <1>3 DEF OneBase, Covers
<1>14. PriorCovers'
  <2> SUFFICES ASSUME pc'[t] = "fetch", ~blind'
               PROVE  /\ memory # Nobody => Covers(prior, memory)
                      /\ memory = Nobody /\ backend' = "live" => Covers(prior, store)
                      /\ \A r \in Readers : held[r] # Nobody => Covers(prior, held[r])
    BY <1>1, <1>3, <1>6 DEF PriorCovers, Covers, TypeOK
  <2>1. CASE memory # Nobody
    BY <1>1, <2>1, CoversItself DEF OneBase, TypeOK
  <2>2. CASE memory = Nobody
    <3>1. backend' = "live" => prior = store
      BY <1>1, <1>3, <2>2 DEF Hydrated, Failed
    <3>2. \A r \in Readers : held[r] # Nobody => backend' = "live" /\ held[r] = store
      BY <1>3, <1>4, <2>2 DEF BackendKept, OneBase
    <3> QED BY <2>2, <3>1, <3>2, CoversItself DEF TypeOK
  <2> QED BY <2>1, <2>2
<1> QED BY <1>5, <1>7, <1>8, <1>10, <1>12, <1>13, <1>14

(* A merge serves what its prior and the providers had, which covers what  *)
(* was served.                                                             *)
LEMMA MergeCovers ==
    ASSUME IInv, NEW t \in Tasks, Merge(t)
    PROVE  /\ memory' = chain'[t] /\ chain'[t] \in Observed
           /\ Covers(chain'[t], chain[t])
           /\ \A c \in Contracts : chain'[t][c] <= clock'
           /\ ~blind /\ memory # Nobody => Covers(memory', memory)
<1> USE DEF IInv
<1>1. PICK live \in SUBSET Contracts :
          chain' = [chain EXCEPT ![t] =
                       [c \in Contracts |-> IF c \in live THEN clock' ELSE chain[t][c]]]
  BY DEF Merge
<1>2. clock' = clock + 1 /\ clock \in Nat /\ memory' = chain'[t] /\ pc[t] = "fetch"
  BY DEF Merge, TypeOK
<1>3. chain'[t] = [c \in Contracts |-> IF c \in live THEN clock' ELSE chain[t][c]]
      /\ chain[t] \in Observed
  BY <1>1 DEF TypeOK
<1>4. \A c \in Contracts : chain[t][c] \in Nat /\ chain[t][c] <= clock
  BY <1>3 DEF Dated, Observed
<1>5. /\ chain'[t] \in Observed /\ Covers(chain'[t], chain[t])
      /\ \A c \in Contracts : chain'[t][c] <= clock'
  BY <1>2, <1>3, <1>4 DEF Covers, Observed
<1>6. ~blind /\ memory # Nobody => Covers(memory', memory)
  BY <1>2, <1>3, <1>5, CoversTransitive DEF PriorCovers, TypeOK
<1> QED BY <1>2, <1>5, <1>6

LEMMA MergePreserves ==
    ASSUME IInv, NEW t \in Tasks, Merge(t)
    PROVE  IInv'
<1> USE DEF IInv
<1>1. /\ pc[t] = "fetch" /\ pc' = [pc EXCEPT ![t] = "persist"]
      /\ clock' = clock + 1 /\ fresh' = TRUE
      /\ UNCHANGED <<store, backend, reachable, lock, slot, kind, held, started, blind, unsaved>>
  BY DEF Merge
<1>2. /\ memory' = chain'[t] /\ chain'[t] \in Observed /\ memory' # Nobody
      /\ Covers(chain'[t], chain[t])
      /\ \A c \in Contracts : chain'[t][c] <= clock'
  BY MergeCovers, NoneObserved
<1>3. \A u \in Tasks \ {t} : /\ chain'[u] = chain[u] /\ pc'[u] = pc[u]
                             /\ pc[u] \notin {"fetch", "persist"}
  BY <1>1 DEF Merge, Exclusive, TypeOK
<1>4. chain' \in [Tasks -> Observed]
  BY <1>2, <1>3 DEF Merge, TypeOK
<1>5. TypeOK'
  <2>1. pc' \in [Tasks -> Phases]
    BY <1>1 DEF TypeOK, Phases
  <2>2. memory' \in Observed /\ clock' \in Nat
    BY <1>1, <1>2 DEF TypeOK
  <2> QED BY <1>1, <1>4, <2>1, <2>2 DEF TypeOK
<1>6. Exclusive' /\ BackendKept'
  BY <1>1, <1>3 DEF Exclusive, BackendKept, TypeOK
<1>7. Dated'
  <2>1. clock \in Nat /\ store \in Observed /\ chain \in [Tasks -> Observed]
        /\ held \in [Readers -> Observed \cup {Nobody}]
    BY DEF TypeOK
  <2>2. \A c \in Contracts : store[c] <= clock'
    BY <1>1, <2>1 DEF Dated, Observed
  <2>3. \A c \in Contracts : \A u \in Tasks : chain'[u][c] <= clock'
    BY <1>1, <1>2, <1>3, <2>1 DEF Dated, Observed
  <2>4. \A c \in Contracts, r \in Readers : held[r] # Nobody => held[r][c] <= clock'
    BY <1>1, <2>1 DEF Dated, Observed
  <2> QED BY <1>1, <1>2, <2>2, <2>3, <2>4 DEF Dated
<1>8. Stored'
  BY <1>1, <1>2, <1>3, <1>5 DEF Stored, Covers, TypeOK
<1>9. \A r \in Readers : held[r] # Nobody /\ ~blind => Covers(memory', held[r])
  <2>1. \A r \in Readers : held[r] # Nobody /\ ~blind => Covers(chain[t], held[r])
    BY <1>1 DEF PriorCovers
  <2> QED BY <1>2, <2>1, CoversTransitive DEF TypeOK
<1>10. OneBase'
  BY <1>1, <1>2, <1>9 DEF OneBase, Covers
<1>11. PriorCovers'
  BY <1>1, <1>3, <1>5 DEF PriorCovers, TypeOK
<1> QED BY <1>5, <1>6, <1>7, <1>8, <1>10, <1>11

LEMMA PersistPreserves ==
    ASSUME IInv, NEW t \in Tasks, Persist(t)
    PROVE  IInv'
<1> USE DEF IInv
<1>1. PICK fails \in BOOLEAN :
          /\ store' = IF backend' = "live" /\ ~fails THEN Join(store, chain[t]) ELSE store
          /\ unsaved' = fails
  BY CacheAssumption DEF Persist
<1>2. /\ pc[t] = "persist" /\ pc' = [pc EXCEPT ![t] = "release"] /\ backend' = Resolve
      /\ UNCHANGED <<memory, fresh, reachable, lock, slot, kind, chain, held, clock, started, blind>>
  BY DEF Persist
<1>3. /\ memory # Nobody /\ memory \in Observed /\ backend' = backend
      /\ store \in Observed /\ chain[t] \in Observed /\ clock \in Nat
      /\ memory = chain[t] \/ Covers(store, memory)
  BY <1>2 DEF Stored, BackendKept, Resolve, TypeOK
<1>4. /\ store' \in Observed /\ Covers(store', store)
      /\ backend' = "live" /\ ~fails => Covers(store', chain[t])
      /\ \A c \in Contracts : store'[c] <= clock
  <2>1. \A c \in Contracts : store[c] <= clock /\ chain[t][c] <= clock
    BY DEF Dated
  <2> QED BY <1>1, <1>3, <2>1, JoinCovers, CoversItself
<1>5. TypeOK'
  BY <1>1, <1>2, <1>3, <1>4 DEF TypeOK, Phases
<1>6. \A u \in Tasks \ {t} : pc'[u] = pc[u] /\ pc[u] \notin {"fetch", "persist"}
  BY <1>2 DEF Exclusive, TypeOK
<1>7. Exclusive' /\ BackendKept' /\ Dated'
  BY <1>2, <1>3, <1>4, <1>6 DEF Exclusive, BackendKept, Dated, TypeOK
<1>8. Stored'
  <2>1. \A r \in Readers : held[r] # Nobody => Covers(store', held[r])
    BY <1>3, <1>4, CoversTransitive DEF Stored, TypeOK
  <2>2. \A u \in Tasks : pc'[u] # "persist"
    BY <1>2, <1>6 DEF TypeOK
  <2>3. backend' = "live" /\ ~unsaved' => Covers(store', memory)
    BY <1>1, <1>3, <1>4, CoversTransitive
  <2> QED BY <1>2, <2>1, <2>2, <2>3 DEF Stored, Covers
<1>9. OneBase'
  BY <1>2, <1>3 DEF OneBase, Covers
<1>10. PriorCovers'
  BY <1>2, <1>6 DEF PriorCovers, TypeOK
<1> QED BY <1>5, <1>7, <1>8, <1>9, <1>10

LEMMA ReleasePreserves ==
    ASSUME IInv, NEW t \in Tasks, Release(t)
    PROVE  IInv'
<1> USE DEF IInv
<1>1. /\ pc[t] = "release" /\ pc' = [pc EXCEPT ![t] = "idle"]
      /\ lock' = Nobody /\ chain' = [chain EXCEPT ![t] = None]
      /\ UNCHANGED <<memory, fresh, store, backend, reachable, slot, kind, held, clock, started,
                     blind, unsaved>>
  BY DEF Release
<1>2. \A u \in Tasks \ {t} : /\ chain'[u] = chain[u] /\ pc'[u] = pc[u]
                             /\ pc[u] \in {"idle", "acquire"}
  BY <1>1 DEF Exclusive, TypeOK, Phases
<1>3. TypeOK'
  BY <1>1, NoneObserved DEF TypeOK, Phases
<1>4. \A u \in Tasks : pc'[u] \in {"idle", "acquire"} /\ pc[u] # "persist"
  BY <1>1, <1>2 DEF TypeOK
<1>5. Exclusive' /\ BackendKept' /\ PriorCovers'
  BY <1>1, <1>4 DEF Exclusive, BackendKept, PriorCovers
<1>6. Dated'
  <2>1. \A u \in Tasks, c \in Contracts : chain'[u][c] <= clock
    BY <1>1, <1>2 DEF Dated, None, TypeOK
  <2> QED BY <1>1, <2>1 DEF Dated
<1>7. Stored' /\ OneBase'
  BY <1>1, <1>4 DEF Stored, OneBase, Covers
<1> QED BY <1>3, <1>5, <1>6, <1>7

LEMMA HydrateReadPreserves ==
    ASSUME IInv, NEW r \in Readers, HydrateRead(r)
    PROVE  IInv'
<1> USE DEF IInv
<1>1. PICK found \in Hydrated :
          /\ held' = [held EXCEPT ![r] = IF found = None THEN Nobody ELSE found]
          /\ blind' = (blind \/ Failed(found))
  BY DEF HydrateRead
<1>2. /\ held[r] = Nobody /\ memory = Nobody /\ backend' = Resolve
      /\ UNCHANGED <<memory, fresh, store, reachable, lock, slot, pc, kind, chain, started, clock,
                     unsaved>>
  BY DEF HydrateRead, taskVars
<1>3. /\ Resolve \in {"live", "disabled"} /\ (backend # "unresolved" => Resolve = backend)
      /\ held'[r] \in {store, Nobody} /\ (held'[r] # Nobody => Resolve = "live")
      /\ \A s \in Readers \ {r} : held'[s] = held[s]
  BY <1>1 DEF Resolve, Hydrated, TypeOK
<1>4. TypeOK'
  BY <1>1, <1>2, <1>3 DEF TypeOK, Failed
<1>5. Exclusive' /\ BackendKept'
  BY <1>2, <1>3 DEF Exclusive, BackendKept
<1>6. Dated'
  BY <1>2, <1>3 DEF Dated
<1>7. Stored'
  BY <1>2, <1>3, CoversItself DEF Stored, TypeOK, Covers
<1>8. OneBase'
  BY <1>2, <1>3 DEF OneBase
<1>9. PriorCovers'
  <2> SUFFICES ASSUME NEW t \in Tasks, pc[t] = "fetch", ~blind'
               PROVE  /\ backend' = "live" => Covers(chain[t], store)
                      /\ \A s \in Readers : held'[s] # Nobody => Covers(chain[t], held'[s])
    BY <1>2 DEF PriorCovers, Covers
  <2>1. ~blind /\ backend' = backend
    BY <1>1, <1>2, <1>3 DEF BackendKept
  <2> QED BY <1>2, <1>3, <2>1 DEF PriorCovers
<1> QED BY <1>4, <1>5, <1>6, <1>7, <1>8, <1>9

LEMMA HydrateAssignPreserves ==
    ASSUME IInv, NEW r \in Readers, HydrateAssign(r)
    PROVE  IInv'
<1> USE DEF IInv
<1>1. /\ held[r] # Nobody /\ memory' = held[r] /\ fresh' = FALSE
      /\ held' = [held EXCEPT ![r] = Nobody]
      /\ UNCHANGED <<store, backend, reachable, lock, slot, pc, kind, chain, started, clock, blind,
                     unsaved>>
  BY DEF HydrateAssign, taskVars
<1>2. memory' # Nobody /\ memory' \in Observed /\ Covers(store, memory')
  BY <1>1 DEF TypeOK, Stored
<1>3. \A s \in Readers : held'[s] # Nobody => s # r /\ held'[s] = held[s] /\ held[s] = held[r]
  BY <1>1 DEF OneBase, TypeOK
<1>4. TypeOK'
  BY <1>1, <1>2 DEF TypeOK
<1>5. Exclusive' /\ BackendKept'
  BY <1>1, <1>3 DEF Exclusive, BackendKept
<1>6. Dated'
  BY <1>1, <1>3 DEF Dated
<1>7. Stored'
  BY <1>1, <1>2, <1>3 DEF Stored, Covers
<1>8. OneBase'
  BY <1>1, <1>2, <1>3, CoversItself DEF OneBase
<1>9. PriorCovers'
  BY <1>1, <1>2, <1>3 DEF PriorCovers
<1> QED BY <1>4, <1>5, <1>6, <1>7, <1>8, <1>9

LEMMA NextPreserves == IInv /\ [Next]_vars => IInv'
<1> SUFFICES ASSUME IInv, [Next]_vars PROVE IInv'
  OBVIOUS
<1>1. ASSUME NEW t \in Tasks, RequestRefresh(t) \/ ScheduleBackground(t) \/ TaskStep(t)
      PROVE  IInv'
  BY <1>1, QuietPreserves, LoadPreserves, MergePreserves, PersistPreserves, ReleasePreserves
     DEF TaskStep, Quiet
<1>2. ASSUME NEW r \in Readers, HydrateRead(r) \/ HydrateAssign(r) PROVE IInv'
  BY <1>2, HydrateReadPreserves, HydrateAssignPreserves
<1>3. CASE Expire \/ Recover \/ UNCHANGED vars
  <2>1. /\ UNCHANGED <<memory, store, backend, lock, slot, pc, kind, chain, started, held, clock,
                       blind, unsaved>>
        /\ fresh' \in {fresh, FALSE} /\ reachable' \in {reachable, TRUE}
    BY <1>3 DEF Expire, Recover, vars, taskVars
  <2>2. TypeOK'
    BY <2>1 DEF IInv, TypeOK
  <2>3. Exclusive' /\ BackendKept' /\ Dated' /\ Stored' /\ OneBase' /\ PriorCovers'
    BY <2>1 DEF IInv, Exclusive, BackendKept, Dated, Stored, OneBase, PriorCovers, Covers
  <2> QED BY <2>2, <2>3 DEF IInv
<1> QED BY <1>1, <1>2, <1>3 DEF Next

-----------------------------------------------------------------------------
(* The served chain, lock, slot and programs keep their types.             *)
THEOREM TypeCorrect == Spec => []TypeOK
<1>1. IInv => TypeOK
  BY DEF IInv
<1> QED BY InitIInv, NextPreserves, <1>1, PTL DEF Spec

(* Whenever no refresh is running, a restart would lose nothing that is    *)
(* served (_refresh_locked, _persist_best_effort), a failed last write     *)
(* aside; for any number of processes' tasks and readers.                  *)
THEOREM ServedIsSaved == Spec => []Saved
<1>1. IInv => Saved
  BY CacheAssumption DEF IInv, Saved, Exclusive, Stored, Tasks
<1> QED BY InitIInv, NextPreserves, <1>1, PTL DEF Spec

(* No refresh takes back an observation that is served when it assigns its *)
(* own, whatever hydrated while it waited for the providers.               *)
THEOREM NoUpdateLost == Spec => NoLostUpdate
<1>1. ASSUME IInv, [Next]_vars, NEW t \in Tasks, pc[t] = "fetch", pc'[t] = "persist",
             memory # Nobody, ~blind
      PROVE  Covers(memory', memory)
  <2>1. Merge(t)
    <3>1. pc' # pc
      BY <1>1
    <3>2. PICK u \in Tasks : RequestRefresh(u) \/ ScheduleBackground(u) \/ TaskStep(u)
      BY <1>1, <3>1 DEF Next, HydrateRead, HydrateAssign, Expire, Recover, vars, taskVars
    <3>3. u = t
      BY <1>1, <3>2 DEF RequestRefresh, ScheduleBackground, TaskStep, Acquire, Load, Merge,
                        Persist, Release, IInv, TypeOK
    <3> QED BY <1>1, <3>2, <3>3 DEF RequestRefresh, ScheduleBackground, TaskStep, Acquire, Load,
                                    Persist, Release, IInv, TypeOK
  <2> QED BY <1>1, <2>1, MergeCovers
<1>2. IInv /\ [Next]_vars =>
        [\A t \in Tasks : pc[t] = "fetch" /\ pc'[t] = "persist" /\ memory # Nobody /\ ~blind
             => Covers(memory', memory)]_vars
  BY <1>1
<1> QED BY InitIInv, NextPreserves, <1>2, PTL DEF Spec, NoLostUpdate
=============================================================================
