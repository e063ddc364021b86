------------------------- MODULE OptionsChainCache -------------------------
(***************************************************************************)
(* options_chain_cache.py in one process, for one symbol: the refresh      *)
(* tasks of the request loop, the scheduler threads of refresh_all with    *)
(* their private loops, stale-while-revalidate, readers that hydrate, and  *)
(* the persistence backend behind them.  A coroutine of the request loop   *)
(* runs undisturbed by its siblings between two awaits; threads interleave *)
(* anywhere.  A chain maps each contract to the time it was last observed, *)
(* 0 if it is absent.                                                      *)
(***************************************************************************)
EXTENDS Integers, FiniteSets

CONSTANTS
    Contracts,
    WebTasks,           \* refresh tasks the request loop may run
    WorkerTasks,        \* threads of refresh_all, each with a loop of its own
    WebReaders,         \* coroutines that read the chain
    ThreadReaders,      \* executor threads that read it (options screener)
    Nobody,             \* a free lock, an empty slot, no chain
    ReadMayFail,        \* hydrate of a live backend may fail
    WriteMayFail,       \* and so may persist
    MayHang,            \* a provider call may never return
    MaxRefreshes        \* bound: refreshes started

ASSUME CacheAssumption ==
    /\ WebTasks \cap WorkerTasks = {}
    /\ Nobody \notin WebTasks \cup WorkerTasks
    /\ Nobody \notin [Contracts -> Nat]
    /\ ReadMayFail \in BOOLEAN /\ WriteMayFail \in BOOLEAN /\ MayHang \in BOOLEAN
    /\ MaxRefreshes \in Nat

Tasks == WebTasks \cup WorkerTasks
Readers == WebReaders \cup ThreadReaders
Chain == [Contracts -> 0..(MaxRefreshes + 1)]
None == [c \in Contracts |-> 0]

VARIABLES
    memory,         \* _store[symbol]: the served chain, or Nobody
    fresh,          \* its age is below the TTL
    store,          \* what is persisted
    backend,        \* _store_backend: "unresolved", "live", "disabled"
    reachable,      \* get_options_chain_store would connect now
    lock,           \* _symbol_os_locks[symbol]
    slot,           \* _inflight_refresh[symbol]
    pc,             \* position of each task
    kind,           \* "refresh" or "background"
    chain,          \* a task's prior, then its merged chain
    held,           \* a reader's hydrated chain on its way into memory
    clock,
    started,        \* refreshes started
    blind,          \* history: a hydrate has failed
    unsaved         \* history: the last persist failed

taskVars == <<lock, slot, pc, kind, chain, started>>
vars == <<memory, fresh, store, backend, reachable, taskVars, held, clock, blind, unsaved>>

Covers(a, b) == \A c \in Contracts : a[c] >= b[c]
Join(a, b) == [c \in Contracts |-> IF a[c] >= b[c] THEN a[c] ELSE b[c]]

(* A coroutine is between two awaits.                                      *)
WebBusy == \/ \E t \in WebTasks : pc[t] \in {"persist", "release"}
           \/ \E r \in WebReaders : held[r] # Nobody
LoopBlocked(x) ==                                                  \* mutant
    x \in WebTasks \cup WebReaders =>
        ~WebBusy /\ (lock = Nobody \/ \A u \in WebTasks : pc[u] # "acquire")
MayRun(x) == x \in WebTasks \cup WebReaders => ~WebBusy

Init == /\ memory = Nobody
        /\ fresh = FALSE
        /\ store \in [Contracts -> {0, 1}]
        /\ backend = "unresolved"
        /\ reachable \in BOOLEAN
        /\ lock = Nobody
        /\ slot = Nobody
        /\ pc = [t \in Tasks |-> "idle"]
        /\ kind = [t \in Tasks |-> "refresh"]
        /\ chain = [t \in Tasks |-> None]
        /\ held = [r \in Readers |-> Nobody]
        /\ clock = 1
        /\ started = 0
        /\ blind = FALSE
        /\ unsaved = FALSE

-----------------------------------------------------------------------------
(* _get_store keeps whatever it is given first.                            *)
Resolve ==
    IF backend # "unresolved" THEN backend
    ELSE IF reachable THEN "live" ELSE "disabled"

(* hydrate: None unless the backend is live, its read succeeds and it      *)
(* holds a shard.                                                          *)
Hydrated == IF Resolve = "live" THEN IF ReadMayFail THEN {store, None} ELSE {store}
            ELSE {None}
Failed(found) == Resolve = "live" /\ found # store

-----------------------------------------------------------------------------
(* refresh joins the task in the slot if it is one of this loop and not    *)
(* done; a worker's loop is new, so it never finds one.                    *)
InFlight(t) == /\ t \in WebTasks /\ slot \in WebTasks
               /\ pc[slot] # "idle" /\ kind[slot] = "refresh"

RequestRefresh(t) ==
    /\ pc[t] = "idle" /\ started < MaxRefreshes /\ MayRun(t)
    /\ ~InFlight(t)
    /\ slot' = t
    /\ pc' = [pc EXCEPT ![t] = "acquire"]
    /\ kind' = [kind EXCEPT ![t] = "refresh"]
    /\ started' = started + 1
    /\ UNCHANGED <<memory, fresh, store, backend, reachable, lock, chain, held, clock, blind, unsaved>>

TryAcquire == lock = Nobody

(* _schedule_background_refresh, for a stale hit or a cold miss: takes the *)
(* lock without waiting, or leaves it to the refresh that holds it.        *)
ScheduleBackground(t) ==
    /\ t \in WebTasks
    /\ pc[t] = "idle" /\ started < MaxRefreshes /\ MayRun(t)
    /\ ~fresh
    /\ TryAcquire
    /\ lock' = t
    /\ pc' = [pc EXCEPT ![t] = "load"]
    /\ kind' = [kind EXCEPT ![t] = "background"]
    /\ started' = started + 1
    /\ UNCHANGED <<memory, fresh, store, backend, reachable, slot, chain, held, clock, blind, unsaved>>

(* _refresh_exclusive: an executor thread waits for the lock.              *)
Acquire(t) ==
    /\ pc[t] = "acquire" /\ lock = Nobody
    /\ lock' = t
    /\ pc' = [pc EXCEPT ![t] = "load"]
    /\ UNCHANGED <<memory, fresh, store, backend, reachable, slot, kind, chain, held, clock,
                   started, blind, unsaved>>

LoadFromStore(t) ==                                                \* mutant
    /\ pc[t] = "load" /\ MayRun(t)
    /\ backend' = Resolve
    /\ chain' = [chain EXCEPT ![t] = store]
    /\ pc' = [pc EXCEPT ![t] = "fetch"]
    /\ UNCHANGED <<memory, fresh, store, reachable, lock, slot, kind, held, clock, started,
                   blind, unsaved>>

(* _refresh_locked: the prior comes from memory, else from the store; then *)
(* the providers are asked without a timeout, and their call may hang, on  *)
(* the request loop as in a thread of refresh_all.                         *)
Load(t) ==
    /\ pc[t] = "load" /\ MayRun(t)
    /\ backend' = IF memory = Nobody THEN Resolve ELSE backend
    /\ \E prior \in IF memory = Nobody THEN Hydrated ELSE {memory} :
          /\ chain' = [chain EXCEPT ![t] = prior]
          /\ blind' = (blind \/ (memory = Nobody /\ Failed(prior)))
    /\ \E hangs \in {FALSE, MayHang} :
          pc' = [pc EXCEPT ![t] = IF hangs THEN "hung" ELSE "fetch"]
    /\ UNCHANGED <<memory, fresh, store, reachable, lock, slot, kind, held, clock, started,
                   unsaved>>

(* The providers answer with any of the contracts; the merge becomes the   *)
(* served chain.                                                           *)
Merge(t) ==
    /\ pc[t] = "fetch" /\ MayRun(t)
    /\ clock' = clock + 1
    /\ \E live \in SUBSET Contracts :
          chain' = [chain EXCEPT ![t] =
                       [c \in Contracts |-> IF c \in live THEN clock' ELSE chain[t][c]]]
    /\ memory' = chain'[t]
    /\ fresh' = TRUE
    /\ pc' = [pc EXCEPT ![t] = "persist"]
    /\ UNCHANGED <<store, backend, reachable, lock, slot, kind, held, started, blind, unsaved>>

PersistNew(t) ==                                                   \* mutant
    /\ pc[t] = "persist"
    /\ backend' = Resolve
    /\ \E fails \in {FALSE, WriteMayFail} :
          /\ store' = IF backend' = "live" /\ ~fails
                      THEN [c \in Contracts |-> IF chain[t][c] = clock THEN clock ELSE store[c]]
                      ELSE store
          /\ unsaved' = fails
    /\ pc' = [pc EXCEPT ![t] = "release"]
    /\ UNCHANGED <<memory, fresh, reachable, lock, slot, kind, chain, held, clock, started, blind>>

(* _persist_best_effort: never raises.                                     *)
Persist(t) ==
    /\ pc[t] = "persist"
    /\ backend' = Resolve
    /\ \E fails \in {FALSE, WriteMayFail} :
          /\ store' = IF backend' = "live" /\ ~fails THEN Join(store, chain[t]) ELSE store
          /\ unsaved' = fails
    /\ pc' = [pc EXCEPT ![t] = "release"]
    /\ UNCHANGED <<memory, fresh, reachable, lock, slot, kind, chain, held, clock, started, blind>>

Release(t) ==
    /\ pc[t] = "release"
    /\ lock' = Nobody
    /\ pc' = [pc EXCEPT ![t] = "idle"]
    /\ chain' = [chain EXCEPT ![t] = None]
    /\ UNCHANGED <<memory, fresh, store, backend, reachable, slot, kind, held, clock, started,
                   blind, unsaved>>

-----------------------------------------------------------------------------
(* _hydrate_into_memory on a miss: the store is read, and later the result *)
(* assigned, already stale, without the symbol's lock.                     *)
HydrateRead(r) ==
    /\ held[r] = Nobody /\ memory = Nobody /\ MayRun(r)
    /\ backend' = Resolve
    /\ \E found \in Hydrated :
          /\ held' = [held EXCEPT ![r] = IF found = None THEN Nobody ELSE found]
          /\ blind' = (blind \/ Failed(found))
    /\ UNCHANGED <<memory, fresh, store, reachable, taskVars, clock, unsaved>>

HydrateAssign(r) ==
    /\ held[r] # Nobody
    /\ memory' = held[r]
    /\ fresh' = FALSE
    /\ held' = [held EXCEPT ![r] = Nobody]
    /\ UNCHANGED <<store, backend, reachable, taskVars, clock, blind, unsaved>>

(* The TTL passes: the entry becomes stale, and stays readable.            *)
Expire ==
    /\ fresh
    /\ fresh' = FALSE
    /\ UNCHANGED <<memory, store, backend, reachable, taskVars, held, clock, blind, unsaved>>

(* Cosmos answers again and the retry window of get_options_chain_store    *)
(* has passed.                                                             *)
Recover ==
    /\ ~reachable
    /\ reachable' = TRUE
    /\ UNCHANGED <<memory, fresh, store, backend, taskVars, held, clock, blind, unsaved>>

TaskStep(t) == Acquire(t) \/ Load(t) \/ Merge(t) \/ Persist(t) \/ Release(t)

Next == \/ \E t \in Tasks : RequestRefresh(t) \/ ScheduleBackground(t) \/ TaskStep(t)
        \/ \E r \in Readers : HydrateRead(r) \/ HydrateAssign(r)
        \/ Expire \/ Recover

Spec == Init /\ [][Next]_vars

(* Threads are scheduled, event loops run their ready tasks, and provider  *)
(* calls that do not hang return.                                          *)
Fairness == /\ \A t \in Tasks : WF_vars(TaskStep(t))
            /\ \A r \in Readers : WF_vars(HydrateAssign(r))
FairSpec == Spec /\ Fairness

-----------------------------------------------------------------------------
(* No lost update: what a refresh assigns includes every observation that  *)
(* was served when it does, those made while it waited for the providers   *)
(* too.  (A hydrate that fails when nothing is in memory is the exception: *)
(* the refresh then starts from nothing.)                                  *)
NoLostUpdate ==
    [][\A t \in Tasks : pc[t] = "fetch" /\ pc'[t] = "persist" /\ memory # Nobody /\ ~blind
                            => Covers(memory', memory)]_vars

(* Once no refresh is running, whatever is served has been persisted, a    *)
(* failed last write aside: a restart loses nothing, even of what was      *)
(* loaded from memory or when a hydrate failed.                            *)
Saved == backend = "live" /\ lock = Nobody /\ ~unsaved /\ memory # Nobody
             => Covers(store, memory)

(* Every refresh comes to its end, unless the one that holds the symbol's  *)
(* lock is in a call to a provider that hangs for ever (on the request     *)
(* loop, or in a thread that refresh_all has abandoned): the lock stays,   *)
(* and the others wait for it without a bound.  Nothing else stops them:   *)
(* no task waits on its own loop for the lock that another one holds.      *)
RefreshCompletes ==
    \A t \in Tasks : pc[t] # "idle" ~> pc[t] = "idle" \/ (lock # Nobody /\ pc[lock] = "hung")
=============================================================================
