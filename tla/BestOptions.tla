---------------------------- MODULE BestOptions ----------------------------
(***************************************************************************)
(* best_options_cache.py and best_options_precompute.py: one snapshot of   *)
(* entries, replaced as a whole by a cycle on a scheduler thread and entry *)
(* by entry by the refresh tasks of the request loop, with the lock and    *)
(* the registry of tasks that keep a symbol's refreshes apart.  The loop's *)
(* ready queue and the waiters of an asyncio.Lock are both first in, first *)
(* out; between two awaits only the scheduler thread interleaves.  An      *)
(* envelope is the time of its evaluation, 0 if there is none.             *)
(***************************************************************************)
EXTENDS Integers, Sequences

CONSTANTS
    Symbols,
    Requests,       \* POSTs to /best-options/refresh, each used once
    SymbolOf,       \* the symbol of each
    Nobody,         \* no request; no entry
    MaxPrecomputes  \* bound: precompute cycles started

ASSUME BestOptionsAssumption ==
    /\ Nobody \notin Requests
    /\ SymbolOf \in [Requests -> Symbols]
    /\ MaxPrecomputes \in Nat

EntryStatuses == {"ok", "error", "warming"}

VARIABLES
    entries,        \* the published entry of each symbol, or Nobody
    present,        \* symbols whose chain the chain cache can hydrate
    clock,          \* evaluations done
    cycle,          \* "idle" or "running"
    seen,           \* the cycle's old_entries
    built,          \* the cycle's new_entries
    cycles,         \* cycles started
    touched,        \* history: symbols replaced since the cycle began
    pc,             \* position of each request
    task,           \* position of the task the request created
    result,         \* the entry that task is about to publish
    queue,          \* requests that want _refresh_tasks_lock, in their order
    lock,           \* its holder across an await
    registry        \* _symbol_refresh_tasks: the request that created the task

cycleVars == <<cycle, seen, built, cycles>>
requestVars == <<pc, task, result, queue, lock, registry>>
pageVars == <<entries, present, clock, cycleVars, touched, requestVars>>

Entry(status, envelope) == [status |-> status, envelope |-> envelope, refreshing |-> FALSE]

PageInit ==
        /\ entries = [s \in Symbols |-> Nobody]
        /\ present \in SUBSET Symbols
        /\ clock = 0
        /\ cycle = "idle"
        /\ seen = [s \in Symbols |-> Nobody]
        /\ built = [s \in Symbols |-> Nobody]
        /\ cycles = 0
        /\ touched = {}
        /\ pc = [r \in Requests |-> "new"]
        /\ task = [r \in Requests |-> "none"]
        /\ result = [r \in Requests |-> Nobody]
        /\ queue = <<>>
        /\ lock = Nobody
        /\ registry = [s \in Symbols |-> Nobody]

-----------------------------------------------------------------------------
(* run_best_options_precompute.  A cycle that cannot list the symbols, or  *)
(* finds none, publishes nothing: it is no step of this model.             *)
StartCycle ==
    /\ cycle = "idle" /\ cycles < MaxPrecomputes
    /\ cycle' = "running"
    /\ cycles' = cycles + 1
    /\ seen' = entries
    /\ built' = [s \in Symbols |-> Nobody]
    /\ touched' = {}
    /\ UNCHANGED <<entries, present, clock, requestVars>>

(* What a symbol without a usable chain or a failed evaluation keeps of    *)
(* its old entry.                                                          *)
BlankForward(old, status) == Entry(status, 0)                      \* mutant
CarryForward(old, status) ==
    IF old = Nobody THEN Entry(status, 0)
    ELSE [old EXCEPT !.status = IF status = "warming" /\ @ # "ok" THEN @ ELSE status]

EvaluateSymbol(s) ==
    /\ cycle = "running" /\ built[s] = Nobody
    /\ \/ /\ s \notin present                                      \* chain_cold
          /\ built' = [built EXCEPT ![s] = CarryForward(seen[s], "warming")]
          /\ UNCHANGED clock
       \/ /\ s \in present                 \* chain_unreadable, evaluator_error
          /\ built' = [built EXCEPT ![s] = CarryForward(seen[s], "error")]
          /\ UNCHANGED clock
       \/ /\ s \in present
          /\ clock' = clock + 1
          /\ built' = [built EXCEPT ![s] = Entry("ok", clock')]
    /\ UNCHANGED <<entries, present, cycle, seen, cycles, touched, requestVars>>

(* The soft deadline: the symbols not reached keep their entry as it was,  *)
(* the ones without an entry stay without.                                 *)
PublishCycle ==
    /\ cycle = "running"
    /\ entries' = [s \in Symbols |-> IF built[s] = Nobody THEN seen[s] ELSE built[s]]
    /\ cycle' = "idle"
    /\ seen' = [s \in Symbols |-> Nobody]
    /\ built' = [s \in Symbols |-> Nobody]
    /\ UNCHANGED <<present, clock, cycles, touched, requestVars>>

-----------------------------------------------------------------------------
Live(r) == task[r] \in {"ready", "fetch", "publish"}
LoopFree == \A r \in Requests : task[r] # "publish"

(* The POST handler: 409 if the registered task of the symbol is not done, *)
(* else 202 and a task that calls refresh_symbol.                          *)
Post(r) ==
    /\ pc[r] = "new" /\ LoopFree
    /\ IF registry[SymbolOf[r]] # Nobody /\ Live(registry[SymbolOf[r]])
       THEN /\ pc' = [pc EXCEPT ![r] = "conflict"]
            /\ UNCHANGED queue
       ELSE /\ pc' = [pc EXCEPT ![r] = "enter"]
            /\ queue' = Append(queue, r)
    /\ UNCHANGED <<entries, present, clock, cycleVars, touched, task, result,
                   lock, registry>>

(* refresh_symbol under the lock: joins the running task of the symbol,    *)
(* and keeps the lock while it does, or creates and registers one.         *)
Enter(r) ==
    /\ queue # <<>> /\ Head(queue) = r /\ pc[r] = "enter"
    /\ lock = Nobody /\ LoopFree
    /\ queue' = Tail(queue)
    /\ IF registry[SymbolOf[r]] # Nobody /\ Live(registry[SymbolOf[r]])
       THEN /\ lock' = r
            /\ pc' = [pc EXCEPT ![r] = "shield"]
            /\ UNCHANGED <<task, registry>>
       ELSE /\ registry' = [registry EXCEPT ![SymbolOf[r]] = r]
            /\ task' = [task EXCEPT ![r] = "ready"]
            /\ pc' = [pc EXCEPT ![r] = "await"]
            /\ UNCHANGED lock
    /\ UNCHANGED <<entries, present, clock, cycleVars, touched, result>>

(* The joined task is done: its result is returned and the lock released.  *)
Joined(r) ==
    /\ pc[r] = "shield" /\ LoopFree
    /\ \A u \in Requests : SymbolOf[u] = SymbolOf[r] => ~Live(u)
    /\ lock' = Nobody
    /\ pc' = [pc EXCEPT ![r] = "done"]
    /\ UNCHANGED <<entries, present, clock, cycleVars, touched, task, result,
                   queue, registry>>

(* The finally clause, under the lock: forgets whatever task is registered.*)
Cleanup(r) ==
    /\ queue # <<>> /\ Head(queue) = r /\ pc[r] = "cleanup"
    /\ lock = Nobody /\ LoopFree
    /\ queue' = Tail(queue)
    /\ registry' = [registry EXCEPT ![SymbolOf[r]] = Nobody]
    /\ pc' = [pc EXCEPT ![r] = "done"]
    /\ UNCHANGED <<entries, present, clock, cycleVars, touched, task, result, lock>>

-----------------------------------------------------------------------------
(* cache.replace_symbol: every other entry stays as it is.                 *)
Replace(s, e) == /\ entries' = [entries EXCEPT ![s] = e]
                 /\ touched' = touched \cup {s}

(* _refresh_symbol_impl up to its await of the chain refresh.              *)
BeginRefresh(r) ==
    /\ task[r] = "ready" /\ LoopFree
    /\ IF entries[SymbolOf[r]] = Nobody THEN UNCHANGED <<entries, touched>>
       ELSE Replace(SymbolOf[r], [entries[SymbolOf[r]] EXCEPT !.refreshing = TRUE])
    /\ task' = [task EXCEPT ![r] = "fetch"]
    /\ UNCHANGED <<present, clock, cycleVars, pc, result, queue, lock, registry>>

(* The chain refresh returned or failed; symbol and chain are read and     *)
(* evaluated without another await.                                        *)
Evaluate(r) ==
    /\ task[r] = "fetch" /\ LoopFree
    /\ present' \in {present, present \cup {SymbolOf[r]}}
    /\ \/ /\ result' = [result EXCEPT ![r] = Entry("error", 0)]
          /\ UNCHANGED clock
       \/ /\ SymbolOf[r] \in present'
          /\ clock' = clock + 1
          /\ result' = [result EXCEPT ![r] = Entry("ok", clock')]
    /\ task' = [task EXCEPT ![r] = "publish"]
    /\ UNCHANGED <<entries, cycleVars, touched, pc, queue, lock, registry>>

KeepWaiting(r) ==                                                  \* mutant
    /\ task[r] = "publish"
    /\ Replace(SymbolOf[r], result[r])
    /\ task' = [task EXCEPT ![r] = "done"]
    /\ result' = [result EXCEPT ![r] = Nobody]
    /\ UNCHANGED <<present, clock, cycleVars, pc, queue, lock, registry>>

(* The entry is published; the creator is next in line for the lock.       *)
FinishRefresh(r) ==
    /\ task[r] = "publish"
    /\ Replace(SymbolOf[r], result[r])
    /\ task' = [task EXCEPT ![r] = "done"]
    /\ result' = [result EXCEPT ![r] = Nobody]
    /\ pc' = [pc EXCEPT ![r] = "cleanup"]
    /\ queue' = Append(queue, r)
    /\ UNCHANGED <<present, clock, cycleVars, lock, registry>>

-----------------------------------------------------------------------------
(* What the GET handler answers for the canonical parameters.              *)
Served(s) ==
    IF entries[s] = Nobody THEN "warming"
    ELSE IF entries[s].status # "ok"
         THEN IF entries[s].status = "error" THEN "unavailable" ELSE "warming"
         ELSE IF entries[s].envelope = 0 THEN "missing" ELSE "envelope"

(* A chain appears: the GET handler schedules a background refresh when it *)
(* finds neither page nor chain, and the chain refresh job runs anyway.    *)
ChainArrives(s) ==
    /\ s \notin present
    /\ present' = present \cup {s}
    /\ UNCHANGED <<entries, clock, cycleVars, touched, requestVars>>

RequestStep(r) == \/ Enter(r) \/ Joined(r) \/ Cleanup(r)
                  \/ BeginRefresh(r) \/ Evaluate(r) \/ FinishRefresh(r)

PageNext ==
        \/ StartCycle \/ PublishCycle
        \/ \E s \in Symbols : EvaluateSymbol(s) \/ ChainArrives(s)
        \/ \E r \in Requests : Post(r) \/ RequestStep(r)

PageSpec == PageInit /\ [][PageNext]_pageVars

(* The loop runs its ready coroutines, and a chain refresh returns.        *)
PageFairness == \A r \in Requests : WF_pageVars(RequestStep(r))

-----------------------------------------------------------------------------
(* "A transient provider hiccup never blanks a working page", of a cycle:  *)
(* publishing never takes the envelope of a symbol away or replaces it by  *)
(* an older one, unless that symbol was refreshed while the cycle ran.     *)
CarriedForward ==
    [][cycle = "running" /\ cycle' = "idle"
         => \A s \in Symbols \ touched :
               entries[s] # Nobody
                 => entries'[s] # Nobody /\ entries'[s].envelope >= entries[s].envelope]_pageVars

(* Every refresh that was accepted comes to its end, though one that joins *)
(* a running task keeps the lock its creator and all other symbols need.   *)
RefreshEnds == \A r \in Requests : pc[r] = "enter" ~> pc[r] = "done"
=============================================================================
