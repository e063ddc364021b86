---------------------------- MODULE TaskRegistry ----------------------------
(***************************************************************************)
(* The scheduler's task registry (scheduler_registry.py) with the threads  *)
(* that share it: the main loop of OptionsAgentScheduler.run (main.py),    *)
(* the registry's worker thread, the job sub-threads it starts, and the    *)
(* event loop of the web application.  No lock protects a ScheduledTask,   *)
(* so each action below is one write of the shared fields, with the reads  *)
(* before it that no other thread's write in between makes differ.         *)
(***************************************************************************)
EXTENDS Integers, Sequences, FiniteSets

CONSTANTS
    NumTasks,       \* the registered tasks
    Crons,          \* cron expressions somebody may type in
    ValidCrons,     \* those croniter accepts
    NoCron,         \* cron_obj = None
    StartupTasks,   \* tasks triggered once before the loop (best_options)
    WebOps,         \* subset of {"trigger","cron","enabled","form","external"}
    CanTimeout,     \* whether a job may outlive _MAX_TASK_DURATION_SECONDS
    MaxIterations,  \* safety limit of _advance_next_run
    MaxBehind,      \* bound: cron occurrences that can pile up
    MaxWebOps,      \* bound: web requests and external settings writes
    MaxQueue,       \* bound: a dispatch waits while this many jobs are queued
    MaxLingering    \* bound: abandoned job threads per task

(* The tasks, numbered in the order of their registration: every loop of   *)
(* the registry walks them in this order.                                  *)
Tasks == 1..NumTasks
TaskOrder == [i \in Tasks |-> i]

ASSUME RegistryAssumption ==
    /\ NumTasks \in Nat
    /\ ValidCrons \subseteq Crons
    /\ NoCron \notin Crons
    /\ StartupTasks \subseteq Tasks
    /\ CanTimeout \in BOOLEAN
    /\ WebOps \subseteq {"trigger", "cron", "enabled", "form", "external"}
    /\ MaxIterations \in Nat /\ MaxBehind \in Nat \ {0}
    /\ MaxWebOps \in Nat /\ MaxQueue \in Nat /\ MaxLingering \in Nat

NoRun == -1         \* next_run = None

VARIABLES
    enabled, cron, cronObj, nextRun, running, changed,  \* ScheduledTask
    cfg,            \* config.config[config_key]: cron and enabled
    cosmos,         \* settings document in Cosmos DB
    jobQueue,       \* _job_queue
    main,           \* main loop: pc, tasks still to visit, settings read
    worker,         \* worker thread: pc and the task it runs
    lingering,      \* abandoned job threads that still run, per task
    web,            \* the request in progress on the event loop
    webOps,         \* requests started so far
    overtaken       \* history: a new expression was adopted for the task while a
                    \* request that switches it on held the older one

fields == <<enabled, cron, cronObj, nextRun, running, changed>>
vars == <<fields, cfg, cosmos, jobQueue, main, worker, lingering, web, webOps, overtaken>>

Setting == [cron : Crons, enabled : BOOLEAN]

-----------------------------------------------------------------------------
(* initialize_all: the configuration starts as the merged Cosmos document. *)

Init ==
    /\ cosmos \in [Tasks -> [cron : ValidCrons, enabled : BOOLEAN]]
    /\ cfg = cosmos
    /\ cron = [t \in Tasks |-> cfg[t].cron]
    /\ enabled = [t \in Tasks |-> cfg[t].enabled]
    /\ cronObj = [t \in Tasks |-> IF cfg[t].enabled THEN cfg[t].cron ELSE NoCron]
    /\ nextRun = [t \in Tasks |-> IF cfg[t].enabled THEN 0 ELSE NoRun]
    /\ running = [t \in Tasks |-> FALSE]
    /\ changed = [t \in Tasks |-> FALSE]
    /\ jobQueue = <<>>
    /\ main = [pc |-> "startup", todo |-> <<>>, snap |-> cosmos, cronChanged |-> FALSE]
    /\ worker \in [pc : {"get"}, task : Tasks]
    /\ lingering = [t \in Tasks |-> 0]
    /\ web \in [pc : {"idle"}, op : {"none"}, task : Tasks, new : {cosmos[t] : t \in Tasks},
                expr : {NoCron}]
    /\ webOps = 0
    /\ overtaken = [t \in Tasks |-> FALSE]

(* next_run is the number of occurrences of the schedule that have passed: *)
(* due when positive.  Advancing skips at most 1 + MaxIterations of them.  *)
Due(t) == enabled[t] /\ nextRun[t] > 0

AdvanceNextRun(n) ==
    IF n > MaxIterations + 1 THEN n - (MaxIterations + 1) ELSE 0

Tick(t) ==
    /\ nextRun[t] \in 0..(MaxBehind - 1)
    /\ nextRun' = [nextRun EXCEPT ![t] = @ + 1]
    /\ UNCHANGED <<enabled, cron, cronObj, running, changed, cfg, cosmos,
                   jobQueue, main, worker, lingering, web, webOps, overtaken>>

-----------------------------------------------------------------------------
(* The main loop: run() of main.py.                                        *)

(* The startup catch-up is a trigger_task_now from the scheduler's thread. *)
MainStartup ==
    /\ main.pc = "startup"
    /\ \/ \E t \in StartupTasks :
            /\ enabled[t] /\ ~running[t]
            /\ main' = [main EXCEPT !.pc = "mark", !.todo = <<t>>]
       \/ /\ \A t \in StartupTasks : ~enabled[t] \/ running[t]
          /\ main' = [main EXCEPT !.pc = "top"]
    /\ UNCHANGED <<fields, cfg, cosmos, jobQueue, worker, lingering, web, webOps, overtaken>>

(* Every _config_reload_interval the loop first reads the settings.        *)
MainReadSettings ==
    /\ main.pc = "top"
    /\ main' = [main EXCEPT !.pc = "reload", !.todo = TaskOrder, !.snap = cosmos]
    /\ UNCHANGED <<fields, cfg, cosmos, jobQueue, worker, lingering, web, webOps, overtaken>>

(* Otherwise, or when the read fails (get_settings returns {}), it does not.*)
MainNoReload ==
    /\ main.pc = "top"
    /\ main' = [main EXCEPT !.pc = "changes", !.todo = TaskOrder]
    /\ UNCHANGED <<fields, cfg, cosmos, jobQueue, worker, lingering, web, webOps, overtaken>>

(* signal_handler cleared self.running: the loop ends, registry.shutdown(). *)
MainStop ==
    /\ main.pc = "top"
    /\ main' = [main EXCEPT !.pc = "stopped"]
    /\ UNCHANGED <<fields, cfg, cosmos, jobQueue, worker, lingering, web, webOps, overtaken>>

MainNextPhase ==
    /\ main.todo = <<>>
    /\ \/ main.pc = "reload" /\ main' = [main EXCEPT !.pc = "changes", !.todo = TaskOrder]
       \/ main.pc = "changes" /\ main' = [main EXCEPT !.pc = "due", !.todo = TaskOrder]
       \/ main.pc = "due" /\ main' = [main EXCEPT !.pc = "top"]
    /\ UNCHANGED <<fields, cfg, cosmos, jobQueue, worker, lingering, web, webOps, overtaken>>

(* Action helper: the loop is at pc, visiting t.                           *)
MainAt(pc, t) == main.pc = pc /\ main.todo # <<>> /\ t = Head(main.todo)
MainVisited(pc) == main' = [main EXCEPT !.pc = pc, !.todo = Tail(@)]
MainGoto(pc) == main' = [main EXCEPT !.pc = pc]

(* reload_from_cosmos for one task: a cron expression that differs and the *)
(* enabled flag into the config, the flag into the task, and last the flag *)
(* of a changed expression.                                                *)
MainReload(t) ==
    /\ MainAt("reload", t)
    /\ cfg' = [cfg EXCEPT ![t].cron = main.snap[t].cron]
    /\ main' = [main EXCEPT !.pc = "reloadConfig",
                            !.cronChanged = main.snap[t].cron # cfg[t].cron]
    /\ UNCHANGED <<fields, cosmos, jobQueue, worker, lingering, web, webOps, overtaken>>

MainReloadConfig(t) ==
    /\ MainAt("reloadConfig", t)
    /\ cfg' = [cfg EXCEPT ![t].enabled = main.snap[t].enabled]
    /\ MainGoto("reloadTask")
    /\ UNCHANGED <<fields, cosmos, jobQueue, worker, lingering, web, webOps, overtaken>>

MainReloadTask(t) ==
    /\ MainAt("reloadTask", t)
    /\ enabled' = [enabled EXCEPT ![t] = main.snap[t].enabled]
    /\ IF main.cronChanged THEN MainGoto("reflag") ELSE MainVisited("reload")
    /\ UNCHANGED <<cron, cronObj, nextRun, running, changed, cfg, cosmos, jobQueue,
                   worker, lingering, web, webOps, overtaken>>

MainReflag(t) ==
    /\ MainAt("reflag", t)
    /\ changed' = [changed EXCEPT ![t] = TRUE]
    /\ main' = [main EXCEPT !.pc = "reload", !.todo = Tail(@), !.cronChanged = FALSE]
    /\ UNCHANGED <<enabled, cron, cronObj, nextRun, running, cfg, cosmos, jobQueue,
                   worker, lingering, web, webOps, overtaken>>

(* handle_cron_changes: the flag is cleared before the config is read.     *)
MainClearFlag(t) ==
    /\ MainAt("changes", t)
    /\ changed' = [changed EXCEPT ![t] = FALSE]
    /\ IF changed[t] THEN MainGoto("rebase") ELSE MainVisited("changes")
    /\ UNCHANGED <<enabled, cron, cronObj, nextRun, running, cfg, cosmos, jobQueue,
                   worker, lingering, web, webOps, overtaken>>

(* The expression of the config is adopted, parsed into a schedule, which  *)
(* then gives the next run; the switch is read again after it.  One that   *)
(* does not parse switches the task off and keeps its old schedule.        *)
MainRebase(t) ==
    /\ MainAt("rebase", t)
    /\ cron' = [cron EXCEPT ![t] = cfg[t].cron]
    /\ overtaken' = [overtaken EXCEPT ![t] =
                        web.pc = "assign" /\ web.task = t /\ web.expr # cfg[t].cron]
    /\ MainGoto("parse")
    /\ UNCHANGED <<enabled, cronObj, nextRun, running, changed, cfg, cosmos, jobQueue,
                   worker, lingering, web, webOps>>

MainParse(t) ==
    /\ MainAt("parse", t)
    /\ \/ /\ cron[t] \in ValidCrons
          /\ cronObj' = [cronObj EXCEPT ![t] = cron[t]]
          /\ MainGoto("next")
          /\ UNCHANGED enabled
       \/ /\ cron[t] \notin ValidCrons
          /\ enabled' = [enabled EXCEPT ![t] = FALSE]
          /\ MainVisited("changes")
          /\ UNCHANGED cronObj
    /\ UNCHANGED <<cron, nextRun, running, changed, cfg, cosmos, jobQueue, worker,
                   lingering, web, webOps, overtaken>>

MainNextRun(t) ==
    /\ MainAt("next", t)
    /\ nextRun' = [nextRun EXCEPT ![t] = 0]
    /\ MainGoto("reenable")
    /\ UNCHANGED <<enabled, cron, cronObj, running, changed, cfg, cosmos, jobQueue,
                   worker, lingering, web, webOps, overtaken>>

MainReenable(t) ==
    /\ MainAt("reenable", t)
    /\ enabled' = [enabled EXCEPT ![t] = cfg[t].enabled]
    /\ MainVisited("changes")
    /\ UNCHANGED <<cron, cronObj, nextRun, running, changed, cfg, cosmos, jobQueue,
                   worker, lingering, web, webOps, overtaken>>

(* execute_due_tasks: test enabled, next_run and running; advance next_run *)
(* in either case; then mark the task running; then enqueue it.            *)
MainDue(t) ==
    /\ MainAt("due", t)
    /\ Len(jobQueue) < MaxQueue
    /\ IF Due(t)
         THEN /\ nextRun' = [nextRun EXCEPT ![t] = AdvanceNextRun(@)]
              /\ IF running[t] THEN MainVisited("due") ELSE MainGoto("mark")
         ELSE /\ MainVisited("due")
              /\ UNCHANGED nextRun
    /\ UNCHANGED <<enabled, cron, cronObj, running, changed, cfg, cosmos, jobQueue,
                   worker, lingering, web, webOps, overtaken>>

MainMark(t) ==
    /\ MainAt("mark", t)
    /\ running' = [running EXCEPT ![t] = TRUE]
    /\ MainGoto("put")
    /\ UNCHANGED <<enabled, cron, cronObj, nextRun, changed, cfg, cosmos, jobQueue,
                   worker, lingering, web, webOps, overtaken>>

MainPut(t) ==
    /\ MainAt("put", t)
    /\ jobQueue' = Append(jobQueue, t)
    /\ MainVisited("due")
    /\ UNCHANGED <<fields, cfg, cosmos, worker, lingering, web, webOps, overtaken>>

MainTaskStep(t) ==
    \/ MainReload(t) \/ MainReloadConfig(t) \/ MainReloadTask(t) \/ MainReflag(t)
    \/ MainClearFlag(t) \/ MainRebase(t) \/ MainParse(t) \/ MainNextRun(t) \/ MainReenable(t)
    \/ MainDue(t) \/ MainMark(t) \/ MainPut(t)

MainStep ==
    \/ MainStartup \/ MainReadSettings \/ MainNoReload \/ MainNextPhase
    \/ \E t \in Tasks : MainTaskStep(t)

-----------------------------------------------------------------------------
(* The worker thread and the job sub-threads: _worker_loop.                *)

(* Mutant: the flag is cleared when the job is taken, not when it ends.    *)
WorkerGetClears ==
    /\ worker.pc = "get"
    /\ jobQueue # <<>>
    /\ worker' = [pc |-> "join", task |-> Head(jobQueue)]
    /\ jobQueue' = Tail(jobQueue)
    /\ running' = [running EXCEPT ![Head(jobQueue)] = FALSE]
    /\ UNCHANGED <<enabled, cron, cronObj, nextRun, changed, cfg, cosmos, main,
                   lingering, web, webOps, overtaken>>

WorkerGet ==
    /\ worker.pc = "get"
    /\ jobQueue # <<>>
    /\ worker' = [pc |-> "join", task |-> Head(jobQueue)]
    /\ jobQueue' = Tail(jobQueue)
    /\ UNCHANGED <<fields, cfg, cosmos, main, lingering, web, webOps, overtaken>>

(* The job returns or raises; run_task swallows the exception.             *)
WorkerJoined ==
    /\ worker.pc = "join"
    /\ worker' = [worker EXCEPT !.pc = "clear"]
    /\ UNCHANGED <<fields, cfg, cosmos, jobQueue, main, lingering, web, webOps, overtaken>>

(* Mutant: the timeout path goes on to the next job without clearing.      *)
WorkerTimeoutContinues ==
    /\ CanTimeout
    /\ worker.pc = "join"
    /\ lingering[worker.task] < MaxLingering
    /\ lingering' = [lingering EXCEPT ![worker.task] = @ + 1]
    /\ worker' = [worker EXCEPT !.pc = "get"]
    /\ UNCHANGED <<fields, cfg, cosmos, jobQueue, main, web, webOps, overtaken>>

(* join(timeout) expires: the sub-thread is abandoned, and goes on.        *)
WorkerTimeout ==
    /\ CanTimeout
    /\ worker.pc = "join"
    /\ lingering[worker.task] < MaxLingering
    /\ lingering' = [lingering EXCEPT ![worker.task] = @ + 1]
    /\ worker' = [worker EXCEPT !.pc = "clear"]
    /\ UNCHANGED <<fields, cfg, cosmos, jobQueue, main, web, webOps, overtaken>>

LingererEnds(t) ==
    /\ lingering[t] > 0
    /\ lingering' = [lingering EXCEPT ![t] = @ - 1]
    /\ UNCHANGED <<fields, cfg, cosmos, jobQueue, main, worker, web, webOps, overtaken>>

WorkerClear ==
    /\ worker.pc = "clear"
    /\ running' = [running EXCEPT ![worker.task] = FALSE]
    /\ worker' = [worker EXCEPT !.pc = "get"]
    /\ UNCHANGED <<enabled, cron, cronObj, nextRun, changed, cfg, cosmos, jobQueue,
                   main, lingering, web, webOps, overtaken>>

(* _shutdown is tested between two jobs; a get() in progress may win.      *)
WorkerExit ==
    /\ worker.pc = "get"
    /\ main.pc = "stopped"
    /\ worker' = [worker EXCEPT !.pc = "exited"]
    /\ UNCHANGED <<fields, cfg, cosmos, jobQueue, main, lingering, web, webOps, overtaken>>

WorkerStep == WorkerGet \/ WorkerJoined \/ WorkerTimeout \/ WorkerClear \/ WorkerExit

-----------------------------------------------------------------------------
(* The web application: one request at a time touches the registry, since  *)
(* the handlers run on one event loop and do not await between the steps.  *)
(*   trigger   run_scheduler_task_now -> trigger_task_now                  *)
(*   cron      update_scheduler_task_cron: reschedule, then save           *)
(*   enabled   update_scheduler_task_enabled: update, then save            *)
(*   form      the settings page: save, reschedule, update_task_enabled    *)

(* Each program maps a step to the one that follows it.                    *)

(* Mutant: reschedule raises the flag before it writes the config.         *)
WebProgramsFlagFirst ==
    [trigger |-> [begin |-> "check", check |-> "mark", mark |-> "put", put |-> "idle"],
     cron    |-> [begin |-> "flag", flag |-> "setCron", setCron |-> "saveCron",
                  saveCron |-> "idle"],
     enabled |-> [begin |-> "setEnabled", setEnabled |-> "applyEnabled",
                  applyEnabled |-> "parse", parse |-> "assign", assign |-> "next",
                  next |-> "saveEnabled", saveEnabled |-> "idle"],
     form    |-> [begin |-> "saveBoth", saveBoth |-> "flag", flag |-> "setCron",
                  setCron |-> "setEnabled", setEnabled |-> "applyEnabled",
                  applyEnabled |-> "parse", parse |-> "assign", assign |-> "next",
                  next |-> "idle"]]

WebPrograms ==
    [trigger |-> [begin |-> "check", check |-> "mark", mark |-> "put", put |-> "idle"],
     cron    |-> [begin |-> "setCron", setCron |-> "flag", flag |-> "saveCron",
                  saveCron |-> "idle"],
     enabled |-> [begin |-> "setEnabled", setEnabled |-> "applyEnabled",
                  applyEnabled |-> "parse", parse |-> "assign", assign |-> "next",
                  next |-> "saveEnabled", saveEnabled |-> "idle"],
     form    |-> [begin |-> "saveBoth", saveBoth |-> "setCron", setCron |-> "flag",
                  flag |-> "setEnabled", setEnabled |-> "applyEnabled",
                  applyEnabled |-> "parse", parse |-> "assign", assign |-> "next",
                  next |-> "idle"]]

WebAdvance == web' = [web EXCEPT !.pc = WebPrograms[web.op][web.pc]]

WebBegin(op, t, new) ==
    /\ web.pc = "idle"
    /\ webOps < MaxWebOps
    /\ op = "form" => new.cron \in ValidCrons     \* the form tries croniter first
    /\ web' = [pc |-> WebPrograms[op].begin, op |-> op, task |-> t, new |-> new,
               expr |-> NoCron]
    /\ webOps' = webOps + 1
    /\ UNCHANGED <<fields, cfg, cosmos, jobQueue, main, worker, lingering, overtaken>>

WebCheck ==
    /\ web.pc = "check"
    /\ Len(jobQueue) < MaxQueue
    /\ web' = [web EXCEPT !.pc = IF enabled[web.task] /\ ~running[web.task]
                                 THEN "mark" ELSE "idle"]
    /\ UNCHANGED <<fields, cfg, cosmos, jobQueue, main, worker, lingering, webOps, overtaken>>

WebMark ==
    /\ web.pc = "mark"
    /\ running' = [running EXCEPT ![web.task] = TRUE]
    /\ WebAdvance
    /\ UNCHANGED <<enabled, cron, cronObj, nextRun, changed, cfg, cosmos, jobQueue,
                   main, worker, lingering, webOps, overtaken>>

WebPut ==
    /\ web.pc = "put"
    /\ jobQueue' = Append(jobQueue, web.task)
    /\ WebAdvance
    /\ UNCHANGED <<fields, cfg, cosmos, main, worker, lingering, webOps, overtaken>>

(* reschedule: the config first, then the flag.                            *)
WebSetCron ==
    /\ web.pc = "setCron"
    /\ cfg' = [cfg EXCEPT ![web.task].cron = web.new.cron]
    /\ WebAdvance
    /\ UNCHANGED <<fields, cosmos, jobQueue, main, worker, lingering, webOps, overtaken>>

WebFlag ==
    /\ web.pc = "flag"
    /\ changed' = [changed EXCEPT ![web.task] = TRUE]
    /\ WebAdvance
    /\ UNCHANGED <<enabled, cron, cronObj, nextRun, running, cfg, cosmos, jobQueue,
                   main, worker, lingering, webOps, overtaken>>

(* update_task_enabled: the config, then the task; when it is switched on  *)
(* its expression is read and parsed, the schedule assigned, and a fresh   *)
(* next run taken from it.  One that does not parse leaves both.           *)
WebSetEnabled ==
    /\ web.pc = "setEnabled"
    /\ cfg' = [cfg EXCEPT ![web.task].enabled = web.new.enabled]
    /\ WebAdvance
    /\ UNCHANGED <<fields, cosmos, jobQueue, main, worker, lingering, webOps, overtaken>>

WebSkipParse == web' = [web EXCEPT !.pc = WebPrograms[web.op].next]

WebApplyEnabled ==
    /\ web.pc = "applyEnabled"
    /\ enabled' = [enabled EXCEPT ![web.task] = web.new.enabled]
    /\ IF web.new.enabled THEN WebAdvance ELSE WebSkipParse
    /\ UNCHANGED <<cron, cronObj, nextRun, running, changed, cfg, cosmos, jobQueue, main,
                   worker, lingering, webOps, overtaken>>

WebParse ==
    /\ web.pc = "parse"
    /\ \/ /\ cron[web.task] \in ValidCrons
          /\ web' = [web EXCEPT !.pc = "assign", !.expr = cron[web.task]]
       \/ cron[web.task] \notin ValidCrons /\ WebSkipParse
    /\ UNCHANGED <<fields, cfg, cosmos, jobQueue, main, worker, lingering, webOps, overtaken>>

(* Mutant: the parse is kept in a local and never reaches the task.        *)
WebAssignLocal ==
    /\ web.pc = "assign"
    /\ web' = [web EXCEPT !.pc = "next", !.expr = NoCron]
    /\ UNCHANGED <<fields, cfg, cosmos, jobQueue, main, worker, lingering, webOps, overtaken>>

WebAssign ==
    /\ web.pc = "assign"
    /\ cronObj' = [cronObj EXCEPT ![web.task] = web.expr]
    /\ web' = [web EXCEPT !.pc = "next", !.expr = NoCron]
    /\ UNCHANGED <<enabled, cron, nextRun, running, changed, cfg, cosmos, jobQueue, main,
                   worker, lingering, webOps, overtaken>>

WebNextRun ==
    /\ web.pc = "next"
    /\ nextRun' = [nextRun EXCEPT ![web.task] = 0]
    /\ WebAdvance
    /\ UNCHANGED <<enabled, cron, cronObj, running, changed, cfg, cosmos, jobQueue, main,
                   worker, lingering, webOps, overtaken>>

(* save_settings deep-merges the given fields into the stored document.    *)
WebSave ==
    /\ web.pc \in {"saveCron", "saveEnabled", "saveBoth"}
    /\ cosmos' = [cosmos EXCEPT ![web.task] =
                    [cron    |-> IF web.pc = "saveEnabled" THEN @.cron ELSE web.new.cron,
                     enabled |-> IF web.pc = "saveCron" THEN @.enabled ELSE web.new.enabled]]
    /\ WebAdvance
    /\ UNCHANGED <<fields, cfg, jobQueue, main, worker, lingering, webOps, overtaken>>

(* The settings page of a process started with --web-only: no scheduler    *)
(* there to notify, so the new settings reach this one only by the reload. *)
ExternalSave(t, new) ==
    /\ "external" \in WebOps
    /\ webOps < MaxWebOps
    /\ new.cron \in ValidCrons
    /\ cosmos' = [cosmos EXCEPT ![t] = new]
    /\ webOps' = webOps + 1
    /\ UNCHANGED <<fields, cfg, jobQueue, main, worker, lingering, web, overtaken>>

WebContinue ==
    \/ WebCheck \/ WebMark \/ WebPut \/ WebSetCron \/ WebFlag
    \/ WebSetEnabled \/ WebApplyEnabled \/ WebParse \/ WebAssign \/ WebNextRun \/ WebSave

WebRequest ==
    \E op \in WebOps \ {"external"}, t \in Tasks, new \in Setting : WebBegin(op, t, new)

-----------------------------------------------------------------------------
Next ==
    \/ MainStep \/ MainStop \/ WorkerStep \/ WebContinue \/ WebRequest
    \/ \E t \in Tasks : Tick(t) \/ LingererEnds(t)
    \/ \E t \in Tasks, new \in Setting : ExternalSave(t, new)

Spec == Init /\ [][Next]_vars

(* The threads are scheduled fairly.  A reload comes up again and again    *)
(* (every 60 seconds), and an abandoned or joined job is not assumed to    *)
(* end: the join has a timeout.                                            *)
FairSpec ==
    /\ Spec
    /\ WF_vars(MainStep)
    /\ SF_vars(MainReadSettings)
    /\ WF_vars(WorkerStep)
    /\ WF_vars(WebContinue)

-----------------------------------------------------------------------------
MainPcs == {"startup", "top", "reload", "reloadConfig", "reloadTask", "reflag", "changes",
            "rebase", "parse", "next", "reenable", "due", "mark", "put", "stopped"}
WebPcs == {"idle", "check", "mark", "put", "setCron", "flag", "saveCron", "setEnabled",
           "applyEnabled", "parse", "assign", "next", "saveEnabled", "saveBoth"}

(* Every field has the type the dataclass and the configuration give it.   *)
TypeOK ==
    /\ enabled \in [Tasks -> BOOLEAN] /\ running \in [Tasks -> BOOLEAN]
    /\ changed \in [Tasks -> BOOLEAN]
    /\ cron \in [Tasks -> Crons] /\ cronObj \in [Tasks -> Crons \cup {NoCron}]
    /\ nextRun \in [Tasks -> NoRun..MaxBehind]
    /\ cfg \in [Tasks -> Setting] /\ cosmos \in [Tasks -> Setting]
    /\ jobQueue \in Seq(Tasks)
    /\ main \in [pc : MainPcs, todo : Seq(Tasks), snap : [Tasks -> Setting],
                 cronChanged : BOOLEAN]
    /\ worker \in [pc : {"get", "join", "clear", "exited"}, task : Tasks]
    /\ lingering \in [Tasks -> 0..MaxLingering]
    /\ web \in [pc : WebPcs, op : {"none", "trigger", "cron", "enabled", "form"},
                task : Tasks, new : Setting, expr : Crons \cup {NoCron}]
    /\ webOps \in 0..MaxWebOps
    /\ overtaken \in [Tasks -> BOOLEAN]

(* No cron change is lost between the threads: once no flag is up and no   *)
(* thread is between writing the config and raising the flag, or between   *)
(* lowering the flag and reading the config, a task follows the cron       *)
(* expression of the configuration (reschedule, handle_cron_changes).      *)
ChangeUnderway(t) ==
    \/ changed[t]
    \/ main.pc \in {"reloadConfig", "reloadTask"} /\ main.cronChanged /\ t = Head(main.todo)
    \/ main.pc \in {"reflag", "rebase"} /\ t = Head(main.todo)
    \/ web.pc = "flag" /\ web.task = t
CronAdopted == \A t \in Tasks : cron[t] # cfg[t].cron => ChangeUnderway(t)

(* A task with a next run has a parsed schedule to advance it with, so     *)
(* _advance_next_run never meets cron_obj = None.  The schedule it         *)
(* advances is that of its expression, with three exceptions: the          *)
(* expression does not parse; handle_cron_changes has yet to parse it; or  *)
(* it was adopted while update_task_enabled held a parse of the one before *)
(* (387-397), which that request then assigned, or is about to.            *)
Overtaken(t) == overtaken[t] \/ (main.pc = "parse" /\ t = Head(main.todo))
ScheduleParsed ==
    \A t \in Tasks :
        /\ nextRun[t] # NoRun => cronObj[t] \in ValidCrons
        /\ cronObj[t] \in ValidCrons /\ cron[t] \in ValidCrons /\ ~Overtaken(t)
              => cronObj[t] = cron[t]

(* The overlap guard (execute_due_tasks, trigger_task_now): the main loop  *)
(* alone has at most one execution of a task queued, being queued or       *)
(* joined, and each Run Now can add at most one more to it, since both     *)
(* test the running flag before they set it.  Abandoned jobs are aside.    *)
Queued(t) == Cardinality({i \in DOMAIN jobQueue : jobQueue[i] = t})
Copies(t) ==
    Queued(t)
    + (IF main.pc \in {"mark", "put"} /\ t = Head(main.todo) THEN 1 ELSE 0)
    + (IF web.pc \in {"mark", "put"} /\ web.task = t THEN 1 ELSE 0)
    + (IF worker.pc = "join" /\ worker.task = t THEN 1 ELSE 0)
NoDoubleDispatch == \A t \in Tasks : Copies(t) <= 1 + webOps

(* The running flag is a lock nobody holds for ever: it is cleared by the  *)
(* worker whatever the job does, unless the scheduler is stopped.          *)
RunningClears == \A t \in Tasks : running[t] ~> (~running[t] \/ main.pc = "stopped")

(* When the settings stop changing, expression and switch of every task    *)
(* come to agree with the stored settings, whatever the order in which the *)
(* loop and the web handlers read and wrote them.  (Whether the schedule   *)
(* parsed from the expression follows it is what ScheduleParsed says.)     *)
Agrees(t) ==
    /\ cfg[t] = cosmos[t]
    /\ cron[t] = cosmos[t].cron
    /\ cron[t] \in ValidCrons => enabled[t] = cosmos[t].enabled
SettingsConverge == <>[](main.pc = "stopped" \/ \A t \in Tasks : Agrees(t))

(* The scheduler settles: no flag stays, and it comes to run what is       *)
(* stored.                                                                 *)
Settles == RunningClears /\ SettingsConverge
=============================================================================
