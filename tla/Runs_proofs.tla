---------------------------- MODULE Runs_proofs ----------------------------
(***************************************************************************)
(* Proofs about everything that runs an agent: the scheduled tasks of      *)
(* TaskRegistry and the runs and validations of ContractValidation.        *)
(* For every set of tasks and cron expressions and every bound, the        *)
(* registry's fields keep their types, no cron change is lost between the  *)
(* main loop and the web handlers, every next run has a parsed schedule,   *)
(* and the dispatches of a task overlap no more than the requests explain. *)
(* For any runners, slots, validations and thresholds, two threads of the  *)
(* dashboard are never both fresh under one key, a validation is never     *)
(* unknown to who polls it and is approved only with all three agents      *)
(* behind it, and reviews come neither too early nor too late.             *)
(***************************************************************************)
EXTENDS TaskRegistry, ContractValidation, FiniteSetTheorems, SequenceTheorems,
        WellFoundedInduction, TLAPS

-----------------------------------------------------------------------------
(* The registry of scheduled tasks.                                        *)

(* A request is always at a step of its own program, so that every step    *)
(* has one that follows it.                                                *)
WebOnProgram ==
    \/ web.pc = "idle"
    \/ web.op = "trigger" /\ web.pc \in {"check", "mark", "put"}
    \/ web.op = "cron" /\ web.pc \in {"setCron", "flag", "saveCron"}
    \/ web.op = "enabled" /\ web.pc \in {"setEnabled", "applyEnabled", "parse", "assign",
                                         "next", "saveEnabled"}
    \/ web.op = "form" /\ web.pc \in {"saveBoth", "setCron", "flag", "setEnabled",
                                      "applyEnabled", "parse", "assign", "next"}

(* The visiting steps of the main loop have a task to visit.               *)
MainOnTask ==
    main.pc \in {"reloadConfig", "reloadTask", "reflag", "rebase", "parse", "next",
                "reenable", "mark", "put"} => main.todo # <<>>

IInv == TypeOK /\ WebOnProgram /\ MainOnTask /\ CronAdopted

(* A sequence of tasks that is not empty has its head and tail in type.    *)
LEMMA HeadTailType ==
    ASSUME NEW S, NEW s \in Seq(S), s # <<>>
    PROVE  Head(s) \in S /\ Tail(s) \in Seq(S)
  OBVIOUS

(* The registration order is a sequence of tasks.                          *)
LEMMA OrderType == TaskOrder \in Seq(Tasks)
<1>1. TaskOrder \in [1..NumTasks -> Tasks] /\ NumTasks \in Nat
  BY RegistryAssumption DEF TaskOrder, Tasks
<1> QED BY <1>1, SeqDef

LEMMA InitIInv == Init => IInv
<1> SUFFICES ASSUME Init PROVE IInv
  OBVIOUS
<1> USE RegistryAssumption
<1>1. cosmos \in [Tasks -> Setting]
  BY DEF Init, Setting
<1>2. TypeOK
  BY <1>1, SMTT(30) DEF Init, TypeOK, Setting, NoRun, MainPcs, WebPcs
<1>3. WebOnProgram /\ MainOnTask /\ CronAdopted
  BY DEF Init, WebOnProgram, MainOnTask, CronAdopted
<1> QED BY <1>2, <1>3 DEF IInv

(* Each step preserves the invariant; the steps are grouped by thread.     *)
LEMMA MainControlPreserves ==
    IInv /\ (MainStartup \/ MainReadSettings \/ MainNoReload \/ MainStop \/ MainNextPhase)
        => IInv'
<1> SUFFICES ASSUME IInv,
                    \/ MainStartup \/ MainReadSettings \/ MainNoReload
                    \/ MainStop \/ MainNextPhase
             PROVE  IInv'
  OBVIOUS
<1> USE RegistryAssumption, OrderType DEF IInv
<1>1. /\ main' \in [pc : MainPcs, todo : Seq(Tasks), snap : [Tasks -> Setting],
                 cronChanged : BOOLEAN]
      /\ MainOnTask'
  <2>1. CASE MainStartup
    <3>1. CASE main' = [main EXCEPT !.pc = "top"]
      BY <3>1 DEF TypeOK, MainPcs, MainOnTask
    <3>2. CASE main' # [main EXCEPT !.pc = "top"]
      <4>1. PICK t \in StartupTasks : main' = [main EXCEPT !.pc = "mark", !.todo = <<t>>]
        BY <2>1, <3>2 DEF MainStartup
      <4>2. t \in Tasks /\ <<t>> \in Seq(Tasks) /\ <<t>> # <<>>
        OBVIOUS
      <4>3. /\ main'.pc = "mark" /\ main'.todo = <<t>>
            /\ main' \in [pc : MainPcs, todo : Seq(Tasks), snap : [Tasks -> Setting],
                 cronChanged : BOOLEAN]
        BY <4>1, <4>2 DEF TypeOK, MainPcs
      <4> QED BY <4>2, <4>3 DEF MainOnTask
    <3> QED BY <3>1, <3>2
  <2>2. CASE MainReadSettings
    BY <2>2 DEF TypeOK, MainPcs, MainOnTask, MainReadSettings
  <2>3. CASE MainNoReload
    BY <2>3 DEF TypeOK, MainPcs, MainOnTask, MainNoReload
  <2>4. CASE MainStop
    BY <2>4 DEF TypeOK, MainPcs, MainOnTask, MainStop
  <2>5. CASE MainNextPhase
    <3>1. PICK r : r = main'
      OBVIOUS
    <3>2. \/ r = [main EXCEPT !.pc = "changes", !.todo = TaskOrder]
          \/ r = [main EXCEPT !.pc = "due", !.todo = TaskOrder]
          \/ r = [main EXCEPT !.pc = "top"]
      BY <2>5, <3>1 DEF MainNextPhase
    <3>3. r \in [pc : MainPcs, todo : Seq(Tasks), snap : [Tasks -> Setting],
                 cronChanged : BOOLEAN] /\ r.pc \in {"changes", "due", "top"}
      <4>1. main \in [pc : MainPcs, todo : Seq(Tasks), snap : [Tasks -> Setting],
                      cronChanged : BOOLEAN]
        BY DEF TypeOK
      <4>2. {"changes", "due", "top"} \subseteq MainPcs
        BY DEF MainPcs
      <4>3. CASE r = [main EXCEPT !.pc = "changes", !.todo = TaskOrder]
        BY <4>1, <4>2, <4>3
      <4>4. CASE r = [main EXCEPT !.pc = "due", !.todo = TaskOrder]
        BY <4>1, <4>2, <4>4
      <4>5. CASE r = [main EXCEPT !.pc = "top"]
        BY <4>1, <4>2, <4>5
      <4> QED BY <3>2, <4>3, <4>4, <4>5
    <3> QED BY <3>1, <3>3 DEF MainOnTask
  <2> QED BY <2>1, <2>2, <2>3, <2>4, <2>5
<1>2. UNCHANGED <<fields, cfg, cosmos, jobQueue, worker, lingering, web, webOps, overtaken>>
  BY DEF MainStartup, MainReadSettings, MainNoReload, MainStop, MainNextPhase
<1>3. ~(main.pc \in {"reloadConfig", "reloadTask", "reflag", "rebase"})
  BY DEF MainStartup, MainReadSettings, MainNoReload, MainStop, MainNextPhase
<1>4. TypeOK' /\ WebOnProgram'
  BY <1>1, <1>2 DEF TypeOK, fields, WebOnProgram
<1>5. CronAdopted'
  BY <1>2, <1>3 DEF CronAdopted, ChangeUnderway, fields
<1> QED BY <1>1, <1>4, <1>5

(* The steps of the main loop that visit a task t.                         *)
LEMMA MainTaskPreserves ==
    ASSUME IInv, NEW t \in Tasks, MainTaskStep(t)
    PROVE  IInv'
<1> USE RegistryAssumption DEF IInv
<1>1. main.todo # <<>> /\ t = Head(main.todo) /\ Tail(main.todo) \in Seq(Tasks)
  <2>1. main.todo # <<>> /\ t = Head(main.todo) /\ main.todo \in Seq(Tasks)
    BY DEF MainTaskStep, MainReload, MainReloadConfig, MainReloadTask, MainReflag,
           MainClearFlag, MainRebase, MainParse, MainNextRun, MainReenable, MainDue,
           MainMark, MainPut, MainAt, TypeOK
  <2> QED BY <2>1, HeadTailType
<1>2. /\ main' \in [pc : MainPcs, todo : Seq(Tasks), snap : [Tasks -> Setting],
                    cronChanged : BOOLEAN]
      /\ MainOnTask'
      /\ UNCHANGED <<cosmos, worker, lingering, web, webOps>>
  <2>1. \/ \E pc \in {"reload", "changes", "due"} :
             main' = [main EXCEPT !.pc = pc, !.todo = Tail(@)]
        \/ main' = [main EXCEPT !.pc = "reload", !.todo = Tail(@), !.cronChanged = FALSE]
        \/ main' = [main EXCEPT !.pc = "reloadConfig",
                                !.cronChanged = main.snap[t].cron # cfg[t].cron]
        \/ \E pc \in {"reloadTask", "reflag", "rebase", "parse", "next", "reenable", "mark",
                      "put"} : main' = [main EXCEPT !.pc = pc]
    BY DEF MainTaskStep, MainReload, MainReloadConfig, MainReloadTask, MainReflag,
           MainClearFlag, MainRebase, MainParse, MainNextRun, MainReenable, MainDue,
           MainMark, MainPut, MainVisited, MainGoto
  <2>2. UNCHANGED <<cosmos, worker, lingering, web, webOps>>
    BY DEF MainTaskStep, MainReload, MainReloadConfig, MainReloadTask, MainReflag,
           MainClearFlag, MainRebase, MainParse, MainNextRun, MainReenable, MainDue,
           MainMark, MainPut, fields
  <2>3. main \in [pc : MainPcs, todo : Seq(Tasks), snap : [Tasks -> Setting],
                  cronChanged : BOOLEAN]
    BY DEF TypeOK
  <2>4. CASE \E pc \in {"reload", "changes", "due"} :
               main' = [main EXCEPT !.pc = pc, !.todo = Tail(@)]
    BY <1>1, <2>2, <2>3, <2>4 DEF MainPcs, MainOnTask
  <2>5. CASE main' = [main EXCEPT !.pc = "reload", !.todo = Tail(@), !.cronChanged = FALSE]
    BY <1>1, <2>2, <2>3, <2>5 DEF MainPcs, MainOnTask
  <2>6. CASE main' = [main EXCEPT !.pc = "reloadConfig",
                                  !.cronChanged = main.snap[t].cron # cfg[t].cron]
    <3>1. PICK c \in BOOLEAN : main' = [main EXCEPT !.pc = "reloadConfig", !.cronChanged = c]
      BY <2>6, Zenon
    <3> QED BY <1>1, <2>2, <2>3, <3>1 DEF MainPcs, MainOnTask
  <2>7. CASE \E pc \in {"reloadTask", "reflag", "rebase", "parse", "next", "reenable", "mark",
                        "put"} : main' = [main EXCEPT !.pc = pc]
    BY <1>1, <2>2, <2>3, <2>7 DEF MainPcs, MainOnTask
  <2> QED BY <2>1, <2>4, <2>5, <2>6, <2>7
<1>3. CASE MainReload(t)
  <2>1. cfg' \in [Tasks -> Setting]
    <3>1. PICK s \in Crons : s = main.snap[t].cron
      BY DEF TypeOK, Setting
    <3>2. cfg \in [Tasks -> Setting] /\ cfg[t] \in Setting
      BY DEF TypeOK
    <3>3. PICK r \in Setting : r = [cfg[t] EXCEPT !.cron = s]
      BY <3>1, <3>2 DEF Setting
    <3>4. cfg' = [cfg EXCEPT ![t] = r]
      BY <1>3, <3>1, <3>3, Zenon DEF MainReload
    <3> QED BY <3>2, <3>4
  <2>2. TypeOK'
    BY <1>2, <1>3, <2>1 DEF MainReload, TypeOK, fields
  <2>3. ASSUME NEW u \in Tasks, cron'[u] # cfg'[u].cron
        PROVE  ChangeUnderway(u)'
    <3>1. CASE u # t
      <4>1. /\ main.pc = "reload" /\ cfg'[u] = cfg[u]
            /\ cron' = cron /\ changed' = changed /\ web' = web
        BY <1>3, <3>1 DEF MainReload, MainAt, fields, TypeOK
      <4> QED BY <2>3, <4>1 DEF CronAdopted, ChangeUnderway
    <3>2. CASE u = t /\ main.snap[t].cron # cfg[t].cron
      <4>1. main'.pc = "reloadConfig" /\ main'.cronChanged /\ Head(main'.todo) = t
        BY <1>1, <1>3, <3>2 DEF MainReload, TypeOK
      <4> QED BY <3>2, <4>1 DEF ChangeUnderway
    <3>3. CASE u = t /\ main.snap[t].cron = cfg[t].cron
      <4>1. cfg'[t].cron = cfg[t].cron /\ cron' = cron /\ changed' = changed
            /\ main.pc = "reload"
        BY <1>3, <3>3 DEF MainReload, MainAt, fields, TypeOK, Setting
      <4> QED BY <1>2, <2>3, <3>3, <4>1 DEF CronAdopted, ChangeUnderway
    <3> QED BY <3>1, <3>2, <3>3
  <2> QED BY <1>2, <2>2, <2>3 DEF CronAdopted, WebOnProgram
<1>31. CASE MainReloadConfig(t)
  <2>1. cfg' \in [Tasks -> Setting] /\ \A u \in Tasks : cfg'[u].cron = cfg[u].cron
    BY <1>31 DEF MainReloadConfig, TypeOK, Setting
  <2>2. TypeOK'
    BY <1>2, <1>31, <2>1 DEF MainReloadConfig, TypeOK, fields
  <2>3. main.pc = "reloadConfig" /\ main'.pc = "reloadTask" /\ main'.todo = main.todo
        /\ main'.cronChanged = main.cronChanged
    BY <1>31 DEF MainReloadConfig, MainAt, MainGoto, TypeOK
  <2>4. CronAdopted'
    BY <1>2, <1>31, <2>1, <2>3 DEF MainReloadConfig, fields, CronAdopted, ChangeUnderway
  <2> QED BY <1>2, <2>2, <2>4 DEF WebOnProgram
<1>32. CASE MainReloadTask(t)
  <2>1. TypeOK'
    BY <1>2, <1>32 DEF MainReloadTask, TypeOK, Setting
  <2>2. main.pc = "reloadTask"
        /\ (main.cronChanged => main'.pc = "reflag" /\ main'.todo = main.todo)
    BY <1>32 DEF MainReloadTask, MainAt, MainGoto, TypeOK
  <2>3. CronAdopted'
    BY <1>2, <1>32, <2>2 DEF MainReloadTask, CronAdopted, ChangeUnderway
  <2> QED BY <1>2, <2>1, <2>3 DEF WebOnProgram
<1>4. CASE MainReflag(t)
  <2>1. TypeOK'
    BY <1>2, <1>4 DEF MainReflag, TypeOK
  <2>2. CronAdopted'
    <3>1. /\ main.pc = "reflag" /\ changed' = [changed EXCEPT ![t] = TRUE]
          /\ UNCHANGED <<cron, cfg, web>>
      BY <1>4 DEF MainReflag, MainAt
    <3>2. \A u \in Tasks : ChangeUnderway(u) => ChangeUnderway(u)'
      BY <1>1, <3>1 DEF ChangeUnderway, TypeOK
    <3> QED BY <3>1, <3>2 DEF CronAdopted
  <2> QED BY <1>2, <2>1, <2>2 DEF WebOnProgram
<1>5. CASE MainClearFlag(t)
  <2>1. TypeOK'
    BY <1>2, <1>5 DEF MainClearFlag, TypeOK
  <2>2. ASSUME NEW u \in Tasks, cron'[u] # cfg'[u].cron
        PROVE  ChangeUnderway(u)'
    <3>1. CASE u = t /\ changed[t]
      BY <1>1, <1>5, <3>1 DEF MainClearFlag, MainGoto, TypeOK, ChangeUnderway
    <3>2. CASE ~(u = t /\ changed[t])
      BY <1>5, <2>2, <3>2 DEF MainClearFlag, MainAt, TypeOK, CronAdopted, ChangeUnderway
    <3> QED BY <3>1, <3>2
  <2> QED BY <1>2, <2>1, <2>2 DEF CronAdopted, WebOnProgram
<1>6. CASE MainRebase(t)
  <2>1. cfg[t].cron \in Crons
    BY DEF TypeOK, Setting
  <2>2. TypeOK'
    <3>1. cron' \in [Tasks -> Crons] /\ overtaken' \in [Tasks -> BOOLEAN]
      BY <1>6, <2>1 DEF MainRebase, TypeOK
    <3> QED BY <1>2, <1>6, <3>1 DEF MainRebase, TypeOK
  <2>3. ASSUME NEW u \in Tasks, cron'[u] # cfg'[u].cron
        PROVE  ChangeUnderway(u)'
    BY <1>1, <1>6, <2>3 DEF MainRebase, MainAt, TypeOK, CronAdopted, ChangeUnderway
  <2> QED BY <1>2, <2>2, <2>3 DEF CronAdopted, WebOnProgram
<1>61. CASE MainParse(t) \/ MainNextRun(t) \/ MainReenable(t)
  <2>1. /\ cfg[t].enabled \in BOOLEAN /\ cron[t] \in Crons /\ 0 \in NoRun..MaxBehind
        /\ main.pc \in {"parse", "next", "reenable"}
        /\ UNCHANGED <<cron, cfg, changed, web>>
    BY <1>61 DEF MainParse, MainNextRun, MainReenable, MainAt, TypeOK, Setting, NoRun
  <2>2. TypeOK'
    <3>1. /\ cronObj' \in [Tasks -> Crons \cup {NoCron}] /\ enabled' \in [Tasks -> BOOLEAN]
          /\ nextRun' \in [Tasks -> NoRun..MaxBehind]
      <4>1. CASE MainParse(t)
        BY <4>1, <2>1 DEF MainParse, TypeOK
      <4>2. CASE MainNextRun(t)
        BY <4>2, <2>1 DEF MainNextRun, TypeOK
      <4>3. CASE MainReenable(t)
        BY <4>3, <2>1 DEF MainReenable, TypeOK
      <4> QED BY <1>61, <4>1, <4>2, <4>3
    <3>2. UNCHANGED <<running, jobQueue, overtaken>>
      BY <1>61 DEF MainParse, MainNextRun, MainReenable
    <3> QED BY <1>2, <2>1, <3>1, <3>2 DEF TypeOK
  <2>3. CronAdopted'
    BY <2>1 DEF CronAdopted, ChangeUnderway
  <2> QED BY <1>2, <2>1, <2>2, <2>3 DEF WebOnProgram
<1>7. CASE MainDue(t)
  <2>1. AdvanceNextRun(nextRun[t]) \in NoRun..MaxBehind
    <3>1. nextRun[t] \in NoRun..MaxBehind
      BY DEF TypeOK
    <3> QED BY <3>1 DEF AdvanceNextRun, NoRun
  <2>2. TypeOK'
    <3>1. nextRun' \in [Tasks -> NoRun..MaxBehind]
      BY <1>7, <2>1 DEF MainDue, TypeOK
    <3> QED BY <1>2, <1>7, <3>1 DEF MainDue, TypeOK
  <2>3. CronAdopted'
    BY <1>1, <1>7 DEF MainDue, MainAt, TypeOK, CronAdopted, ChangeUnderway
  <2> QED BY <1>2, <2>2, <2>3 DEF WebOnProgram
<1>8. CASE MainMark(t)
  <2>1. TypeOK'
    BY <1>2, <1>8 DEF MainMark, TypeOK
  <2>2. CronAdopted'
    BY <1>8 DEF MainMark, MainAt, TypeOK, CronAdopted, ChangeUnderway
  <2> QED BY <1>2, <2>1, <2>2 DEF WebOnProgram
<1>9. CASE MainPut(t)
  <2>1. TypeOK'
    <3>1. jobQueue' \in Seq(Tasks)
      <4>1. jobQueue \in Seq(Tasks) /\ jobQueue' = Append(jobQueue, t)
        BY <1>9 DEF MainPut, TypeOK
      <4> QED BY <4>1
    <3>2. UNCHANGED <<enabled, cron, cronObj, nextRun, running, changed, cfg, cosmos, worker,
                      lingering, web, webOps, overtaken>>
      BY <1>9 DEF MainPut, fields
    <3> QED BY <1>2, <3>1, <3>2 DEF TypeOK
  <2>2. CronAdopted'
    BY <1>9 DEF MainPut, fields, MainAt, TypeOK, CronAdopted, ChangeUnderway
  <2> QED BY <1>2, <2>1, <2>2 DEF WebOnProgram
<1> QED BY <1>3, <1>31, <1>32, <1>4, <1>5, <1>6, <1>61, <1>7, <1>8, <1>9 DEF MainTaskStep

(* The clock, the worker thread and the job threads.                       *)
LEMMA WorkerPreserves ==
    ASSUME IInv,
           WorkerStep \/ \E t \in Tasks : Tick(t) \/ LingererEnds(t)
    PROVE  IInv'
<1> USE RegistryAssumption DEF IInv
<1>1. UNCHANGED <<enabled, cron, cronObj, changed, cfg, cosmos, main, web, webOps>>
  BY DEF WorkerStep, WorkerGet, WorkerJoined, WorkerTimeout, WorkerClear, WorkerExit,
         Tick, LingererEnds, fields
<1>2. WebOnProgram' /\ MainOnTask' /\ CronAdopted'
  BY <1>1 DEF WebOnProgram, MainOnTask, CronAdopted, ChangeUnderway
<1>3. TypeOK'
  <2>1. CASE WorkerGet
    <3>1. Head(jobQueue) \in Tasks /\ Tail(jobQueue) \in Seq(Tasks)
      BY <2>1, HeadTailType DEF WorkerGet, TypeOK
    <3> QED BY <1>1, <2>1, <3>1 DEF WorkerGet, TypeOK, fields
  <2>2. CASE WorkerJoined \/ WorkerExit
    BY <1>1, <2>2 DEF WorkerJoined, WorkerExit, TypeOK, fields
  <2>3. CASE WorkerTimeout
    <3>1. worker.task \in Tasks /\ lingering[worker.task] + 1 \in 0..MaxLingering
      BY <2>3 DEF WorkerTimeout, TypeOK
    <3> QED BY <1>1, <2>3, <3>1 DEF WorkerTimeout, TypeOK, fields
  <2>4. CASE WorkerClear
    BY <1>1, <2>4 DEF WorkerClear, TypeOK
  <2>5. CASE \E t \in Tasks : Tick(t)
    <3>1. PICK t \in Tasks : Tick(t)
      BY <2>5
    <3>2. nextRun[t] + 1 \in NoRun..MaxBehind
      BY <3>1 DEF Tick, NoRun
    <3> QED BY <1>1, <3>1, <3>2 DEF Tick, TypeOK
  <2>6. CASE \E t \in Tasks : LingererEnds(t)
    <3>1. PICK t \in Tasks : LingererEnds(t)
      BY <2>6
    <3>2. lingering[t] - 1 \in 0..MaxLingering
      BY <3>1 DEF LingererEnds, TypeOK
    <3> QED BY <1>1, <3>1, <3>2 DEF LingererEnds, TypeOK, fields
  <2> QED BY <2>1, <2>2, <2>3, <2>4, <2>5, <2>6 DEF WorkerStep
<1> QED BY <1>2, <1>3

(* A step of a request is followed by a step of the same program.          *)
LEMMA WebAdvanceType ==
    ASSUME TypeOK, WebOnProgram, web.pc # "idle", WebAdvance
    PROVE  /\ web' \in [pc : WebPcs, op : {"none", "trigger", "cron", "enabled", "form"},
                        task : Tasks, new : Setting, expr : Crons \cup {NoCron}]
           /\ WebOnProgram'
           /\ web'.task = web.task
           /\ web.pc = "setCron" => web'.pc = "flag"
<1>1. WebPrograms[web.op][web.pc] \in WebPcs
  BY DEF WebOnProgram, WebPrograms, WebPcs
<1>2. web' \in [pc : WebPcs, op : {"none", "trigger", "cron", "enabled", "form"},
                task : Tasks, new : Setting, expr : Crons \cup {NoCron}]
      /\ web'.task = web.task /\ web'.op = web.op
      /\ web'.pc = WebPrograms[web.op][web.pc]
  BY <1>1 DEF WebAdvance, TypeOK
<1>3. WebOnProgram' /\ (web.pc = "setCron" => web'.pc = "flag")
  BY <1>2 DEF WebOnProgram, WebPrograms
<1> QED BY <1>2, <1>3

(* A request that switches off, or cannot parse, goes on after the parse.  *)
LEMMA WebSkipType ==
    ASSUME TypeOK, WebOnProgram, web.pc \in {"applyEnabled", "parse"}, WebSkipParse
    PROVE  /\ web' \in [pc : WebPcs, op : {"none", "trigger", "cron", "enabled", "form"},
                        task : Tasks, new : Setting, expr : Crons \cup {NoCron}]
           /\ WebOnProgram'
           /\ web'.task = web.task /\ web'.pc \in {"saveEnabled", "idle"}
<1>1. WebPrograms[web.op].next \in WebPcs
  BY DEF WebOnProgram, WebPrograms, WebPcs
<1>2. web' \in [pc : WebPcs, op : {"none", "trigger", "cron", "enabled", "form"},
                task : Tasks, new : Setting, expr : Crons \cup {NoCron}]
      /\ web'.task = web.task /\ web'.op = web.op
      /\ web'.pc = WebPrograms[web.op].next
  BY <1>1 DEF WebSkipParse, TypeOK
<1>3. WebOnProgram' /\ web'.pc \in {"saveEnabled", "idle"}
  BY <1>2 DEF WebOnProgram, WebPrograms
<1> QED BY <1>2, <1>3

LEMMA WebPreserves ==
    ASSUME IInv, WebContinue
    PROVE  IInv'
<1> USE RegistryAssumption DEF IInv
<1>1. /\ UNCHANGED <<main, worker, lingering, webOps, overtaken>>
      /\ web.pc # "idle" /\ web.task \in Tasks
      /\ web.new \in Setting /\ web.new.cron \in Crons /\ web.new.enabled \in BOOLEAN
  BY DEF WebContinue, WebCheck, WebMark, WebPut, WebSetCron, WebFlag, WebSetEnabled,
         WebApplyEnabled, WebParse, WebAssign, WebNextRun, WebSave, TypeOK, Setting
<1>2. MainOnTask'
  BY <1>1 DEF MainOnTask
<1>3. CASE WebCheck
  <2>1. web' \in [pc : WebPcs, op : {"none", "trigger", "cron", "enabled", "form"},
                  task : Tasks, new : Setting, expr : Crons \cup {NoCron}]
    BY <1>3 DEF WebCheck, TypeOK, WebPcs
  <2>2. TypeOK'
    BY <1>1, <1>3, <2>1 DEF WebCheck, TypeOK, fields
  <2>3. WebOnProgram'
    BY <1>3 DEF WebCheck, WebOnProgram, TypeOK
  <2>4. CronAdopted'
    BY <1>1, <1>3 DEF WebCheck, CronAdopted, ChangeUnderway, fields
  <2> QED BY <1>2, <2>2, <2>3, <2>4
<1>31. CASE WebApplyEnabled \/ WebParse \/ WebAssign \/ WebNextRun
  <2>1. /\ web' \in [pc : WebPcs, op : {"none", "trigger", "cron", "enabled", "form"},
                     task : Tasks, new : Setting, expr : Crons \cup {NoCron}]
        /\ WebOnProgram'
    <3>1. CASE WebAdvance
      BY <1>1, <3>1, WebAdvanceType
    <3>2. CASE WebSkipParse /\ web.pc \in {"applyEnabled", "parse"}
      BY <3>2, WebSkipType
    <3>3. CASE WebParse /\ web' = [web EXCEPT !.pc = "assign", !.expr = cron[web.task]]
      <4>1. web.pc = "parse" /\ cron[web.task] \in Crons
        BY <1>1, <3>3 DEF WebParse, TypeOK
      <4> QED BY <3>3, <4>1 DEF TypeOK, WebOnProgram, WebPcs
    <3>4. CASE WebAssign
      <4>1. web.pc = "assign" /\ web' = [web EXCEPT !.pc = "next", !.expr = NoCron]
        BY <3>4 DEF WebAssign
      <4> QED BY <4>1 DEF TypeOK, WebOnProgram, WebPcs
    <3> QED BY <1>31, <3>1, <3>2, <3>3, <3>4 DEF WebApplyEnabled, WebParse, WebNextRun
  <2>2. web.pc \in {"applyEnabled", "parse", "assign", "next"}
        /\ UNCHANGED <<cron, cfg, changed, main, running, jobQueue, cosmos, overtaken>>
    BY <1>31 DEF WebApplyEnabled, WebParse, WebAssign, WebNextRun, fields
  <2>3. /\ enabled' \in [Tasks -> BOOLEAN] /\ nextRun' \in [Tasks -> NoRun..MaxBehind]
        /\ cronObj' \in [Tasks -> Crons \cup {NoCron}]
    <3>1. 0 \in NoRun..MaxBehind /\ web.expr \in Crons \cup {NoCron}
      BY DEF NoRun, TypeOK
    <3>2. enabled' \in [Tasks -> BOOLEAN]
      BY <1>1, <1>31 DEF WebApplyEnabled, WebParse, WebAssign, WebNextRun, TypeOK, fields
    <3>3. nextRun' \in [Tasks -> NoRun..MaxBehind]
      BY <1>31, <3>1 DEF WebApplyEnabled, WebParse, WebAssign, WebNextRun, TypeOK, fields
    <3>4. cronObj' \in [Tasks -> Crons \cup {NoCron}]
      BY <1>31, <3>1 DEF WebApplyEnabled, WebParse, WebAssign, WebNextRun, TypeOK, fields
    <3> QED BY <3>2, <3>3, <3>4
  <2>4. TypeOK'
    BY <1>1, <2>1, <2>2, <2>3 DEF TypeOK
  <2>5. CronAdopted'
    BY <2>2 DEF CronAdopted, ChangeUnderway
  <2> QED BY <1>2, <2>1, <2>4, <2>5
<1>4. CASE ~WebCheck /\ ~(WebApplyEnabled \/ WebParse \/ WebAssign \/ WebNextRun)
  <2>1. WebAdvance
    BY <1>4 DEF WebContinue, WebMark, WebPut, WebSetCron, WebFlag, WebSetEnabled, WebSave
  <2>2. /\ web' \in [pc : WebPcs, op : {"none", "trigger", "cron", "enabled", "form"},
                     task : Tasks, new : Setting, expr : Crons \cup {NoCron}]
        /\ WebOnProgram' /\ web'.task = web.task
        /\ web.pc = "setCron" => web'.pc = "flag"
    BY <1>1, <2>1, WebAdvanceType
  <2>3. CASE WebMark
    <3>1. TypeOK'
      BY <1>1, <2>2, <2>3 DEF WebMark, TypeOK
    <3>2. CronAdopted'
      BY <1>1, <2>3 DEF WebMark, CronAdopted, ChangeUnderway
    <3> QED BY <1>2, <2>2, <3>1, <3>2
  <2>4. CASE WebPut
    <3>1. TypeOK'
      BY <1>1, <2>2, <2>4 DEF WebPut, TypeOK, fields
    <3>2. CronAdopted'
      BY <1>1, <2>4 DEF WebPut, CronAdopted, ChangeUnderway, fields
    <3> QED BY <1>2, <2>2, <3>1, <3>2
  <2>5. CASE WebSetCron
    <3>1. TypeOK'
      BY <1>1, <2>2, <2>5 DEF WebSetCron, TypeOK, fields, Setting
    <3>2. ASSUME NEW u \in Tasks, cron'[u] # cfg'[u].cron
          PROVE  ChangeUnderway(u)'
      <4>1. CASE u = web.task
        BY <2>2, <2>5, <4>1 DEF WebSetCron, ChangeUnderway
      <4>2. CASE u # web.task
        BY <1>1, <2>5, <3>2, <4>2
           DEF WebSetCron, fields, CronAdopted, ChangeUnderway, TypeOK
      <4> QED BY <4>1, <4>2
    <3> QED BY <1>2, <2>2, <3>1, <3>2 DEF CronAdopted
  <2>6. CASE WebFlag
    <3>1. TypeOK'
      BY <1>1, <2>2, <2>6 DEF WebFlag, TypeOK
    <3>2. CronAdopted'
      BY <1>1, <2>6 DEF WebFlag, CronAdopted, ChangeUnderway, TypeOK
    <3> QED BY <1>2, <2>2, <3>1, <3>2
  <2>7. CASE WebSetEnabled
    <3>1. TypeOK'
      BY <1>1, <2>2, <2>7 DEF WebSetEnabled, TypeOK, fields, Setting
    <3>2. \A u \in Tasks : cfg'[u].cron = cfg[u].cron
      BY <1>1, <2>7 DEF WebSetEnabled, TypeOK, Setting
    <3>3. CronAdopted'
      BY <1>1, <2>7, <3>2 DEF WebSetEnabled, fields, CronAdopted, ChangeUnderway
    <3> QED BY <1>2, <2>2, <3>1, <3>3
  <2>9. CASE WebSave
    <3>1. TypeOK'
      BY <1>1, <2>2, <2>9 DEF WebSave, TypeOK, fields, Setting
    <3>2. CronAdopted'
      BY <1>1, <2>9 DEF WebSave, CronAdopted, ChangeUnderway, fields
    <3> QED BY <1>2, <2>2, <3>1, <3>2
  <2> QED BY <1>4, <2>3, <2>4, <2>5, <2>6, <2>7, <2>9 DEF WebContinue
<1> QED BY <1>3, <1>31, <1>4

(* A new request starts its program; another process writes the settings.  *)
LEMMA RequestPreserves ==
    ASSUME IInv,
           WebRequest \/ \E t \in Tasks, new \in Setting : ExternalSave(t, new)
    PROVE  IInv'
<1> USE RegistryAssumption DEF IInv
<1>1. CASE WebRequest
  <2>1. PICK op \in WebOps \ {"external"}, t \in Tasks, new \in Setting :
          WebBegin(op, t, new)
    BY <1>1 DEF WebRequest
  <2>2. /\ op \in {"trigger", "cron", "enabled", "form"}
        /\ web' = [pc |-> WebPrograms[op].begin, op |-> op, task |-> t, new |-> new,
                   expr |-> NoCron]
        /\ webOps' \in 0..MaxWebOps
        /\ web.pc = "idle"
        /\ UNCHANGED <<fields, cfg, cosmos, jobQueue, main, worker, lingering, overtaken>>
    BY <2>1 DEF WebBegin, TypeOK
  <2>3. WebOnProgram' /\ web'.pc \in WebPcs
    BY <2>2 DEF WebOnProgram, WebPrograms, WebPcs
  <2>4. TypeOK'
    BY <2>2, <2>3 DEF TypeOK, fields
  <2>5. CronAdopted' /\ MainOnTask'
    BY <2>2 DEF CronAdopted, ChangeUnderway, MainOnTask, fields
  <2> QED BY <2>3, <2>4, <2>5
<1>2. CASE \E t \in Tasks, new \in Setting : ExternalSave(t, new)
  <2>1. PICK t \in Tasks, new \in Setting : ExternalSave(t, new)
    BY <1>2
  <2>2. TypeOK'
    <3>1. cosmos' \in [Tasks -> Setting] /\ webOps' \in 0..MaxWebOps
      BY <2>1 DEF ExternalSave, TypeOK
    <3> QED BY <2>1, <3>1 DEF ExternalSave, TypeOK, fields
  <2>3. CronAdopted' /\ MainOnTask' /\ WebOnProgram'
    BY <2>1 DEF ExternalSave, CronAdopted, ChangeUnderway, MainOnTask, WebOnProgram, fields
  <2> QED BY <2>2, <2>3
<1> QED BY <1>1, <1>2

LEMMA NextPreserves == IInv /\ [Next]_vars => IInv'
<1> SUFFICES ASSUME IInv, [Next]_vars PROVE IInv'
  OBVIOUS
<1>1. CASE MainStep \/ MainStop
  BY <1>1, MainControlPreserves, MainTaskPreserves DEF MainStep
<1>2. CASE WorkerStep \/ \E t \in Tasks : Tick(t) \/ LingererEnds(t)
  BY <1>2, WorkerPreserves
<1>3. CASE WebContinue
  BY <1>3, WebPreserves
<1>4. CASE WebRequest \/ \E t \in Tasks, new \in Setting : ExternalSave(t, new)
  BY <1>4, RequestPreserves
<1>5. CASE UNCHANGED vars
  BY <1>5 DEF vars, fields, IInv, TypeOK, WebOnProgram, MainOnTask, CronAdopted,
              ChangeUnderway
<1> QED BY <1>1, <1>2, <1>3, <1>4, <1>5 DEF Next

(* The fields of every task, the queue and the programs of the threads     *)
(* keep their types, for any tasks, expressions and bounds.                *)
THEOREM TypeCorrect == Spec => []TypeOK
<1>1. IInv => TypeOK
  BY DEF IInv
<1> QED BY InitIInv, NextPreserves, <1>1, PTL DEF Spec

(* No interleaving of reload_from_cosmos, reschedule and                   *)
(* handle_cron_changes loses a cron change, for any tasks and expressions. *)
THEOREM NoCronChangeLost == Spec => []CronAdopted
<1>1. IInv => CronAdopted
  BY DEF IInv
<1> QED BY InitIInv, NextPreserves, <1>1, PTL DEF Spec

-----------------------------------------------------------------------------
(* ScheduleParsed with what the threads hold between parsing a schedule    *)
(* and taking a next run from it: the schedule a request is about to       *)
(* assign is that of the expression, unless it was overtaken.              *)
HeldParsed ==
    /\ web.pc = "assign" =>
         /\ web.expr \in ValidCrons
         /\ overtaken[web.task] \/ web.expr = cron[web.task]
    /\ web.pc = "next" => cronObj[web.task] \in ValidCrons
    /\ main.pc = "next" => cronObj[Head(main.todo)] \in ValidCrons

Parsed == ScheduleParsed /\ HeldParsed

LEMMA InitParsed == Init => Parsed
<1> SUFFICES ASSUME Init PROVE Parsed
  OBVIOUS
<1>1. HeldParsed
  BY DEF Init, HeldParsed
<1>2. ASSUME NEW t \in Tasks
      PROVE  /\ nextRun[t] # NoRun => cronObj[t] \in ValidCrons
             /\ cronObj[t] \in ValidCrons /\ cron[t] \in ValidCrons /\ ~Overtaken(t)
                   => cronObj[t] = cron[t]
  <2>1. cfg[t].cron \in ValidCrons
    BY DEF Init
  <2>2. /\ cronObj[t] = (IF cfg[t].enabled THEN cfg[t].cron ELSE NoCron)
        /\ nextRun[t] = (IF cfg[t].enabled THEN 0 ELSE NoRun)
        /\ cron[t] = cfg[t].cron
    BY DEF Init
  <2>3. NoCron \notin ValidCrons
    BY RegistryAssumption
  <2> QED BY <2>1, <2>2, <2>3 DEF NoRun
<1> QED BY <1>1, <1>2 DEF Parsed, ScheduleParsed

(* Steps that leave the schedules, the expressions and what is held alone. *)
LEMMA ScheduleQuiet ==
    ASSUME Parsed, UNCHANGED <<cron, cronObj, overtaken>>,
           \A t \in Tasks : nextRun'[t] = nextRun[t] \/ nextRun[t] # NoRun,
           web' = web \/ web'.pc \notin {"assign", "next"},
           \/ main' = main
           \/ main'.pc \notin {"parse", "next"} /\ main.pc # "parse"
    PROVE  Parsed'
<1>1. HeldParsed'
  BY DEF Parsed, HeldParsed
<1>2. \A t \in Tasks : Overtaken(t) => Overtaken(t)'
  BY DEF Overtaken
<1>3. ScheduleParsed'
  BY <1>2 DEF Parsed, ScheduleParsed
<1> QED BY <1>1, <1>3 DEF Parsed

LEMMA MainKeepsParsed ==
    ASSUME IInv, Parsed, MainStep \/ MainStop
    PROVE  Parsed'
<1> USE DEF IInv
<1>1. CASE \E t \in Tasks : MainRebase(t)
  <2>1. PICK t \in Tasks : MainRebase(t)
    BY <1>1
  <2>2. /\ t = Head(main.todo) /\ main.pc = "rebase" /\ main'.pc = "parse"
        /\ main'.todo = main.todo
        /\ cron' = [cron EXCEPT ![t] = cfg[t].cron]
        /\ overtaken' = [overtaken EXCEPT ![t] =
                           web.pc = "assign" /\ web.task = t /\ web.expr # cfg[t].cron]
        /\ UNCHANGED <<cronObj, nextRun, web>>
    BY <2>1 DEF MainRebase, MainAt, MainGoto, TypeOK
  <2>3. HeldParsed'
    BY <2>2 DEF Parsed, HeldParsed, TypeOK
  <2>4. ScheduleParsed'
    BY <2>2 DEF Parsed, ScheduleParsed, Overtaken, TypeOK
  <2> QED BY <2>3, <2>4 DEF Parsed
<1>2. CASE \E t \in Tasks : MainParse(t)
  <2>1. PICK t \in Tasks : MainParse(t)
    BY <1>2
  <2>2. /\ t = Head(main.todo) /\ main.pc = "parse" /\ main'.pc \in {"next", "changes"}
        /\ UNCHANGED <<cron, nextRun, web, overtaken>>
    BY <2>1 DEF MainParse, MainAt, MainGoto, MainVisited, TypeOK
  <2>3. CASE cron[t] \in ValidCrons
    <3>1. cronObj' = [cronObj EXCEPT ![t] = cron[t]] /\ main'.todo = main.todo
      BY <2>1, <2>3 DEF MainParse, MainGoto, TypeOK
    <3>2. HeldParsed'
      BY <2>2, <2>3, <3>1 DEF Parsed, HeldParsed, TypeOK
    <3>3. ScheduleParsed'
      BY <2>2, <2>3, <3>1 DEF Parsed, ScheduleParsed, Overtaken, TypeOK
    <3> QED BY <3>2, <3>3 DEF Parsed
  <2>4. CASE cron[t] \notin ValidCrons
    <3>1. cronObj' = cronObj /\ main'.pc = "changes"
      BY <2>1, <2>4 DEF MainParse, MainVisited, TypeOK
    <3>2. HeldParsed'
      BY <2>2, <2>4, <3>1 DEF Parsed, HeldParsed, TypeOK
    <3>3. ScheduleParsed'
      BY <2>2, <2>4, <3>1 DEF Parsed, ScheduleParsed, Overtaken, TypeOK
    <3> QED BY <3>2, <3>3 DEF Parsed
  <2> QED BY <2>3, <2>4
<1>3. CASE \E t \in Tasks : MainNextRun(t)
  <2>1. PICK t \in Tasks : MainNextRun(t)
    BY <1>3
  <2>2. /\ t = Head(main.todo) /\ main.pc = "next" /\ main'.pc = "reenable"
        /\ nextRun' = [nextRun EXCEPT ![t] = 0]
        /\ UNCHANGED <<cron, cronObj, web, overtaken>>
    BY <2>1 DEF MainNextRun, MainAt, MainGoto, TypeOK
  <2>3. HeldParsed'
    BY <2>2 DEF Parsed, HeldParsed
  <2>4. ScheduleParsed'
    BY <2>2 DEF Parsed, HeldParsed, ScheduleParsed, Overtaken, TypeOK
  <2> QED BY <2>3, <2>4 DEF Parsed
<1>4. CASE \E t \in Tasks : MainDue(t)
  <2>1. PICK t \in Tasks : MainDue(t)
    BY <1>4
  <2>2. main.pc = "due" /\ main'.pc \in {"due", "mark"}
        /\ UNCHANGED <<cron, cronObj, web, overtaken>>
    BY <2>1 DEF MainDue, MainAt, MainGoto, MainVisited, TypeOK
  <2>3. \A u \in Tasks : nextRun'[u] = nextRun[u] \/ nextRun[u] # NoRun
    BY <2>1 DEF MainDue, Due, TypeOK, NoRun
  <2> QED BY <2>2, <2>3, ScheduleQuiet
<1>5. CASE \E t \in Tasks : \/ MainReload(t) \/ MainReloadConfig(t) \/ MainReloadTask(t)
                            \/ MainReflag(t) \/ MainClearFlag(t) \/ MainReenable(t)
                            \/ MainMark(t) \/ MainPut(t)
  <2>1. PICK t \in Tasks : \/ MainReload(t) \/ MainReloadConfig(t) \/ MainReloadTask(t)
                           \/ MainReflag(t) \/ MainClearFlag(t) \/ MainReenable(t)
                           \/ MainMark(t) \/ MainPut(t)
    BY <1>5
  <2>2. UNCHANGED <<cron, cronObj, nextRun, web, overtaken>> /\ main.pc # "parse"
    BY <2>1 DEF MainReload, MainReloadConfig, MainReloadTask, MainReflag, MainClearFlag,
                MainReenable, MainMark, MainPut, MainAt, fields
  <2>3. \/ \E pc \in {"reload", "changes", "due"} :
             main' = [main EXCEPT !.pc = pc, !.todo = Tail(@)]
        \/ main' = [main EXCEPT !.pc = "reload", !.todo = Tail(@), !.cronChanged = FALSE]
        \/ main' = [main EXCEPT !.pc = "reloadConfig",
                                !.cronChanged = main.snap[t].cron # cfg[t].cron]
        \/ \E pc \in {"reloadTask", "reflag", "rebase", "put"} : main' = [main EXCEPT !.pc = pc]
    BY <2>1 DEF MainReload, MainReloadConfig, MainReloadTask, MainReflag, MainClearFlag,
                MainReenable, MainMark, MainPut, MainVisited, MainGoto
  <2>4. main'.pc \notin {"parse", "next"}
    BY <2>3 DEF TypeOK
  <2> QED BY <2>2, <2>4, ScheduleQuiet
<1>6. CASE MainStartup \/ MainReadSettings \/ MainNoReload \/ MainNextPhase \/ MainStop
  <2>1. UNCHANGED <<cron, cronObj, nextRun, web, overtaken>> /\ main.pc # "parse"
    BY <1>6 DEF MainStartup, MainReadSettings, MainNoReload, MainNextPhase, MainStop, fields
  <2>2. main'.pc \notin {"parse", "next"}
    <3>1. CASE MainStartup
      BY <3>1 DEF MainStartup, TypeOK
    <3>2. CASE MainReadSettings
      BY <3>2 DEF MainReadSettings, TypeOK
    <3>3. CASE MainNoReload
      BY <3>3 DEF MainNoReload, TypeOK
    <3>4. CASE MainNextPhase
      BY <3>4 DEF MainNextPhase, TypeOK
    <3>5. CASE MainStop
      BY <3>5 DEF MainStop, TypeOK
    <3> QED BY <1>6, <3>1, <3>2, <3>3, <3>4, <3>5
  <2> QED BY <2>1, <2>2, ScheduleQuiet
<1> QED BY <1>1, <1>2, <1>3, <1>4, <1>5, <1>6 DEF MainStep, MainTaskStep

LEMMA WebKeepsParsed ==
    ASSUME IInv, Parsed, WebContinue
    PROVE  Parsed'
<1> USE DEF IInv
<1>1. web.task \in Tasks /\ UNCHANGED main /\ UNCHANGED overtaken /\ UNCHANGED cron
  BY DEF WebContinue, WebCheck, WebMark, WebPut, WebSetCron, WebFlag, WebSetEnabled,
         WebApplyEnabled, WebParse, WebAssign, WebNextRun, WebSave, fields, TypeOK
<1>2. CASE WebParse
  <2>1. UNCHANGED <<cronObj, nextRun>>
    BY <1>2 DEF WebParse, fields
  <2>2. CASE WebSkipParse
    <3>1. web'.pc \in {"saveEnabled", "idle"}
      BY <1>2, <2>2, WebSkipType DEF WebParse
    <3> QED BY <1>1, <2>1, <3>1, ScheduleQuiet
  <2>3. CASE ~WebSkipParse
    <3>1. /\ cron[web.task] \in ValidCrons /\ web'.pc = "assign" /\ web'.task = web.task
          /\ web'.expr = cron[web.task]
      BY <1>2, <2>3 DEF WebParse, TypeOK
    <3>2. HeldParsed'
      BY <1>1, <2>1, <3>1 DEF Parsed, HeldParsed
    <3>3. ScheduleParsed'
      BY <1>1, <2>1 DEF Parsed, ScheduleParsed, Overtaken
    <3> QED BY <3>2, <3>3 DEF Parsed
  <2> QED BY <2>2, <2>3
<1>3. CASE WebAssign
  <2>1. /\ web.pc = "assign" /\ web'.pc = "next" /\ web'.task = web.task
        /\ cronObj' = [cronObj EXCEPT ![web.task] = web.expr] /\ UNCHANGED nextRun
    BY <1>3 DEF WebAssign, TypeOK
  <2>2. /\ web.expr \in ValidCrons
        /\ overtaken[web.task] \/ web.expr = cron[web.task]
    BY <2>1 DEF Parsed, HeldParsed
  <2>3. HeldParsed'
    BY <1>1, <2>1, <2>2 DEF Parsed, HeldParsed, TypeOK
  <2>4. ScheduleParsed'
    BY <1>1, <2>1, <2>2 DEF Parsed, ScheduleParsed, Overtaken, TypeOK
  <2> QED BY <2>3, <2>4 DEF Parsed
<1>4. CASE WebNextRun
  <2>1. /\ web.pc = "next" /\ WebAdvance /\ UNCHANGED cronObj
        /\ nextRun' = [nextRun EXCEPT ![web.task] = 0]
    BY <1>4 DEF WebNextRun
  <2>2. web'.pc \in {"saveEnabled", "idle"}
    BY <2>1 DEF WebAdvance, WebOnProgram, WebPrograms, TypeOK
  <2>3. HeldParsed'
    BY <1>1, <2>1, <2>2 DEF Parsed, HeldParsed
  <2>4. ScheduleParsed'
    BY <1>1, <2>1 DEF Parsed, HeldParsed, ScheduleParsed, Overtaken, TypeOK
  <2> QED BY <2>3, <2>4 DEF Parsed
<1>5. CASE WebCheck
  <2>1. UNCHANGED <<cronObj, nextRun>> /\ web'.pc \in {"mark", "idle"}
    BY <1>5 DEF WebCheck, fields, TypeOK
  <2> QED BY <1>1, <2>1, ScheduleQuiet
<1>6. CASE WebApplyEnabled
  <2>1. UNCHANGED <<cronObj, nextRun>> /\ web.pc = "applyEnabled"
    BY <1>6 DEF WebApplyEnabled
  <2>2. CASE WebAdvance
    <3>1. web'.pc = "parse"
      BY <2>1, <2>2 DEF WebAdvance, WebOnProgram, WebPrograms, TypeOK
    <3> QED BY <1>1, <2>1, <3>1, ScheduleQuiet
  <2>3. CASE WebSkipParse
    <3>1. web'.pc \in {"saveEnabled", "idle"}
      BY <2>1, <2>3, WebSkipType
    <3> QED BY <1>1, <2>1, <3>1, ScheduleQuiet
  <2> QED BY <1>6, <2>2, <2>3 DEF WebApplyEnabled
<1>7. CASE WebMark \/ WebPut \/ WebSetCron \/ WebFlag \/ WebSetEnabled \/ WebSave
  <2>1. /\ UNCHANGED <<cronObj, nextRun>> /\ WebAdvance
        /\ web.pc \in {"mark", "put", "setCron", "flag", "setEnabled", "saveCron",
                       "saveEnabled", "saveBoth"}
    BY <1>7 DEF WebMark, WebPut, WebSetCron, WebFlag, WebSetEnabled, WebSave, fields
  <2>2. web'.pc \notin {"assign", "next"}
    BY <2>1 DEF WebAdvance, WebOnProgram, WebPrograms, TypeOK
  <2> QED BY <1>1, <2>1, <2>2, ScheduleQuiet
<1> QED BY <1>2, <1>3, <1>4, <1>5, <1>6, <1>7 DEF WebContinue

LEMMA ParsedStep == IInv /\ Parsed /\ [Next]_vars => Parsed'
<1> SUFFICES ASSUME IInv, Parsed, [Next]_vars PROVE Parsed'
  OBVIOUS
<1>1. CASE MainStep \/ MainStop
  BY <1>1, MainKeepsParsed
<1>2. CASE WebContinue
  BY <1>2, WebKeepsParsed
<1>3. CASE WebRequest
  <2>1. PICK op \in WebOps \ {"external"}, t \in Tasks, new \in Setting : WebBegin(op, t, new)
    BY <1>3 DEF WebRequest
  <2>2. op \in {"trigger", "cron", "enabled", "form"}
    BY RegistryAssumption
  <2>3. UNCHANGED <<cron, cronObj, nextRun, overtaken, main>> /\ web'.pc \notin {"assign", "next"}
    BY <2>1, <2>2 DEF WebBegin, WebPrograms, fields
  <2> QED BY <2>3, ScheduleQuiet
<1>4. CASE \E t \in Tasks : Tick(t)
  <2>1. UNCHANGED <<cron, cronObj, overtaken, main, web>>
        /\ \A u \in Tasks : nextRun'[u] = nextRun[u] \/ nextRun[u] # NoRun
    BY <1>4 DEF Tick, IInv, TypeOK, NoRun
  <2> QED BY <2>1, ScheduleQuiet
<1>5. CASE \/ WorkerStep \/ UNCHANGED vars \/ \E t \in Tasks : LingererEnds(t)
           \/ \E t \in Tasks, new \in Setting : ExternalSave(t, new)
  <2>1. UNCHANGED <<cron, cronObj, nextRun, overtaken, main, web>>
    BY <1>5 DEF WorkerStep, WorkerGet, WorkerJoined, WorkerTimeout, WorkerClear, WorkerExit,
                LingererEnds, ExternalSave, vars, fields
  <2> QED BY <2>1, ScheduleQuiet
<1> QED BY <1>1, <1>2, <1>3, <1>4, <1>5 DEF Next

(* A task with a next run has a parsed schedule, and it is that of its     *)
(* expression unless that does not parse, is about to be parsed, or was    *)
(* adopted while a request held the parse of the one before: for any tasks *)
(* and expressions, whatever enabled, cron and form requests, reloads and  *)
(* rebases came before, access by access.                                  *)
THEOREM EveryRunHasASchedule == Spec => []ScheduleParsed
<1>1. Parsed => ScheduleParsed
  BY DEF Parsed
<1> QED BY InitIInv, NextPreserves, InitParsed, ParsedStep, <1>1, PTL DEF Spec

-----------------------------------------------------------------------------
(* The overlap guard.  What a dispatch costs is counted until the worker   *)
(* has cleared the flag for it, and a Run Now counts once it has passed    *)
(* its test.  A flag that is down then hides no more executions than the   *)
(* requests explain, and that is all the main loop's own test can see.     *)
MainHas(pc, t) == main.pc = pc /\ t = Head(main.todo)

InFlight(t) == Copies(t) + (IF worker.pc = "clear" /\ worker.task = t THEN 1 ELSE 0)

Granted == IF web.pc = "check" THEN webOps - 1 ELSE webOps

Accounted ==
    \A t \in Tasks :
        /\ InFlight(t) <= 1 + Granted
        /\ ~running[t] /\ ~MainHas("mark", t) => InFlight(t) <= Granted

CountIn(q, t) == Cardinality({i \in DOMAIN q : q[i] = t})

LEMMA CountInNat ==
    ASSUME NEW q \in Seq(Tasks), NEW t \in Tasks
    PROVE  CountIn(q, t) \in Nat /\ IsFiniteSet({i \in DOMAIN q : q[i] = t})
<1>1. IsFiniteSet(1..Len(q))
  BY FS_Interval
<1>2. {i \in DOMAIN q : q[i] = t} \subseteq 1..Len(q)
  OBVIOUS
<1>3. IsFiniteSet({i \in DOMAIN q : q[i] = t})
  BY <1>1, <1>2, FS_Subset
<1> QED BY <1>3, FS_CardinalityType DEF CountIn

(* A job put at the end is counted once more.                              *)
LEMMA CountAppend ==
    ASSUME NEW q \in Seq(Tasks), NEW t \in Tasks, NEW u \in Tasks
    PROVE  CountIn(Append(q, t), u) = CountIn(q, u) + (IF t = u THEN 1 ELSE 0)
<1> DEFINE S == {i \in DOMAIN q : q[i] = u}
           R == {i \in DOMAIN Append(q, t) : Append(q, t)[i] = u}
<1>1. IsFiniteSet(S) /\ Len(q) + 1 \notin S
  BY CountInNat
<1>2. R = IF t = u THEN S \cup {Len(q) + 1} ELSE S
  OBVIOUS
<1>3. Cardinality(S \cup {Len(q) + 1}) = Cardinality(S) + 1
  BY <1>1, FS_AddElement
<1>4. Cardinality(S) \in Nat
  BY <1>1, FS_CardinalityType
<1>5. CountIn(q, u) = Cardinality(S) /\ CountIn(Append(q, t), u) = Cardinality(R)
  BY DEF CountIn
<1> HIDE DEF S, R
<1> QED BY <1>2, <1>3, <1>4, <1>5

(* A job taken from the front is counted once less.                        *)
LEMMA CountTail ==
    ASSUME NEW q \in Seq(Tasks), q # <<>>, NEW u \in Tasks
    PROVE  CountIn(q, u) = CountIn(Tail(q), u) + (IF Head(q) = u THEN 1 ELSE 0)
<1> DEFINE S == {i \in DOMAIN Tail(q) : Tail(q)[i] = u}
           R == {i \in DOMAIN q : q[i] = u}
           Rest == R \ {1}
           f == [i \in S |-> i + 1]
<1>1. /\ Tail(q) \in Seq(Tasks) /\ DOMAIN Tail(q) = 1..(Len(q) - 1)
      /\ \A i \in 1..(Len(q) - 1) : Tail(q)[i] = q[i + 1]
      /\ Len(q) \in Nat \ {0} /\ DOMAIN q = 1..Len(q) /\ Head(q) = q[1]
  OBVIOUS
<1>2. IsFiniteSet(S) /\ IsFiniteSet(R)
  BY <1>1, CountInNat
<1>3. f \in Bijection(S, Rest)
  <2>1. \A i \in S : f[i] \in Rest
    BY <1>1
  <2>2. \A i, j \in S : f[i] = f[j] => i = j
    BY <1>1
  <2>3. \A k \in Rest : \E i \in S : f[i] = k
    <3> SUFFICES ASSUME NEW k \in Rest PROVE \E i \in S : f[i] = k
      OBVIOUS
    <3>1. k - 1 \in S /\ f[k - 1] = k
      BY <1>1
    <3> QED BY <3>1
  <2> QED BY <2>1, <2>2, <2>3 DEF Bijection, Injection, Surjection, IsInjective
<1>4. 1 \in R <=> Head(q) = u
  BY <1>1
<1>5. CountIn(q, u) = Cardinality(R) /\ CountIn(Tail(q), u) = Cardinality(S)
  BY DEF CountIn
<1> HIDE DEF f, S, R
<1>6. /\ Cardinality(Rest) = Cardinality(S) /\ Cardinality(S) \in Nat
      /\ Cardinality(Rest) = IF 1 \in R THEN Cardinality(R) - 1 ELSE Cardinality(R)
      /\ Cardinality(R) \in Nat
  <2>1. ExistsBijection(S, Rest)
    BY <1>3 DEF ExistsBijection
  <2>2. Cardinality(Rest) = Cardinality(S)
    BY <1>2, <2>1, FS_Bijection
  <2>3. Cardinality(Rest) = IF 1 \in R THEN Cardinality(R) - 1 ELSE Cardinality(R)
    BY <1>2, FS_RemoveElement
  <2>4. Cardinality(S) \in Nat /\ Cardinality(R) \in Nat
    BY <1>2, FS_CardinalityType
  <2> QED BY <2>2, <2>3, <2>4
<1> QED BY <1>4, <1>5, <1>6

LEMMA QueuedIsCount ==
    /\ \A t \in Tasks : Queued(t) = CountIn(jobQueue, t)
    /\ \A t \in Tasks : Queued(t)' = CountIn(jobQueue', t)
  BY DEF Queued, CountIn

(* The counts are numbers.                                                 *)
LEMMA CountsAreNumbers ==
    ASSUME TypeOK
    PROVE  /\ webOps \in Int /\ Granted \in Int
           /\ \A t \in Tasks : Queued(t) \in Nat /\ InFlight(t) \in Int
<1>1. webOps \in Int /\ Granted \in Int
  BY RegistryAssumption DEF TypeOK, Granted
<1>2. \A t \in Tasks : Queued(t) \in Nat
  <2>1. jobQueue \in Seq(Tasks)
    BY DEF TypeOK
  <2> QED BY <2>1, CountInNat, QueuedIsCount
<1> QED BY <1>1, <1>2 DEF InFlight, Copies

(* Steps that leave the counts, the flags and the marks alone, or let the  *)
(* requests account for more.                                              *)
LEMMA QuietStep ==
    ASSUME Accounted, TypeOK,
           UNCHANGED <<running, jobQueue>>,
           \A t \in Tasks :
              /\ InFlight(t)' = InFlight(t)
              /\ MainHas("mark", t)' <=> MainHas("mark", t),
           Granted' \in Int, Granted' >= Granted
    PROVE  Accounted'
<1> SUFFICES ASSUME NEW t \in Tasks
             PROVE  /\ InFlight(t)' <= 1 + Granted'
                    /\ ~running'[t] /\ ~MainHas("mark", t)' => InFlight(t)' <= Granted'
  BY DEF Accounted
<1>1. /\ InFlight(t) <= 1 + Granted
      /\ ~running[t] /\ ~MainHas("mark", t) => InFlight(t) <= Granted
  BY DEF Accounted
<1>2. InFlight(t) \in Int /\ Granted \in Int
  BY CountsAreNumbers
<1> QED BY <1>1, <1>2

LEMMA NoneInFlight == Init => Accounted
<1> SUFFICES ASSUME Init, NEW t \in Tasks PROVE InFlight(t) = 0 /\ Granted = 0
  BY DEF Accounted, Init
<1>1. jobQueue = <<>> /\ main.pc = "startup" /\ worker.pc = "get" /\ web.pc = "idle"
      /\ webOps = 0
  BY DEF Init
<1>2. Queued(t) = 0
  <2>1. {i \in DOMAIN jobQueue : jobQueue[i] = t} = {}
    BY <1>1
  <2> QED BY <2>1, FS_EmptySet DEF Queued
<1> QED BY <1>1, <1>2 DEF InFlight, Copies, Granted

(* The main loop.                                                          *)
LEMMA MainAccounted ==
    ASSUME IInv, Accounted, MainStep \/ MainStop
    PROVE  Accounted'
<1> USE DEF IInv
<1>1. /\ \A t \in Tasks : Queued(t) \in Nat /\ InFlight(t) \in Int
      /\ webOps \in Int /\ Granted \in Int /\ jobQueue \in Seq(Tasks)
  BY CountsAreNumbers DEF TypeOK
<1>2. UNCHANGED <<web, webOps, worker>> /\ Granted' = Granted /\ Granted \in Int
  <2>1. UNCHANGED <<web, webOps, worker>>
    BY DEF MainStep, MainStop, MainStartup, MainReadSettings, MainNoReload, MainNextPhase,
           MainTaskStep, MainReload, MainReloadConfig, MainReloadTask, MainReflag, MainClearFlag,
           MainRebase, MainParse, MainNextRun, MainReenable, MainDue,
           MainMark, MainPut
  <2> QED BY <1>1, <2>1 DEF Granted
<1>3. CASE UNCHANGED <<running, jobQueue>> /\ ~(main.pc \in {"mark", "put"})
           /\ ~(main'.pc \in {"mark", "put"})
  <2>1. \A t \in Tasks : Queued(t)' = Queued(t)
    BY <1>3 DEF Queued
  <2>2. \A t \in Tasks : InFlight(t)' = InFlight(t) /\ ~MainHas("mark", t) /\ ~MainHas("mark", t)'
    BY <1>2, <1>3, <2>1 DEF InFlight, Copies, MainHas
  <2> QED BY <1>2, <1>3, <2>2, QuietStep
(* A test of the flag that is down: one dispatch more.                     *)
<1>4. ASSUME NEW t \in Tasks, ~running[t], UNCHANGED <<running, jobQueue>>,
             ~(main.pc \in {"mark", "put"}), main'.pc = "mark", Head(main'.todo) = t
      PROVE  Accounted'
  <2> SUFFICES ASSUME NEW u \in Tasks
               PROVE  /\ InFlight(u)' <= 1 + Granted'
                      /\ ~running'[u] /\ ~MainHas("mark", u)' => InFlight(u)' <= Granted'
    BY DEF Accounted
  <2>1. Queued(u)' = Queued(u)
    BY <1>4 DEF Queued
  <2>2. /\ InFlight(u) <= 1 + Granted
        /\ ~running[u] => InFlight(u) <= Granted
    BY <1>4 DEF Accounted, MainHas
  <2>3. InFlight(u) \in Int /\ InFlight(u)' = InFlight(u) + (IF u = t THEN 1 ELSE 0)
    BY <1>1, <1>2, <1>4, <2>1 DEF InFlight, Copies
  <2> QED BY <1>2, <1>4, <2>2, <2>3 DEF MainHas
<1>5. ASSUME NEW t \in Tasks, MainMark(t) PROVE Accounted'
  <2> SUFFICES ASSUME NEW u \in Tasks
               PROVE  /\ InFlight(u)' <= 1 + Granted'
                      /\ ~running'[u] /\ ~MainHas("mark", u)' => InFlight(u)' <= Granted'
    BY DEF Accounted
  <2>1. /\ main.pc = "mark" /\ t = Head(main.todo)
        /\ main'.pc = "put" /\ main'.todo = main.todo
        /\ running' = [running EXCEPT ![t] = TRUE] /\ jobQueue' = jobQueue
    BY <1>5 DEF MainMark, MainAt, MainGoto, TypeOK
  <2>2. Queued(u)' = Queued(u)
    BY <2>1 DEF Queued
  <2>3. /\ InFlight(u) <= 1 + Granted
        /\ ~running[u] /\ u # t => InFlight(u) <= Granted
    BY <2>1 DEF Accounted, MainHas
  <2>4. InFlight(u)' = InFlight(u)
    BY <1>2, <2>1, <2>2 DEF InFlight, Copies
  <2> QED BY <1>2, <2>1, <2>3, <2>4 DEF TypeOK
<1>6. ASSUME NEW t \in Tasks, MainPut(t) PROVE Accounted'
  <2> SUFFICES ASSUME NEW u \in Tasks
               PROVE  /\ InFlight(u)' <= 1 + Granted'
                      /\ ~running'[u] => InFlight(u)' <= Granted'
    BY DEF Accounted
  <2>1. /\ main.pc = "put" /\ t = Head(main.todo) /\ main'.pc = "due"
        /\ running' = running /\ jobQueue' = Append(jobQueue, t)
    BY <1>6 DEF MainPut, MainAt, MainVisited, TypeOK, fields
  <2>2. Queued(u)' = Queued(u) + (IF t = u THEN 1 ELSE 0)
    BY <1>1, <2>1, CountAppend, QueuedIsCount
  <2>3. /\ InFlight(u) <= 1 + Granted
        /\ ~running[u] => InFlight(u) <= Granted
    BY <2>1 DEF Accounted, MainHas
  <2>4. InFlight(u)' = InFlight(u)
    BY <1>1, <1>2, <2>1, <2>2 DEF InFlight, Copies
  <2> QED BY <1>2, <2>1, <2>3, <2>4
<1>7. CASE MainStartup
  <2>1. main.pc = "startup" /\ UNCHANGED <<running, jobQueue>>
    BY <1>7 DEF MainStartup, fields
  <2>2. CASE main' = [main EXCEPT !.pc = "top"]
    <3>1. main'.pc = "top"
      BY <2>2 DEF TypeOK
    <3> QED BY <1>3, <2>1, <3>1
  <2>3. CASE main' # [main EXCEPT !.pc = "top"]
    <3>1. PICK t \in StartupTasks :
            ~running[t] /\ main' = [main EXCEPT !.pc = "mark", !.todo = <<t>>]
      BY <1>7, <2>3 DEF MainStartup
    <3>2. t \in Tasks /\ main'.pc = "mark" /\ Head(main'.todo) = t
      BY <3>1, RegistryAssumption DEF TypeOK
    <3> QED BY <1>4, <2>1, <3>1, <3>2
  <2> QED BY <2>2, <2>3
<1>8. CASE MainReadSettings \/ MainNoReload \/ MainStop \/ MainNextPhase
  <2>1. UNCHANGED <<running, jobQueue>> /\ ~(main.pc \in {"mark", "put"})
        /\ ~(main'.pc \in {"mark", "put"})
    <3>1. CASE MainNextPhase
      BY <3>1 DEF MainNextPhase, fields, TypeOK
    <3>2. CASE MainReadSettings \/ MainNoReload \/ MainStop
      <4>1. UNCHANGED <<running, jobQueue>> /\ main.pc = "top"
        BY <3>2 DEF MainReadSettings, MainNoReload, MainStop, fields
      <4>2. main'.pc \in {"reload", "changes", "stopped"}
        <5>1. CASE MainReadSettings
          BY <5>1 DEF MainReadSettings
        <5>2. CASE MainNoReload
          BY <5>2 DEF MainNoReload, TypeOK
        <5>3. CASE MainStop
          BY <5>3 DEF MainStop, TypeOK
        <5> QED BY <3>2, <5>1, <5>2, <5>3
      <4> QED BY <4>1, <4>2
    <3> QED BY <1>8, <3>1, <3>2
  <2> QED BY <1>3, <2>1
<1>9. ASSUME NEW t \in Tasks, MainTaskStep(t), ~MainMark(t), ~MainPut(t) PROVE Accounted'
  <2>1. CASE MainDue(t) /\ main'.pc = "mark"
    <3>1. ~running[t] /\ UNCHANGED <<running, jobQueue>> /\ main.pc = "due"
          /\ Head(main'.todo) = t
      BY <2>1 DEF MainDue, MainAt, MainVisited, MainGoto, TypeOK
    <3> QED BY <1>4, <2>1, <3>1
  <2>2. CASE ~(MainDue(t) /\ main'.pc = "mark")
    <3>1. UNCHANGED <<running, jobQueue>> /\ ~(main.pc \in {"mark", "put"})
      BY <1>9 DEF MainTaskStep, MainReload, MainReloadConfig, MainReloadTask, MainReflag,
                  MainClearFlag, MainRebase, MainParse, MainNextRun, MainReenable, MainDue,
                  MainAt, fields
    <3>2. CASE MainDue(t)
      <4>1. \/ main' = [main EXCEPT !.pc = "due", !.todo = Tail(@)]
            \/ main' = [main EXCEPT !.pc = "mark"]
        BY <3>2 DEF MainDue, MainVisited, MainGoto
      <4>2. ~(main'.pc \in {"mark", "put"})
        BY <2>2, <3>2, <4>1 DEF TypeOK
      <4> QED BY <1>3, <3>1, <4>2
    <3>3. CASE ~MainDue(t)
      <4>1. \/ \E pc \in {"reload", "changes"} :
                 main' = [main EXCEPT !.pc = pc, !.todo = Tail(@)]
            \/ main' = [main EXCEPT !.pc = "reload", !.todo = Tail(@), !.cronChanged = FALSE]
            \/ main' = [main EXCEPT !.pc = "reloadConfig",
                                    !.cronChanged = main.snap[t].cron # cfg[t].cron]
            \/ \E pc \in {"reloadTask", "reflag", "rebase", "parse", "next", "reenable"} :
                 main' = [main EXCEPT !.pc = pc]
        BY <1>9, <3>3 DEF MainTaskStep, MainReload, MainReloadConfig, MainReloadTask,
                          MainReflag, MainClearFlag, MainRebase, MainParse, MainNextRun,
                          MainReenable, MainVisited, MainGoto
      <4>2. ~(main'.pc \in {"mark", "put"})
        BY <4>1 DEF TypeOK
      <4> QED BY <1>3, <3>1, <4>2
    <3> QED BY <3>2, <3>3
  <2> QED BY <2>1, <2>2
<1> QED BY <1>5, <1>6, <1>7, <1>8, <1>9 DEF MainStep

(* The worker: the flag it clears is worth the execution it ends.          *)
LEMMA WorkerAccounted ==
    ASSUME IInv, Accounted, WorkerStep
    PROVE  Accounted'
<1> SUFFICES ASSUME NEW u \in Tasks
             PROVE  /\ InFlight(u)' <= 1 + Granted'
                    /\ ~running'[u] /\ ~MainHas("mark", u)' => InFlight(u)' <= Granted'
  BY DEF Accounted
<1> USE DEF IInv
<1>1. /\ Queued(u) \in Nat /\ InFlight(u) \in Int /\ Granted \in Int
      /\ webOps \in Int /\ jobQueue \in Seq(Tasks)
  BY CountsAreNumbers DEF TypeOK
<1>2. /\ UNCHANGED <<web, webOps, main>> /\ Granted' = Granted /\ Granted \in Int
      /\ MainHas("mark", u)' <=> MainHas("mark", u)
  BY <1>1 DEF WorkerStep, WorkerGet, WorkerJoined, WorkerTimeout, WorkerClear, WorkerExit,
              Granted, MainHas
<1>3. /\ InFlight(u) <= 1 + Granted
      /\ ~running[u] /\ ~MainHas("mark", u) => InFlight(u) <= Granted
      /\ InFlight(u) \in Int
  BY <1>1 DEF Accounted, InFlight, Copies
<1>4. CASE WorkerGet
  <2>1. /\ worker.pc = "get" /\ worker'.pc = "join" /\ worker'.task = Head(jobQueue)
        /\ running' = running
    BY <1>4 DEF WorkerGet, fields
  <2>2. Queued(u) = Queued(u)' + (IF Head(jobQueue) = u THEN 1 ELSE 0)
    BY <1>1, <1>4, CountTail, QueuedIsCount DEF WorkerGet
  <2>3. Queued(u)' \in Nat
    BY <1>1, <1>4, CountInNat, QueuedIsCount, HeadTailType DEF WorkerGet
  <2>4. InFlight(u)' = InFlight(u)
    BY <1>1, <1>2, <2>1, <2>2, <2>3 DEF InFlight, Copies
  <2> QED BY <1>2, <1>3, <2>1, <2>4
<1>5. CASE WorkerJoined \/ WorkerTimeout \/ WorkerExit
  <2>1. /\ UNCHANGED <<running, jobQueue>>
        /\ \/ worker.pc = "join" /\ worker'.pc = "clear" /\ worker'.task = worker.task
           \/ worker.pc = "get" /\ worker'.pc = "exited"
    BY <1>5 DEF WorkerJoined, WorkerTimeout, WorkerExit, fields, TypeOK
  <2>2. Queued(u)' = Queued(u)
    BY <2>1 DEF Queued
  <2>3. InFlight(u)' = InFlight(u)
    BY <1>1, <1>2, <2>1, <2>2 DEF InFlight, Copies
  <2> QED BY <1>2, <1>3, <2>1, <2>3
<1>6. CASE WorkerClear
  <2>1. /\ worker.pc = "clear" /\ worker'.pc = "get" /\ jobQueue' = jobQueue
        /\ running' = [running EXCEPT ![worker.task] = FALSE]
    BY <1>6 DEF WorkerClear, TypeOK
  <2>2. Queued(u)' = Queued(u)
    BY <2>1 DEF Queued
  <2>3. InFlight(u)' = InFlight(u) - (IF worker.task = u THEN 1 ELSE 0)
    BY <1>1, <1>2, <2>1, <2>2 DEF InFlight, Copies
  <2>4. u # worker.task => running'[u] = running[u]
    BY <2>1 DEF TypeOK
  <2> QED BY <1>2, <1>3, <2>3, <2>4
<1> QED BY <1>4, <1>5, <1>6 DEF WorkerStep

(* The requests: a Run Now that passes its test is granted one execution.  *)
LEMMA WebAccounted ==
    ASSUME IInv, Accounted,
           WebContinue \/ WebRequest \/ \E t \in Tasks, new \in Setting : ExternalSave(t, new)
    PROVE  Accounted'
<1> SUFFICES ASSUME NEW u \in Tasks
             PROVE  /\ InFlight(u)' <= 1 + Granted'
                    /\ ~running'[u] /\ ~MainHas("mark", u)' => InFlight(u)' <= Granted'
  BY DEF Accounted
<1> USE DEF IInv
<1>1. /\ Queued(u) \in Nat /\ InFlight(u) \in Int /\ Granted \in Int
      /\ webOps \in Int /\ jobQueue \in Seq(Tasks)
  BY CountsAreNumbers DEF TypeOK
<1>2. /\ UNCHANGED <<main, worker>>
      /\ MainHas("mark", u)' <=> MainHas("mark", u)
  BY DEF WebContinue, WebCheck, WebMark, WebPut, WebSetCron, WebFlag, WebSetEnabled,
         WebApplyEnabled, WebParse, WebAssign, WebNextRun, WebSave, WebRequest, WebBegin,
         ExternalSave, MainHas
<1>3. /\ InFlight(u) <= 1 + Granted
      /\ ~running[u] /\ ~MainHas("mark", u) => InFlight(u) <= Granted
      /\ InFlight(u) \in Int /\ Granted \in Int
  BY <1>1 DEF Accounted, InFlight, Copies, Granted
<1>4. CASE WebCheck
  <2>1. /\ web.pc = "check" /\ webOps' = webOps /\ UNCHANGED <<running, jobQueue>>
        /\ web'.pc \in {"mark", "idle"} /\ web'.task = web.task
    BY <1>4 DEF WebCheck, TypeOK, fields
  <2>2. Queued(u)' = Queued(u)
    BY <2>1 DEF Queued
  <2>3. Granted' = Granted + 1
    BY <1>1, <2>1 DEF Granted
  <2>4. InFlight(u)' \in {InFlight(u), InFlight(u) + 1}
    BY <1>1, <1>2, <2>1, <2>2 DEF InFlight, Copies
  <2> QED BY <1>2, <1>3, <2>1, <2>3, <2>4
<1>5. CASE WebMark
  <2>1. /\ web.pc = "mark" /\ web.op = "trigger" /\ web'.pc = "put" /\ web'.task = web.task
        /\ UNCHANGED <<webOps, jobQueue>>
        /\ running' = [running EXCEPT ![web.task] = TRUE]
    BY <1>5 DEF WebMark, WebAdvance, WebOnProgram, WebPrograms, TypeOK
  <2>2. Queued(u)' = Queued(u)
    BY <2>1 DEF Queued
  <2>3. Granted' = Granted /\ InFlight(u)' = InFlight(u)
    BY <1>1, <1>2, <2>1, <2>2 DEF Granted, InFlight, Copies
  <2>4. running[u] => running'[u]
    BY <2>1 DEF TypeOK
  <2> QED BY <1>2, <1>3, <2>3, <2>4
<1>6. CASE WebPut
  <2>1. /\ web.pc = "put" /\ web.op = "trigger" /\ web'.pc = "idle"
        /\ UNCHANGED <<webOps, running>> /\ web.task \in Tasks
        /\ jobQueue' = Append(jobQueue, web.task)
    BY <1>6 DEF WebPut, WebAdvance, WebOnProgram, WebPrograms, TypeOK, fields
  <2>2. Queued(u)' = Queued(u) + (IF web.task = u THEN 1 ELSE 0)
    BY <1>1, <2>1, CountAppend, QueuedIsCount
  <2>3. Granted' = Granted /\ InFlight(u)' = InFlight(u)
    BY <1>1, <1>2, <2>1, <2>2 DEF Granted, InFlight, Copies
  <2> QED BY <1>2, <1>3, <2>1, <2>3
<1>7. CASE \/ WebSetCron \/ WebFlag \/ WebSetEnabled \/ WebApplyEnabled \/ WebParse
           \/ WebAssign \/ WebNextRun \/ WebSave
  <2>1. /\ UNCHANGED <<running, jobQueue, webOps>>
        /\ web.pc \notin {"check", "mark", "put"} /\ web.pc # "idle"
    BY <1>7 DEF WebSetCron, WebFlag, WebSetEnabled, WebApplyEnabled, WebParse, WebAssign,
                WebNextRun, WebSave, fields
  <2>2. web'.pc \notin {"check", "mark", "put"}
    <3>1. CASE WebAdvance
      BY <2>1, <3>1 DEF WebAdvance, WebOnProgram, WebPrograms, TypeOK
    <3>2. CASE ~WebAdvance
      <4>1. \/ WebSkipParse /\ web.pc \in {"applyEnabled", "parse"}
            \/ \E e \in Crons \cup {NoCron}, pc \in {"assign", "next"} :
                 web' = [web EXCEPT !.pc = pc, !.expr = e]
        <5>1. web.task \in Tasks /\ cron \in [Tasks -> Crons]
          BY DEF TypeOK
        <5> QED BY <1>7, <3>2, <5>1 DEF WebSetCron, WebFlag, WebSetEnabled, WebApplyEnabled,
                                        WebParse, WebAssign, WebNextRun, WebSave
      <4> QED BY <4>1, WebSkipType DEF TypeOK
    <3> QED BY <3>1, <3>2
  <2>3. Queued(u)' = Queued(u)
    BY <2>1 DEF Queued
  <2>4. Granted' = Granted /\ InFlight(u)' = InFlight(u)
    BY <1>1, <1>2, <2>1, <2>2, <2>3 DEF Granted, InFlight, Copies
  <2> QED BY <1>2, <1>3, <2>1, <2>4
<1>8. CASE WebRequest \/ \E t \in Tasks, new \in Setting : ExternalSave(t, new)
  <2>1. /\ UNCHANGED <<running, jobQueue>> /\ webOps' = webOps + 1
        /\ \/ web' = web
           \/ /\ web.pc = "idle"
              /\ web'.pc \in {"check", "setCron", "setEnabled", "saveBoth"}
    <3>1. CASE WebRequest
      <4>1. PICK op \in WebOps \ {"external"}, t \in Tasks, new \in Setting :
              WebBegin(op, t, new)
        BY <3>1 DEF WebRequest
      <4>2. op \in {"trigger", "cron", "enabled", "form"}
        BY RegistryAssumption
      <4> QED BY <4>1, <4>2 DEF WebBegin, WebPrograms, fields
    <3>2. CASE \E t \in Tasks, new \in Setting : ExternalSave(t, new)
      BY <3>2 DEF ExternalSave, fields
    <3> QED BY <1>8, <3>1, <3>2
  <2>2. Queued(u)' = Queued(u)
    BY <2>1 DEF Queued
  <2>3. Granted' \in {Granted, Granted + 1} /\ InFlight(u)' = InFlight(u)
    BY <1>1, <1>2, <2>1, <2>2 DEF Granted, InFlight, Copies
  <2> QED BY <1>2, <1>3, <2>1, <2>3
<1> QED BY <1>4, <1>5, <1>6, <1>7, <1>8 DEF WebContinue

LEMMA AccountedStep == IInv /\ Accounted /\ [Next]_vars => Accounted'
<1> SUFFICES ASSUME IInv, Accounted, [Next]_vars PROVE Accounted'
  OBVIOUS
<1>1. CASE MainStep \/ MainStop
  BY <1>1, MainAccounted
<1>2. CASE WorkerStep
  BY <1>2, WorkerAccounted
<1>3. CASE WebContinue \/ WebRequest \/ \E t \in Tasks, new \in Setting : ExternalSave(t, new)
  BY <1>3, WebAccounted
<1>4. CASE UNCHANGED vars \/ \E t \in Tasks : Tick(t) \/ LingererEnds(t)
  <2>1. UNCHANGED <<running, jobQueue, main, worker, web, webOps, overtaken>>
    BY <1>4 DEF vars, fields, Tick, LingererEnds
  <2> QED BY <2>1 DEF Accounted, InFlight, Copies, Queued, Granted, MainHas
<1> QED BY <1>1, <1>2, <1>3, <1>4 DEF Next

(* A task is queued or runs at most once more than there were requests,    *)
(* for any tasks: the two tests of the running flag race, and nothing else *)
(* adds an execution.                                                      *)
THEOREM DispatchesExplained == Spec => []NoDoubleDispatch
<1>1. IInv /\ Accounted => NoDoubleDispatch
  <2> SUFFICES ASSUME IInv, Accounted, NEW t \in Tasks PROVE Copies(t) <= 1 + webOps
    BY DEF NoDoubleDispatch
  <2>1. Queued(t) \in Nat /\ webOps \in Int
    BY CountsAreNumbers DEF IInv
  <2>2. InFlight(t) <= 1 + Granted
    BY DEF Accounted
  <2> QED BY <2>1, <2>2 DEF InFlight, Copies, Granted
<1> QED BY InitIInv, NextPreserves, NoneInFlight, AccountedStep, <1>1, PTL DEF Spec

-----------------------------------------------------------------------------
(* The stream of activities: runs of the dashboard and validations.        *)
RunPhases == {"asking", "alert", "deciding", "reviewing", "recording alert", "recording"}

RunRecords ==
    [phase : RunPhases, since : Nat, force : BOOLEAN, due : BOOLEAN, settled : SUBSET Nat]

Acquisitions == [owner : Runners, since : Nat]

Requests == [key : Keys, since : Nat, begun : BOOLEAN]

Kinds == {"wait", "alert", "error"}

ReviewRecords == {"none", "due", "forced"}

Stored == [kind : Kinds, view : BOOLEAN, run : ReviewRecords, by : Validations \cup {Agent}]

Events == [settled : SUBSET Nat, why : {"none", "due", "forced", "mixed"}, lost : BOOLEAN]

TaskRecords ==
    [phase : {"none", "fetching", "judging", "failing", "persisted"}, at : Nat,
     wrote : SUBSET Nat, lost : BOOLEAN]

ValidationTypeOK ==
    /\ now \in Nat /\ ops \in Nat
    /\ run \in [Runners -> {Idle} \cup RunRecords]
    /\ slot \in [Keys -> {Nobody} \cup Acquisitions]
    /\ asked \in [Runners -> {Nobody} \cup Requests]
    /\ DOMAIN activities \subseteq Nat
    /\ activities \in [DOMAIN activities -> Stored]
    /\ DOMAIN history \subseteq Nat
    /\ history \in [DOMAIN history -> Events]
    /\ validation \in [Validations -> TaskRecords]
    /\ inFlight \subseteq Validations

(* The slot of a key is held by its one fresh thread, if there is one.     *)
Fresh(p) == asked[p] # Nobody /\ now - asked[p].since < SlotAge

SlotHeld == \A p \in Runners : Fresh(p) => slot[asked[p].key] = Acquired(p, asked[p].since)

(* A validation that nobody registers any more has left its activity, as   *)
(* long as nobody else wrote in the same second.                           *)
Written(v) ==
    \A at \in validation[v].wrote :
        /\ at \in DOMAIN history
        /\ history[at].why # "mixed" /\ at \in DOMAIN activities => activities[at].by = v

Registered(v) ==
    /\ validation[v].phase \in {"fetching", "judging", "failing"} => v \in inFlight
    /\ validation[v].phase = "persisted" => validation[v].lost \/ validation[v].wrote # {}

(* A run that goes on writing under its timestamp has written there, and   *)
(* a validation that wrote there too is mixed up with it.                  *)
Overwrites(r) ==
    r.phase \in RunPhases \ {"asking"} =>
        /\ r.since \in DOMAIN history
        /\ \A v \in Validations : r.since \in validation[v].wrote => history[r.since].why = "mixed"

ValidationIInv ==
    /\ ValidationTypeOK
    /\ SlotHeld
    /\ \A v \in Validations : Written(v) /\ Registered(v)
    /\ \A p \in Runners : Overwrites(run[p])

-----------------------------------------------------------------------------
(* The operators on the stream. *)

LEMMA IdleIsIdle == Idle.phase = "idle" /\ \A r \in RunRecords : r # Idle /\ r.phase # "idle"
<1>1. Idle.phase = "idle"
  BY DEF Idle
<1>2. \A r \in RunRecords : r.phase # "idle"
  BY DEF RunRecords, RunPhases
<1> QED BY <1>1, <1>2

LEMMA UpsertedStored ==
    ASSUME ValidationTypeOK, NEW at \in Nat, NEW d \in Stored, NEW new, new = Upserted(at, d)
    PROVE  /\ DOMAIN new = DOMAIN activities \cup {at}
           /\ new \in [DOMAIN new -> Stored] /\ DOMAIN new \subseteq Nat
           /\ new[at] = d
           /\ \A x \in DOMAIN activities \ {at} : new[x] = activities[x]
BY DEF ValidationTypeOK, Upserted

LEMMA NotedEvents ==
    ASSUME ValidationTypeOK, NEW at \in Nat, NEW e \in Events, NEW new, new = Noted(at, e)
    PROVE  /\ DOMAIN new = DOMAIN history \cup {at}
           /\ new \in [DOMAIN new -> Events] /\ DOMAIN new \subseteq Nat
           /\ at \in DOMAIN history => new[at].why = "mixed"
           /\ \A x \in DOMAIN history \ {at} : new[x] = history[x]
<1>1. PICK n \in Events : /\ n = IF at \in DOMAIN history
                                 THEN [e EXCEPT !.settled = {}, !.why = "mixed"] ELSE e
                          /\ at \in DOMAIN history => n.why = "mixed"
  <2>1. CASE at \in DOMAIN history
    <3>1. [e EXCEPT !.settled = {}, !.why = "mixed"] \in Events
      BY DEF Events
    <3>2. [e EXCEPT !.settled = {}, !.why = "mixed"].why = "mixed"
      BY DEF Events
    <3> QED BY <2>1, <3>1, <3>2, Zenon
  <2>2. CASE at \notin DOMAIN history
    BY <2>2
  <2> QED BY <2>1, <2>2
<1>2. new = [x \in DOMAIN history \cup {at} |-> IF x = at THEN n ELSE history[x]]
  BY <1>1 DEF Noted
<1> QED BY <1>1, <1>2 DEF ValidationTypeOK

LEMMA SettledTyped == ValidationTypeOK => Settled \in SUBSET Nat
BY DEF ValidationTypeOK, Settled

LEMMA EventTyped ==
    ASSUME NEW settled \in SUBSET Nat, NEW why \in {"none", "due", "forced", "mixed"},
           NEW lost \in BOOLEAN
    PROVE  Event(settled, why, lost) \in Events
BY DEF Event, Events

LEMMA DocumentTyped ==
    ASSUME NEW kind \in Kinds, NEW view \in BOOLEAN, NEW review \in ReviewRecords,
           NEW by \in Validations \cup {Agent}
    PROVE  Document(kind, view, review, by) \in Stored /\ Document(kind, view, review, by).by = by
BY DEF Document, Stored

-----------------------------------------------------------------------------
(* A step of a run or of a user: what validations wrote stays theirs, or   *)
(* is mixed up.                                                            *)
Spares(x) ==
    /\ history'[x].why # "mixed" => history[x].why # "mixed"
    /\ history'[x].why # "mixed" /\ x \in DOMAIN activities' =>
          x \in DOMAIN activities /\ activities'[x].by = activities[x].by

LEMMA StreamKeeps ==
    ASSUME ValidationIInv, UNCHANGED <<validation, inFlight>>, ValidationTypeOK', SlotHeld',
           DOMAIN history \subseteq DOMAIN history',
           \A x \in DOMAIN history : history[x].why = "mixed" => history'[x].why = "mixed",
           \A v \in Validations : \A x \in validation[v].wrote : Spares(x),
           \A p \in Runners : run'[p] = run[p] \/ Overwrites(run[p])'
    PROVE  ValidationIInv'
<1>1. (\A v \in Validations : Written(v) /\ Registered(v))'
  <2> SUFFICES ASSUME NEW v \in Validations
               PROVE  (Written(v) /\ Registered(v))'
    OBVIOUS
  <2>1. Written(v) /\ Registered(v) /\ validation'[v] = validation[v]
    BY DEF ValidationIInv
  <2>2. Written(v)'
    BY <2>1 DEF Written, Spares
  <2>3. Registered(v)'
    BY <2>1 DEF Registered
  <2> QED BY <2>2, <2>3
<1>2. (\A p \in Runners : Overwrites(run[p]))'
  <2> SUFFICES ASSUME NEW p \in Runners, run'[p] = run[p]
               PROVE  Overwrites(run[p])'
    OBVIOUS
  <2>1. Overwrites(run[p])
    BY DEF ValidationIInv
  <2> QED BY <2>1 DEF Overwrites
<1> QED BY <1>1, <1>2 DEF ValidationIInv

-----------------------------------------------------------------------------
(* The slots of the dashboard. *)

LEMMA SlotUntouched ==
    ASSUME ValidationIInv, UNCHANGED <<now, slot, asked>>
    PROVE  SlotHeld'
BY DEF ValidationIInv, SlotHeld, Fresh

LEMMA FreshTyped ==
    ASSUME ValidationTypeOK, NEW p \in Runners, asked[p] # Nobody
    PROVE  asked[p] \in Requests /\ asked[p].key \in Keys /\ asked[p].since \in Nat
BY DEF ValidationTypeOK, Requests

(* A step of a dashboard thread: everything but slots and threads stays.   *)
LEMMA ThreadKeeps ==
    ASSUME ValidationIInv, UNCHANGED <<now, run, activities, history, validation, inFlight>>,
           ops' \in Nat, slot' \in [Keys -> {Nobody} \cup Acquisitions],
           asked' \in [Runners -> {Nobody} \cup Requests], SlotHeld'
    PROVE  ValidationIInv'
<1>1. ValidationTypeOK'
  BY DEF ValidationIInv, ValidationTypeOK
<1>2. \A v \in Validations : \A x \in validation[v].wrote : Spares(x)
  BY DEF Spares
<1> QED BY <1>1, <1>2, StreamKeeps

(* A fresh thread keeps its slot from whoever asks for its key.            *)
LEMMA AsksKeeps ==
    ASSUME ValidationIInv, NEW p \in Runners, NEW key \in Keys, Asks(p, key),
           UNCHANGED <<validation, inFlight>>
    PROVE  ValidationIInv'
<1>1. ValidationTypeOK /\ SlotHeld /\ now \in Nat
  BY DEF ValidationIInv, ValidationTypeOK
<1>2. PICK taken \in Acquisitions : taken = Acquired(p, now) /\ slot' = [slot EXCEPT ![key] = taken]
  BY <1>1 DEF Asks, Acquired, Acquisitions
<1>3. PICK request \in Requests :
         /\ request.key = key /\ request.since = now
         /\ asked' = [asked EXCEPT ![p] = request]
  <2> DEFINE request == [key |-> key, since |-> now, begun |-> FALSE]
  <2>1. request \in Requests /\ request.key = key /\ request.since = now
    BY <1>1 DEF Requests
  <2>2. asked' = [asked EXCEPT ![p] = request]
    BY DEF Asks
  <2> QED BY <2>1, <2>2
<1>4. /\ UNCHANGED <<now, run, activities, history>> /\ ops' = ops + 1
      /\ SlotFree(key)
  BY DEF Asks, streamVars
<1>5. /\ slot' \in [Keys -> {Nobody} \cup Acquisitions]
      /\ asked' \in [Runners -> {Nobody} \cup Requests]
      /\ ops' \in Nat
  BY <1>1, <1>2, <1>3, <1>4 DEF ValidationTypeOK
<1>6. SlotHeld'
  <2> SUFFICES ASSUME NEW q \in Runners, Fresh(q)'
               PROVE  slot'[asked'[q].key] = Acquired(q, asked'[q].since)
    BY DEF SlotHeld
  <2>1. CASE q = p
    <3>1. asked'[q] = request
      BY <1>1, <1>3, <2>1 DEF ValidationTypeOK
    <3>2. slot'[key] = taken
      BY <1>1, <1>2 DEF ValidationTypeOK
    <3> QED BY <1>2, <1>3, <2>1, <3>1, <3>2
  <2>2. CASE q # p
    <3>1. asked'[q] = asked[q]
      BY <1>1, <1>3, <2>2 DEF ValidationTypeOK
    <3>2. Fresh(q)
      BY <1>4, <3>1 DEF Fresh
    <3>3. slot[asked[q].key] = Acquired(q, asked[q].since)
      BY <1>1, <3>2 DEF SlotHeld
    <3>4. asked[q].key \in Keys /\ asked[q].since \in Nat
      BY <1>1, <3>2, FreshTyped DEF Fresh
    <3>5. slot[asked[q].key] # Nobody /\ slot[asked[q].key].since = asked[q].since
      BY <3>3, <3>4, ReviewAssumption DEF Acquired
    <3>6. asked[q].key # key
      BY <1>1, <1>4, <3>2, <3>4, <3>5, ReviewAssumption DEF SlotFree, Fresh
    <3>7. slot'[asked[q].key] = slot[asked[q].key]
      BY <1>1, <1>2, <3>4, <3>6 DEF ValidationTypeOK
    <3> QED BY <3>1, <3>3, <3>7
  <2> QED BY <2>1, <2>2
<1> QED BY <1>4, <1>5, <1>6, ThreadKeeps

(* ...and from every other thread that leaves.                             *)
LEMMA LeavesKeeps ==
    ASSUME ValidationIInv, NEW p \in Runners, Leaves(p), UNCHANGED <<validation, inFlight>>
    PROVE  ValidationIInv'
<1>1. ValidationTypeOK /\ SlotHeld
  BY DEF ValidationIInv
<1>2. PICK key \in Keys, left \in {Nobody} \cup Acquisitions :
         /\ key = asked[p].key /\ left = Released(p, key)
         /\ slot' = [slot EXCEPT ![key] = left]
  <2>1. asked[p].key \in Keys
    BY <1>1, FreshTyped DEF Leaves
  <2>2. Released(p, asked[p].key) \in {Nobody} \cup Acquisitions
    BY <1>1, <2>1 DEF Released, ValidationTypeOK
  <2> QED BY <2>1, <2>2 DEF Leaves
<1>3. /\ UNCHANGED <<now, run, activities, history, ops>>
      /\ asked' = [asked EXCEPT ![p] = Nobody]
  BY DEF Leaves, streamVars
<1>4. /\ slot' \in [Keys -> {Nobody} \cup Acquisitions]
      /\ asked' \in [Runners -> {Nobody} \cup Requests]
      /\ ops' \in Nat
  BY <1>1, <1>2, <1>3 DEF ValidationTypeOK
<1>5. SlotHeld'
  <2> SUFFICES ASSUME NEW q \in Runners, Fresh(q)'
               PROVE  slot'[asked'[q].key] = Acquired(q, asked'[q].since)
    BY DEF SlotHeld
  <2>1. q # p
    BY <1>1, <1>3 DEF Fresh, ValidationTypeOK
  <2>2. asked'[q] = asked[q]
    BY <1>1, <1>3, <2>1 DEF ValidationTypeOK
  <2>3. Fresh(q)
    BY <1>3, <2>2 DEF Fresh
  <2>4. slot[asked[q].key] = Acquired(q, asked[q].since)
    BY <1>1, <2>3 DEF SlotHeld
  <2>5. asked[q].key \in Keys
    BY <1>1, <2>3, FreshTyped DEF Fresh
  <2>6. asked[q].key = key => left = slot[key]
    BY <1>2, <2>1, <2>4 DEF Released, Acquired
  <2>7. slot'[asked[q].key] = slot[asked[q].key]
    BY <1>1, <1>2, <2>5, <2>6 DEF ValidationTypeOK
  <2> QED BY <2>2, <2>4, <2>7
<1> QED BY <1>3, <1>4, <1>5, ThreadKeeps

-----------------------------------------------------------------------------
(* Runs of the agents. *)

LEMMA ProlongedTyped == Prolonged \in BOOLEAN
BY Zenon DEF Prolonged

LEMMA StartsKeeps ==
    ASSUME ValidationIInv, NEW p \in Runners, NEW force \in BOOLEAN,
           Starts(p, force), UNCHANGED <<validation, inFlight>>
    PROVE  ValidationIInv'
<1>1. ValidationTypeOK /\ SlotHeld
  BY DEF ValidationIInv
<1>2. PICK r \in RunRecords : /\ r.phase = "asking" /\ r.since = now
                              /\ run' = [run EXCEPT ![p] = r]
  <2> DEFINE r == [phase |-> "asking", since |-> now, force |-> force, due |-> FALSE,
                   settled |-> Settled]
  <2>1. r \in RunRecords
    BY <1>1, SettledTyped DEF RunRecords, RunPhases, ValidationTypeOK
  <2>2. run' = [run EXCEPT ![p] = r]
    BY DEF Starts
  <2> QED BY <2>1, <2>2
<1>3. /\ UNCHANGED <<now, slot, activities, history>> /\ (ops' = ops + 1 \/ ops' = ops)
      /\ \/ asked' = asked
         \/ asked[p] # Nobody /\ asked' = [asked EXCEPT ![p].begun = TRUE]
  <2>1. UNCHANGED <<now, slot, activities, history>>
    BY DEF Starts, streamVars
  <2>2. CASE asked[p] = Nobody
    BY <2>1, <2>2 DEF Starts
  <2>3. CASE asked[p] # Nobody
    BY <2>1, <2>3 DEF Starts
  <2> QED BY <2>2, <2>3
<1>4. /\ asked' \in [Runners -> {Nobody} \cup Requests]
      /\ \A q \in Runners : /\ asked'[q] # Nobody => asked[q] # Nobody
                            /\ asked[q] # Nobody => asked'[q].key = asked[q].key
                                                    /\ asked'[q].since = asked[q].since
  <2>1. CASE asked' = asked
    BY <1>1, <2>1 DEF ValidationTypeOK
  <2>2. CASE asked[p] # Nobody /\ asked' = [asked EXCEPT ![p].begun = TRUE]
    <3> DEFINE request == [asked[p] EXCEPT !.begun = TRUE]
    <3>1. /\ request \in Requests
          /\ request.key = asked[p].key /\ request.since = asked[p].since
      BY <1>1, <2>2, FreshTyped DEF Requests
    <3>2. asked' = [asked EXCEPT ![p] = request]
      BY <2>2
    <3> HIDE DEF request
    <3> QED BY <1>1, <2>2, <3>1, <3>2 DEF ValidationTypeOK
  <2> QED BY <1>3, <2>1, <2>2
<1>5. run'[p] = r /\ \A q \in Runners \ {p} : run'[q] = run[q]
  BY <1>1, <1>2 DEF ValidationTypeOK
<1>6. ValidationTypeOK' /\ SlotHeld'
  <2>1. run' \in [Runners -> {Idle} \cup RunRecords]
    BY <1>1, <1>2 DEF ValidationTypeOK
  <2>2. ValidationTypeOK'
    BY <1>1, <1>3, <1>4, <2>1 DEF ValidationTypeOK
  <2>3. SlotHeld'
    BY <1>1, <1>3, <1>4 DEF SlotHeld, Fresh
  <2> QED BY <2>2, <2>3
<1>7. Overwrites(run[p])'
  BY <1>2, <1>5 DEF Overwrites
<1>8. \A v \in Validations : \A x \in validation[v].wrote : Spares(x)
  <2> SUFFICES ASSUME NEW v \in Validations, NEW x \in validation[v].wrote PROVE Spares(x)
    OBVIOUS
  <2> QED BY <1>3 DEF Spares
<1> QED BY <1>3, <1>5, <1>6, <1>7, <1>8, StreamKeeps

(* A run that ends or goes on under the same timestamp; threads and slots  *)
(* stay as they are.                                                       *)
GoesOn(p) ==
    /\ run[p] \in RunRecords
    /\ \A q \in Runners \ {p} : run'[q] = run[q]
    /\ \/ /\ run' \in [Runners -> {Idle} \cup RunRecords]
          /\ run'[p] \in RunRecords /\ run'[p].since = run[p].since
       \/ run' = [run EXCEPT ![p] = Idle]
    /\ slot' = slot /\ asked' = asked

LEMMA SlotGoesOn ==
    ASSUME ValidationIInv, NEW p \in Runners, GoesOn(p), UNCHANGED now
    PROVE  /\ SlotHeld'
           /\ run' \in [Runners -> {Idle} \cup RunRecords]
           /\ slot' \in [Keys -> {Nobody} \cup Acquisitions]
           /\ asked' \in [Runners -> {Nobody} \cup Requests]
<1>1. SlotHeld'
  BY SlotUntouched DEF GoesOn
<1>2. run' \in [Runners -> {Idle} \cup RunRecords]
  BY DEF GoesOn, ValidationIInv, ValidationTypeOK
<1> QED BY <1>1, <1>2 DEF GoesOn, ValidationIInv, ValidationTypeOK

(* A run's write under its timestamp.                                      *)
LEMMA WritesKeeps ==
    ASSUME ValidationIInv, NEW p \in Runners, NEW kind \in {"wait", "alert", "error"}, Writes(p, kind),
           UNCHANGED <<validation, inFlight>>
    PROVE  ValidationIInv'
<1>1. ValidationTypeOK
  BY DEF ValidationIInv
<1>2. run[p] \in RunRecords /\ run[p].since \in Nat /\ run[p].settled \in SUBSET Nat
  BY <1>1, IdleIsIdle DEF ValidationTypeOK, Writes, RunRecords
<1>3. UNCHANGED <<now, ops, slot, asked>>
  BY DEF Writes, slotVars
<1>4. GoesOn(p)
  <2>1. CASE kind = "error"
    BY <1>1, <1>2, <1>3, <2>1 DEF Writes, Ends, GoesOn, ValidationTypeOK
  <2>2. CASE kind # "error"
    <3>1. PICK phase \in RunPhases : run' = [run EXCEPT ![p].phase = phase]
      BY <2>2 DEF Writes, RunPhases
    <3> QED BY <1>1, <1>2, <1>3, <3>1 DEF GoesOn, ValidationTypeOK, RunRecords
  <2> QED BY <2>1, <2>2
<1>5. PICK d \in Stored : activities' = Upserted(run[p].since, d)
  <2>1. Document(kind, FALSE, "none", Agent) \in Stored
    BY DEF Document, Stored, Kinds, ReviewRecords
  <2> QED BY <2>1 DEF Writes
<1>6. PICK e \in Events : history' = Noted(run[p].since, e)
  BY <1>2, EventTyped DEF Writes
<1>7. ValidationTypeOK'
  <2>1. /\ activities' \in [DOMAIN activities' -> Stored] /\ DOMAIN activities' \subseteq Nat
        /\ history' \in [DOMAIN history' -> Events] /\ DOMAIN history' \subseteq Nat
    BY <1>1, <1>2, <1>5, <1>6, UpsertedStored, NotedEvents
  <2>2. /\ run' \in [Runners -> {Idle} \cup RunRecords]
        /\ slot' \in [Keys -> {Nobody} \cup Acquisitions]
        /\ asked' \in [Runners -> {Nobody} \cup Requests]
    BY <1>3, <1>4, SlotGoesOn
  <2> QED BY <1>1, <1>3, <2>1, <2>2 DEF ValidationTypeOK
<1>8. SlotHeld'
  BY <1>3, <1>4, SlotGoesOn
<1>9. /\ DOMAIN history' = DOMAIN history \cup {run[p].since}
      /\ run[p].since \in DOMAIN history => history'[run[p].since].why = "mixed"
      /\ \A x \in DOMAIN history \ {run[p].since} : history'[x] = history[x]
  <2>1. PICK at \in Nat : at = run[p].since
    BY <1>2
  <2>2. PICK new : new = history' /\ new = Noted(at, e)
    BY <1>6, <2>1
  <2>3. /\ DOMAIN new = DOMAIN history \cup {at}
        /\ at \in DOMAIN history => new[at].why = "mixed"
        /\ \A x \in DOMAIN history \ {at} : new[x] = history[x]
    BY ONLY <1>1, <2>2, at \in Nat, e \in Events, NotedEvents
  <2> QED BY <2>1, <2>2, <2>3
<1>a. /\ DOMAIN activities' = DOMAIN activities \cup {run[p].since}
      /\ \A x \in DOMAIN activities \ {run[p].since} : activities'[x] = activities[x]
  <2>1. PICK at \in Nat : at = run[p].since
    BY <1>2
  <2>2. PICK new : new = activities' /\ new = Upserted(at, d)
    BY <1>5, <2>1
  <2>3. /\ DOMAIN new = DOMAIN activities \cup {at}
        /\ \A x \in DOMAIN activities \ {at} : new[x] = activities[x]
    BY <2>2 DEF Upserted
  <2> QED BY <2>1, <2>2, <2>3
<1>10. \A x \in DOMAIN history : history[x].why = "mixed" => history'[x].why = "mixed"
  BY <1>9
<1>11. \A v \in Validations : \A x \in validation[v].wrote : x \in DOMAIN history /\ Spares(x)
  <2> SUFFICES ASSUME NEW v \in Validations, NEW x \in validation[v].wrote
               PROVE  x \in DOMAIN history /\ Spares(x)
    OBVIOUS
  <2>1. x \in DOMAIN history
    BY DEF ValidationIInv, Written
  <2> QED BY <1>9, <1>a, <2>1 DEF Spares
<1>12. Overwrites(run[p])'
  <2>1. run'[p].since = run[p].since \/ run'[p].phase = "idle"
    BY <1>1, <1>4, IdleIsIdle DEF GoesOn, ValidationTypeOK
  <2>2. CASE run'[p].phase = "idle"
    BY <2>2 DEF Overwrites, RunPhases
  <2>3. CASE run'[p].since = run[p].since
    BY <1>9, <1>11, <2>3 DEF Overwrites
  <2> QED BY <2>1, <2>2, <2>3
<1>13. DOMAIN history \subseteq DOMAIN history'
  BY <1>9
<1> QED BY <1>4, <1>7, <1>8, <1>10, <1>11, <1>12, <1>13, StreamKeeps DEF GoesOn

(* Later steps of a run: they keep what is mixed mixed, and change at most *)
(* what is stored under its timestamp.                                     *)
LEMMA LaterKeeps ==
    ASSUME ValidationIInv, NEW p \in Runners, GoesOn(p), run[p].phase \in RunPhases \ {"asking"},
           UNCHANGED <<now, ops, validation, inFlight>>,
           DOMAIN history' = DOMAIN history, history' \in [DOMAIN history -> Events],
           \A x \in DOMAIN history : history'[x].why = "mixed" <=> history[x].why = "mixed",
           DOMAIN activities' \subseteq Nat, activities' \in [DOMAIN activities' -> Stored],
           \/ DOMAIN activities' = DOMAIN activities
                 /\ \A x \in DOMAIN activities : activities'[x].by = activities[x].by
           \/ /\ DOMAIN activities' = DOMAIN activities \cup {run[p].since}
              /\ \A x \in DOMAIN activities \ {run[p].since} : activities'[x] = activities[x]
    PROVE  ValidationIInv'
<1>1. ValidationTypeOK /\ Overwrites(run[p])
  BY DEF ValidationIInv
<1>2. /\ SlotHeld'
      /\ run' \in [Runners -> {Idle} \cup RunRecords]
      /\ slot' \in [Keys -> {Nobody} \cup Acquisitions]
      /\ asked' \in [Runners -> {Nobody} \cup Requests]
  BY SlotGoesOn
<1>3. ValidationTypeOK'
  BY <1>1, <1>2 DEF ValidationTypeOK
<1>4. \A v \in Validations : \A x \in validation[v].wrote : Spares(x)
  <2> SUFFICES ASSUME NEW v \in Validations, NEW x \in validation[v].wrote
               PROVE  Spares(x)
    OBVIOUS
  <2>1. x \in DOMAIN history
    BY DEF ValidationIInv, Written
  <2>2. x = run[p].since => history[x].why = "mixed"
    BY <1>1 DEF Overwrites
  <2> QED BY <2>1, <2>2 DEF Spares
<1>5. Overwrites(run[p])'
  <2>1. run'[p].since = run[p].since \/ run'[p].phase = "idle"
    BY <1>1, IdleIsIdle DEF GoesOn, ValidationTypeOK
  <2>2. CASE run'[p].phase = "idle"
    BY <2>2 DEF Overwrites, RunPhases
  <2>3. CASE run'[p].since = run[p].since
    BY <1>1, <2>3 DEF Overwrites
  <2> QED BY <2>1, <2>2, <2>3
<1> QED BY <1>2, <1>3, <1>4, <1>5, StreamKeeps DEF GoesOn

(* What a decision comes to.                                               *)
LEMMA Decision ==
    ASSUME ValidationTypeOK, NEW p \in Runners, NEW read \in BOOLEAN, Decides(p, read),
           run[p] \in RunRecords, run[p].since \in DOMAIN history
    PROVE  \E due \in BOOLEAN, e \in Events :
              /\ due <=> read /\ Prolonged
              /\ history' = [history EXCEPT ![run[p].since] = e]
              /\ e.settled = history[run[p].since].settled
              /\ e.lost <=> history[run[p].since].lost \/ ~read
              /\ e.why = IF history[run[p].since].why = "mixed" THEN "mixed"
                         ELSE IF due THEN "due" ELSE IF run[p].force THEN "forced" ELSE "none"
              /\ \/ /\ due \/ run[p].force
                    /\ run' = [run EXCEPT ![p].phase = "reviewing", ![p].due = due]
                 \/ ~due /\ ~run[p].force /\ Ends(p)
<1>1. PICK due \in BOOLEAN : due <=> read /\ Prolonged
  BY ProlongedTyped
<1>2. PICK choice \in {"due", "forced", "none"} :
         choice = IF due THEN "due" ELSE IF run[p].force THEN "forced" ELSE "none"
  OBVIOUS
<1> DEFINE old == history[run[p].since]
           lost == old.lost \/ ~read
           e == [old EXCEPT !.why = IF @ = "mixed" THEN @ ELSE choice, !.lost = @ \/ ~read]
<1>3. old \in Events
  BY DEF ValidationTypeOK
<1>4. /\ e \in Events /\ e.settled = old.settled /\ (e.lost <=> old.lost \/ ~read)
      /\ e.why = IF old.why = "mixed" THEN "mixed" ELSE choice
  BY <1>3 DEF Events
<1>5. choice = "none" <=> ~due /\ ~run[p].force
  BY <1>2
<1>6. LET d == read /\ Prolonged
          why == IF d THEN "due" ELSE IF run[p].force THEN "forced" ELSE "none"
      IN  /\ IF why = "none" THEN Ends(p)
             ELSE run' = [run EXCEPT ![p].phase = "reviewing", ![p].due = d]
          /\ history' = [history EXCEPT ![run[p].since].why = IF @ = "mixed" THEN @ ELSE why,
                                        ![run[p].since].lost = @ \/ ~read]
  BY DEF Decides
<1>7. (read /\ Prolonged) = due
  BY <1>1, ProlongedTyped
<1>8. /\ IF choice = "none" THEN Ends(p)
         ELSE run' = [run EXCEPT ![p].phase = "reviewing", ![p].due = due]
      /\ history' = [history EXCEPT ![run[p].since].why = IF @ = "mixed" THEN @ ELSE choice,
                                    ![run[p].since].lost = @ \/ ~read]
  BY <1>2, <1>6, <1>7, Zenon
<1>9. history' = [history EXCEPT ![run[p].since] = e]
  BY <1>8
<1>10. e.why = IF history[run[p].since].why = "mixed" THEN "mixed"
               ELSE IF due THEN "due" ELSE IF run[p].force THEN "forced" ELSE "none"
  BY <1>2, <1>4
<1>11. \/ /\ due \/ run[p].force
          /\ run' = [run EXCEPT ![p].phase = "reviewing", ![p].due = due]
       \/ ~due /\ ~run[p].force /\ Ends(p)
  BY <1>5, <1>8, Zenon
<1> HIDE DEF e, old
<1>12. /\ e.settled = history[run[p].since].settled
       /\ e.lost <=> history[run[p].since].lost \/ ~read
  BY <1>4 DEF old
<1> QED BY <1>1, <1>4, <1>9, <1>10, <1>11, <1>12, Zenon

LEMMA DecidesKeeps ==
    ASSUME ValidationIInv, NEW p \in Runners, NEW read \in BOOLEAN, Decides(p, read),
           UNCHANGED <<validation, inFlight>>
    PROVE  ValidationIInv'
<1>1. ValidationTypeOK /\ Overwrites(run[p]) /\ run[p].phase = "deciding"
  BY DEF ValidationIInv, Decides
<1>2. run[p] \in RunRecords
  BY <1>1, IdleIsIdle DEF ValidationTypeOK
<1>3. UNCHANGED <<now, ops, activities, slot, asked>>
  BY DEF Decides, slotVars
<1>4. run[p].since \in DOMAIN history
  BY <1>1 DEF Overwrites, RunPhases
<1>5. PICK due \in BOOLEAN, e \in Events :
         /\ history' = [history EXCEPT ![run[p].since] = e]
         /\ e.why = IF history[run[p].since].why = "mixed" THEN "mixed"
                    ELSE IF due THEN "due" ELSE IF run[p].force THEN "forced" ELSE "none"
         /\ \/ run' = [run EXCEPT ![p].phase = "reviewing", ![p].due = due]
            \/ Ends(p)
  BY <1>1, <1>2, <1>4, Decision
<1>6. e.why = "mixed" <=> history[run[p].since].why = "mixed"
  BY <1>5
<1>7. /\ DOMAIN history' = DOMAIN history /\ history' \in [DOMAIN history -> Events]
      /\ \A x \in DOMAIN history : history'[x].why = "mixed" <=> history[x].why = "mixed"
  BY <1>1, <1>4, <1>5, <1>6 DEF ValidationTypeOK
<1>8. GoesOn(p)
  <2>1. CASE run' = [run EXCEPT ![p].phase = "reviewing", ![p].due = due]
    BY <1>1, <1>2, <1>3, <2>1 DEF GoesOn, ValidationTypeOK, RunRecords, RunPhases
  <2>2. CASE Ends(p)
    BY <1>1, <1>2, <1>3, <2>2 DEF GoesOn, Ends, ValidationTypeOK
  <2> QED BY <1>5, <2>1, <2>2
<1> QED BY <1>1, <1>3, <1>7, <1>8, LaterKeeps DEF ValidationTypeOK, RunPhases

(* update_activity_field on a document that is there.                      *)
LEMMA UpdatesStored ==
    ASSUME ValidationTypeOK, NEW p \in Runners, Updatable(p),
           \/ Updates(p, "view", TRUE) \/ Updates(p, "run", "due") \/ Updates(p, "run", "forced")
    PROVE  /\ DOMAIN activities' = DOMAIN activities
           /\ activities' \in [DOMAIN activities' -> Stored]
           /\ \A x \in DOMAIN activities : activities'[x].by = activities[x].by
<1>1. PICK d \in Stored : /\ activities' = [activities EXCEPT ![run[p].since] = d]
                          /\ d.by = activities[run[p].since].by
  <2> DEFINE old == activities[run[p].since]
             viewed == [old EXCEPT !.view = TRUE]
             due == [old EXCEPT !.run = "due"]
             forced == [old EXCEPT !.run = "forced"]
  <2>1. old \in Stored
    BY DEF ValidationTypeOK, Updatable
  <2>2. /\ viewed \in Stored /\ viewed.by = old.by
        /\ due \in Stored /\ due.by = old.by
        /\ forced \in Stored /\ forced.by = old.by
    BY <2>1 DEF Stored, ReviewRecords
  <2>3. \/ activities' = [activities EXCEPT ![run[p].since] = viewed]
        \/ activities' = [activities EXCEPT ![run[p].since] = due]
        \/ activities' = [activities EXCEPT ![run[p].since] = forced]
    BY DEF Updates
  <2> HIDE DEF viewed, due, forced
  <2> QED BY <2>2, <2>3
<1> QED BY <1>1 DEF ValidationTypeOK, Updatable

LEMMA ReviewsKeeps ==
    ASSUME ValidationIInv, NEW p \in Runners, NEW stored \in BOOLEAN, Reviews(p, stored),
           UNCHANGED <<validation, inFlight>>
    PROVE  ValidationIInv'
<1>1. ValidationTypeOK /\ run[p].phase \in {"alert", "reviewing"} /\ run[p] \in RunRecords
  BY IdleIsIdle DEF ValidationIInv, Reviews, ValidationTypeOK
<1>2. UNCHANGED <<now, slot, asked, ops, history>>
  BY DEF Reviews, slotVars
<1>3. GoesOn(p)
  <2>1. PICK phase \in RunPhases : run' = [run EXCEPT ![p].phase = phase]
    BY DEF Reviews, RunPhases
  <2> QED BY <1>1, <1>2, <2>1 DEF GoesOn, ValidationTypeOK, RunRecords
<1>4. /\ DOMAIN activities' = DOMAIN activities
      /\ activities' \in [DOMAIN activities' -> Stored]
      /\ \A x \in DOMAIN activities : activities'[x].by = activities[x].by
  <2>1. CASE stored
    BY <1>1, <2>1, UpdatesStored DEF Reviews
  <2>2. CASE ~stored
    BY <1>1, <2>2 DEF Reviews, ValidationTypeOK
  <2> QED BY <2>1, <2>2
<1> QED BY <1>1, <1>2, <1>3, <1>4, LaterKeeps DEF ValidationTypeOK, RunPhases

LEMMA RecordsKeeps ==
    ASSUME ValidationIInv, NEW p \in Runners, NEW stored \in BOOLEAN, Records(p, stored),
           UNCHANGED <<validation, inFlight>>
    PROVE  ValidationIInv'
<1>1. /\ ValidationTypeOK /\ run[p].phase \in {"recording alert", "recording"} /\ run[p] \in RunRecords
      /\ Overwrites(run[p])
  BY IdleIsIdle DEF ValidationIInv, Records, ValidationTypeOK
<1>2. UNCHANGED <<now, ops, slot, asked>> /\ Ends(p)
  BY DEF Records, slotVars
<1>3. GoesOn(p)
  BY <1>1, <1>2 DEF GoesOn, Ends, ValidationTypeOK
<1>4. run[p].since \in DOMAIN history
  BY <1>1 DEF Overwrites, RunPhases
<1>5. CASE stored
  <2>1. Updatable(p) /\ (Updates(p, "run", "due") \/ Updates(p, "run", "forced")) /\ UNCHANGED history
    BY <1>5 DEF Records
  <2>2. /\ DOMAIN activities' = DOMAIN activities
        /\ activities' \in [DOMAIN activities' -> Stored]
        /\ \A x \in DOMAIN activities : activities'[x].by = activities[x].by
    BY <1>1, <2>1, UpdatesStored
  <2> QED BY <1>1, <1>2, <1>3, <2>1, <2>2, LaterKeeps DEF ValidationTypeOK, RunPhases
<1>6. CASE ~stored
  <2>1. UNCHANGED activities /\ history' = [history EXCEPT ![run[p].since].lost = TRUE]
    BY <1>6 DEF Records
  <2>2. PICK e \in Events : /\ history' = [history EXCEPT ![run[p].since] = e]
                            /\ e.why = history[run[p].since].why
    <3> DEFINE old == history[run[p].since]
               new == [old EXCEPT !.lost = TRUE]
    <3>1. old \in Events
      BY <1>1, <1>4 DEF ValidationTypeOK
    <3>2. new \in Events /\ new.why = old.why
      BY <3>1 DEF Events
    <3>3. history' = [history EXCEPT ![run[p].since] = new]
      BY <2>1
    <3> QED BY <3>2, <3>3
  <2>3. /\ DOMAIN history' = DOMAIN history /\ history' \in [DOMAIN history -> Events]
        /\ \A x \in DOMAIN history : history'[x].why = "mixed" <=> history[x].why = "mixed"
    BY <1>1, <1>4, <2>2 DEF ValidationTypeOK
  <2> QED BY <1>1, <1>2, <1>3, <2>1, <2>3, LaterKeeps DEF ValidationTypeOK, RunPhases
<1> QED BY <1>5, <1>6

LEMMA FailsKeeps ==
    ASSUME ValidationIInv, NEW p \in Runners, Fails(p), UNCHANGED <<validation, inFlight>>
    PROVE  ValidationIInv'
<1>1. /\ ValidationTypeOK /\ run[p].phase \in {"alert", "deciding"} /\ run[p] \in RunRecords
      /\ run[p].since \in Nat
  BY IdleIsIdle DEF ValidationIInv, Fails, ValidationTypeOK, RunRecords
<1>2. UNCHANGED <<now, ops, history, slot, asked>> /\ Ends(p)
  BY DEF Fails, slotVars
<1>3. GoesOn(p)
  BY <1>1, <1>2 DEF GoesOn, Ends, ValidationTypeOK
<1>4. PICK d \in Stored : activities' = Upserted(run[p].since, d)
  <2>1. Document("error", FALSE, "none", Agent) \in Stored
    BY DEF Document, Stored, Kinds, ReviewRecords
  <2> QED BY <2>1 DEF Fails
<1>5. /\ activities' \in [DOMAIN activities' -> Stored] /\ DOMAIN activities' \subseteq Nat
      /\ DOMAIN activities' = DOMAIN activities \cup {run[p].since}
      /\ \A x \in DOMAIN activities \ {run[p].since} : activities'[x] = activities[x]
  BY <1>1, <1>4 DEF Upserted, ValidationTypeOK
<1> QED BY <1>1, <1>2, <1>3, <1>5, LaterKeeps DEF ValidationTypeOK, RunPhases

LEMMA RunsKeeps ==
    ASSUME ValidationIInv, NEW p \in Runners, Runs(p), UNCHANGED <<validation, inFlight>>
    PROVE  ValidationIInv'
BY AsksKeeps, LeavesKeeps, StartsKeeps, WritesKeeps, DecidesKeeps, ReviewsKeeps, RecordsKeeps,
   FailsKeeps DEF Runs

-----------------------------------------------------------------------------
(* Users and the clock. *)

LEMMA DeletesKeeps ==
    ASSUME ValidationIInv, NEW at \in Seconds, Deletes(at), UNCHANGED <<validation, inFlight>>
    PROVE  ValidationIInv'
<1>1. ValidationTypeOK
  BY DEF ValidationIInv
<1>2. /\ UNCHANGED <<now, run, slot, asked, history>> /\ ops' = ops + 1
      /\ activities' = [x \in DOMAIN activities \ {at} |-> activities[x]]
  <2>1. (DOMAIN activities \cap (DOMAIN activities \ {at})) = DOMAIN activities \ {at}
    OBVIOUS
  <2> QED BY <2>1 DEF Deletes, Restrict, slotVars
<1>3. ValidationTypeOK'
  BY <1>1, <1>2 DEF ValidationTypeOK
<1>4. SlotHeld'
  BY <1>2, SlotUntouched
<1>5. \A v \in Validations : \A x \in validation[v].wrote : Spares(x)
  <2> SUFFICES ASSUME NEW v \in Validations, NEW x \in validation[v].wrote PROVE Spares(x)
    OBVIOUS
  <2> QED BY <1>2 DEF Spares
<1> QED BY <1>2, <1>3, <1>4, <1>5, StreamKeeps

LEMMA ClonesKeeps ==
    ASSUME ValidationIInv, NEW at \in Seconds, NEW keepView \in BOOLEAN, Clones(at, keepView),
           UNCHANGED <<validation, inFlight>>
    PROVE  ValidationIInv'
<1>1. ValidationTypeOK /\ now \in Nat
  BY DEF ValidationIInv, ValidationTypeOK
<1>2. UNCHANGED <<now, run, slot, asked>> /\ ops' = ops + 1
  BY DEF Clones, slotVars
<1>3. PICK d \in Stored : activities' = Upserted(now, d)
  <2>1. activities[at] \in Stored
    BY <1>1 DEF Clones, ValidationTypeOK
  <2>2. [activities[at] EXCEPT !.kind = IF activities[at].kind = "error" THEN "error" ELSE "alert",
                               !.view = activities[at].view /\ keepView] \in Stored
    BY <2>1 DEF Stored, Kinds
  <2> QED BY <2>2 DEF Clones
<1>4. PICK e \in Events : history' = Noted(now, e)
  BY <1>1, SettledTyped, EventTyped DEF Clones
<1>5. /\ activities' \in [DOMAIN activities' -> Stored] /\ DOMAIN activities' \subseteq Nat
      /\ DOMAIN activities' = DOMAIN activities \cup {now}
      /\ \A x \in DOMAIN activities \ {now} : activities'[x] = activities[x]
  BY <1>1, <1>3 DEF Upserted, ValidationTypeOK
<1>6. /\ DOMAIN history' = DOMAIN history \cup {now}
      /\ history' \in [DOMAIN history' -> Events] /\ DOMAIN history' \subseteq Nat
      /\ now \in DOMAIN history => history'[now].why = "mixed"
      /\ \A x \in DOMAIN history \ {now} : history'[x] = history[x]
  BY <1>1, <1>4, NotedEvents
<1>7. ValidationTypeOK'
  BY <1>1, <1>2, <1>5, <1>6 DEF ValidationTypeOK
<1>8. SlotHeld'
  BY <1>2, SlotUntouched
<1>9. \A v \in Validations : \A x \in validation[v].wrote : Spares(x)
  <2> SUFFICES ASSUME NEW v \in Validations, NEW x \in validation[v].wrote
               PROVE  Spares(x)
    OBVIOUS
  <2>1. x \in DOMAIN history
    BY DEF ValidationIInv, Written
  <2> QED BY <1>5, <1>6, <2>1 DEF Spares
<1> QED BY <1>2, <1>6, <1>7, <1>8, <1>9, StreamKeeps

LEMMA TicksKeeps ==
    ASSUME ValidationIInv, Ticks, UNCHANGED <<validation, inFlight>>
    PROVE  ValidationIInv'
<1>1. ValidationTypeOK /\ SlotHeld
  BY DEF ValidationIInv
<1>2. UNCHANGED <<activities, history, run, slot, asked, ops>> /\ now' = now + 1
  BY DEF Ticks, streamVars, slotVars
<1>3. ValidationTypeOK'
  BY <1>1, <1>2 DEF ValidationTypeOK
<1>4. SlotHeld'
  <2> SUFFICES ASSUME NEW p \in Runners, Fresh(p)'
               PROVE  slot[asked[p].key] = Acquired(p, asked[p].since)
    BY <1>2 DEF SlotHeld
  <2>1. asked[p] # Nobody /\ asked[p].since \in Nat
    BY <1>1, <1>2, FreshTyped DEF Fresh
  <2>2. Fresh(p)
    BY <1>1, <1>2, <2>1, ReviewAssumption DEF Fresh, ValidationTypeOK
  <2> QED BY <1>1, <2>2 DEF SlotHeld
<1>5. \A v \in Validations : \A x \in validation[v].wrote : Spares(x)
  <2> SUFFICES ASSUME NEW v \in Validations, NEW x \in validation[v].wrote PROVE Spares(x)
    OBVIOUS
  <2> QED BY <1>2 DEF Spares
<1> QED BY <1>2, <1>3, <1>4, <1>5, StreamKeeps

-----------------------------------------------------------------------------
(* Validations. *)

(* A step of a validation that writes nothing.                             *)
LEMMA QuietKeeps ==
    ASSUME ValidationIInv, NEW v \in Validations, UNCHANGED <<now, run, slot, asked, activities, history>>,
           ops' \in Nat, validation' \in [Validations -> TaskRecords], inFlight' \subseteq Validations,
           \A u \in Validations \ {v} :
              validation'[u] = validation[u] /\ (u \in inFlight => u \in inFlight'),
           validation'[v].wrote \subseteq validation[v].wrote, Registered(v)'
    PROVE  ValidationIInv'
<1>1. ValidationTypeOK /\ SlotHeld
  BY DEF ValidationIInv
<1>2. ValidationTypeOK'
  BY <1>1 DEF ValidationTypeOK
<1>3. SlotHeld'
  BY SlotUntouched
<1>4. (\A u \in Validations : Written(u) /\ Registered(u))'
  <2> SUFFICES ASSUME NEW u \in Validations PROVE (Written(u) /\ Registered(u))'
    OBVIOUS
  <2>1. Written(u) /\ Registered(u)
    BY DEF ValidationIInv
  <2>2. validation'[u].wrote \subseteq validation[u].wrote
    <3>1. CASE u = v
      BY <3>1
    <3>2. CASE u # v
      BY <3>2
    <3> QED BY <3>1, <3>2
  <2>3. Written(u)'
    BY <2>1, <2>2 DEF Written
  <2>4. Registered(u)'
    <3>1. CASE u = v
      BY <3>1
    <3>2. CASE u # v
      BY <2>1, <3>2 DEF Registered
    <3> QED BY <3>1, <3>2
  <2> QED BY <2>3, <2>4
<1>5. (\A p \in Runners : Overwrites(run[p]))'
  <2> SUFFICES ASSUME NEW p \in Runners PROVE Overwrites(run[p])'
    OBVIOUS
  <2>1. Overwrites(run[p])
    BY DEF ValidationIInv
  <2>2. ASSUME NEW u \in Validations
        PROVE  validation'[u].wrote \subseteq validation[u].wrote
    <3>1. CASE u = v
      BY <3>1
    <3>2. CASE u # v
      BY <3>2
    <3> QED BY <3>1, <3>2
  <2> QED BY <2>1, <2>2 DEF Overwrites
<1> QED BY <1>2, <1>3, <1>4, <1>5 DEF ValidationIInv

(* One that writes an activity of its own.                                 *)
LEMMA StoresKeeps ==
    ASSUME ValidationIInv, NEW v \in Validations, UNCHANGED <<now, run, slot, asked, ops, inFlight>>,
           NEW at \in Nat, NEW d \in Stored, d.by = v, NEW next \in {"persisted", "failing"},
           Stores(v, at, d, next), validation[v].phase \in {"fetching", "judging", "failing"}
    PROVE  ValidationIInv'
<1>1. ValidationTypeOK /\ SlotHeld /\ Written(v) /\ Registered(v)
  BY DEF ValidationIInv
<1>2. PICK new : new = activities' /\ new = Upserted(at, d)
  BY DEF Stores
<1>3. /\ DOMAIN new = DOMAIN activities \cup {at}
      /\ new \in [DOMAIN new -> Stored] /\ DOMAIN new \subseteq Nat
      /\ new[at] = d
      /\ \A x \in DOMAIN activities \ {at} : new[x] = activities[x]
  BY <1>1, <1>2 DEF Upserted, ValidationTypeOK
<1>4. Event({}, "none", FALSE) \in Events
  BY EventTyped
<1>5. PICK e \in Events : history' = Noted(at, e)
  BY <1>4 DEF Stores
<1>6. PICK h : h = history' /\ h = Noted(at, e)
  BY <1>5
<1>7. /\ DOMAIN h = DOMAIN history \cup {at}
      /\ h \in [DOMAIN h -> Events] /\ DOMAIN h \subseteq Nat
      /\ at \in DOMAIN history => h[at].why = "mixed"
      /\ \A x \in DOMAIN history \ {at} : h[x] = history[x]
  BY <1>1, <1>6, NotedEvents
<1>8. /\ validation' \in [Validations -> TaskRecords]
      /\ \A u \in Validations \ {v} : validation'[u] = validation[u]
      /\ validation'[v].phase = next /\ validation'[v].wrote = validation[v].wrote \cup {at}
      /\ validation'[v].lost = validation[v].lost
  <2> DEFINE task == [validation[v] EXCEPT !.phase = next, !.wrote = @ \cup {at}]
  <2>1. validation[v] \in TaskRecords
    BY <1>1 DEF ValidationTypeOK
  <2>2. /\ task \in TaskRecords /\ task.phase = next /\ task.wrote = validation[v].wrote \cup {at}
        /\ task.lost = validation[v].lost
    BY <2>1 DEF TaskRecords
  <2>3. validation' = [validation EXCEPT ![v] = task]
    BY DEF Stores
  <2> HIDE DEF task
  <2> QED BY <1>1, <2>2, <2>3 DEF ValidationTypeOK
<1>9. ValidationTypeOK'
  BY <1>1, <1>2, <1>3, <1>6, <1>7, <1>8 DEF ValidationTypeOK
<1>10. SlotHeld'
  BY SlotUntouched
<1>11. (\A u \in Validations : Written(u) /\ Registered(u))'
  <2> SUFFICES ASSUME NEW u \in Validations PROVE (Written(u) /\ Registered(u))'
    OBVIOUS
  <2>1. Written(u) /\ Registered(u)
    BY DEF ValidationIInv
  <2>2. Written(u)'
    <3> SUFFICES ASSUME NEW x \in validation'[u].wrote
                 PROVE  /\ x \in DOMAIN h
                        /\ h[x].why # "mixed" /\ x \in DOMAIN new => new[x].by = u
      BY <1>2, <1>6 DEF Written
    <3>1. CASE x \in validation[u].wrote
      BY <1>3, <1>7, <2>1, <3>1 DEF Written
    <3>2. CASE x \notin validation[u].wrote
      <4>1. u = v /\ x = at
        BY <1>8, <3>2
      <4> QED BY <1>3, <1>7, <4>1
    <3> QED BY <3>1, <3>2
  <2>3. Registered(u)'
    BY <1>1, <1>8, <2>1 DEF Registered
  <2> QED BY <2>2, <2>3
<1>12. (\A p \in Runners : Overwrites(run[p]))'
  <2> SUFFICES ASSUME NEW p \in Runners, run[p].phase \in RunPhases \ {"asking"}
               PROVE  /\ run[p].since \in DOMAIN h
                      /\ \A u \in Validations :
                            run[p].since \in validation'[u].wrote => h[run[p].since].why = "mixed"
    BY <1>6 DEF Overwrites
  <2>1. Overwrites(run[p])
    BY DEF ValidationIInv
  <2>2. PICK s : s = run[p].since
    OBVIOUS
  <2>3. /\ s \in DOMAIN history
        /\ \A u \in Validations : s \in validation[u].wrote => history[s].why = "mixed"
    BY <2>1, <2>2 DEF Overwrites
  <2>4. s \in DOMAIN h
    BY <1>7, <2>3
  <2>5. ASSUME NEW u \in Validations, s \in validation'[u].wrote
        PROVE  h[s].why = "mixed"
    <3>1. s \in validation[u].wrote \/ s = at
      BY <1>8, <2>5
    <3> QED BY <1>7, <2>3, <3>1
  <2> QED BY <2>2, <2>4, <2>5
<1> QED BY <1>9, <1>10, <1>11, <1>12 DEF ValidationIInv

(* What is stored of a verdict.                                            *)
LEMMA JudgedKind ==
    ASSUME NEW a \in Answers
    PROVE  Judged(a).kind \in {"alert", "wait"} /\ Viewed(a) \in BOOLEAN
<1>1. \A decision, status, sold : Verdict(decision, status, sold).kind \in {"alert", "wait"}
  BY DEF Verdict
<1>2. Incomplete.kind \in {"alert", "wait"} /\ Raised(a).kind \in {"alert", "wait"}
  BY <1>1 DEF Incomplete, Raised
<1>3. Weighed(a).kind \in {"alert", "wait"}
  BY <1>1, <1>2 DEF Weighed
<1>4. Judged(a).kind \in {"alert", "wait"}
  BY <1>1, <1>2, <1>3 DEF Judged
<1>5. Viewed(a) \in BOOLEAN
  BY Zenon DEF Viewed
<1> QED BY <1>4, <1>5

LEMMA OutcomeStored ==
    ASSUME NEW o \in Outcomes, NEW v \in Validations
    PROVE  DocumentOf(v, o) \in Stored /\ DocumentOf(v, o).by = v
<1>1. PICK a \in Answers :
         o = [kind |-> IF Judged(a).status = "error" /\ Judged(a).kind = "wait" THEN "error"
                       ELSE Judged(a).kind,
              view |-> Viewed(a)]
  BY DEF Outcomes
<1>2. o.kind \in Kinds /\ o.view \in BOOLEAN
  BY <1>1, JudgedKind DEF Kinds
<1> QED BY <1>2 DEF DocumentOf, Document, Stored, ReviewRecords

LEMMA ErrorStored ==
    ASSUME NEW v \in Validations
    PROVE  ErrorOf(v) \in Stored /\ ErrorOf(v).by = v
BY DEF ErrorOf, Document, Stored, Kinds, ReviewRecords

LEMMA AcceptsKeeps == ASSUME ValidationIInv, NEW v \in Validations, Accepts(v) PROVE ValidationIInv'
<1>1. ValidationTypeOK
  BY DEF ValidationIInv
<1>2. UNCHANGED <<now, run, slot, asked, activities, history>> /\ ops' = ops + 1
  BY DEF Accepts, streamVars, slotVars
<1>3. Task("fetching", now) \in TaskRecords /\ Task("fetching", now).wrote = {}
      /\ Task("fetching", now).phase = "fetching"
  BY <1>1 DEF ValidationTypeOK, Task, TaskRecords
<1>4. validation' = [validation EXCEPT ![v] = Task("fetching", now)] /\ inFlight' = inFlight \cup {v}
  BY DEF Accepts
<1>5. Registered(v)'
  BY <1>1, <1>3, <1>4 DEF ValidationTypeOK, Registered
<1> QED BY <1>1, <1>2, <1>3, <1>4, <1>5, QuietKeeps DEF ValidationTypeOK

LEMMA FetchesKeeps == ASSUME ValidationIInv, NEW v \in Validations, Fetches(v) PROVE ValidationIInv'
<1>1. ValidationTypeOK /\ Registered(v)
  BY DEF ValidationIInv
<1>2. UNCHANGED <<now, run, slot, asked, activities, history, ops, inFlight>>
  BY DEF Fetches, streamVars, reviewVars, slotVars
<1>3. Task("judging", now) \in TaskRecords /\ Task("judging", now).wrote = {}
      /\ Task("judging", now).phase = "judging"
  BY <1>1 DEF ValidationTypeOK, Task, TaskRecords
<1>4. validation[v].phase = "fetching" /\ validation' = [validation EXCEPT ![v] = Task("judging", now)]
  BY DEF Fetches
<1>5. Registered(v)'
  BY <1>1, <1>2, <1>3, <1>4 DEF ValidationTypeOK, Registered
<1> QED BY <1>1, <1>2, <1>3, <1>4, <1>5, QuietKeeps DEF ValidationTypeOK

LEMMA StoringKeeps ==
    ASSUME ValidationIInv, NEW v \in Validations, UNCHANGED <<reviewVars, inFlight>>,
           NEW next \in {"persisted", "failing"},
           \/ /\ validation[v].phase \in {"fetching", "failing"}
              /\ Stores(v, now, ErrorOf(v), next)
           \/ /\ validation[v].phase = "judging"
              /\ \E o \in Outcomes : Stores(v, validation[v].at, DocumentOf(v, o), next)
    PROVE  ValidationIInv'
<1>1. ValidationTypeOK /\ UNCHANGED <<now, run, slot, asked, ops, inFlight>>
  BY DEF ValidationIInv, reviewVars, slotVars
<1>2. now \in Nat /\ validation[v].at \in Nat
  BY <1>1 DEF ValidationTypeOK, TaskRecords
<1>3. CASE validation[v].phase \in {"fetching", "failing"} /\ Stores(v, now, ErrorOf(v), next)
  BY <1>1, <1>2, <1>3, ErrorStored, StoresKeeps
<1>4. ASSUME validation[v].phase = "judging", NEW o \in Outcomes,
             Stores(v, validation[v].at, DocumentOf(v, o), next)
      PROVE  ValidationIInv'
  BY <1>1, <1>2, <1>4, OutcomeStored, StoresKeeps
<1> QED BY <1>3, <1>4

LEMMA PersistsKeeps == ASSUME ValidationIInv, NEW v \in Validations, Persists(v) PROVE ValidationIInv'
BY StoringKeeps DEF Persists

LEMMA PersistRaisesKeeps == ASSUME ValidationIInv, NEW v \in Validations, PersistRaises(v) PROVE ValidationIInv'
<1>1. ValidationTypeOK /\ Registered(v)
  BY DEF ValidationIInv
<1>2. CASE \E o \in Outcomes : /\ validation[v].phase = "judging"
                               /\ Stores(v, validation[v].at, DocumentOf(v, o), "failing")
  BY <1>2, StoringKeeps DEF PersistRaises
<1>3. CASE /\ validation[v].phase \in {"fetching", "judging"}
           /\ validation' = [validation EXCEPT ![v].phase = "failing"]
           /\ UNCHANGED streamVars
  <2>1. UNCHANGED <<now, run, slot, asked, activities, history, ops, inFlight>>
    BY <1>3 DEF PersistRaises, streamVars, reviewVars, slotVars
  <2>2. validation[v] \in TaskRecords
    BY <1>1 DEF ValidationTypeOK
  <2>3. /\ validation' \in [Validations -> TaskRecords]
        /\ \A u \in Validations \ {v} : validation'[u] = validation[u]
        /\ validation'[v].phase = "failing" /\ validation'[v].wrote = validation[v].wrote
    BY <1>1, <1>3, <2>2 DEF ValidationTypeOK, TaskRecords
  <2>4. Registered(v)'
    BY <1>1, <1>3, <2>1, <2>3 DEF Registered
  <2> QED BY <1>1, <2>1, <2>3, <2>4, QuietKeeps DEF ValidationTypeOK
<1> QED BY <1>2, <1>3 DEF PersistRaises

LEMMA PersistsErrorKeeps == ASSUME ValidationIInv, NEW v \in Validations, PersistsError(v) PROVE ValidationIInv'
<1>1. ValidationTypeOK /\ validation[v].phase = "failing"
  BY DEF ValidationIInv, PersistsError
<1>2. CASE Stores(v, now, ErrorOf(v), "persisted")
  BY <1>1, <1>2, StoringKeeps DEF PersistsError
<1>3. CASE /\ validation' = [validation EXCEPT ![v].phase = "persisted", ![v].lost = TRUE]
           /\ UNCHANGED streamVars
  <2>1. UNCHANGED <<now, run, slot, asked, activities, history, ops, inFlight>>
    BY <1>3 DEF PersistsError, streamVars, reviewVars, slotVars
  <2> DEFINE task == [validation[v] EXCEPT !.phase = "persisted", !.lost = TRUE]
  <2>2. validation[v] \in TaskRecords
    BY <1>1 DEF ValidationTypeOK
  <2>3. task \in TaskRecords /\ task.phase = "persisted" /\ task.lost /\ task.wrote = validation[v].wrote
    BY <2>2 DEF TaskRecords
  <2>4. validation' = [validation EXCEPT ![v] = task]
    BY <1>3
  <2> HIDE DEF task
  <2>5. /\ validation' \in [Validations -> TaskRecords]
        /\ \A u \in Validations \ {v} : validation'[u] = validation[u]
        /\ validation'[v] = task
    BY <1>1, <2>3, <2>4 DEF ValidationTypeOK
  <2>6. Registered(v)'
    BY <2>3, <2>5 DEF Registered
  <2>7. validation'[v].wrote \subseteq validation[v].wrote
    BY <2>3, <2>5
  <2>8. ops' \in Nat /\ inFlight' \subseteq Validations
    BY <1>1, <2>1 DEF ValidationTypeOK
  <2> QED BY <2>1, <2>5, <2>6, <2>7, <2>8, QuietKeeps
<1> QED BY <1>2, <1>3 DEF PersistsError

LEMMA PopsKeeps == ASSUME ValidationIInv, NEW v \in Validations, Pops(v) PROVE ValidationIInv'
<1>1. ValidationTypeOK /\ Registered(v) /\ validation[v].phase = "persisted"
  BY DEF ValidationIInv, Pops
<1>2. UNCHANGED <<now, run, slot, asked, activities, history, ops, validation>>
  BY DEF Pops, streamVars, reviewVars, slotVars
<1>3. inFlight' = inFlight \ {v}
  BY DEF Pops
<1>4. Registered(v)'
  BY <1>1, <1>2 DEF Registered
<1> QED BY <1>1, <1>2, <1>3, <1>4, QuietKeeps DEF ValidationTypeOK

LEMMA OneEntry ==
    ASSUME NEW S, NEW e \in S
    PROVE  DOMAIN <<e>> = 1..1 /\ <<e>> \in [1..1 -> S]
OBVIOUS

LEMMA InitHolds == ValidationInit => ValidationIInv
<1> SUFFICES ASSUME ValidationInit PROVE ValidationIInv
  OBVIOUS
<1>1. Task("none", 0) \in TaskRecords /\ Task("none", 0).wrote = {} /\ Task("none", 0).phase = "none"
  BY DEF Task, TaskRecords
<1>2. Document("wait", FALSE, "none", Agent) \in Stored /\ Event({}, "none", FALSE) \in Events
  BY EventTyped DEF Document, Stored, Kinds, ReviewRecords
<1>3. ValidationTypeOK
  <2>1. now \in Nat /\ ops \in Nat
    BY DEF ValidationInit, InitReviews
  <2>2. /\ run \in [Runners -> {Idle} \cup RunRecords]
          /\ slot \in [Keys -> {Nobody} \cup Acquisitions]
          /\ asked \in [Runners -> {Nobody} \cup Requests]
    BY DEF ValidationInit, InitReviews
  <2>3. validation \in [Validations -> TaskRecords] /\ inFlight \subseteq Validations
    BY <1>1 DEF ValidationInit
  <2>4. DOMAIN activities = 1..1 /\ activities \in [1..1 -> Stored]
    <3>1. activities = <<Document("wait", FALSE, "none", Agent)>>
      BY DEF ValidationInit, InitReviews
    <3> QED BY ONLY <1>2, <3>1, OneEntry
  <2>5. DOMAIN history = 1..1 /\ history \in [1..1 -> Events]
    <3>1. history = <<Event({}, "none", FALSE)>>
      BY DEF ValidationInit, InitReviews
    <3> QED BY ONLY <1>2, <3>1, OneEntry
  <2> QED BY <2>1, <2>2, <2>3, <2>4, <2>5 DEF ValidationTypeOK
<1>4. \A p \in Runners : run[p].phase = "idle"
  BY IdleIsIdle DEF ValidationInit, InitReviews
<1>5. SlotHeld
  BY DEF ValidationInit, InitReviews, SlotHeld, Fresh
<1>6. \A v \in Validations : Written(v) /\ Registered(v)
  BY <1>1 DEF ValidationInit, Written, Registered
<1>7. \A p \in Runners : Overwrites(run[p])
  BY <1>4 DEF Overwrites, RunPhases
<1> QED BY <1>3, <1>5, <1>6, <1>7 DEF ValidationIInv

LEMMA StepHolds == ValidationIInv /\ [ValidationNext]_validationVars => ValidationIInv'
<1> SUFFICES ASSUME ValidationIInv, [ValidationNext]_validationVars PROVE ValidationIInv'
  OBVIOUS
<1>1. CASE NextReviews /\ UNCHANGED <<validation, inFlight>>
  BY <1>1, TicksKeeps, DeletesKeeps, ClonesKeeps, RunsKeeps DEF NextReviews, Users
<1>2. CASE \E v \in Validations : Validates(v)
  BY <1>2, AcceptsKeeps, FetchesKeeps, PersistsKeeps, PersistRaisesKeeps, PersistsErrorKeeps,
     PopsKeeps DEF Validates
<1>3. CASE UNCHANGED validationVars
  <2>1. UNCHANGED <<now, ops, run, slot, asked, activities, history, validation, inFlight>>
    BY <1>3 DEF validationVars, streamVars, reviewVars, slotVars
  <2>2. ValidationTypeOK' /\ SlotHeld'
    BY <2>1 DEF ValidationIInv, ValidationTypeOK, SlotHeld, Fresh
  <2>3. (\A v \in Validations : Written(v) /\ Registered(v))'
    BY <2>1 DEF ValidationIInv, Written, Registered
  <2>4. (\A p \in Runners : Overwrites(run[p]))'
    BY <2>1 DEF ValidationIInv, Overwrites
  <2> QED BY <2>2, <2>3, <2>4 DEF ValidationIInv
<1> QED BY <1>1, <1>2, <1>3 DEF ValidationNext

LEMMA Invariant == ValidationSpec => []ValidationIInv
BY InitHolds, StepHolds, PTL DEF ValidationSpec

-----------------------------------------------------------------------------
(* Every variable keeps its type, whatever runs, users and validations do. *)
THEOREM ValidationsTyped == ValidationSpec => []ValidationTypeOK
BY Invariant, PTL DEF ValidationIInv

(* _acquire_trigger_slot and _release_trigger_slot: two threads of the     *)
(* dashboard for one key are never both younger than a stale slot.         *)
THEOREM RunsAreApart == ValidationSpec => []OneFreshRun
<1>1. ASSUME ValidationIInv, NEW key \in Keys
      PROVE  Cardinality({p \in Runners : /\ asked[p] # Nobody /\ asked[p].key = key
                                          /\ now - asked[p].since < SlotAge}) <= 1
  <2> DEFINE F == {p \in Runners : /\ asked[p] # Nobody /\ asked[p].key = key
                                   /\ now - asked[p].since < SlotAge}
  <2>1. \A p \in F : slot[key] = Acquired(p, asked[p].since)
    BY <1>1 DEF ValidationIInv, SlotHeld, Fresh
  <2>2. \A p, q \in F : p = q
    <3> HIDE DEF F
    <3>1. ASSUME NEW p \in F PROVE slot[key].owner = p
      <4>1. PICK since : slot[key] = [owner |-> p, since |-> since]
        BY <2>1, Zenon DEF Acquired
      <4> QED BY <4>1
    <3> QED BY <3>1
  <2>3. F = {} \/ \E p : F = {p}
    BY <2>2
  <2> HIDE DEF F
  <2>4. ASSUME F = {} PROVE Cardinality(F) <= 1
    <3>1. Cardinality(F) = 0
      BY <2>4, FS_EmptySet
    <3> QED BY <3>1
  <2>5. ASSUME NEW p, F = {p} PROVE Cardinality(F) <= 1
    <3>1. Cardinality(F) = 1
      BY <2>5, FS_Singleton
    <3> QED BY <3>1
  <2>6. Cardinality(F) <= 1
    BY <2>3, <2>4, <2>5
  <2> QED BY <2>6 DEF F
<1>2. ValidationIInv => OneFreshRun
  BY <1>1 DEF OneFreshRun
<1> QED BY Invariant, <1>2, PTL

(* get_validation_status: whoever polls a validation that was accepted is  *)
(* told of it, before and after its last write.                            *)
LEMMA ValidationsAreKnown == ValidationIInv => NeverUnknown
<1> SUFFICES ASSUME ValidationIInv, NEW v \in Validations,
                    validation[v].phase # "none", ~validation[v].lost,
                    validation[v].wrote = {} \/ \E at \in validation[v].wrote :
                       at \in DOMAIN activities /\ history[at].why # "mixed"
             PROVE  StatusOf(v) # "not_found"
  BY DEF NeverUnknown
<1>1. Written(v) /\ Registered(v) /\ validation[v] \in TaskRecords
  BY DEF ValidationIInv, ValidationTypeOK
<1>2. CASE v \in inFlight
  BY <1>2 DEF StatusOf
<1>3. CASE v \notin inFlight
  <2>1. validation[v].phase = "persisted"
    BY <1>1, <1>3 DEF Registered, TaskRecords
  <2>2. PICK at \in validation[v].wrote : at \in DOMAIN activities /\ history[at].why # "mixed"
    BY <1>1, <2>1 DEF Registered
  <2>3. activities[at].by = v
    BY <1>1, <2>2 DEF Written
  <2> QED BY <1>3, <2>2, <2>3 DEF StatusOf
<1> QED BY <1>2, <1>3

(* run_contract_validation, for any answers: no sale is approved without   *)
(* the supervisor, without Alpha, or of two parameters at once; an alert   *)
(* that nobody approved has the primary's SELL and a null behind it.       *)
LEMMA NothingIsUnbacked == Unbacked = {}
<1> SUFFICES ASSUME NEW a \in Answers, Judged(a).kind = "alert"
             PROVE  \/ Backed(a, Judged(a))
                    \/ a.primary = "SELL" /\ HasNull(a) /\ Judged(a).status = "error"
  BY Zenon DEF Unbacked
<1>1. /\ Verdict("WAIT", "error", "nothing").kind # "alert"
      /\ Verdict("WAIT", "approved", "nothing").kind # "alert"
      /\ Incomplete.kind # "alert"
  BY DEF Verdict, Incomplete
<1>2. CASE Judged(a) = Raised(a) /\ HasNull(a)
  BY <1>2 DEF Raised, Verdict
<1>3. CASE ~(Judged(a) = Raised(a) /\ HasNull(a))
  <2>1. Judged(a) = Weighed(a) /\ a.supervisor \notin {"none", "null", "reconsider"}
        /\ a.alpha.strength # "none"
    BY <1>1, <1>3 DEF Judged, HasNull
  <2>2. a.supervisor = "holds"
    BY <2>1 DEF Answers, SupervisorViews
  <2>3. CASE Finds(a) /\ ValidAlternative(a.alpha.alternative)
    <3>1. Judged(a) = Verdict("SELL", "approved", "alternative")
      BY <1>1, <2>1, <2>3 DEF Weighed
    <3>2. Judged(a).sold = "alternative" /\ Judged(a).status = "approved"
      BY <3>1 DEF Verdict
    <3>3. a.alpha.alternative.changes \in SUBSET {"strike", "expiration"}
      BY DEF Answers, AlphaViews, Alternatives
    <3>4. \/ a.alpha.alternative.changes = {} \/ a.alpha.alternative.changes = {"strike"}
          \/ a.alpha.alternative.changes = {"expiration"}
      BY <2>3, <3>3 DEF ValidAlternative
    <3>5. Cardinality({"strike"}) = 1 /\ Cardinality({"expiration"}) = 1
      BY FS_Singleton
    <3> QED BY <2>1, <2>2, <2>3, <3>2, <3>4, <3>5 DEF ValidAlternative, Backed
  <2>4. CASE ~(Finds(a) /\ ValidAlternative(a.alpha.alternative))
    <3>1. a.primary = "SELL" /\ Judged(a) = Verdict("SELL", "approved", "requested")
      BY <1>1, <1>3, <2>1, <2>4 DEF Weighed, HasNull
    <3>2. Judged(a).sold = "requested" /\ Judged(a).status = "approved"
      BY <3>1 DEF Verdict
    <3> QED BY <2>1, <2>2, <3>1, <3>2 DEF Backed
  <2> QED BY <2>3, <2>4
<1> QED BY <1>2, <1>3

(* A validation that was accepted is never unknown to who polls it, and    *)
(* approves only what the three agents stand behind.                       *)
THEOREM ValidationsAreSound == ValidationSpec => []ValidationsSound
<1>1. ValidationIInv => ValidationsSound
  BY ValidationsAreKnown, NothingIsUnbacked DEF ValidationsSound, FailsClosed
<1> QED BY Invariant, <1>1, PTL

-----------------------------------------------------------------------------
(* Reviews come when they are due. *)

AtWork(p, x) == run[p].phase \in RunPhases /\ run[p].since = x

(* A run that has written under its timestamp and goes on there.           *)
Going(p, x) == AtWork(p, x) /\ run[p].phase # "asking"

Over(x) == \A p \in Runners : ~AtWork(p, x)

Mixed(x) == history[x].why = "mixed"

StreamDated ==
    /\ DOMAIN activities \subseteq DOMAIN history
    /\ \A x \in DOMAIN history : x <= now
    /\ \A p \in Runners : run[p].phase \in RunPhases => run[p].since <= now
    /\ \A v \in Validations : validation[v].at <= now

(* Nobody will write again, but for validations, what was settled when     *)
(* something later began.                                                  *)
SettledStays ==
    /\ \A x \in DOMAIN history : \A i \in history[x].settled :
          i \in DOMAIN history /\ i < x /\ Over(i)
    /\ \A p \in Runners : run[p].phase \in RunPhases =>
          \A i \in run[p].settled :
             i \in DOMAIN history /\ i <= run[p].since /\ (i < run[p].since => Over(i))

(* Two runs that write under one timestamp are mixed up.                   *)
ApartAt(x) == \A p, q \in Runners : p # q /\ Going(p, x) /\ Going(q, x) => Mixed(x)

(* What a run knows of the activity it goes on with.                       *)
Owns(p, x) ==
    LET r == run[p] IN
    /\ x \in DOMAIN activities =>
          /\ activities[x].run = "none"
          /\ activities[x].kind = IF r.phase \in {"alert", "recording alert"} THEN "alert" ELSE "wait"
          /\ r.phase \in {"alert", "deciding", "reviewing"} => ~activities[x].view
    /\ history[x].why = IF r.phase \notin {"reviewing", "recording"} THEN "none"
                        ELSE IF r.due THEN "due" ELSE "forced"
    /\ r.phase \in {"reviewing", "recording"} => r.due \/ r.force

(* What is stored of an activity nobody goes on with: a review that was    *)
(* due does not pass for a forced one, nor a forced one for due, unless    *)
(* its record is lost.                                                     *)
Honest(x) ==
    /\ history[x].why = "due" => activities[x].run # "forced"
    /\ activities[x].kind = "wait" /\ activities[x].by = Agent /\ activities[x].view =>
          /\ history[x].why \in {"due", "forced"}
          /\ history[x].why = "forced" /\ ~history[x].lost => activities[x].run = "forced"

HonestAt(x) ==
    ~Mixed(x) =>
        /\ \A p \in Runners : Going(p, x) => Owns(p, x)
        /\ x \in DOMAIN activities /\ (\A p \in Runners : ~Going(p, x)) => Honest(x)

(* CooldownKept, of the review of j.                                       *)
Later(i, j) == {k \in DOMAIN history : k > i /\ j \notin history[k].settled}

Counts(i) ==
    /\ i \in DOMAIN activities /\ activities[i].view
    /\ history[i].why = "due" \/ (activities[i].kind = "alert" /\ ~Mixed(i))

CoolAt(j) ==
    history[j].why = "due" =>
        \A i \in history[j].settled : Counts(i) => Cardinality(Later(i, j)) >= Cooldown

Waited(x) == x \in DOMAIN activities /\ activities[x].kind = "wait" /\ activities[x].by = Agent

Excused(x) == history[x].why \in {"due", "mixed"} \/ history[x].lost

Undecided(x) == \E p \in Runners : run[p].phase \in {"asking", "deciding"} /\ run[p].since = x

(* The WAITs S that end with m, as the run of m saw them.                  *)
InARow(S, m) ==
    /\ S \subseteq DOMAIN history /\ m \in S
    /\ \A i \in S \ {m} : i < m /\ i \in history[m].settled
    /\ \A x \in DOMAIN history \ S : (\A i \in S : x < i) \/ m \in history[x].settled
    /\ \A i \in S : Waited(i)

AttendedAt(m) ==
    ~Undecided(m) =>
        \A S \in kSubset(Threshold, DOMAIN history) : InARow(S, m) => \E i \in S : Excused(i)

ReviewedAt(x) == ApartAt(x) /\ HonestAt(x) /\ CoolAt(x) /\ AttendedAt(x)

ReviewIInv == StreamDated /\ SettledStays /\ \A x \in DOMAIN history : ReviewedAt(x)

-----------------------------------------------------------------------------
(* A step that touches what is stored and noted at one timestamp, and the  *)
(* runs at work there.                                                     *)
Moves(at) ==
    /\ now' = now /\ at <= now
    /\ \A v \in Validations : validation'[v].at <= now
    /\ DOMAIN history' = DOMAIN history \cup {at}
    /\ \A x \in DOMAIN history \ {at} : history'[x] = history[x]
    /\ DOMAIN activities' \subseteq DOMAIN activities \cup {at}
    /\ DOMAIN activities \subseteq DOMAIN activities' \cup {at}
    /\ \A x \in DOMAIN activities \ {at} : activities'[x] = activities[x]
    /\ at \in DOMAIN history =>
          history'[at].settled = {} \/ history'[at].settled = history[at].settled
    /\ at \notin DOMAIN history =>
          \A i \in history'[at].settled : i \in DOMAIN history /\ i < at /\ Over(i)
    /\ \A p \in Runners :
          \/ run'[p] = run[p]
          \/ /\ AtWork(p, at)
             /\ \/ run'[p].phase = "idle"
                \/ /\ run'[p].phase \in RunPhases
                   /\ run'[p].since = at /\ run'[p].settled = run[p].settled
    (* What is over is mixed up by who writes there again, or deleted.     *)
    /\ at \in DOMAIN history /\ Over(at) =>
          /\ ~Waited(at)'
          /\ at \notin DOMAIN activities' \/ Mixed(at)'

LEMMA OverStays ==
    ASSUME NEW at, Moves(at), NEW x, Over(x)
    PROVE  Over(x)'
<1> SUFFICES ASSUME NEW p \in Runners, AtWork(p, x)' PROVE FALSE
  BY DEF Over
<1>1. ~AtWork(p, x)
  BY DEF Over
<1>2. run'[p].phase # "idle"
  BY DEF AtWork, RunPhases
<1> QED BY <1>1, <1>2 DEF Moves, AtWork

LEMMA SettledMoves ==
    ASSUME NEW at, Moves(at), StreamDated, SettledStays
    PROVE  StreamDated' /\ SettledStays'
<1>1. StreamDated'
  <2>1. \A p \in Runners : run'[p].phase \in RunPhases => run'[p].since <= now
    BY DEF Moves, StreamDated, RunPhases
  <2> QED BY <2>1 DEF Moves, StreamDated
<1>2. ASSUME NEW x \in DOMAIN history', NEW i \in history'[x].settled
      PROVE  i \in DOMAIN history' /\ i < x /\ Over(i)'
  <2>1. i \in DOMAIN history /\ i < x /\ Over(i)
    <3>1. CASE x = at /\ at \notin DOMAIN history
      BY <1>2, <3>1 DEF Moves
    <3>2. CASE x # at \/ at \in DOMAIN history
      <4>1. x \in DOMAIN history /\ i \in history[x].settled
        BY <1>2, <3>2 DEF Moves
      <4> QED BY <4>1 DEF SettledStays
    <3> QED BY <3>1, <3>2
  <2> QED BY <2>1, OverStays DEF Moves
<1>3. ASSUME NEW p \in Runners, run'[p].phase \in RunPhases, NEW i \in run'[p].settled
      PROVE  i \in DOMAIN history' /\ i <= run'[p].since /\ (i < run'[p].since => Over(i)')
  <2>1. run[p].phase \in RunPhases /\ run'[p].since = run[p].since /\ run'[p].settled = run[p].settled
    BY <1>3 DEF Moves, AtWork, RunPhases
  <2>2. i \in DOMAIN history /\ i <= run[p].since /\ (i < run[p].since => Over(i))
    BY <1>3, <2>1 DEF SettledStays
  <2> QED BY <2>1, <2>2, OverStays DEF Moves
<1> QED BY <1>1, <1>2, <1>3 DEF SettledStays

(* The history is finite, and what comes later only grows.                 *)
LEMMA DatedFinite ==
    ASSUME NEW T \in SUBSET Nat, NEW n \in Nat, \A x \in T : x <= n
    PROVE  IsFiniteSet(T)
<1>1. T \in SUBSET (0 .. n)
  OBVIOUS
<1>2. IsFiniteSet(0 .. n)
  BY FS_Interval
<1> QED BY <1>1, <1>2, FS_Subset

LEMMA LaterGrows ==
    ASSUME NEW at, Moves(at), ValidationTypeOK', StreamDated', NEW j, NEW i
    PROVE  Cardinality(Later(i, j)) <= Cardinality(Later(i, j)')
<1>1. Later(i, j) \subseteq Later(i, j)'
  BY DEF Moves, Later
<1>2. IsFiniteSet(DOMAIN history')
  BY DatedFinite DEF ValidationTypeOK, StreamDated
<1>3. IsFiniteSet(Later(i, j)')
  <2>1. Later(i, j)' \in SUBSET DOMAIN history'
    BY DEF Later
  <2> QED BY <1>2, <2>1, FS_Subset
<1> QED BY <1>1, <1>3, FS_Subset

(* A review that was due before stays one that did not come too early.     *)
LEMMA CoolMoves ==
    ASSUME NEW at \in Nat, Moves(at), ReviewIInv, ValidationTypeOK, ValidationTypeOK',
           NEW j \in DOMAIN history, history'[j].why = "due" => history[j].why = "due"
    PROVE  CoolAt(j)'
<1> SUFFICES ASSUME history'[j].why = "due", NEW i \in history'[j].settled, Counts(i)'
             PROVE  Cardinality(Later(i, j)') >= Cooldown
  BY DEF CoolAt
<1>1. StreamDated /\ SettledStays /\ StreamDated' /\ CoolAt(j)
  BY SettledMoves DEF ReviewIInv, ReviewedAt
<1>2. i \in history[j].settled
  BY DEF Moves
<1>3. i \in DOMAIN history /\ Over(i)
  BY <1>1, <1>2 DEF SettledStays
<1>4. i # at
  <2> SUFFICES ASSUME i = at PROVE FALSE
    OBVIOUS
  <2> QED BY <1>3 DEF Moves, Counts, Mixed
<1>5. Counts(i)
  BY <1>3, <1>4 DEF Moves, Counts, Mixed
<1>6. Cardinality(Later(i, j)) >= Cooldown
  BY <1>1, <1>2, <1>5 DEF CoolAt
<1>7. Cardinality(Later(i, j)) <= Cardinality(Later(i, j)')
  BY <1>1, LaterGrows
<1>8. Cardinality(Later(i, j)) \in Nat /\ Cardinality(Later(i, j)') \in Nat
  <2>1. IsFiniteSet(DOMAIN history) /\ IsFiniteSet(DOMAIN history')
    BY <1>1, DatedFinite DEF ValidationTypeOK, StreamDated
  <2>2. Later(i, j) \in SUBSET DOMAIN history /\ Later(i, j)' \in SUBSET DOMAIN history'
    BY DEF Later
  <2> QED BY <2>1, <2>2, FS_Subset, FS_CardinalityType
<1> QED BY <1>6, <1>7, <1>8, ReviewAssumption

(* WAITs in a row that had their review still have it.                     *)
LEMMA AttendedMoves ==
    ASSUME NEW at \in Nat, Moves(at), ReviewIInv,
           NEW m \in DOMAIN history,
           Undecided(m) => Undecided(m)',
           Waited(m)' => Waited(m),
           Excused(m) => Excused(m)'
    PROVE  AttendedAt(m)'
<1> SUFFICES ASSUME ~Undecided(m)', NEW S \in kSubset(Threshold, DOMAIN history'), InARow(S, m)'
             PROVE  \E i \in S : Excused(i)'
  BY DEF AttendedAt
<1>1. SettledStays /\ AttendedAt(m)
  BY DEF ReviewIInv, ReviewedAt
<1>2. /\ history'[m].settled \subseteq history[m].settled
      /\ \A x \in DOMAIN history : history'[x].settled \subseteq history[x].settled
  BY DEF Moves
<1>3. \A i \in S \ {m} : i < m /\ i \in history[m].settled
  BY <1>2 DEF InARow
<1>4. \A i \in S \ {m} : i \in DOMAIN history /\ i # at
  <2> SUFFICES ASSUME NEW i \in S \ {m} PROVE i \in DOMAIN history /\ i # at
    OBVIOUS
  <2>1. i \in DOMAIN history /\ Over(i)
    BY <1>1, <1>3 DEF SettledStays
  <2>2. Waited(i)'
    BY DEF InARow
  <2> QED BY <2>1, <2>2 DEF Moves
<1>5. \A i \in S \ {m} : Waited(i)
  <2> SUFFICES ASSUME NEW i \in S \ {m} PROVE Waited(i)
    OBVIOUS
  <2>1. Waited(i)'
    BY DEF InARow
  <2> QED BY <1>4, <2>1 DEF Moves, Waited
<1>6. InARow(S, m)
  <2>1. m \in S /\ Waited(m)
    BY DEF InARow
  <2>2. \A x \in DOMAIN history \ S : (\A i \in S : x < i) \/ m \in history[x].settled
    <3>1. \A x \in DOMAIN history \ S : x \in DOMAIN history' \ S
      BY DEF Moves
    <3> QED BY <1>2, <3>1 DEF InARow
  <2> QED BY <1>3, <1>4, <1>5, <2>1, <2>2 DEF InARow
<1>7. S \in kSubset(Threshold, DOMAIN history)
  BY <1>6 DEF InARow, kSubset
<1>8. PICK i \in S : Excused(i)
  BY <1>1, <1>6, <1>7 DEF AttendedAt
<1>9. CASE i = m
  BY <1>8, <1>9
<1>10. CASE i # m
  BY <1>4, <1>8, <1>10 DEF Moves, Excused
<1> QED BY <1>9, <1>10

(* What is not touched is as it was.                                       *)
LEMMA OthersKept ==
    ASSUME NEW at \in Nat, Moves(at), ReviewIInv, ValidationTypeOK, ValidationTypeOK',
           NEW x \in DOMAIN history \ {at}
    PROVE  ReviewedAt(x)'
<1>1. StreamDated /\ SettledStays /\ ReviewedAt(x)
  BY DEF ReviewIInv
<1>2. \A p \in Runners : Going(p, x)' => run'[p] = run[p] /\ Going(p, x)
  BY DEF Moves, Going, AtWork, RunPhases
<1>3. \A p \in Runners : Going(p, x) => Going(p, x)'
  BY DEF Moves, Going, AtWork
<1>4. history'[x] = history[x] /\ (x \in DOMAIN activities' <=> x \in DOMAIN activities)
      /\ (x \in DOMAIN activities => activities'[x] = activities[x])
  BY DEF Moves
<1>5. ApartAt(x)'
  BY <1>1, <1>2, <1>4 DEF ReviewedAt, ApartAt, Mixed
<1>6. HonestAt(x)'
  <2>1. HonestAt(x)
    BY <1>1 DEF ReviewedAt
  <2>2. ASSUME NEW p \in Runners, ~Mixed(x), Going(p, x)' PROVE Owns(p, x)'
    BY <1>2, <1>4, <2>1, <2>2 DEF HonestAt, Owns
  <2>3. ASSUME ~Mixed(x), x \in DOMAIN activities, \A p \in Runners : ~Going(p, x)' PROVE Honest(x)'
    BY <1>3, <1>4, <2>1, <2>3 DEF HonestAt, Honest
  <2> QED BY <1>4, <2>2, <2>3 DEF HonestAt, Mixed
<1>7. CoolAt(x)'
  BY <1>4, CoolMoves
<1>8. AttendedAt(x)'
  <2>1. Undecided(x) => Undecided(x)'
    BY DEF Moves, Undecided, AtWork
  <2>2. (Waited(x)' => Waited(x)) /\ (Excused(x) => Excused(x)')
    BY <1>4 DEF Waited, Excused
  <2> QED BY <2>1, <2>2, AttendedMoves
<1> QED BY <1>5, <1>6, <1>7, <1>8 DEF ReviewedAt

LEMMA MovesKeep ==
    ASSUME NEW at \in Nat, Moves(at), ReviewIInv, ValidationTypeOK, ValidationTypeOK', ReviewedAt(at)'
    PROVE  ReviewIInv'
<1>1. StreamDated' /\ SettledStays'
  BY SettledMoves DEF ReviewIInv
<1>2. \A x \in DOMAIN history' \ {at} : ReviewedAt(x)'
  BY OthersKept DEF Moves
<1> QED BY <1>1, <1>2 DEF ReviewIInv

(* What is noted of a timestamp: new, or mixed up.                         *)
LEMMA NotedAt ==
    ASSUME ValidationTypeOK, NEW at \in Nat, NEW settled \in SUBSET Nat,
           history' = Noted(at, Event(settled, "none", FALSE))
    PROVE  /\ DOMAIN history' = DOMAIN history \cup {at}
           /\ \A x \in DOMAIN history \ {at} : history'[x] = history[x]
           /\ at \in DOMAIN history => history'[at].why = "mixed" /\ history'[at].settled = {}
           /\ at \notin DOMAIN history =>
                 /\ history'[at].why = "none" /\ history'[at].settled = settled
                 /\ ~history'[at].lost
<1>1. ASSUME NEW e, NEW new, new = [x \in DOMAIN history \cup {at} |-> IF x = at THEN e ELSE history[x]]
      PROVE  /\ DOMAIN new = DOMAIN history \cup {at} /\ new[at] = e
             /\ \A x \in DOMAIN history \ {at} : new[x] = history[x]
  BY <1>1
<1>2. PICK new : new = history'
  OBVIOUS
<1>3. PICK e \in Events : /\ e = Event(settled, "none", FALSE)
                         /\ e.settled = settled /\ e.why = "none" /\ ~e.lost
  BY EventTyped DEF Event
<1>4. CASE at \in DOMAIN history
  <2>1. PICK n : /\ n = [e EXCEPT !.settled = {}, !.why = "mixed"]
                 /\ n.why = "mixed" /\ n.settled = {}
    <3>1. /\ [e EXCEPT !.settled = {}, !.why = "mixed"].why = "mixed"
          /\ [e EXCEPT !.settled = {}, !.why = "mixed"].settled = {}
      BY DEF Events
    <3> QED BY <3>1, Zenon
  <2>2. new = [x \in DOMAIN history \cup {at} |-> IF x = at THEN n ELSE history[x]]
    BY <1>2, <1>3, <1>4, <2>1 DEF Noted
  <2>3. /\ DOMAIN new = DOMAIN history \cup {at} /\ new[at] = n
        /\ \A x \in DOMAIN history \ {at} : new[x] = history[x]
    BY <1>1, <2>2
  <2> QED BY <1>2, <1>4, <2>1, <2>3
<1>5. CASE at \notin DOMAIN history
  <2>1. new = [x \in DOMAIN history \cup {at} |-> IF x = at THEN e ELSE history[x]]
    BY <1>2, <1>3, <1>5 DEF Noted
  <2> QED BY <1>1, <1>2, <1>3, <1>5, <2>1
<1> QED BY <1>4, <1>5

(* Who goes on under a timestamp has written there.                        *)
LEMMA GoingNoted ==
    ASSUME ValidationIInv, NEW p \in Runners, NEW x, Going(p, x)
    PROVE  x \in DOMAIN history
<1>1. Overwrites(run[p])
  BY DEF ValidationIInv
<1> QED BY <1>1 DEF Going, AtWork, Overwrites

-----------------------------------------------------------------------------
(* Users, validations and the clock. *)

LEMMA DeletesReviewed ==
    ASSUME ValidationIInv, ValidationIInv', ReviewIInv, NEW at \in Seconds, Deletes(at),
           UNCHANGED <<validation, inFlight>>
    PROVE  ReviewIInv'
<1>1. ValidationTypeOK /\ ValidationTypeOK' /\ StreamDated /\ SettledStays
  BY DEF ValidationIInv, ReviewIInv
<1>2. /\ UNCHANGED <<now, run, history, validation>>
      /\ activities' = [x \in DOMAIN activities \ {at} |-> activities[x]]
      /\ at \in DOMAIN activities
  <2>1. (DOMAIN activities \cap (DOMAIN activities \ {at})) = DOMAIN activities \ {at}
    OBVIOUS
  <2> QED BY <2>1 DEF Deletes, Restrict
<1>3. at \in DOMAIN history /\ at <= now /\ at \in Nat
  BY <1>1, <1>2 DEF StreamDated, ValidationTypeOK
<1>4. Moves(at)
  <2>1. ~Waited(at)' /\ at \notin DOMAIN activities'
    BY <1>2 DEF Waited
  <2> QED BY <1>1, <1>2, <1>3, <2>1 DEF Moves, StreamDated
<1>5. ReviewedAt(at)
  BY <1>3 DEF ReviewIInv
<1>6. ApartAt(at)'
  BY <1>2, <1>5 DEF ReviewedAt, ApartAt, Going, AtWork, Mixed
<1>7. HonestAt(at)'
  <2>1. at \notin DOMAIN activities'
    BY <1>2
  <2>2. ASSUME NEW p \in Runners, Going(p, at)', ~Mixed(at)' PROVE Owns(p, at)'
    <3>1. Owns(p, at)
      BY <1>2, <1>5, <2>2 DEF ReviewedAt, HonestAt, Going, AtWork, Mixed
    <3> QED BY <1>2, <2>1, <3>1 DEF Owns
  <2> QED BY <2>1, <2>2 DEF HonestAt
<1>8. CoolAt(at)'
  BY <1>1, <1>2, <1>3, <1>4, CoolMoves
<1>9. AttendedAt(at)'
  <2>1. ~Waited(at)'
    BY <1>2 DEF Waited
  <2>2. Excused(at) => Excused(at)'
    BY <1>2 DEF Excused
  <2>3. Undecided(at) => Undecided(at)'
    BY <1>2 DEF Undecided
  <2> QED BY <1>3, <1>4, <2>1, <2>2, <2>3, AttendedMoves
<1> QED BY <1>1, <1>3, <1>4, <1>6, <1>7, <1>8, <1>9, MovesKeep DEF ReviewedAt

(* Who is no run stores what is no WAIT of the agent's: under a timestamp  *)
(* of its own, or mixed up with what was there.                            *)
LEMMA StrangerReviewed ==
    ASSUME ValidationIInv, ValidationIInv', ReviewIInv, NEW at \in Nat, at <= now,
           NEW settled \in SUBSET Nat, NEW d,
           \A i \in settled : at \notin DOMAIN history => i \in DOMAIN history /\ i < at /\ Over(i),
           activities' = Upserted(at, d), d.kind # "wait" \/ d.by # Agent,
           history' = Noted(at, Event(settled, "none", FALSE)),
           now' = now, run' = run, \A v \in Validations : validation'[v].at <= now
    PROVE  ReviewIInv'
<1>1. ValidationTypeOK /\ ValidationTypeOK' /\ StreamDated /\ SettledStays
  BY DEF ValidationIInv, ReviewIInv
<1>2. /\ DOMAIN activities' = DOMAIN activities \cup {at} /\ activities'[at] = d
      /\ \A x \in DOMAIN activities \ {at} : activities'[x] = activities[x]
  BY DEF Upserted
<1>3. /\ DOMAIN history' = DOMAIN history \cup {at}
      /\ \A x \in DOMAIN history \ {at} : history'[x] = history[x]
      /\ at \in DOMAIN history => history'[at].why = "mixed" /\ history'[at].settled = {}
      /\ at \notin DOMAIN history => history'[at].why = "none" /\ history'[at].settled = settled
  BY <1>1, NotedAt
<1>4. ~Waited(at)'
  BY <1>2 DEF Waited
<1>5. Moves(at)
  BY <1>2, <1>3, <1>4 DEF Moves, Mixed
<1>6. ASSUME NEW p \in Runners, Going(p, at)' PROVE Mixed(at)'
  <2>1. Going(p, at)
    BY <1>6 DEF Going, AtWork
  <2> QED BY <1>3, <2>1, GoingNoted DEF Mixed
<1>7. ApartAt(at)'
  BY <1>6 DEF ApartAt
<1>8. HonestAt(at)'
  <2>1. history'[at].why # "due"
    BY <1>3
  <2> QED BY <1>2, <1>6, <2>1 DEF HonestAt, Honest
<1>9. CoolAt(at)'
  BY <1>3 DEF CoolAt
<1>10. AttendedAt(at)'
  <2> SUFFICES ASSUME NEW S, InARow(S, at)' PROVE FALSE
    BY DEF AttendedAt
  <2> QED BY <1>4 DEF InARow
<1> QED BY <1>1, <1>5, <1>7, <1>8, <1>9, <1>10, MovesKeep DEF ReviewedAt

LEMMA ClonesReviewed ==
    ASSUME ValidationIInv, ValidationIInv', ReviewIInv, NEW at \in Seconds, NEW keepView \in BOOLEAN,
           Clones(at, keepView), UNCHANGED <<validation, inFlight>>
    PROVE  ReviewIInv'
<1>1. ValidationTypeOK /\ StreamDated /\ SettledStays
  BY DEF ValidationIInv, ReviewIInv
<1>2. PICK d : activities' = Upserted(now, d) /\ d.kind # "wait"
  <2> DEFINE d == [activities[at] EXCEPT
                     !.kind = IF activities[at].kind = "error" THEN "error" ELSE "alert",
                     !.view = activities[at].view /\ keepView]
  <2>1. activities[at] \in Stored
    BY <1>1 DEF Clones, ValidationTypeOK
  <2>2. d.kind # "wait"
    BY <2>1 DEF Stored
  <2>3. activities' = Upserted(now, d)
    BY DEF Clones
  <2> QED BY <2>2, <2>3
<1>3. history' = Noted(now, Event(Settled, "none", FALSE)) /\ now' = now /\ run' = run
  BY DEF Clones
<1>4. \A i \in Settled : now \notin DOMAIN history => i \in DOMAIN history /\ i < now /\ Over(i)
  <2> SUFFICES ASSUME NEW i \in Settled, now \notin DOMAIN history
               PROVE  i \in DOMAIN history /\ i < now /\ Over(i)
    OBVIOUS
  <2>1. i \in DOMAIN history /\ i <= now /\ i # now /\ i \in Nat /\ now \in Nat
    BY <1>1 DEF Settled, StreamDated, ValidationTypeOK
  <2>2. Over(i)
    <3> SUFFICES ASSUME NEW p \in Runners, AtWork(p, i) PROVE FALSE
      BY DEF Over
    <3>1. run[p] # Idle
      BY IdleIsIdle DEF AtWork, RunPhases
    <3> QED BY <3>1 DEF Settled, AtWork
  <2> QED BY <2>1, <2>2
<1>5. Settled \in SUBSET Nat /\ now \in Nat /\ now <= now
  BY <1>1, SettledTyped DEF ValidationTypeOK
<1>6. \A v \in Validations : validation'[v].at <= now
  BY <1>1 DEF StreamDated
<1> QED BY <1>2, <1>3, <1>4, <1>5, <1>6, StrangerReviewed DEF ValidationTypeOK

LEMMA StoresReviewed ==
    ASSUME ValidationIInv, ValidationIInv', ReviewIInv, NEW v \in Validations,
           NEW at \in Nat, at <= now, NEW d \in Stored, d.by = v, NEW next,
           Stores(v, at, d, next), UNCHANGED reviewVars
    PROVE  ReviewIInv'
<1>1. /\ now' = now /\ run' = run /\ activities' = Upserted(at, d)
      /\ history' = Noted(at, Event({}, "none", FALSE))
      /\ validation' = [validation EXCEPT ![v].phase = next, ![v].wrote = @ \cup {at}]
  BY DEF Stores, reviewVars
<1>2. \A u \in Validations : validation'[u].at <= now
  <2>1. \A u \in Validations : validation'[u].at = validation[u].at
    BY <1>1 DEF ValidationIInv, ValidationTypeOK, TaskRecords
  <2> QED BY <2>1 DEF ReviewIInv, StreamDated
<1>3. d.by # Agent
  BY ValidationAssumption
<1>4. PICK none \in SUBSET Nat : none = {}
  OBVIOUS
<1>5. \A i \in none : at \notin DOMAIN history => i \in DOMAIN history /\ i < at /\ Over(i)
  BY <1>4
<1> QED BY <1>1, <1>2, <1>3, <1>4, <1>5, StrangerReviewed

(* A step that touches neither the stream nor the runs.                    *)
LEMMA QuietReviewed ==
    ASSUME ReviewIInv, ValidationTypeOK, now' \in Nat, now <= now', UNCHANGED <<streamVars, run>>,
           \A v \in Validations : validation'[v].at <= now'
    PROVE  ReviewIInv'
<1>1. UNCHANGED <<activities, history, run>> /\ StreamDated /\ SettledStays
  BY DEF streamVars, ReviewIInv
<1>2. StreamDated'
  <2>1. \A x \in DOMAIN history : x <= now'
    BY <1>1 DEF StreamDated, ValidationTypeOK
  <2>2. \A p \in Runners : run[p].phase \in RunPhases => run[p].since <= now'
    <3> SUFFICES ASSUME NEW p \in Runners, run[p].phase \in RunPhases PROVE run[p].since <= now'
      OBVIOUS
    <3>1. run[p].since \in Nat
      BY IdleIsIdle DEF ValidationTypeOK, RunRecords, RunPhases
    <3> QED BY <1>1, <3>1 DEF StreamDated, ValidationTypeOK
  <2> QED BY <1>1, <2>1, <2>2 DEF StreamDated
<1>3. SettledStays'
  BY <1>1 DEF SettledStays, Over, AtWork
<1>4. ASSUME NEW x \in DOMAIN history PROVE ReviewedAt(x)'
  <2>1. ReviewedAt(x)
    BY <1>4 DEF ReviewIInv
  <2>2. ApartAt(x)'
    BY <1>1, <2>1 DEF ReviewedAt, ApartAt, Going, AtWork, Mixed
  <2>3. HonestAt(x)'
    BY <1>1, <2>1 DEF ReviewedAt, HonestAt, Honest, Owns, Going, AtWork, Mixed
  <2>4. CoolAt(x)'
    BY <1>1, <2>1 DEF ReviewedAt, CoolAt, Counts, Later, Mixed
  <2>5. AttendedAt(x)'
    BY <1>1, <2>1 DEF ReviewedAt, AttendedAt, InARow, Waited, Excused, Undecided
  <2> QED BY <2>2, <2>3, <2>4, <2>5 DEF ReviewedAt
<1> QED BY <1>1, <1>2, <1>3, <1>4 DEF ReviewIInv

LEMMA ValidatesReviewed ==
    ASSUME ValidationIInv, ValidationIInv', ReviewIInv, NEW v \in Validations, Validates(v)
    PROVE  ReviewIInv'
<1>1. ValidationTypeOK /\ now \in Nat /\ StreamDated /\ \A u \in Validations : validation[u].at <= now
  BY DEF ValidationIInv, ValidationTypeOK, ReviewIInv, StreamDated
<1>2. CASE /\ UNCHANGED reviewVars
           /\ \E next : \/ Stores(v, now, ErrorOf(v), next)
                        \/ \E o \in Outcomes : Stores(v, validation[v].at, DocumentOf(v, o), next)
  <2>1. ASSUME NEW next, Stores(v, now, ErrorOf(v), next) PROVE ReviewIInv'
    <3>1. ErrorOf(v) \in Stored /\ ErrorOf(v).by = v
      BY ErrorStored
    <3>2. PICK d \in Stored : d = ErrorOf(v) /\ d.by = v
      BY <3>1
    <3> QED BY <1>1, <1>2, <2>1, <3>2, StoresReviewed
  <2>2. ASSUME NEW next, NEW o \in Outcomes, Stores(v, validation[v].at, DocumentOf(v, o), next)
        PROVE  ReviewIInv'
    <3>1. validation[v].at \in Nat /\ validation[v].at <= now
      BY <1>1 DEF ValidationTypeOK, TaskRecords
    <3>2. DocumentOf(v, o) \in Stored /\ DocumentOf(v, o).by = v
      BY OutcomeStored
    <3>3. PICK d \in Stored : d = DocumentOf(v, o) /\ d.by = v
      BY <3>2
    <3>4. PICK at \in Nat : at = validation[v].at /\ at <= now
      BY <3>1
    <3> QED BY <1>2, <2>2, <3>3, <3>4, StoresReviewed
  <2> QED BY <1>2, <2>1, <2>2
<1>3. CASE /\ UNCHANGED <<streamVars, run, now>>
           /\ \A u \in Validations : validation'[u].at \in {validation[u].at, now}
  BY <1>1, <1>3, QuietReviewed
<1>4. CASE Accepts(v)
  BY <1>1, <1>3, <1>4 DEF Accepts, Task, ValidationTypeOK
<1>5. CASE Fetches(v)
  BY <1>1, <1>3, <1>5 DEF Fetches, Task, ValidationTypeOK, reviewVars
<1>6. CASE Persists(v)
  BY <1>2, <1>6 DEF Persists
<1>7. CASE PersistRaises(v)
  <2>1. CASE /\ validation' = [validation EXCEPT ![v].phase = "failing"] /\ UNCHANGED streamVars
    BY <1>1, <1>3, <1>7, <2>1 DEF PersistRaises, ValidationTypeOK, TaskRecords, reviewVars
  <2> QED BY <1>2, <1>7, <2>1 DEF PersistRaises
<1>8. CASE PersistsError(v)
  <2>1. CASE /\ validation' = [validation EXCEPT ![v].phase = "persisted", ![v].lost = TRUE]
             /\ UNCHANGED streamVars
    BY <1>1, <1>3, <1>8, <2>1 DEF PersistsError, ValidationTypeOK, TaskRecords, reviewVars
  <2> QED BY <1>2, <1>8, <2>1 DEF PersistsError
<1>9. CASE Pops(v)
  BY <1>3, <1>9 DEF Pops, reviewVars
<1> QED BY <1>4, <1>5, <1>6, <1>7, <1>8, <1>9 DEF Validates

LEMMA TicksReviewed ==
    ASSUME ValidationIInv, ReviewIInv, Ticks, UNCHANGED <<validation, inFlight>>
    PROVE  ReviewIInv'
<1>1. ValidationTypeOK /\ now \in Nat /\ \A v \in Validations : validation[v].at <= now
  BY DEF ValidationIInv, ValidationTypeOK, ReviewIInv, StreamDated
<1>2. now' = now + 1 /\ UNCHANGED <<streamVars, run>>
  BY DEF Ticks
<1>3. ASSUME NEW v \in Validations PROVE validation'[v].at <= now'
  <2>1. validation[v].at \in Nat
    BY <1>1 DEF ValidationTypeOK, TaskRecords
  <2> QED BY <1>1, <1>2, <2>1
<1> QED BY <1>1, <1>2, <1>3, QuietReviewed

-----------------------------------------------------------------------------
(* Runs of the agents. *)

(* A run starts: what it takes for settled is over, and stays so, since    *)
(* only what comes now can be written to again.                            *)
LEMMA StartsReviewed ==
    ASSUME ValidationIInv, ReviewIInv, NEW p \in Runners, NEW force \in BOOLEAN,
           Starts(p, force), UNCHANGED <<validation, inFlight>>
    PROVE  ReviewIInv'
<1>1. ValidationTypeOK /\ StreamDated /\ SettledStays
  BY DEF ValidationIInv, ReviewIInv
<1>2. /\ now' = now /\ activities' = activities /\ history' = history /\ validation' = validation
      /\ run[p] = Idle
      /\ run' = [run EXCEPT ![p] = [phase |-> "asking", since |-> now, force |-> force,
                                    due |-> FALSE, settled |-> Settled]]
  BY DEF Starts, streamVars
<1>3. /\ run'[p].phase = "asking" /\ run'[p].since = now /\ run'[p].settled = Settled
      /\ \A q \in Runners \ {p} : run'[q] = run[q]
  BY <1>1, <1>2 DEF ValidationTypeOK
<1>4. \A x : ~AtWork(p, x)
  BY <1>2, IdleIsIdle DEF AtWork, RunPhases
<1>5. \A x : x # now /\ Over(x) => Over(x)'
  BY <1>3 DEF Over, AtWork
<1>6. ASSUME NEW i \in Settled PROVE i \in DOMAIN history /\ i <= now /\ i # now => Over(i)
  <2> SUFFICES ASSUME NEW q \in Runners, AtWork(q, i) PROVE FALSE
    BY DEF Over
  <2>1. run[q] # Idle
    BY IdleIsIdle DEF AtWork, RunPhases
  <2> QED BY <2>1 DEF Settled, AtWork
<1>7. StreamDated'
  <2>1. \A q \in Runners : run'[q].phase \in RunPhases => run'[q].since <= now
    <3>1. now <= now
      BY <1>1 DEF ValidationTypeOK
    <3> QED BY <1>1, <1>3, <3>1 DEF StreamDated
  <2> QED BY <1>1, <1>2, <2>1 DEF StreamDated
<1>8. SettledStays'
  <2>1. ASSUME NEW x \in DOMAIN history, NEW i \in history[x].settled
        PROVE  i \in DOMAIN history /\ i < x /\ Over(i)'
    <3>1. i \in DOMAIN history /\ i < x /\ Over(i) /\ x <= now
      BY <1>1, <2>1 DEF SettledStays, StreamDated
    <3>2. i # now
      BY <1>1, <3>1 DEF ValidationTypeOK
    <3> QED BY <1>5, <3>1, <3>2
  <2>2. ASSUME NEW q \in Runners, run'[q].phase \in RunPhases, NEW i \in run'[q].settled
        PROVE  i \in DOMAIN history /\ i <= run'[q].since /\ (i < run'[q].since => Over(i)')
    <3>1. CASE q = p
      <4>1. i \in DOMAIN history /\ i <= now /\ i \in Nat /\ now \in Nat
        BY <1>1, <1>3, <2>2, <3>1 DEF Settled, StreamDated, ValidationTypeOK
      <4>2. i < now => i # now
        BY <4>1
      <4>3. i < now => Over(i)'
        BY <1>3, <1>5, <1>6, <2>2, <3>1, <4>1, <4>2
      <4> QED BY <1>3, <3>1, <4>1, <4>3
    <3>2. CASE q # p
      <4>1. run'[q] = run[q] /\ run[q].phase \in RunPhases
        BY <1>3, <2>2, <3>2
      <4>2. /\ i \in DOMAIN history /\ i <= run[q].since /\ (i < run[q].since => Over(i))
            /\ run[q].since <= now
        BY <1>1, <2>2, <4>1 DEF SettledStays, StreamDated
      <4>3. i \in Nat /\ run[q].since \in Nat /\ now \in Nat
        BY <1>1, <4>1, <4>2, IdleIsIdle DEF ValidationTypeOK, RunRecords, RunPhases
      <4>4. i < run[q].since => i # now
        BY <4>2, <4>3
      <4> QED BY <1>5, <4>1, <4>2, <4>4
    <3> QED BY <3>1, <3>2
  <2> QED BY <1>2, <2>1, <2>2 DEF SettledStays
<1>9. ASSUME NEW x \in DOMAIN history PROVE ReviewedAt(x)'
  <2>1. ReviewedAt(x)
    BY <1>9 DEF ReviewIInv
  <2>2. \A q \in Runners : (Going(q, x)' <=> Going(q, x)) /\ (Going(q, x) => run'[q] = run[q])
    BY <1>3, <1>4 DEF Going, AtWork
  <2>3. ApartAt(x)'
    BY <1>2, <2>1, <2>2 DEF ReviewedAt, ApartAt, Mixed
  <2>4. HonestAt(x)'
    BY <1>2, <2>1, <2>2 DEF ReviewedAt, HonestAt, Honest, Owns, Mixed
  <2>5. CoolAt(x)'
    BY <1>2, <2>1 DEF ReviewedAt, CoolAt, Counts, Later, Mixed
  <2>6. AttendedAt(x)'
    <3>1. Undecided(x) => Undecided(x)'
      BY <1>2, <1>3, IdleIsIdle DEF Undecided
    <3> QED BY <1>2, <2>1, <3>1 DEF ReviewedAt, AttendedAt, InARow, Waited, Excused
  <2> QED BY <2>3, <2>4, <2>5, <2>6 DEF ReviewedAt
<1> QED BY <1>2, <1>7, <1>8, <1>9 DEF ReviewIInv

(* A step of the run p under its timestamp at.                             *)
RunMoves(p, at) ==
    /\ AtWork(p, at)
    /\ now' = now /\ validation' = validation
    /\ DOMAIN history' = DOMAIN history \cup {at}
    /\ \A x \in DOMAIN history \ {at} : history'[x] = history[x]
    /\ DOMAIN activities' = DOMAIN activities \cup {at} \/ DOMAIN activities' = DOMAIN activities
    /\ \A x \in DOMAIN activities \ {at} : activities'[x] = activities[x]
    /\ at \in DOMAIN history =>
          history'[at].settled = {} \/ history'[at].settled = history[at].settled
    /\ at \notin DOMAIN history => history'[at].settled = run[p].settled
    /\ \A q \in Runners \ {p} : run'[q] = run[q]
    /\ \/ run'[p].phase = "idle"
       \/ run'[p].phase \in RunPhases /\ run'[p].since = at /\ run'[p].settled = run[p].settled

LEMMA RunMovesThere ==
    ASSUME ReviewIInv, ValidationTypeOK, NEW p \in Runners, NEW at \in Nat, RunMoves(p, at)
    PROVE  Moves(at)
<1>1. StreamDated /\ SettledStays
  BY DEF ReviewIInv
<1>2. ~Over(at)
  BY DEF Over, RunMoves
<1>3. at <= now
  BY <1>1 DEF StreamDated, RunMoves, AtWork
<1>4. \A v \in Validations : validation'[v].at <= now
  BY <1>1 DEF StreamDated, RunMoves
<1>5. ASSUME at \notin DOMAIN history, NEW i \in run[p].settled
      PROVE  i \in DOMAIN history /\ i < at /\ Over(i)
  <2>1. i \in DOMAIN history /\ i <= at /\ (i < at => Over(i))
    BY <1>1, <1>5 DEF SettledStays, RunMoves, AtWork
  <2>2. i \in Nat /\ i # at
    BY <1>5, <2>1 DEF ValidationTypeOK
  <2> QED BY <2>1, <2>2
<1>6. ASSUME NEW q \in Runners
      PROVE  \/ run'[q] = run[q]
             \/ /\ AtWork(q, at)
                /\ \/ run'[q].phase = "idle"
                   \/ /\ run'[q].phase \in RunPhases
                      /\ run'[q].since = at /\ run'[q].settled = run[q].settled
  BY DEF RunMoves
<1> QED BY <1>2, <1>3, <1>4, <1>5, <1>6 DEF Moves, RunMoves

(* The write of a run under its timestamp.                                 *)
LEMMA WritesReviewed ==
    ASSUME ValidationIInv, ValidationIInv', ReviewIInv, NEW p \in Runners,
           NEW kind \in {"wait", "alert", "error"}, Writes(p, kind), UNCHANGED <<validation, inFlight>>
    PROVE  ReviewIInv'
<1>1. ValidationTypeOK /\ ValidationTypeOK' /\ StreamDated /\ SettledStays
  BY DEF ValidationIInv, ReviewIInv
<1>2. run[p] \in RunRecords /\ run[p].phase = "asking"
  BY <1>1, IdleIsIdle DEF ValidationTypeOK, Writes
<1>3. PICK at \in Nat : at = run[p].since
  BY <1>2 DEF RunRecords
<1>4. PICK settled \in SUBSET Nat : settled = run[p].settled
  BY <1>2 DEF RunRecords
<1>5. now' = now /\ validation' = validation
  BY DEF Writes
<1>6. /\ DOMAIN activities' = DOMAIN activities \cup {at}
      /\ activities'[at] = Document(kind, FALSE, "none", Agent)
      /\ \A x \in DOMAIN activities \ {at} : activities'[x] = activities[x]
  <2>1. activities' = Upserted(at, Document(kind, FALSE, "none", Agent))
    BY <1>3 DEF Writes
  <2> QED BY <2>1 DEF Upserted
<1>7. /\ DOMAIN history' = DOMAIN history \cup {at}
      /\ \A x \in DOMAIN history \ {at} : history'[x] = history[x]
      /\ at \in DOMAIN history => history'[at].why = "mixed" /\ history'[at].settled = {}
      /\ at \notin DOMAIN history =>
            history'[at].why = "none" /\ history'[at].settled = settled
  <2>1. history' = Noted(at, Event(settled, "none", FALSE))
    BY <1>3, <1>4 DEF Writes
  <2> QED BY <1>1, <2>1, NotedAt
<1>8. /\ \A q \in Runners \ {p} : run'[q] = run[q]
      /\ \/ kind = "error" /\ run'[p].phase = "idle"
         \/ /\ kind # "error" /\ run'[p].since = at /\ run'[p].settled = settled
            /\ run'[p].phase = IF kind = "alert" THEN "alert" ELSE "deciding"
  <2>1. CASE kind = "error"
    <3>1. run' = [run EXCEPT ![p] = Idle]
      BY <2>1 DEF Writes, Ends
    <3> QED BY <1>1, <2>1, <3>1, IdleIsIdle DEF ValidationTypeOK
  <2>2. CASE kind # "error"
    <3>1. run' = [run EXCEPT ![p].phase = IF kind = "alert" THEN "alert" ELSE "deciding"]
      BY <2>2 DEF Writes
    <3>2. run' = [run EXCEPT ![p] = [run[p] EXCEPT !.phase = IF kind = "alert" THEN "alert" ELSE "deciding"]]
      BY <3>1
    <3>3. /\ [run[p] EXCEPT !.phase = IF kind = "alert" THEN "alert" ELSE "deciding"].since = at
          /\ [run[p] EXCEPT !.phase = IF kind = "alert" THEN "alert" ELSE "deciding"].settled = settled
          /\ [run[p] EXCEPT !.phase = IF kind = "alert" THEN "alert" ELSE "deciding"].phase
               = IF kind = "alert" THEN "alert" ELSE "deciding"
      BY <1>2, <1>3, <1>4 DEF RunRecords
    <3> QED BY <1>1, <2>2, <3>2, <3>3 DEF ValidationTypeOK
  <2> QED BY <2>1, <2>2
<1>9. Moves(at)
  <2>1. RunMoves(p, at)
    BY <1>2, <1>3, <1>4, <1>5, <1>6, <1>7, <1>8 DEF RunMoves, AtWork, RunPhases
  <2> QED BY <1>1, <2>1, RunMovesThere
<1>10. ASSUME NEW q \in Runners \ {p}, Going(q, at)' PROVE Mixed(at)'
  <2>1. Going(q, at)
    BY <1>8, <1>10 DEF Going, AtWork
  <2> QED BY <1>7, <2>1, GoingNoted DEF Mixed
<1>11. ApartAt(at)'
  BY <1>10 DEF ApartAt
<1>12. HonestAt(at)'
  <2> SUFFICES ASSUME ~Mixed(at)'
               PROVE  /\ \A q \in Runners : Going(q, at)' => Owns(q, at)'
                      /\ (\A q \in Runners : ~Going(q, at)') => Honest(at)'
    BY DEF HonestAt
  <2>1. history'[at].why = "none"
    BY <1>7 DEF Mixed
  <2>2. activities'[at].run = "none" /\ ~activities'[at].view /\ activities'[at].kind = kind
    BY <1>6 DEF Document
  <2>3. Going(p, at)' => Owns(p, at)'
    BY <1>8, <2>1, <2>2 DEF Owns, Going, AtWork, RunPhases
  <2>4. Honest(at)'
    BY <2>1, <2>2 DEF Honest
  <2> QED BY <1>10, <2>3, <2>4
<1>13. CoolAt(at)'
  <2>1. history'[at].why # "due"
    BY <1>7
  <2> QED BY <2>1 DEF CoolAt
<1>14. AttendedAt(at)'
  <2>1. kind = "wait" => Undecided(at)'
    BY <1>8 DEF Undecided
  <2>2. kind # "wait" => ~Waited(at)'
    BY <1>6 DEF Waited, Document
  <2> QED BY <2>1, <2>2 DEF AttendedAt, InARow
<1> QED BY <1>1, <1>9, <1>11, <1>12, <1>13, <1>14, MovesKeep DEF ReviewedAt

(* Later steps of a run: what they must show is that the run goes on       *)
(* knowing its activity, or leaves it honest.                              *)
LEMMA LaterReviewed ==
    ASSUME ValidationIInv, ValidationIInv', ReviewIInv, NEW p \in Runners, NEW at \in Nat,
           Going(p, at), RunMoves(p, at), Mixed(at) <=> Mixed(at)',
           ~Mixed(at) /\ Owns(p, at) =>
              /\ Going(p, at)' => Owns(p, at)'
              /\ ~Going(p, at)' /\ at \in DOMAIN activities' => Honest(at)',
           CoolAt(at)', AttendedAt(at)'
    PROVE  ReviewIInv'
<1>1. ValidationTypeOK /\ ValidationTypeOK' /\ Moves(at)
  BY RunMovesThere DEF ValidationIInv
<1>2. at \in DOMAIN history /\ ReviewedAt(at)
  BY GoingNoted DEF ReviewIInv
<1>3. \A q \in Runners \ {p} : Going(q, at)' <=> Going(q, at)
  BY DEF RunMoves, Going, AtWork
<1>4. \A q \in Runners \ {p} : Going(q, at) => Mixed(at)
  BY <1>2 DEF ReviewedAt, ApartAt
<1>5. ApartAt(at)'
  BY <1>3, <1>4 DEF ApartAt
<1>6. HonestAt(at)'
  <2> SUFFICES ASSUME ~Mixed(at)'
               PROVE  /\ \A q \in Runners : Going(q, at)' => Owns(q, at)'
                      /\ at \in DOMAIN activities' /\ (\A q \in Runners : ~Going(q, at)') => Honest(at)'
    BY DEF HonestAt
  <2>1. ~Mixed(at) /\ Owns(p, at)
    BY <1>2 DEF ReviewedAt, HonestAt
  <2> QED BY <1>3, <1>4, <2>1
<1> QED BY <1>1, <1>5, <1>6, MovesKeep DEF ReviewedAt

(* The phase a run goes on in.                                             *)
LEMMA PhaseGoesOn ==
    ASSUME ValidationTypeOK, NEW p \in Runners, run[p] \in RunRecords, NEW phase \in RunPhases,
           run' = [run EXCEPT ![p].phase = phase]
    PROVE  /\ run'[p].phase = phase /\ run'[p].since = run[p].since
           /\ run'[p].settled = run[p].settled /\ run'[p].due = run[p].due
           /\ run'[p].force = run[p].force
           /\ \A q \in Runners \ {p} : run'[q] = run[q]
<1>1. PICK r : r = [run[p] EXCEPT !.phase = phase]
  OBVIOUS
<1>2. /\ r.phase = phase /\ r.since = run[p].since /\ r.settled = run[p].settled
      /\ r.due = run[p].due /\ r.force = run[p].force
  BY <1>1 DEF RunRecords
<1>3. run' = [run EXCEPT ![p] = r]
  BY <1>1
<1> QED BY <1>2, <1>3 DEF ValidationTypeOK

LEMMA RunGoing ==
    ASSUME ValidationTypeOK, NEW p \in Runners, run[p].phase \in RunPhases \ {"asking"}
    PROVE  \E at \in Nat : /\ at = run[p].since /\ Going(p, at) /\ AtWork(p, at)
                           /\ run[p] \in RunRecords
BY IdleIsIdle DEF ValidationTypeOK, RunRecords, Going, AtWork, RunPhases

(* What is written under at: a field, or nothing.                          *)
LEMMA FieldUpdated ==
    ASSUME ValidationTypeOK, NEW p \in Runners, Updatable(p),
           NEW field \in {"view", "run"}, NEW value, Updates(p, field, value)
    PROVE  /\ DOMAIN activities' = DOMAIN activities
           /\ \A x \in DOMAIN activities \ {run[p].since} : activities'[x] = activities[x]
           /\ activities'[run[p].since].kind = activities[run[p].since].kind
           /\ activities'[run[p].since].by = activities[run[p].since].by
           /\ activities'[run[p].since].view =
                 IF field = "view" THEN value ELSE activities[run[p].since].view
           /\ activities'[run[p].since].run =
                 IF field = "run" THEN value ELSE activities[run[p].since].run
<1>1. PICK d : d = [activities[run[p].since] EXCEPT ![field] = value]
  OBVIOUS
<1>2. /\ d.kind = activities[run[p].since].kind /\ d.by = activities[run[p].since].by
      /\ d.view = IF field = "view" THEN value ELSE activities[run[p].since].view
      /\ d.run = IF field = "run" THEN value ELSE activities[run[p].since].run
  BY <1>1 DEF ValidationTypeOK, Stored, Updatable
<1>3. activities' = [activities EXCEPT ![run[p].since] = d]
  BY <1>1 DEF Updates
<1> QED BY <1>2, <1>3 DEF Updatable

LEMMA ReviewsReviewed ==
    ASSUME ValidationIInv, ValidationIInv', ReviewIInv, NEW p \in Runners, NEW stored \in BOOLEAN,
           Reviews(p, stored), UNCHANGED <<validation, inFlight>>
    PROVE  ReviewIInv'
<1>1. ValidationTypeOK /\ ValidationTypeOK' /\ run[p].phase \in {"alert", "reviewing"}
  BY DEF ValidationIInv, Reviews
<1>2. PICK at \in Nat : at = run[p].since /\ Going(p, at) /\ AtWork(p, at) /\ run[p] \in RunRecords
  BY <1>1, RunGoing DEF RunPhases
<1>3. at \in DOMAIN history
  BY <1>2, GoingNoted
<1>4. now' = now /\ validation' = validation /\ history' = history
  BY DEF Reviews
<1>5. /\ run'[p].phase = IF run[p].phase = "alert" THEN "recording alert" ELSE "recording"
      /\ run'[p].since = at /\ run'[p].settled = run[p].settled /\ run'[p].due = run[p].due
      /\ run'[p].force = run[p].force
      /\ \A q \in Runners \ {p} : run'[q] = run[q]
  <2>1. PICK phase \in RunPhases :
           /\ phase = IF run[p].phase = "alert" THEN "recording alert" ELSE "recording"
           /\ run' = [run EXCEPT ![p].phase = phase]
    BY DEF Reviews, RunPhases
  <2> QED BY <1>1, <1>2, <2>1, PhaseGoesOn
<1>6. /\ DOMAIN activities' = DOMAIN activities
      /\ \A x \in DOMAIN activities \ {at} : activities'[x] = activities[x]
      /\ at \in DOMAIN activities => /\ activities'[at].kind = activities[at].kind
                                     /\ activities'[at].by = activities[at].by
                                     /\ activities'[at].run = activities[at].run
  <2>1. CASE stored
    BY <1>1, <1>2, <2>1, FieldUpdated DEF Reviews
  <2>2. CASE ~stored
    BY <2>2 DEF Reviews
  <2> QED BY <2>1, <2>2
<1>7. RunMoves(p, at)
  BY <1>2, <1>3, <1>4, <1>5, <1>6 DEF RunMoves, RunPhases
<1>8. Moves(at)
  BY <1>1, <1>7, RunMovesThere
<1>9. Going(p, at)'
  BY <1>5 DEF Going, AtWork, RunPhases
<1>10. Owns(p, at) => Owns(p, at)'
  BY <1>1, <1>4, <1>5, <1>6 DEF Owns
<1>11. CoolAt(at)'
  BY <1>1, <1>3, <1>4, <1>8, CoolMoves
<1>12. AttendedAt(at)'
  <2>1. Undecided(at) => Undecided(at)'
    <3> SUFFICES ASSUME NEW q \in Runners, run[q].phase \in {"asking", "deciding"}, run[q].since = at
                 PROVE  Undecided(at)'
      BY DEF Undecided
    <3>1. q # p
      BY <1>1
    <3> QED BY <1>5, <3>1 DEF Undecided
  <2>2. (Waited(at)' => Waited(at)) /\ (Excused(at) => Excused(at)')
    BY <1>4, <1>6 DEF Waited, Excused
  <2> QED BY <1>3, <1>8, <2>1, <2>2, AttendedMoves
<1> QED BY <1>2, <1>4, <1>7, <1>9, <1>10, <1>11, <1>12, LaterReviewed DEF Mixed

LEMMA RecordsReviewed ==
    ASSUME ValidationIInv, ValidationIInv', ReviewIInv, NEW p \in Runners, NEW stored \in BOOLEAN,
           Records(p, stored), UNCHANGED <<validation, inFlight>>
    PROVE  ReviewIInv'
<1>1. ValidationTypeOK /\ ValidationTypeOK' /\ run[p].phase \in {"recording alert", "recording"}
  BY DEF ValidationIInv, Records
<1>2. PICK at \in Nat : at = run[p].since /\ Going(p, at) /\ AtWork(p, at) /\ run[p] \in RunRecords
  BY <1>1, RunGoing DEF RunPhases
<1>3. at \in DOMAIN history
  BY <1>2, GoingNoted
<1>4. now' = now /\ validation' = validation
  BY DEF Records
<1>5. run'[p].phase = "idle" /\ \A q \in Runners \ {p} : run'[q] = run[q]
  BY <1>1, IdleIsIdle DEF Records, Ends, ValidationTypeOK
<1>6. PICK mark : /\ mark = IF run[p].phase = "recording" /\ run[p].force /\ ~run[p].due
                            THEN "forced" ELSE "due"
                  /\ stored => Updatable(p) /\ Updates(p, "run", mark)
  BY DEF Records, RecordedAsForced
<1>7. /\ DOMAIN activities' = DOMAIN activities
      /\ \A x \in DOMAIN activities \ {at} : activities'[x] = activities[x]
      /\ at \in DOMAIN activities =>
            /\ activities'[at].kind = activities[at].kind
            /\ activities'[at].by = activities[at].by
            /\ activities'[at].view = activities[at].view
            /\ activities'[at].run = IF stored THEN mark ELSE activities[at].run
  <2>1. CASE stored
    BY <1>1, <1>2, <1>6, <2>1, FieldUpdated
  <2>2. CASE ~stored
    BY <2>2 DEF Records
  <2> QED BY <2>1, <2>2
<1>8. /\ DOMAIN history' = DOMAIN history
      /\ \A x \in DOMAIN history \ {at} : history'[x] = history[x]
      /\ history'[at].why = history[at].why /\ history'[at].settled = history[at].settled
      /\ history[at].lost => history'[at].lost
      /\ ~stored => history'[at].lost
  <2>1. CASE stored
    BY <2>1 DEF Records
  <2>2. CASE ~stored
    <3>1. PICK e : e = [history[at] EXCEPT !.lost = TRUE]
      OBVIOUS
    <3>2. e.why = history[at].why /\ e.settled = history[at].settled /\ e.lost
      BY <1>1, <1>3, <3>1 DEF ValidationTypeOK, Events
    <3>3. history' = [history EXCEPT ![at] = e]
      BY <1>2, <2>2, <3>1 DEF Records
    <3> QED BY <1>3, <3>2, <3>3
  <2> QED BY <2>1, <2>2
<1>9. RunMoves(p, at)
  BY <1>2, <1>3, <1>4, <1>5, <1>7, <1>8 DEF RunMoves
<1>10. Moves(at)
  BY <1>1, <1>9, RunMovesThere
<1>11. ~Going(p, at)'
  BY <1>5 DEF Going, AtWork, RunPhases
<1>12. ASSUME Owns(p, at), at \in DOMAIN activities' PROVE Honest(at)'
  <2>1. /\ activities[at].run = "none"
        /\ run[p].phase = "recording alert" => activities[at].kind = "alert" /\ history[at].why = "none"
        /\ run[p].phase = "recording" =>
              /\ history[at].why = IF run[p].due THEN "due" ELSE "forced"
              /\ run[p].due \/ run[p].force
    BY <1>1, <1>7, <1>12 DEF Owns
  <2>2. CASE run[p].phase = "recording alert"
    BY <1>7, <1>8, <1>12, <2>1, <2>2 DEF Honest
  <2>3. CASE run[p].phase = "recording"
    <3>1. history'[at].why = "due" => activities'[at].run # "forced"
      BY <1>6, <1>7, <1>8, <1>12, <2>1, <2>3
    <3>2. history'[at].why \in {"due", "forced"}
      BY <1>8, <2>1, <2>3
    <3>3. history'[at].why = "forced" /\ ~history'[at].lost => activities'[at].run = "forced"
      BY <1>6, <1>7, <1>8, <1>12, <2>1, <2>3
    <3> QED BY <3>1, <3>2, <3>3 DEF Honest
  <2> QED BY <1>1, <2>2, <2>3
<1>13. CoolAt(at)'
  BY <1>1, <1>3, <1>8, <1>10, CoolMoves
<1>14. AttendedAt(at)'
  <2>1. Undecided(at) => Undecided(at)'
    <3> SUFFICES ASSUME NEW q \in Runners, run[q].phase \in {"asking", "deciding"}, run[q].since = at
                 PROVE  Undecided(at)'
      BY DEF Undecided
    <3>1. q # p
      BY <1>1
    <3> QED BY <1>5, <3>1 DEF Undecided
  <2>2. (Waited(at)' => Waited(at)) /\ (Excused(at) => Excused(at)')
    BY <1>7, <1>8 DEF Waited, Excused
  <2> QED BY <1>3, <1>10, <2>1, <2>2, AttendedMoves
<1> QED BY <1>2, <1>8, <1>9, <1>11, <1>12, <1>13, <1>14, LaterReviewed DEF Mixed

LEMMA FailsReviewed ==
    ASSUME ValidationIInv, ValidationIInv', ReviewIInv, NEW p \in Runners, Fails(p),
           UNCHANGED <<validation, inFlight>>
    PROVE  ReviewIInv'
<1>1. ValidationTypeOK /\ ValidationTypeOK' /\ run[p].phase \in {"alert", "deciding"}
  BY DEF ValidationIInv, Fails
<1>2. PICK at \in Nat : at = run[p].since /\ Going(p, at) /\ AtWork(p, at) /\ run[p] \in RunRecords
  BY <1>1, RunGoing DEF RunPhases
<1>3. at \in DOMAIN history
  BY <1>2, GoingNoted
<1>4. now' = now /\ validation' = validation /\ history' = history
  BY DEF Fails
<1>5. run'[p].phase = "idle" /\ \A q \in Runners \ {p} : run'[q] = run[q]
  BY <1>1, IdleIsIdle DEF Fails, Ends, ValidationTypeOK
<1>6. /\ DOMAIN activities' = DOMAIN activities \cup {at}
      /\ activities'[at] = Document("error", FALSE, "none", Agent)
      /\ \A x \in DOMAIN activities \ {at} : activities'[x] = activities[x]
  <2>1. activities' = Upserted(at, Document("error", FALSE, "none", Agent))
    BY <1>2 DEF Fails
  <2> QED BY <2>1 DEF Upserted
<1>7. RunMoves(p, at)
  BY <1>2, <1>3, <1>4, <1>5, <1>6 DEF RunMoves
<1>8. Moves(at)
  BY <1>1, <1>7, RunMovesThere
<1>9. ~Going(p, at)' /\ Honest(at)' /\ ~Waited(at)'
  BY <1>5, <1>6 DEF Going, AtWork, RunPhases, Honest, Document, Waited
<1>10. CoolAt(at)'
  BY <1>1, <1>3, <1>4, <1>8, CoolMoves
<1>11. AttendedAt(at)'
  <2> SUFFICES ASSUME NEW S, InARow(S, at)' PROVE FALSE
    BY DEF AttendedAt
  <2> QED BY <1>9 DEF InARow
<1> QED BY <1>2, <1>4, <1>7, <1>9, <1>10, <1>11, LaterReviewed DEF Mixed

(* The decision: the sets of activities it reads are finite.               *)
LEMMA StreamFinite ==
    ASSUME ValidationTypeOK, StreamDated
    PROVE  \A T \in SUBSET DOMAIN activities : IsFiniteSet(T) /\ Cardinality(T) \in Nat
<1>1. DOMAIN activities \in SUBSET Nat /\ now \in Nat /\ \A x \in DOMAIN activities : x <= now
  BY DEF ValidationTypeOK, StreamDated
<1>2. IsFiniteSet(DOMAIN activities)
  BY <1>1, DatedFinite
<1> QED BY <1>2, FS_Subset, FS_CardinalityType

(* Whoever was counted as reviewed lies far enough back when the next      *)
(* review is due.                                                          *)
LEMMA DueIsFarBack ==
    ASSUME ValidationTypeOK, ReviewIInv, Prolonged, NEW i \in DOMAIN activities, activities[i].view,
           activities[i].kind = "alert" \/ activities[i].run # "forced"
    PROVE  Cardinality(Newer(i)) >= Cooldown
<1>1. StreamDated
  BY DEF ReviewIInv
<1>2. Newer(i) \in SUBSET DOMAIN activities /\ Cardinality(Newer(i)) \in Nat /\ IsFiniteSet(Newer(i))
  <2>1. Newer(i) \in SUBSET DOMAIN activities
    BY DEF Newer
  <2> QED BY <1>1, <2>1, StreamFinite
<1>3. CASE activities[i].kind = "alert"
  <2>1. i \notin Newest(Threshold)
    BY <1>3 DEF Prolonged
  <2>2. ~(Cardinality(Newer(i)) < Threshold)
    BY <2>1 DEF Newest
  <2> QED BY <1>2, <2>2, ReviewAssumption
<1>4. CASE activities[i].run # "forced"
  <2> DEFINE waited == {at \in Recent : \A x \in Recent : x >= at => ~DueReview(activities[x])}
  <2>1. waited = Recent \/ Cardinality(waited) >= Cooldown
    BY DEF Prolonged
  <2>2. CASE i \notin Recent
    <3>1. ~(Cardinality(Newer(i)) < Threshold + Cooldown + Margin)
      BY <2>2 DEF Recent, Newest
    <3> QED BY <1>2, <3>1, ReviewAssumption
  <2>3. CASE i \in Recent
    <3>1. DueReview(activities[i])
      BY <1>4 DEF DueReview
    <3>2. i \in Nat /\ i >= i
      BY DEF ValidationTypeOK
    <3>3. waited # Recent
      BY <2>3, <3>1, <3>2
    <3>4. waited \subseteq Newer(i)
      <4> SUFFICES ASSUME NEW y \in waited PROVE y \in Newer(i)
        OBVIOUS
      <4>1. y \in DOMAIN activities /\ ~(i >= y)
        BY <2>3, <3>1 DEF Recent, Newest
      <4>2. y \in Nat
        BY <4>1 DEF ValidationTypeOK
      <4> QED BY <3>2, <4>1, <4>2 DEF Newer
    <3> HIDE DEF waited
    <3>5. Cardinality(waited) <= Cardinality(Newer(i)) /\ Cardinality(waited) \in Nat
      BY <1>2, <3>4, FS_Subset, FS_CardinalityType
    <3> QED BY <1>2, <2>1, <3>3, <3>5, ReviewAssumption
  <2> QED BY <2>2, <2>3
<1> QED BY <1>3, <1>4

(* While p is at work under at, nobody has taken at for settled.           *)
LEMMA NotYetSettled ==
    ASSUME ReviewIInv, NEW p \in Runners, NEW at, AtWork(p, at), NEW x \in DOMAIN history
    PROVE  at \notin history[x].settled
BY DEF ReviewIInv, SettledStays, Over

LEMMA DueIsCool ==
    ASSUME ValidationIInv, ReviewIInv, Prolonged, NEW p \in Runners, NEW at \in Nat, AtWork(p, at),
           at \in DOMAIN history, NEW i \in history[at].settled, Counts(i)
    PROVE  Cardinality(Later(i, at)) >= Cooldown
<1>1. ValidationTypeOK /\ StreamDated /\ SettledStays
  BY DEF ValidationIInv, ReviewIInv
<1>2. i \in DOMAIN history /\ i < at /\ Over(i) /\ i \in DOMAIN activities /\ activities[i].view
  BY <1>1 DEF SettledStays, Counts
<1>3. activities[i].kind = "alert" \/ activities[i].run # "forced"
  <2>1. CASE activities[i].kind = "alert"
    BY <2>1
  <2>2. CASE history[i].why = "due"
    <3>1. HonestAt(i) /\ ~Mixed(i)
      BY <1>2, <2>2 DEF ReviewIInv, ReviewedAt, Mixed
    <3>2. \A q \in Runners : ~Going(q, i)
      BY <1>2 DEF Over, Going
    <3> QED BY <1>2, <2>2, <3>1, <3>2 DEF HonestAt, Honest
  <2> QED BY <2>1, <2>2 DEF Counts
<1>4. Cardinality(Newer(i)) >= Cooldown
  BY <1>1, <1>2, <1>3, DueIsFarBack
<1>5. Newer(i) \subseteq Later(i, at)
  BY <1>1, NotYetSettled DEF Newer, Later, StreamDated
<1>6. IsFiniteSet(Later(i, at)) /\ Cardinality(Later(i, at)) \in Nat
  <2>1. Later(i, at) \in SUBSET DOMAIN history
    BY DEF Later
  <2>2. IsFiniteSet(DOMAIN history)
    BY <1>1, DatedFinite DEF ValidationTypeOK, StreamDated
  <2> QED BY <2>1, <2>2, FS_Subset, FS_CardinalityType
<1>7. Cardinality(Newer(i)) <= Cardinality(Later(i, at)) /\ Cardinality(Newer(i)) \in Nat
  BY <1>5, <1>6, FS_Subset, FS_CardinalityType
<1> QED BY <1>4, <1>6, <1>7, ReviewAssumption

(* When none is due, one of the Threshold WAITs in a row had its review.   *)
LEMMA NotDueIsAttended ==
    ASSUME ValidationIInv, ReviewIInv, NEW p \in Runners, NEW at \in Nat, AtWork(p, at),
           at \in DOMAIN history, at \in DOMAIN activities => ~activities[at].view,
           NEW S \in kSubset(Threshold, DOMAIN history), InARow(S, at),
           \A i \in S : ~Excused(i)
    PROVE  Prolonged
<1>1. ValidationTypeOK /\ StreamDated /\ SettledStays
  BY DEF ValidationIInv, ReviewIInv
<1>2. /\ at \in S /\ S \subseteq DOMAIN activities /\ S \subseteq DOMAIN history
      /\ \A i \in S \ {at} : i \in history[at].settled
      /\ \A i \in S : activities[i].kind = "wait" /\ activities[i].by = Agent
  BY DEF InARow, Waited
<1>3. Cardinality(S) = Threshold /\ IsFiniteSet(S) /\ S \subseteq Nat
  BY <1>1, <1>2, StreamFinite DEF kSubset, ValidationTypeOK
<1>4. \A x \in DOMAIN activities \ S : \A i \in S : x < i
  BY <1>1, <1>2, NotYetSettled DEF InARow, StreamDated
<1>5. Threshold \in Nat \ {0} /\ Cooldown \in Nat /\ Margin \in Nat /\ Cooldown <= Threshold
  BY ReviewAssumption
<1>6. \A x \in DOMAIN activities : /\ Newer(x) \in SUBSET DOMAIN activities
                                   /\ IsFiniteSet(Newer(x)) /\ Cardinality(Newer(x)) \in Nat
  <2>1. \A x \in DOMAIN activities : Newer(x) \in SUBSET DOMAIN activities
    BY DEF Newer
  <2> QED BY <1>1, <2>1, StreamFinite
<1>7. ASSUME NEW i \in S PROVE Cardinality(Newer(i)) < Threshold
  <2>1. Newer(i) \subseteq S \ {i}
    <3> SUFFICES ASSUME NEW x \in Newer(i) PROVE x \in S \ {i}
      OBVIOUS
    <3>1. x \in DOMAIN activities /\ x > i /\ x \in Nat /\ i \in Nat
      BY <1>1, <1>3 DEF Newer, ValidationTypeOK
    <3>2. ~(x < i) /\ x # i
      BY <3>1
    <3> QED BY <1>4, <3>1, <3>2
  <2>2. IsFiniteSet(S \ {i}) /\ Cardinality(S \ {i}) = Threshold - 1
    BY <1>3, <1>7, FS_RemoveElement
  <2>3. Cardinality(Newer(i)) <= Threshold - 1
    BY <2>1, <2>2, FS_Subset
  <2>4. Cardinality(Newer(i)) \in Nat
    BY <1>2, <1>6
  <2> QED BY <1>5, <2>3, <2>4
<1>8. ASSUME NEW x \in DOMAIN activities \ S PROVE ~(Cardinality(Newer(x)) < Threshold)
  <2>1. S \subseteq Newer(x)
    BY <1>2, <1>4, <1>3, <1>1 DEF Newer, ValidationTypeOK
  <2>2. Cardinality(S) <= Cardinality(Newer(x))
    BY <1>6, <2>1, FS_Subset
  <2> QED BY <1>3, <1>5, <1>6, <2>2
<1>9. Newest(Threshold) = S
  BY <1>2, <1>7, <1>8 DEF Newest
<1>10. S \subseteq Recent /\ Recent \in SUBSET DOMAIN activities
  <2>1. ASSUME NEW i \in S PROVE Cardinality(Newer(i)) < Threshold + Cooldown + Margin
    <3>1. Cardinality(Newer(i)) \in Nat
      BY <1>2, <1>6
    <3> QED BY <1>5, <1>7, <3>1
  <2> QED BY <1>2, <2>1 DEF Recent, Newest
<1>11. IsFiniteSet(Recent) /\ Cardinality(Recent) \in Nat
  BY <1>1, <1>10, StreamFinite
<1>12. Cardinality(Recent) >= Threshold
  <2>1. Cardinality(S) <= Cardinality(Recent)
    BY <1>10, <1>11, FS_Subset
  <2> QED BY <1>3, <1>5, <1>11, <2>1
<1>13. ASSUME NEW i \in S PROVE ~DueReview(activities[i])
  <2>1. CASE i = at
    BY <1>2, <2>1 DEF DueReview
  <2>2. CASE i # at
    <3>1. i \in DOMAIN history /\ Over(i)
      BY <1>1, <1>2, <2>2 DEF SettledStays
    <3>2. ~Mixed(i) /\ history[i].why # "due" /\ ~history[i].lost
      BY DEF Excused, Mixed
    <3>3. HonestAt(i)
      BY <3>1 DEF ReviewIInv, ReviewedAt
    <3>4. Honest(i)
      BY <1>2, <3>1, <3>2, <3>3 DEF HonestAt, Over, Going
    <3> QED BY <1>2, <3>2, <3>4 DEF Honest, DueReview
  <2> QED BY <2>1, <2>2
<1> DEFINE waited == {x \in Recent : \A y \in Recent : y >= x => ~DueReview(activities[y])}
<1>14. S \subseteq waited
  <2> SUFFICES ASSUME NEW i \in S, NEW y \in Recent, y >= i PROVE ~DueReview(activities[y])
    BY <1>10
  <2>1. y \in DOMAIN activities /\ y \in Nat /\ i \in Nat
    BY <1>1, <1>3, <1>10 DEF ValidationTypeOK
  <2>2. y \in S
    BY <1>4, <2>1
  <2> QED BY <1>13, <2>2
<1>15. Cardinality(waited) >= Cooldown
  <2>1. waited \in SUBSET Recent
    OBVIOUS
  <2> HIDE DEF waited
  <2>2. IsFiniteSet(waited) /\ Cardinality(waited) \in Nat
    BY <1>11, <2>1, FS_Subset, FS_CardinalityType
  <2>3. Cardinality(S) <= Cardinality(waited)
    BY <1>14, <2>2, FS_Subset
  <2> QED BY <1>3, <1>5, <2>2, <2>3
<1> QED BY <1>2, <1>9, <1>12, <1>15 DEF Prolonged

LEMMA DecidesReviewed ==
    ASSUME ValidationIInv, ValidationIInv', ReviewIInv, NEW p \in Runners, NEW read \in BOOLEAN,
           Decides(p, read), UNCHANGED <<validation, inFlight>>
    PROVE  ReviewIInv'
<1>1. ValidationTypeOK /\ ValidationTypeOK' /\ run[p].phase = "deciding"
  BY DEF ValidationIInv, Decides
<1>2. PICK at \in Nat : at = run[p].since /\ Going(p, at) /\ AtWork(p, at) /\ run[p] \in RunRecords
  BY <1>1, RunGoing DEF RunPhases
<1>3. at \in DOMAIN history /\ ReviewedAt(at)
  BY <1>2, GoingNoted DEF ReviewIInv
<1>4. now' = now /\ validation' = validation /\ activities' = activities
  BY DEF Decides
<1>5. PICK due \in BOOLEAN, e \in Events :
         /\ due <=> read /\ Prolonged
         /\ history' = [history EXCEPT ![at] = e]
         /\ e.settled = history[at].settled
         /\ e.lost <=> history[at].lost \/ ~read
         /\ e.why = IF history[at].why = "mixed" THEN "mixed"
                    ELSE IF due THEN "due" ELSE IF run[p].force THEN "forced" ELSE "none"
         /\ \/ /\ due \/ run[p].force
               /\ run' = [run EXCEPT ![p].phase = "reviewing", ![p].due = due]
            \/ ~due /\ ~run[p].force /\ Ends(p)
  BY <1>1, <1>2, <1>3, Decision
<1>6. /\ DOMAIN history' = DOMAIN history /\ history'[at] = e
      /\ \A x \in DOMAIN history \ {at} : history'[x] = history[x]
  BY <1>3, <1>5
<1>7. /\ \A q \in Runners \ {p} : run'[q] = run[q]
      /\ \/ ~due /\ ~run[p].force /\ run'[p].phase = "idle"
         \/ /\ due \/ run[p].force
            /\ run'[p].phase = "reviewing" /\ run'[p].since = at
            /\ run'[p].settled = run[p].settled /\ run'[p].due = due /\ run'[p].force = run[p].force
  <2>1. CASE due \/ run[p].force
    <3>1. PICK r : r = [run[p] EXCEPT !.phase = "reviewing", !.due = due]
      OBVIOUS
    <3>2. /\ r.phase = "reviewing" /\ r.since = at /\ r.settled = run[p].settled
          /\ r.due = due /\ r.force = run[p].force
      BY <1>2, <3>1 DEF RunRecords
    <3>3. run' = [run EXCEPT ![p] = r]
      BY <1>5, <2>1, <3>1
    <3> QED BY <1>1, <2>1, <3>2, <3>3 DEF ValidationTypeOK
  <2>2. CASE ~due /\ ~run[p].force
    BY <1>1, <1>5, <2>2, IdleIsIdle DEF Ends, ValidationTypeOK
  <2> QED BY <2>1, <2>2
<1>8. RunMoves(p, at)
  BY <1>2, <1>3, <1>4, <1>5, <1>6, <1>7 DEF RunMoves, RunPhases
<1>9. Moves(at)
  BY <1>1, <1>8, RunMovesThere
<1>10. Mixed(at) <=> Mixed(at)'
  BY <1>5, <1>6 DEF Mixed
<1>11. ASSUME ~Mixed(at), Owns(p, at)
       PROVE  /\ Going(p, at)' => Owns(p, at)'
              /\ ~Going(p, at)' /\ at \in DOMAIN activities' => Honest(at)'
  <2>1. /\ at \in DOMAIN activities =>
              activities[at].run = "none" /\ activities[at].kind = "wait" /\ ~activities[at].view
        /\ history'[at].why = IF due THEN "due" ELSE IF run[p].force THEN "forced" ELSE "none"
    BY <1>1, <1>5, <1>6, <1>11 DEF Owns, Mixed
  <2>2. CASE due \/ run[p].force
    <3>1. Going(p, at)'
      BY <1>7, <2>2 DEF Going, AtWork, RunPhases
    <3>2. Owns(p, at)'
      BY <1>4, <1>7, <2>1, <2>2 DEF Owns
    <3> QED BY <3>1, <3>2
  <2>3. CASE ~due /\ ~run[p].force
    <3>1. ~Going(p, at)'
      BY <1>7, <2>3 DEF Going, AtWork, RunPhases
    <3>2. at \in DOMAIN activities' => Honest(at)'
      BY <1>4, <2>1, <2>3 DEF Honest
    <3> QED BY <3>1, <3>2
  <2> QED BY <2>2, <2>3
<1>12. Mixed(at) \/ (at \in DOMAIN activities => ~activities[at].view)
  BY <1>1, <1>2, <1>3 DEF ReviewedAt, HonestAt, Owns
<1>13. CoolAt(at)'
  <2> SUFFICES ASSUME history'[at].why = "due", NEW i \in history'[at].settled, Counts(i)'
               PROVE  Cardinality(Later(i, at)') >= Cooldown
    BY DEF CoolAt
  <2>1. CASE history[at].why = "mixed"
    BY <1>5, <1>6, <2>1
  <2>2. CASE history[at].why # "mixed"
    <3>1. Prolonged /\ i \in history[at].settled
      BY <1>5, <1>6, <2>2
    <3>2. i < at /\ i \in DOMAIN history
      BY <1>3, <3>1 DEF ReviewIInv, SettledStays
    <3>3. i # at
      BY <3>2
    <3>4. Counts(i)
      BY <1>4, <1>6, <3>2, <3>3 DEF Counts, Mixed
    <3>5. Cardinality(Later(i, at)) >= Cooldown
      BY <1>2, <1>3, <3>1, <3>4, DueIsCool
    <3>6. Later(i, at)' = Later(i, at)
      <4>1. \A x \in DOMAIN history : history'[x].settled = history[x].settled
        BY <1>5, <1>6
      <4> QED BY <1>6, <4>1 DEF Later
    <3> QED BY <3>5, <3>6
  <2> QED BY <2>1, <2>2
<1>14. AttendedAt(at)'
  <2> SUFFICES ASSUME NEW S \in kSubset(Threshold, DOMAIN history'), InARow(S, at)',
                      \A i \in S : ~Excused(i)'
               PROVE  FALSE
    BY DEF AttendedAt
  <2>1. at \in S
    BY DEF InARow
  <2>2. ~Mixed(at) /\ ~due /\ read /\ ~Prolonged
    BY <1>5, <1>6, <2>1 DEF Excused, Mixed
  <2>3. S \in kSubset(Threshold, DOMAIN history)
    BY <1>6
  <2>4. \A x \in DOMAIN history : history'[x].settled = history[x].settled
    BY <1>5, <1>6
  <2>5. InARow(S, at)
    BY <1>3, <1>4, <1>6, <2>4 DEF InARow, Waited
  <2>6. ASSUME NEW i \in S PROVE ~Excused(i)
    <3>1. CASE i = at
      <4>1. history[at].why = "none"
        BY <1>1, <1>2, <1>3, <2>2 DEF ReviewedAt, HonestAt, Owns
      <4>2. ~history[at].lost
        BY <1>5, <1>6, <2>1 DEF Excused
      <4> QED BY <3>1, <4>1, <4>2 DEF Excused
    <3>2. CASE i # at
      <4>1. i \in DOMAIN history
        BY <2>5 DEF InARow
      <4> QED BY <1>6, <3>2, <4>1 DEF Excused
    <3> QED BY <3>1, <3>2
  <2>7. Prolonged
    BY <1>2, <1>3, <1>12, <2>2, <2>3, <2>5, <2>6, NotDueIsAttended
  <2> QED BY <2>2, <2>7
<1> QED BY <1>2, <1>8, <1>10, <1>11, <1>13, <1>14, LaterReviewed

-----------------------------------------------------------------------------
LEMMA InitReviewed == ValidationInit => ReviewIInv
<1> SUFFICES ASSUME ValidationInit PROVE ReviewIInv
  OBVIOUS
<1>1. /\ now = 2 /\ DOMAIN activities = 1..1 /\ DOMAIN history = 1..1
      /\ activities[1].run = "none" /\ ~activities[1].view
      /\ history[1].settled = {} /\ history[1].why = "none"
  <2>1. Document("wait", FALSE, "none", Agent).run = "none" /\ ~Document("wait", FALSE, "none", Agent).view
    BY DEF Document
  <2>2. Event({}, "none", FALSE).settled = {} /\ Event({}, "none", FALSE).why = "none"
    BY DEF Event
  <2>3. PICK d : d = Document("wait", FALSE, "none", Agent) /\ d.run = "none" /\ ~d.view
    BY <2>1, Zenon
  <2>4. PICK e : e = Event({}, "none", FALSE) /\ e.settled = {} /\ e.why = "none"
    BY <2>2, Zenon
  <2>5. now = 2 /\ activities = <<d>> /\ history = <<e>>
    BY <2>3, <2>4 DEF ValidationInit, InitReviews
  <2>6. \A a : DOMAIN <<a>> = 1..1 /\ <<a>>[1] = a
    OBVIOUS
  <2>7. DOMAIN activities = 1..1 /\ activities[1] = d
    BY <2>5, <2>6
  <2>8. DOMAIN history = 1..1 /\ history[1] = e
    BY <2>5, <2>6
  <2> QED BY <2>3, <2>4, <2>5, <2>7, <2>8
<1>2. \A p \in Runners : \A x : ~AtWork(p, x)
  BY IdleIsIdle DEF ValidationInit, InitReviews, AtWork, RunPhases
<1>3. StreamDated
  <2>1. \A v \in Validations : validation[v].at = 0
    BY DEF ValidationInit, Task
  <2>2. \A p \in Runners : run[p].phase \notin RunPhases
    BY IdleIsIdle DEF ValidationInit, InitReviews, RunPhases
  <2> QED BY <1>1, <2>1, <2>2 DEF StreamDated
<1>4. SettledStays
  <2>1. \A p \in Runners : run[p].phase \notin RunPhases
    BY IdleIsIdle DEF ValidationInit, InitReviews, RunPhases
  <2> QED BY <1>1, <2>1 DEF SettledStays
<1>5. ASSUME NEW x \in DOMAIN history PROVE ReviewedAt(x)
  <2>1. x = 1
    BY <1>1
  <2>2. ApartAt(x) /\ HonestAt(x) /\ CoolAt(x)
    BY <1>1, <1>2, <2>1 DEF ApartAt, HonestAt, Honest, CoolAt, Going
  <2>3. AttendedAt(x)
    <3> SUFFICES ASSUME NEW S \in kSubset(Threshold, DOMAIN history) PROVE FALSE
      BY DEF AttendedAt
    <3>1. S \in SUBSET {1} /\ Cardinality(S) = Threshold
      BY <1>1 DEF kSubset
    <3>2. IsFiniteSet({1}) /\ Cardinality({1}) = 1
      BY FS_Singleton
    <3>3. Cardinality(S) <= 1
      BY <3>1, <3>2, FS_Subset
    <3> QED BY <3>1, <3>3, ReviewAssumption
  <2> QED BY <2>2, <2>3 DEF ReviewedAt
<1> QED BY <1>3, <1>4, <1>5 DEF ReviewIInv

LEMMA RunsReviewed ==
    ASSUME ValidationIInv, ValidationIInv', ReviewIInv, NEW p \in Runners, Runs(p),
           UNCHANGED <<validation, inFlight>>
    PROVE  ReviewIInv'
<1>1. CASE Leaves(p) \/ \E key \in Keys : Asks(p, key)
  <2>1. UNCHANGED <<now, streamVars, run, validation>>
    BY <1>1 DEF Asks, Leaves
  <2>2. now \in Nat /\ now <= now /\ ValidationTypeOK /\ \A v \in Validations : validation[v].at <= now
    BY DEF ValidationIInv, ValidationTypeOK, ReviewIInv, StreamDated
  <2> QED BY <2>1, <2>2, QuietReviewed
<1> QED BY <1>1, StartsReviewed, WritesReviewed, DecidesReviewed, ReviewsReviewed, RecordsReviewed,
   FailsReviewed DEF Runs

LEMMA StepReviewed ==
    ValidationIInv /\ ValidationIInv' /\ ReviewIInv /\ [ValidationNext]_validationVars => ReviewIInv'
<1> SUFFICES ASSUME ValidationIInv, ValidationIInv', ReviewIInv, [ValidationNext]_validationVars
             PROVE  ReviewIInv'
  OBVIOUS
<1>1. CASE NextReviews /\ UNCHANGED <<validation, inFlight>>
  BY <1>1, TicksReviewed, DeletesReviewed, ClonesReviewed, RunsReviewed DEF NextReviews, Users
<1>2. CASE \E v \in Validations : Validates(v)
  BY <1>2, ValidatesReviewed
<1>3. CASE UNCHANGED validationVars
  <2>1. now' = now /\ UNCHANGED <<streamVars, run>> /\ validation' = validation
    BY <1>3 DEF validationVars, reviewVars
  <2>2. now \in Nat /\ now <= now /\ ValidationTypeOK /\ \A v \in Validations : validation[v].at <= now
    BY DEF ValidationIInv, ValidationTypeOK, ReviewIInv, StreamDated
  <2> QED BY <2>1, <2>2, QuietReviewed
<1> QED BY <1>1, <1>2, <1>3 DEF ValidationNext

(* A set of numbers has a least and, when it is bounded, a last one.       *)
LEMMA LeastOf ==
    ASSUME NEW S \in SUBSET Nat, S # {}
    PROVE  \E x \in S : \A y \in S : x <= y
<1> DEFINE R == {ss \in Nat \X Nat : ss[1] < ss[2]}
<1>1. IsWellFoundedOn(R, Nat)
  BY NatLessThanWellFounded, Zenon DEF OpToRel
<1> HIDE DEF R
<1>2. PICK x \in S : \A y \in S : ~(<<y, x>> \in R)
  BY <1>1, WFMin
<1>3. \A y \in S : y < x => <<y, x>> \in R
  BY DEF R
<1>4. \A y \in S : ~(y < x)
  BY <1>2, <1>3, Zenon
<1>5. \A y \in S : x <= y
  BY <1>4
<1> QED BY <1>5

LEMMA LastOf ==
    ASSUME NEW S \in SUBSET Nat, S # {}, NEW n \in Nat, \A x \in S : x <= n
    PROVE  \E x \in S : \A y \in S : y <= x
<1> DEFINE T == {n - x : x \in S}
<1>1. \A x \in S : x \in Nat /\ n - x \in Nat
  OBVIOUS
<1>2. T \in SUBSET Nat /\ T # {}
  BY <1>1, Zenon
<1> HIDE DEF T
<1>3. PICK t \in T : \A y \in T : t <= y
  BY <1>2, LeastOf
<1>4. PICK x \in S : t = n - x
  BY DEF T
<1>5. \A y \in S : n - x <= n - y
  BY <1>3, <1>4 DEF T
<1> QED BY <1>1, <1>5

LEMMA ReviewedWhenDue == ASSUME ValidationIInv, ReviewIInv PROVE ReviewsWhenDue
<1>1. ValidationTypeOK /\ StreamDated /\ SettledStays
  BY DEF ValidationIInv, ReviewIInv
<1>2. CooldownKept
  BY DEF ReviewIInv, ReviewedAt, CooldownKept, CoolAt, Counts, Later, Mixed
<1>3. WaitsAreReviewed
  <2> SUFFICES ASSUME NEW S \in kSubset(Threshold, Settled),
                      InOrder(S), S \subseteq DOMAIN activities,
                      \A k \in DOMAIN history \ S : k < Min(S) \/ Max(S) \in history[k].settled,
                      \A k \in S : activities[k].kind = "wait" /\ activities[k].by = Agent
               PROVE  \E k \in S : history[k].why \in {"due", "mixed"} \/ history[k].lost
    BY DEF WaitsAreReviewed
  <2>1. S \subseteq Settled /\ Cardinality(S) = Threshold
    BY DEF kSubset
  <2>2. S \subseteq DOMAIN history /\ S \in SUBSET Nat /\ \A x \in S : x <= now
    BY <1>1, <2>1 DEF Settled, StreamDated, ValidationTypeOK
  <2>3. S # {}
    BY <2>1, FS_EmptySet, ReviewAssumption
  <2>4. PICK m \in S : \A y \in S : y <= m
    BY <1>1, <2>2, <2>3, LastOf DEF ValidationTypeOK
  <2>5. PICK l \in S : \A y \in S : l <= y
    BY <2>2, <2>3, LeastOf
  <2>6. Max(S) = m
    <3>1. \A x \in S : (\A y \in S : x >= y) <=> x = m
      BY <2>2, <2>4
    <3> QED BY <3>1 DEF Max
  <2>7. Min(S) = l
    <3>1. \A x \in S : (\A y \in S : x <= y) <=> x = l
      BY <2>2, <2>5
    <3> QED BY <3>1 DEF Min
  <2>8. ~Undecided(m)
    <3> SUFFICES ASSUME NEW p \in Runners, run[p].phase \in {"asking", "deciding"}, run[p].since = m
                 PROVE  FALSE
      BY DEF Undecided
    <3>1. run[p] # Idle
      BY IdleIsIdle
    <3> QED BY <2>1, <3>1 DEF Settled
  <2>9. InARow(S, m)
    <3>1. ASSUME NEW i \in S \ {m} PROVE i < m /\ i \in history[m].settled
      <4>1. i < m
        BY <2>2, <2>4
      <4> QED BY <4>1 DEF InOrder
    <3>2. ASSUME NEW x \in DOMAIN history \ S, NEW i \in S, ~(m \in history[x].settled) PROVE x < i
      <4>1. x < l /\ l <= i /\ x \in Nat /\ l \in Nat /\ i \in Nat
        BY <1>1, <2>2, <2>5, <2>6, <2>7, <3>2 DEF ValidationTypeOK
      <4> QED BY <4>1
    <3> QED BY <2>2, <3>1, <3>2 DEF InARow, Waited
  <2>10. S \in kSubset(Threshold, DOMAIN history)
    BY <2>1, <2>2 DEF kSubset
  <2>11. AttendedAt(m)
    BY <2>2 DEF ReviewIInv, ReviewedAt
  <2> QED BY <2>8, <2>9, <2>10, <2>11 DEF AttendedAt, Excused
<1> QED BY <1>2, <1>3 DEF ReviewsWhenDue

(* _detect_prolonged_wait and the reviews: after a review that was due,    *)
(* SUPERVISOR_COOLDOWN more activities come before the next, and           *)
(* PROLONGED_WAIT_THRESHOLD WAITs in a row never go by without one, however *)
(* often a review is forced, fails or is lost, and whoever runs, validates, *)
(* deletes or clones meanwhile.                                            *)
THEOREM ReviewsComeWhenDue == ValidationSpec => []ReviewsWhenDue
<1>1. ValidationInit => ReviewIInv
  BY InitReviewed
<1>2. ValidationIInv /\ ValidationIInv' /\ ReviewIInv /\ [ValidationNext]_validationVars => ReviewIInv'
  BY StepReviewed
<1>3. ValidationIInv /\ ReviewIInv => ReviewsWhenDue
  BY ReviewedWhenDue
<1> QED BY Invariant, <1>1, <1>2, <1>3, PTL DEF ValidationSpec
=============================================================================
