# Verification of Option Income Lab

TLA+ models, TLC runs and TLAPS proofs for the backend of Option Income Lab
(`src/backend`): a FastAPI application with an in-process scheduler, documents
in Azure Cosmos DB, backups in a blob container, two options-data providers and
a set of maintenance scripts. Paths below are relative to `src/backend/src`
unless they start with another directory.

Parse, check and prove from this directory:

    tlasany OptionsChainStore.tla
    tlc -workers 2 -config Store.cfg OptionsChainStore
    tlapm OptionsChainStore_proofs.tla

`PROJECT.json` holds the same information for tools: components, runs, the map
from every definition to the source lines it stands for, the mutants that show
that each property can fail, findings, hazards and theorems.

## 1. Inventory

### Parts with shared or persistent state

| Part | State | Hard behaviour | Correct when | Modules |
|---|---|---|---|---|
| Task registry and scheduler loop (`scheduler_registry.py`, `main.py` 880-950) | fields of `ScheduledTask`, configuration, job queue, worker and abandoned job threads, stored settings | main loop, worker, job threads and web event loop share the fields without a lock; the join has a 30 minute timeout | no cron change lost, no dispatch beyond the requests, the running flag clears, expression and switch converge to the stored ones | `TaskRegistry` |
| Options chain merge (`options_chain_merge.py`, `_refresh_locked`) | accumulated chain of a symbol with its provenance | long sequences of partial, zero, untrusted or missing answers of two providers | last known good value of every field, nothing dropped before it expires, honest provenance | `ChainAccumulation` |
| Options chain store (`options_chain_store.py`) | one document per symbol and expiration, with ETags | several processes, compare-and-swap with retries, calls applied whose answer is lost, restarts | every write is an atomic merge, nothing acknowledged is lost | `ShardModel`, `OptionsChainStore`, `AtomicShards` |
| Options chain cache (`options_chain_cache.py`) | served chain, TTL, symbol lock, in-flight slot, resolved backend | one request loop, one private loop per scheduler thread, executor threads; hung providers; outages of Cosmos | no lost observation, what is served is saved, every refresh ends | `OptionsChainCache` |
| Best Options cache and precompute (`best_options_cache.py`, `best_options_precompute.py`) | published snapshot, refreshing flag, registry of refresh tasks | a cycle publishes what it read at its start; a lock is held across an await | a cycle blanks or ages no page that nobody refreshed meanwhile; every refresh ends | `BestOptions` |
| Portfolio ledger (`portfolio/cosmos_portfolio.py`) | movements with status and links to their replacements, accounts, groups | each operation is several independent writes, any of which may fail or be the last one of a dying process | a trade is counted once, and never lost | `MovementLedger` |
| Portfolio CSV import (`portfolio/import_service.py`) | import session: questions, answers, preview | a commit cut off by a restart and called again; the same file uploaded twice | commit is idempotent | `ImportSession` |
| Symbol documents and positions (`cosmos_db.py` 551-866, `agent_runner.py` 2401-3660, `dps_cron.py`) | positions inside the symbol's document, activities, snapshots | whole documents read, changed and replaced without an ETag; a monitor run takes minutes | a roll has one successor, corrections undo nothing, old observations never pass for the present contract | `Positions`, `PositionMonitor` |
| Activities, alerts and reviews (`agent_runner.py` 1380-2400, `cosmos_db.py` 1183 ff.) | activities of a symbol and agent type, threads of the dashboard and their slots | overlapping runs, scheduled and forced, under slots of different keys; timestamps with the grain of a second | due reviews happen, forced ones change nothing about them | `AgentReviews` |
| Contract validation (`contract_validation_integration.py`) | registry of validations, their activities | failures at every step of a task that a user polls | a validation is always known to who polls it, its verdict is the agents' | `ContractValidation` |
| Automatic backup (`backup/automatic_backup.py`, `backup/blob_store.py`) | lease, archives, run records, latest pointer, monthly anchors, tags | failure, crash or loss of the lease between two writes; a life-cycle rule that deletes | the pointer never goes back from an archive that is there and can be read, an archive tagged for an anchor stays while the anchor names it, a run that reads everything and ends well repairs what bad ones left | `AutomaticBackup` |
| Backup import (`backup/import_service.py`, `backup/journal_store.py`) | journal, lock with a time to live, created documents | crash while applying; compensation beside users and other imports | rolled back means nothing of it is left, and whatever it deletes still has the archive's content | `BackupImport` |
| Maintenance scripts (`src/backend/scripts/repair_*.py`, `migrate_*.py`, `backfill_*.py`) | backups of a run, the documents they rewrite | runs and restores repeated in any order beside the application | edits survive, a repair deletes nothing under a reference it could see, a restore undoes what it claims to; each with exceptions (Known limits) | `SecurityRepair`, `BuyRepair`, `LegRepair`, `ConfigMigration` |

### Computed parts

| Part | Correct when | Modules |
|---|---|---|
| Rules, buy tracker (`rule_evaluator.py`, `buy_tracker_agent.py`) | but for two rules an explanation invents nothing, gates are named as they were applied | `Absent`, `DecisionRules`, `Decisions` |
| Position scoring and its history (`dps_scorer.py`) | puts and calls are scored alike; a session weighs once; a crossing is dated where it happened | `PositionScore`, `Decisions`, `ScoreHistory` |
| Best Options rows, roll table, agents' candidates, screener (`best_options.py`, `roll_table.py`, `options_chain_filters.py`, `options_screener.py`) | rows are coloured and left out honestly, the calculations of a roll agree, pages show every row wanted once | `ContractView`, `BestRows`, `RollTable`, `ChainReadings` |
| Holdings and reports (`portfolio/holdings_service.py`, `option_linkage_service.py`, `dividends_economics.py`) | accounts add up to the whole, groups to their summary | `Holdings`, `Income`, `LedgerReports` |

### How the parts interact

```
 web handlers --Run Now, settings--> TaskRegistry --worker thread--> jobs
   |    |  |                              ^ reload each minute         | agents, monitors, dps_cron
   |    |  |                        settings document                  v
   |    |  +--- Positions (symbol document) <---- PositionMonitor, AgentReviews,
   |    |          ^ whole-document replaces        ContractValidation --> activities
   |    +--get/refresh--> OptionsChainCache <----refresh_all (threads)
   |                        | merge_sources, merge_prior (ChainAccumulation)
   |                        v
   |                      persist / hydrate --> OptionsChainStore --> Cosmos DB
   |                        | chains                ^ other replicas
   |                        v
   |                      BestRows, RollTable --> BestOptions snapshot --> screener
   +--trades, CSV--> ImportSession --> MovementLedger --> Holdings, Income (reports)
                                           ^ maintenance scripts
   AutomaticBackup --reads all documents; BackupImport --creates them
```

Each layer is modelled with the one below it reduced to what it promises. For
the cache, persist is one atomic join with what is stored: that is what
`AtomicShards` states and what `OptionsChainStore` is proved to implement. For
the store, the merge of a cycle is reduced to "listed contracts are touched,
others carried", which `ChainAccumulation` has in detail. `LedgerReports`
takes a ledger as the set of its ACTIVE movements, which is what
`MovementLedger` is about. `PositionMonitor` extends `Positions`, and
`ContractValidation` extends `AgentReviews`: they write to the same documents.
`BackupImport` and `AutomaticBackup` share `UserData`. The four scripts write
different documents; `MCRepairs` runs one of them at a time.

### Not modelled

* Job bodies, prompts, reports, chats and traces: sequential pipelines of
  provider and model calls. What an agent answers is a choice of the models.
* Settings document (`cosmos_db.py` 2015-2139): `update_settings` is one step
  of `TaskRegistry`, `merge_defaults` at start-up is not modelled (Known limits).
* FX, share values and securities (look-ups with a stored answer), option
  timing, forecasts, providers, notifications, calendar.
* `repair_shard` (and `scripts/repair_options_chain_shards.py`), `purge` of the store, `invalidate` of the cache.
* The cliff warning of `dps_scorer.py`, the enrichment after a correction of
  provider symbols, archive format and dependency closure of backups.
* Frontend, MCP servers, infrastructure, but for the life-cycle rule.

## 2. Modules

**An action is what other actors cannot interrupt.** On the event loop that is
the code between two awaits; between threads it is one access to a shared
field; between processes one call to Cosmos DB or the blob container. A call
may fail before or after it took effect where the code has to deal with it.
History variables are commented as such; the code does not have them and no
guard reads them.

### Scheduler

`TaskRegistry`. `enabled cron cronObj nextRun running changed` are the fields
of `ScheduledTask`; `nextRun` counts the occurrences the task is behind.
`cfg`, `cosmos`: configuration in memory and settings document. `jobQueue`,
`worker`, `lingering`: queue, worker thread, job threads abandoned by
`join(timeout)`. `main`, `web`: where the loop and the web request are. Testing
`running`, setting it and enqueueing are three actions of `execute_due_tasks`
(`MainDue`, `MainMark`, `MainPut`) and three of `trigger_task_now` (`WebCheck`,
`WebMark`, `WebPut`); `reschedule` is `WebSetCron` then `WebFlag`;
`handle_cron_changes` is `MainClearFlag`, `MainRebase` (adopt the expression),
`MainParse`, `MainNextRun`, `MainReenable`; `reload_from_cosmos` is `MainReload`,
`MainReloadConfig`, `MainReloadTask`, `MainReflag`; the second half of
`update_task_enabled` is `WebApplyEnabled`, `WebParse` (which keeps the
expression it read in `web.expr`), `WebAssign`, `WebNextRun`. Two accesses are
one action only where no other thread's write between them could change what is
read or lost: the tests of `MainDue` before its write, and a read of a field that
nobody else writes. `overtaken` is history: the expression was adopted while a
request held a parse of the one before. Handlers run on one event loop, so one
request is at work. A job that raises and one that returns
are alike, since `run_task` swallows the exception.

### Options chains

`ChainAccumulation` has the pure operators of the merge, named as in the code:
acceptance of a field, gates, source priority, prior merge, derived values,
pruning; calls stand for calls and puts. It runs them cycle after cycle for any
answers and keeps the log of the answers; its properties read the accumulated
values off the log alone.

`ShardModel` has the pure functions on shards: union by recency, size valve,
grace. `OptionsChainStore` interleaves processes that refresh their memory, run
`persist` shard by shard (read, merge, compare, conditional write, a few
attempts) and `prune_expired`; a call answers, conflicts, finds the document
gone, fails, or is applied with its answer lost; a process restarts anywhere.
`AtomicShards` is its abstract specification: shards change by indivisible
merges and vanish only past their grace period.

`OptionsChainCache` is one process and one symbol: tasks of the request loop
that join the in-flight task, threads of `refresh_all` with loops of their own,
background refreshes that take the lock without waiting, readers that hydrate
on a miss, and the backend as it is resolved once. A coroutine is undisturbed
by its siblings between two awaits (`MayRun`), threads interleave anywhere. A
chain is the time at which each contract was last observed.

`ContractView`, `BestRows` and `RollTable` are the pure readings of a chain,
`BestOptions` the published snapshot with the cycle, the refresh requests, their
lock, registry and joins. `ChainReadings` applies the pure readings in one step
to what was asked (rows of a page, a roll, a page of the screener).

### Portfolio

`MovementLedger`: `docs` are the ledger documents; `op` is the operation at work
with its remaining Cosmos calls, each of which may fail or be the last. Manual
entry, correction, reassignment alone and in batches with rollback, transfer,
deletion with or without the chain, and both corrections of corporate-action
groups. `ImportSession` puts one CSV session on top of it. `Holdings` and
`Income` are the reports as operators, `LedgerReports` lets a ledger grow and
asks for them in every state.

### Positions, activities, validations

`Positions`: `doc` and `etag` are the stored document; `web` is the handler that
awaits its body, `slow` the copies other threads hold; every operation replaces
the whole document, only the two corrections under the ETag they read.
`PositionMonitor` adds a monitor run step by step (read, fetch, snapshot,
assessment, roll agent, activity, score; an activity keeps the contract its run
held beside the one the answer names), the pass of `dps_cron` and both
cascades. `AgentReviews` is the stream of activities of one symbol and agent
type with the runs in flight, `ContractValidation` the registry of validations
in the same stream. A thread of the dashboard (`asked`) takes the slot of its key
(`Asks`: this symbol, or every symbol), runs over the stream once (`Starts`) and
releases the slot (`Leaves`); scheduled runs take none. `DecisionRules`, `PositionScore` and `Decisions` are
operators, `ScoreHistory` the readings of one position over sessions.

### Backups

`UserData` are the documents with their other writers. `BackupImport`: plan,
journal, lock with its time to live, second plan, inventory, creates,
verification, compensation. `AutomaticBackup`: one action for each blob written,
one for each archive tagged, the older first; the lease and its loss, and the
life-cycle rule. The reads that choose the pointer and the anchors may fail for any
archives (`Hides`). `guarded` are the archives tagged for an anchor and neither
untagged since while no anchor named them nor unreadable when a run chose what to
keep; `overlapped` says whether two runs ever overlapped, `settled` that the last
one ended well and could read everything, `blinded` which runs could not.

### Maintenance scripts

`SecurityRepair` (`repair_pep_security_id.py`), `BuyRepair` (both repairs of
`repair_buy_ledger_fields.py`), `LegRepair` (`repair_legacy_scrip_costs.py` with
its classification of costs, `backfill_dividend_buy_share_fmv.py`) and
`ConfigMigration` (`migrate_legacy_symbol_config.py`, and
`repair_provider_symbols_enag_micct_ulvr.py` for the securities): each plans,
saves a backup, writes under ETags where the code does, and can be restored,
while the application writes and runs die. Each phase is an action per script
(audit or plan, backup, one per document written, one per document restored);
between them the application corrects and deletes purchases (`CorrectBuy`,
`DeleteBuy`), supersedes legs, edits, adds and deletes symbols (`UpdateSymbol`,
`AddSymbol`, `DeleteSymbol`) and edits and enriches securities. The application also
amends a security beside its repair (`Amend`); of the amendments, `due` are those
that no run may lose. A purchase has amounts in euro and in its own currency, at a
`rate` to the euro. Variables that
no document holds are history for the properties: `due`, `worth`, `reversed`,
`reopened`, `standing`, `pointed`, `noted`, `unlisted`, `vouched`, `noticed`,
`ghosts`.

The `MC*` modules give instances to TLC: which inputs occur, symmetry, and,
where a run holds several subjects, that a behaviour is about one of them.

## 3. Runs

Passing runs: the properties hold in every reachable state of the instance.
States and seconds are of one run with two workers.

| Run | States | Seconds | Shows |
|---|---|---|---|
| `registry` | 146,000 | 40 | any web request races reload, reschedule and dispatch while jobs are abandoned: no cron change is lost (`CronAdopted`), a schedule that is advanced is parsed, and is that of the task's expression unless a request assigned a parse that had been overtaken (`ScheduleParsed`), copies of a task in the queue are explained by requests (`NoDoubleDispatch`), the running flag clears and expression and switch of a task converge to the stored ones (`Settles`) |
| `chain` | 418,000 | 75 | the accumulated chain is what the log of all answers says: `NeverDropped`, `LastKnownGood`, `FieldsHonest` (source, age, sightings, carrying, Greeks), `OccNeverDowngraded` |
| `store` | 432,000 | 25 | two processes on one shard with conflicts, failures, lost answers, restarts and pruning: `Durable`, and the refinement of `AtomicShards` (`AbsSpec`) |
| `cache` | 78,000 | 14 | two tasks, a scheduler thread and two readers: what is served gets saved (`Saved`), no refresh serves less than was served before it (`NoLostUpdate`), every refresh ends unless one hangs in a provider call, on the request loop or in a thread, and so keeps the lock (`RefreshCompletes`) |
| `best_options` | 214,000 | 90 | a cycle races three refreshes (`CarriedForward`, `RefreshEnds`); readings of a chain: `RowsHonest`, `RollsAgree`, `PagesAgree` |
| `portfolio` | 122,000 | 95 | three operations of any kind with a CSV row and one fault anywhere (`CountedOnce`, `NeverLost`); ledgers of up to four operations (`HoldingsAddUp`, `ReportsAddUp`) |
| `positions` | 869,000 | 60 | writers of whole documents set each other back, but `OneSuccessor` and `CorrectionsKeep` hold |
| `monitor` | 942,000 | 55 | a monitor run and a scoring pass while the position is corrected, rolled, closed or deleted: `ObservationsCurrent`, `ScoresMatch`, `DecisionsHold` |
| `backups` | 642,000 | 87 | two operations, backups or imports: `RolledBackIsClean`, `ForeignDataSurvives`, `LatestNeverBack`, `ArchivesProtected` |
| `reviews` | 1,070,000 | 110 | overlapping runs, of threads under one slot or two, with reviews, validations, clones and deletions (`ReviewsWhenDue`, `OneFreshRun`, `ValidationsSound`); decisions of one step (`ExplanationsHold`, `ScoresFair`); readings over sessions (`HistoryTold`) |
| `repairs` | 2,560,000 | 100 | each maintenance script with repeated runs and restores beside the application: `EditsOutliveRepairs`, `RepairsHold`, `RestoreUndoes` |

One run refutes a sentence of the code's own comments; PROJECT.json quotes it.

| Run | Refuted | What happens |
|---|---|---|
| `portfolio_reimport` | `EachTradeOnce` | import a row, reassign the movement to another account, import the row again: the purge of the earlier chain looks for successors in the old account only, and the trade is counted in both |

### Bounds

Every bound is a constant and stands in a guard, or is the set of inputs an MC
module gives.

* `registry`: one task (tasks share only the queue and the worker), one web
  operation, two rounds of the loop so that an operation can straddle two
  reloads, one expression of three that does not parse, a queue of two, which
  holds the same task twice.
* `chain`: three cycles for "good, zero, zero" and "good, gap, good"; two
  strikes and `DegeneracyMin = 2` for the bucket gate; two expirations and three
  days for pruning; accepted, zero, bad and absent values of every kind of field.
* `store`: two writers (a write is compared with one other), two contracts in a
  shard that fits one, two attempts, three cycles, `LastDay = Grace + 1`.
* `cache`: two tasks of one loop, one of another, one reader of each kind, three
  refreshes: in flight, waiting, late. One contract, as operations on chains
  are contract by contract.
* `best_options`: two requests for one symbol and one for another share the
  lock; one cycle; the chain of one symbol may be missing. Readings vary two
  fields at a time from a base record: about 9,450 inputs.
* `portfolio`: two accounts, one CSV row and two manual trades, three operations,
  one fault. Reports: seven share entries (three for ten cents, two for
  twenty-one: a cent is six units, so no cost per share is rounded) and two transfers, four at a time;
  six option movements over some twenty pairs of positions, three at a time;
  eight dividend entries, four corporate actions and moved legs, three at a
  time, from an empty ledger or four earlier payments.
* `positions`: three ids, three replaces, two copies held; `monitor`: two ids,
  two replaces, one run and one scoring pass, two instants. `RunSpec` has one
  activity for all beside a scoring pass, as a pass looks at snapshots and nothing
  looks both at these and at what an activity says.
* `backups`: one earlier archive and two operations, one edit, three days that
  are months of their own, retention of a day, two months kept; one archive that
  cannot be read once, in behaviours without imports, which read no archive of the
  container, and without edits, as a manual run uploads unchanged documents as
  well; imports on one day.
* `reviews`: two runs at a time, two keys of slots, two validations of one
  contract, one thread of the dashboard beside a validation, which takes no slot:
  there it starts at once and releases its slot at the end of its run; three operations; threshold, cooldown and margin just large enough to differ.
  About 29,400 inputs of decisions; four readings over three sessions.
* `repairs`: two movements and a session; one purchase and a free id with three
  runs (what a second purchase would add is another of the same), in euro or at
  two units to the euro; two legs with
  three costs, or one with about 1,150; three migrations of one ticker with two
  securities; two securities, one with the check of its company, with two runs.
  One fault, one or two edits.

All runs switch the deadlock check off: with the bounds used up and the last
step done, the models stop.

### Fairness

* `TaskRegistry!FairSpec`: weak fairness of the loop, the worker and a web
  request in progress (threads are scheduled, the event loop runs its handler),
  strong fairness of a successful settings read, which is tried every minute and
  may fail any finite number of times. A job is *not* assumed to end: the join
  has a timeout. Nothing assumes that requests are made.
* `OptionsChainCache!FairSpec`: weak fairness of each task and of a reader's
  second step. A `threading.Lock` is not fair; weak fairness of a waiter is
  enough, as only finitely many refreshes (`MaxRefreshes`) can overtake it. A
  provider call that does not hang returns; one that hangs, in any task, has no
  further step.
* `BestOptions!PageFairness`: weak fairness of each request's steps: the loop
  runs what is ready, and evaluations end.

The other runs check safety only and assume no fairness.

## 4. Proofs

TLAPS proves the following for every value of the constants that satisfies the
named assumptions of the modules; the bounds are arbitrary numbers there.
Each `TypeCorrect` states `TypeOK`, which no run checks by itself: TLC checked
it, and each inductive invariant, before it was proved.

| Module | Theorems |
|---|---|
| `Runs_proofs` | of the registry `TypeCorrect`; `NoCronChangeLost` (`CronAdopted`); `EveryRunHasASchedule` (`ScheduleParsed`); `DispatchesExplained` (`NoDoubleDispatch`); of runs and validations `ValidationsTyped`; `RunsAreApart` (`OneFreshRun`); `ValidationsAreSound` (`ValidationsSound`); `ReviewsComeWhenDue` (`ReviewsWhenDue`) |
| `Refreshes_proofs` | of the chain `TypeCorrect`; `ContractsKept` (`NeverDropped`); `FieldsAreLastKnownGood` (`LastKnownGood`); `ProvenanceIsHonest` (`FieldsHonest`); `SymbolsKept` (`OccNeverDowngraded`); of Best Options `PagesTyped`; `NoPageBlanked` (`CarriedForward`) |
| `OptionsChainStore_proofs` | `TypeCorrect`; `WritesAreDurable` (`Durable`); `StoreIsAtomic` (`AbsSpec`, the refinement of `AtomicShards`) |
| `OptionsChainCache_proofs` | `TypeCorrect`; `ServedIsSaved` (`Saved`); `NoUpdateLost` (`NoLostUpdate`) |
| `Positions_proofs` | `TypeCorrect`; `RollsHaveOneSuccessor` (`OneSuccessor`); `CorrectionsUndoNothing` (`CorrectionsKeep`); with the monitors `ObservationsStayCurrent` (`ObservationsCurrent`); `ScoresBelong` (`ScoresMatch`); `DecisionsAreSafe` (`DecisionsHold`) |
| `Ledger_proofs` | `LedgerTyped`; `TradesCountedOnce` (`CountedOnce`); `TradesNeverLost` (`NeverLost`) |
| `Backups_proofs` | `BackupsTyped`; `LatestOnward` (`LatestNeverBack`); `ProtectionHolds` (`ArchivesProtected`); `ImportsTyped`; `RollbackIsRight` (`RolledBackIsClean`); `ForeignDataKept` (`ForeignDataSurvives`) |
| `Repairs_proofs` | `EditsSurvive` (`EditsOutliveRepairs`); `RepairsAreRight` (`RepairsHold`); `RestoresUndo` (`RestoreUndoes`) |

Every proof has the same outline: `IInv` holds initially, one lemma per action
(or group of alike actions) says that the action keeps it, and the theorem
combines them. Why each property needs a stronger invariant:

**Registry.** `CronAdopted` is not inductive: that the loop at `rebase` has a
task, and that a request at `flag` changes a schedule, must be known.
`ScheduleParsed` needs what each thread holds between parsing a schedule and
taking a next run from it (`HeldParsed`).
`NoDoubleDispatch` counts: the copies of a task in the queue, with the worker,
among the threads and in the hands of the loop and the request are accounted for
by the running flag and the requests made (`Accounted`).

**Chain.** The properties say what the accumulated chain is, given the log. The
invariant (`AllGood`) says it with maxima and minima replaced by their
characterisations, one conjunct per field and contract, so that each step of the
merge is a case analysis on what the newest answer did to that field.

**Store.** `Durable` needs to know why a write loses nothing: a shard holds
contracts of its own expiration and its ETag was handed out (`DocsOK`); an ETag
names one content, so that a document read whose ETag still matches is what is
stored now (`SeenOK`); what the pruning query listed stays past its grace, as
days only pass (`PruneOK`). The same invariant gives the refinement: an accepted
write, answered or not, is a `Store` step of `AtomicShards`, a delete a `Prune`,
refreshes and days are the environment's, all others stutter.

**Cache.** `Saved` needs that whoever holds what is served and has not persisted
it is still at work (`Stored`); `NoLostUpdate` that two refreshes never work
from different bases (`OneBase`) and that a refresh's prior covers what was
served when it began (`PriorCovers`).

**Best Options.** While a cycle runs, a symbol nobody touched still has the entry
the cycle read, and what the cycle built is never older than that (`Follows`);
envelopes are times that have passed, which the types say.

**Positions.** Any copy may replace the document at any time, so what is claimed
of the document must hold of every copy held as well: each copy is linked
soundly in itself (`Linked`, `Sound`), names only ids handed out, and a
correction's copy is the document of the version it read.

**Monitors.** `ObservationsCurrent` looks at what is stored; an observation that
a run still carries must be bounded too. `Watched`: unless an old copy set its
correction back (`undone`), what was observed of a position, in flight or stored,
differs from its contract only where a correction was stamped (`Follows`); what
a handler is about to store corrects what it read and stamps it (`Rewrites`);
nobody has seen an id before the document holds it (`Unseen`). Of an activity this
bounds the contract its run held; the filter compares the one the answer names, so
what is read back has either from the present contract. A score is
of the contract of its own run (`ScoresMatch`), whichever stored it.
Assumption: `None` is no word of an agent (`WordsAssumption`).

**Validations and runs.** The slot of a key belongs to the one fresh thread of that
key while there is one (`SlotHeld`): a thread that took over a stale slot cannot
have it released by the owner it displaced. `ValidationsSound` needs that a validation no longer
registered has written, and that its document was not replaced by a run that
writes under the same second (`Written`, `Overwrites`). Assumptions: no slot
record is `Nobody`; the age of a slot is a number.

**Reviews.** `ReviewsWhenDue` compares activities that are all written already,
so the decisions must be remembered where they were made (`ReviewIInv`). Nobody
but a stranger, who mixes it up, writes again to what was settled when something
later began (`SettledStays`), hence what an activity says of its review is final
there: a review that was due never passes for a forced one, nor the reverse
(`Honest`), and while a run goes on it alone knows what it will record (`Owns`;
of two under one second neither does, `ApartAt`). The early half is then kept
because what comes after a review only grows (`CoolAt`). For the late half, a run
that decides has seen the last `Threshold` WAITs as they are now: none is due
only if one of them has its review (`NotDueIsAttended`), and `AttendedAt` holds it
as the WAIT's own from then on. It is proved over `ValidationIInv`. Assumptions:
`Cooldown` is at most `Threshold`, and `Threshold` above one, as the stream begins
with a WAIT (5 and 3 in the code, `agent_runner.py:145-146`).

**Ledger.** An operation is a sequence of calls of which any may be the last, so
the invariant says for each kind of operation what holds between two of them
(`Works`). A writer (`Writing`) has stored a replacement at every other call and
supersedes its original with the next; two of its calls touch one trade only if
they are such a pair (`Distinct`), and every kept trade has an ACTIVE document.
A deletion (`Removing`) and the purge before a repeated import (`Purging`) reach
documents of one trade only: every id stands for one trade for good and links
lead to the same trade (`Linked`), hence so does the chain, however long. An
undo (`Undoing`) restores later what it deletes of a trade, unless the trade is
`broken` already. Between operations one ACTIVE document per trade
is left, the excepted trades apart (`Idle`). `LedgerSpec` is the ledger with the
import sessions on top. Assumptions: the rows are finitely many, and `None` is no
document and no operation (`LedgerAssumption`, `NoneAssumption`).

**Backups.** `LatestNeverBack` follows from the comparisons of each step, also when
runs overlap. `ArchivesProtected` is about runs that did not, and so is the
invariant `Alone`: records are in the order of completion and months, a `NO_CHANGE` record names the newest archive of its
time, and what each phase of a run knows of the pointer, the anchors and the
tags is still true, as far as the run could read (`Sees`). What is guarded is tagged
(`Guarded`), so that the rule leaves it alone; a run that tags keeps whatever an
anchor names and was tagged before, and what it keeps is still on its list or has
its tag already (`TaggingOK`), hence a crash between two tags untags nothing that is
guarded and named. After a run that could read everything that is so of every
anchor (`Recovered`).

**Imports.** `Accounted`: before its inventory an import has created nothing,
afterwards only what the inventory names, and nothing when its journal says
`ROLLED_BACK`. `Apart`: as long as no lock outlived its time to live, the
documents an import works on are its own. Assumptions: `ApplyOrder` lists the
items, `None` is neither a document nor a maker (`ImportAssumption`).

**Maintenance scripts.** `RepairsIInv` has one invariant per script; since a
behaviour is about one script, each action keeps its own and leaves the others
alone. All have the same two difficulties. A restore writes what some earlier
run saved, so whatever is claimed of a document must hold of every body in every
backup, now and after what others do meanwhile; and a write under an ETag is
right only because a document that still has the ETag is the one that was read.

* `SecurityIInv`: an entry that was discovered is unchanged or has a later ETag
  (`Taken`), so a patch never overwrites an edit; a restore has undone what is
  no longer on its list (`Undoes`); from the last check on, only what was
  recorded later or put back may refer to the source (`Abandoned`).
* `AmendedIInv`: what may not be lost and is in the source is in the target too as
  soon as there is one, and before that in the body the run discovered (`Copied`).
* `BuyIInv`: every purchase, stored or saved, has one of the three shapes of its
  own trade and the marks that go with it (`Placed`, `Sound`), whichever runs
  and restores it went through; what a correction replaced is active only where
  a restore reopened it; the amounts of one in euro are equal in both currencies
  (`InEuro`), so also of each body saved. `Unreadable` is the exception that `BuysConsistent`
  makes for `Misread` purchases.
* `LegIInv`: a saved leg is the leg itself while the ETag is the same, and
  carries the last of the plans older than its run's (`SavedOK`). The plans that
  stand for a leg are ordered by the ETag they were made with, so that taking
  one back leaves the last of the others (`StandOK`). A repaired cost is a fixed
  point of `classify_document` (lemma `RepairedCost`).
* `MigrationIInv`: ETags are given out once; a configuration that has the one
  that was classified names a security that is still there (`Classified`).
* `SymbolIInv`: what a backup would put back has the expected symbols only
  where they are vouched for (`VouchedFor`).

The type of a run says of a saved body only that it is itself (`from : {r.from}`);
what it may be is in the conjuncts above. Assumptions: `None` is no number and no
plan; amounts of legs are natural, as `_decimal` reads a negative one as none
(`repair_legacy_scrip_costs.py:88`); no leg was repaired before the first run
(`LegRepairAssumption`, `MigrationAssumption`).

What stays model-checked:

* all liveness (`Settles`, `RefreshCompletes`, `RefreshEnds`): the provers do not
  reason about fairness or `ENABLED`;
* what folds and recursive functions compute over data (`HoldingsAddUp`,
  `ReportsAddUp`, `RowsHonest`, `RollsAgree`, `PagesAgree`, `ExplanationsHold`,
  `ScoresFair`, `HistoryTold`): that takes induction over data.

## 5. Known limits

What the code does against what a reader might expect, met while modelling. The
properties are stated so that they hold beside these; where a property has an
exception for one of them, its comment says so.

**Scheduler.** Run Now and the due check both test `running` before either sets
it, so a task may be queued once more per request (`scheduler_registry.py:346`).
A task switched on while its new expression is adopted may keep the schedule of
the old one, with no flag to repair it, until the next change
(`scheduler_registry.py:396`). A job abandoned after 30 minutes overlaps the next dispatch. A task that is off
at start-up and switched on by the stored settings has no next run. After more
than 100 missed occurrences the next run stays in the past (:310).
`update_settings` sections save whole copies that may be stale (`web/app.py`
8516 ff.); `merge_defaults` saves its whole copy too, and after a failed read
lets defaults overwrite stored values, against its docstring
(`cosmos_db.py:2094`, :2132).

**Chains.** A hydrate overtaken by a refresh puts an older chain back until the
next refresh (`options_chain_cache.py:290` against :39-40). A hydrate that fails
at a cold start begins the symbol from nothing (:815), and then a price of 0.0
may replace a good stored one (:664). The loops share one task slot per symbol,
so a second fetch can start. A backend resolved during an outage stays disabled
for the life of the process. A refresh keeps the symbol's lock while
its provider hangs, on the request loop (:578) as in an abandoned thread (:547). A write is skipped when only the recency changed
(`options_chain_store.py:520`), so stored `last_seen` may be old. Of two OCC
symbols the later wins (`options_chain_merge.py:197`).

**Best Options and screener.** A cycle publishes the `refreshing` flag it read
(`best_options_precompute.py:337`). A refresh that fails blanks the envelope,
against the docstring (:31-35). With three requests the clean-up of one task
may pop a newer one. `nearest_miss` ranks a contract that fails delta and
earnings before one that fails earnings only. Unknown parts of a score are
renormalised away, so that missing data can raise it. The roll table takes the
profit from midpoints and the score from asks, and does not check the chain's
status. The screener's memo lacks the day (`options_screener.py:253`); a failed
load of holdings makes every symbol one without shares. `api_debug_agent_chain`
filters in another order than the agents' code (`agent_runner.py` 2891-2895), so
it is not "byte-for-byte what the agent actually sees".

**Ledger and reports.** A preview is committed although an answer changed after
it (`import_service.py:304`); a skipped company stays skipped once resolved.
Voiding by account after one leg was reassigned voids half a group.
`_count_active_movements` is 0 and `get_all_movements_for_holdings` is empty
when their query fails, so reports become zero. A correction of the note of a
purchase stored in the inverted shape recomputes its cost from it
(`cosmos_portfolio.py` 1130-1215). Sales and purchases of one day are ordered by
id, corporate-action groups of one day by a random id. A carried cost is the
average of all acquisitions (:2369) and frozen, while holdings deplete first in,
first out; so a transfer may change the remaining cost. Each line of the
holdings is rounded by itself: the cents of the accounts need not add up to
those of the whole, nor the lines to the summary. A transfer of more than
is held raises no warning (`holdings_service.py:296`). Dividends whose legs sit
in several accounts appear in no account's report. Moves of the opposite type
count in commissions but not in premium.

**Positions.** Writers without an ETag set back closes and corrections of others
(`undone`). Rolling from an activity opens the contract just closed
(`web/app.py:3626`). The old position is "rolled", not "closed" as concepts.md:332
has it; a position opened from an alert keeps its activities. Two runs in one
second share their ids. `dps_cron` may store a stale contract's score with the
newest snapshot's strike. The filter of an agent's history goes by the contract an
answer names (`context.py:66`, `position_expiration.py:43`), not by the one its run
held, which is stored beside it (`agent_runner.py` 3277-3283): an old run whose
answer names the corrected contract passes for an observation of it, and a current
one that misnames it is left out. A rejected handoff (`agent_runner.py:2421`) may be an
alert by its text. A position closed after it was read is still monitored.
`delete_position` keeps snapshots. A failure while preparing reviews replaces
the stored alert by an error activity.

**Reviews and validations.** Overlapping runs can review closer than the
cooldown; a forced review whose record could not be written counts as due; a
failed Alpha does not start the cooldown; when the activities cannot be read, none
is due (`agent_runner.py` 1430-1435). An agent triggered for every symbol and for
one takes two slots (`web/app.py` 9659-9664), and both runs may write to one stream. Writes in one second overwrite each
other. The clone of a validation copies its run id, so that a poll may return
the clone. A persist that was applied but raised leaves two documents of one
run; when the error cannot be stored either, the poll answers not_found. A null
where a text is expected leaves a SELL alert with status "error"
(`agent_runner.py` 5034-5039), although its docstring says that an incomplete or
invalid review returns WAIT (:4475-4477).

**Decisions.** `fundamental_check` passes on an empty assessment and
`premium_cross_check` without an ask (`rule_evaluator.py:819`, :1050), although
missing data is said to degrade to unknown (:2180-2182); an ask that the answer
leaves out counts as a quote. A SELL with a blocked earnings gate is only reported. Missing RSI
and RSI 50 score +4 for calls, 0 for puts. A single prior session flips a
status at once, two sessions without data debounce a fresh ROLL away. The cliff
warning compares only with the reading before (`dps_scorer.py` 1562-1582, not
modelled). A strike within $0.50 may lend another contract's Greeks. A second
normalisation of a buy tracker answer with three invalid dimensions loses the cap.

**Backups.** A download that fails for the moment makes its archive no candidate
(`blob_store.py:261-275`): `recover_latest` sets the pointer back to an older one,
and `reconcile_monthly_anchors` may drop a month, delete its anchor and untag its
archive in a run that ends healthy, so that the rule may delete an archive which an
anchor named and would name again; deployment.md:386-390 says it cannot delete one
that an anchor protects. Tags are written archive by archive, the older first
(:347-359): a crash between two leaves a month whose anchor has moved on without a
tagged archive until the next run that ends well. `AnchorsStand` and `LatestNeverBack`
name both. A NO_CHANGE run can end healthy although its archive
is gone. The second of two overlapping scheduled runs fails at the control
record; a renewing thread that dies is not noticed. An import's lock expires
under a slow owner, after which a second import deletes what the first created.
A document with the archive's content that a user made between plan and create is
deleted by compensation, and the settings document without its ETag, although
deployment.md:495-496 says an import "never updates or deletes existing user
records"; `ForeignDataSurvives` covers neither. A process that dies while APPLYING is
never resumed.

**Scripts.** The restore of `repair_pep_security_id.py` never reverts import
sessions, and after a second run deletes the target while movements name it; a
write between re-check and unconditional delete leaves a dangling reference; a
session error does not stop the deletion. An amendment of the security
made after its discovery, or beside the copy, is in the source only and deleted with
it (:1018-1044, :1187-1190; `cosmos_securities.py` 197-325). A restore deletes a
target that was amended, or that movements were recorded under, as long as it has
its marker, although it logs "modified after migration — skipping" for the others
(:1241-1249). Restores of `repair_buy_ledger_fields.py`
overwrite later edits and re-activate superseded originals (:1248 says "safe for
concurrent environments"); the first repair after the second inverts for good.
Both repairs treat native amounts as euro (`repair_buy_ledger_fields.py:383`,
"assumes EUR-denominated imports"): they add the fees in euro to them (:385, :488)
and store the net in euro as the native one (:992), also for a purchase in
another currency (`BuysConsistent` claims native amounts only for euro).
A purchase of value zero with fees whose source row cannot be read is marked by
the first repair for its status only, and the second takes the mark for evidence
of its trade value (`Misread`).
The scrip restore ignores edits to exactly the repaired fields. The migration's
restore is unconditional, leaves the securities its run created (:696) and
deletes those of earlier runs, which the configuration it puts back may name
(`unlisted`); `delete_symbol` takes the ticker's securities along. The
provider-symbol repair overwrites symbols a user set after the discovery, and
its restore rewrites the whole document over later edits (:806-812).
`api_update_symbol` replaces without an ETag; it is one step here.

## 6. Plan

1. `repair_shard` and `purge` of the store; the settings document with
   `merge_defaults`, for which `TaskRegistry` has one step.
2. Composition of the cache with `AtomicShards` in place of its own variable.
