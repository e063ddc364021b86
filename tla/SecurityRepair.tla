--------------------------- MODULE SecurityRepair ---------------------------
(***************************************************************************)
(* repair_pep_security_id.py: a security that was filed under an exchange  *)
(* that does not exist gets its true identifier.  A run discovers the      *)
(* documents, saves a backup, creates the target, re-points the            *)
(* configuration, the movements and the import sessions, each under the    *)
(* ETag it was discovered with, verifies, and only then deletes the        *)
(* source.  A run may be repeated or restored from its backup.  The        *)
(* application goes on writing meanwhile; calls fail and runs die.         *)
(*                                                                         *)
(* Abstracted: the other fields of a movement are its quantity, those of a *)
(* security the amendments it carries, which leave it compatible with its  *)
(* copy.  The reads of one discovery are one step, and so is a read with   *)
(* the write that its ETag guards.  At most one run at a time, and nobody  *)
(* deletes the symbol meanwhile.                                           *)
(***************************************************************************)
EXTENDS Absent, Integers, Sequences, FiniteSets, FiniteSetsExt

CONSTANTS Movements,    \* ids that a ledger_txn may have
          Sessions,     \* import sessions
          Currencies,
          MaxRuns,      \* bound: repairs and restores
          MaxEdits,     \* bound: writes of the application
          MaxFaults     \* bound: failed calls and crashes

ASSUME SecurityRepairAssumption == {MaxRuns, MaxEdits, MaxFaults} \subseteq Nat

VARIABLES
    master,     \* "from", "to" -> security_master: [kind, currency, amendments]
    config,     \* the symbol's configuration: [sid, tag], or None
    ledger,     \* movement -> [sid, quantity, tag], or None
    session,    \* import session -> [sid, tag]
    backups,    \* the discoveries saved so far
    run,        \* the repair or restore under way, or None
    runs, edits, faults,
    entered,    \* the quantity the application last gave a movement, or 0
    late,       \* movements recorded under the source after its last check
    back,       \* movements a restore put back
    due         \* amendments of a security that no run may lose

stored == <<master, config, ledger, session>>
ghosts == <<entered, late, back, due>>
repairVars == <<stored, backups, run, runs, edits, faults, ghosts>>

Security(kind, currency, amendments) ==
    [kind |-> kind, currency |-> currency, amendments |-> amendments]
Absent == Security("absent", None, {})
Exists(i) == master[i].kind # "absent"
Refers(m, i) == ledger[m] # None /\ ledger[m].sid = i
Under(i) == {m \in Movements : Refers(m, i)}
Pointing == {s \in Sessions : session[s].sid = "from"}

(* Before the first repair.  The target may exist already, compatible or   *)
(* not; one movement is still free.                                        *)
RepairInit ==
    /\ \E c \in Currencies, k \in {"absent", "plain", "other"} :
         master = [i \in {"from", "to"} |->
                     IF i = "from" THEN Security("plain", c, {})
                     ELSE IF k = "absent" THEN Absent ELSE Security(k, c, {})]
    /\ config \in {None} \cup [sid : {"none", "from"}, tag : {0}]
    /\ \E free \in Movements :
         /\ ledger = [m \in Movements |-> IF m = free THEN None
                                          ELSE [sid |-> "from", quantity |-> 1, tag |-> 0]]
         /\ entered = [m \in Movements |-> IF m = free THEN 0 ELSE 1]
    /\ session = [s \in Sessions |-> [sid |-> "from", tag |-> 0]]
    /\ backups = <<>> /\ run = None
    /\ runs = 0 /\ edits = 0 /\ faults = 0
    /\ late = {} /\ back = {} /\ due = {}

-----------------------------------------------------------------------------
(* _verify_listing_currency_with_provider: both of the provider's          *)
(* currencies and its exchange have to agree with what was asked for.      *)
Answers == {None} \cup [currency : Currencies, financial : Currencies, corroborates : BOOLEAN]

Verdict(wanted, answer) ==
    IF wanted = None THEN "not_requested"
    ELSE IF answer = None THEN "unreachable"
    ELSE IF answer.currency = wanted /\ answer.financial = wanted /\ answer.corroborates
         THEN "verified"
    ELSE "mismatch"

(* _holdings_snapshot.                                                     *)
Holdings(ms) ==
    [count |-> Cardinality(ms), net |-> MapThenSumSet(LAMBDA m : ledger[m].quantity, ms)]

(* _check_collision.                                                       *)
Collides == Exists("from") /\ master["to"].kind = "other"

(* discover.                                                               *)
Discovery ==
    [config |-> config, master |-> master,
     ledger |-> [m \in Under("from") |-> ledger[m]],
     session |-> [s \in Pointing |-> session[s]],
     before |-> Holdings(Under("from") \cup Under("to"))]

At(kind, pc) == run # None /\ run.kind = kind /\ run.pc = pc
Goto(pc) == run' = [run EXCEPT !.pc = pc]
Conflicting(pc) == run' = [run EXCEPT !.pc = pc, !.conflicts = TRUE]
End == run' = None

MayRun == run = None /\ runs < MaxRuns /\ runs' = runs + 1
MayFail == faults < MaxFaults /\ faults' = faults + 1

(* run_apply up to its backup: without a configuration, on a collision, or *)
(* with an unverified currency it ends before it has written anything.     *)
Apply(wanted, answer) ==
    /\ MayRun
    /\ config # None /\ ~Collides
    /\ Verdict(wanted, answer) \in {"not_requested", "verified"}
    /\ backups' = Append(backups, Discovery)
    /\ run' = [kind |-> "repair", pc |-> "target", disc |-> Discovery, currency |-> wanted,
               todo |-> Under("from"), conflicts |-> FALSE]
    /\ UNCHANGED <<stored, edits, faults, ghosts>>

(* Phase 3a: a copy of the source as it was discovered.  The target may    *)
(* have appeared since (409).                                              *)
CreateTarget ==
    /\ At("repair", "target")
    /\ LET source == run.disc.master["from"]
           given == IF run.currency # None THEN run.currency ELSE source.currency
       IN  IF run.disc.master["to"].kind # "absent" THEN Goto("config") /\ UNCHANGED master
           ELSE IF source.kind = "absent" THEN End /\ UNCHANGED master
           ELSE /\ Goto("config")
                /\ master' = IF Exists("to") THEN master
                             ELSE [master EXCEPT !["to"] =
                                      Security("migrated", given, source.amendments)]
    /\ UNCHANGED <<config, ledger, session, backups, runs, edits, faults, ghosts>>

(* Phase 3b.                                                               *)
PatchConfig ==
    /\ At("repair", "config")
    /\ IF run.disc.config.sid = "to" THEN Goto("ledger") /\ UNCHANGED config
       ELSE IF config.tag = run.disc.config.tag
       THEN Goto("ledger") /\ config' = [sid |-> "to", tag |-> config.tag + 1]
       ELSE Conflicting("ledger") /\ UNCHANGED config
    /\ UNCHANGED <<master, ledger, session, backups, runs, edits, faults, ghosts>>

(* _etag_replace of what was discovered; a document that is gone is an     *)
(* error, which is counted and does not hold the run up.                   *)
PatchUnguarded(m) ==                                               \* mutant
    /\ ledger' = [ledger EXCEPT ![m] = [run.disc.ledger[m] EXCEPT !.sid = "to", !.tag = @ + 1]]
    /\ run' = [run EXCEPT !.todo = @ \ {m}]

Patch(m) ==
    LET seen == run.disc.ledger[m]
        gone == ledger[m] = None
    IN  IF ~gone /\ ledger[m].tag = seen.tag
        THEN /\ ledger' = [ledger EXCEPT ![m] = [seen EXCEPT !.sid = "to", !.tag = @ + 1]]
             /\ run' = [run EXCEPT !.todo = @ \ {m}]
        ELSE /\ run' = [run EXCEPT !.todo = @ \ {m}, !.conflicts = @ \/ ~gone]
             /\ UNCHANGED ledger

(* Phase 3c.                                                               *)
PatchMovement(m) ==
    /\ At("repair", "ledger") /\ m \in run.todo
    /\ Patch(m)
    /\ UNCHANGED <<master, config, session, backups, runs, edits, faults, ghosts>>

MovementsPatched ==
    /\ At("repair", "ledger") /\ run.todo = {}
    /\ run' = [run EXCEPT !.pc = "sessions", !.todo = DOMAIN run.disc.session]
    /\ UNCHANGED <<stored, backups, runs, edits, faults, ghosts>>

(* Phase 3d.                                                               *)
PatchSession(s) ==
    /\ At("repair", "sessions") /\ s \in run.todo
    /\ LET same == session[s].tag = run.disc.session[s].tag
       IN  /\ session' = IF same THEN [session EXCEPT ![s] = [sid |-> "to", tag |-> @.tag + 1]]
                         ELSE session
           /\ run' = [run EXCEPT !.todo = @ \ {s}, !.conflicts = @ \/ ~same]
    /\ UNCHANGED <<master, config, ledger, backups, runs, edits, faults, ghosts>>

(* A conflict leaves the run partial: nothing is verified or deleted.      *)
SessionsPatched ==
    /\ At("repair", "sessions") /\ run.todo = {}
    /\ IF run.conflicts THEN End ELSE Goto("verify")
    /\ UNCHANGED <<stored, backups, runs, edits, faults, ghosts>>

(* A call that fails on one movement or session is counted, no more.       *)
Skip(x) ==
    /\ At("repair", "ledger") \/ At("repair", "sessions")
    /\ x \in run.todo
    /\ MayFail
    /\ run' = [run EXCEPT !.todo = @ \ {x}]
    /\ UNCHANGED <<stored, backups, runs, edits, ghosts>>

(* _verify_repair: no movement is left, and the holdings are the ones that *)
(* both identifiers had together.                                          *)
Verified == Under("from") = {} /\ Holdings(Under("to")) = run.disc.before

Verify ==
    /\ At("repair", "verify")
    /\ IF Verified /\ run.disc.master["from"].kind # "absent" THEN Goto("recheck") ELSE End
    /\ UNCHANGED <<stored, backups, runs, edits, faults, ghosts>>

(* Phase 5: the source is read once more, and what refers to it.           *)
Recheck ==
    /\ At("repair", "recheck")
    /\ IF Exists("from") /\ Under("from") = {} THEN Goto("delete") ELSE End
    /\ UNCHANGED <<stored, backups, runs, edits, faults, ghosts>>

(* delete_item, without the ETag that was just read.                       *)
DeleteSource ==
    /\ At("repair", "delete")
    /\ master' = [master EXCEPT !["from"] = Absent]
    /\ End
    /\ UNCHANGED <<config, ledger, session, backups, runs, edits, faults, ghosts>>

-----------------------------------------------------------------------------
(* run_restore goes through the backup in the order of the containers and  *)
(* ids.  An import session has no security_id of its own: it always counts *)
(* as restored.                                                            *)
Restore(b) ==
    /\ MayRun
    /\ run' = [kind |-> "restore", pc |-> "ledger", disc |-> backups[b], currency |-> None,
               todo |-> DOMAIN backups[b].ledger, conflicts |-> FALSE]
    /\ UNCHANGED <<stored, backups, edits, faults, ghosts>>

(* What still has the repair's identifier gets back only its own, whatever *)
(* else was written since.                                                 *)
PutBack(m) == [ledger[m] EXCEPT !.sid = run.disc.ledger[m].sid, !.tag = @ + 1]

RestoreMovement(m) ==
    /\ At("restore", "ledger") /\ m \in run.todo
    /\ run' = [run EXCEPT !.todo = @ \ {m}]
    /\ IF Refers(m, "to")
       THEN ledger' = [ledger EXCEPT ![m] = PutBack(m)] /\ back' = back \cup {m}
       ELSE UNCHANGED <<ledger, back>>
    /\ UNCHANGED <<master, config, session, backups, runs, edits, faults, entered, late, due>>

RestoreFails(m) ==
    /\ At("restore", "ledger") /\ m \in run.todo
    /\ MayFail
    /\ run' = [run EXCEPT !.todo = @ \ {m}, !.conflicts = TRUE]
    /\ UNCHANGED <<stored, backups, runs, edits, ghosts>>

RestoreConfigSet ==                                                \* mutant
    /\ At("restore", "ledger") /\ run.todo = {}
    /\ Goto("source")
    /\ config' = IF config.sid = "to" /\ run.disc.config.sid = "from"
                 THEN [sid |-> "from", tag |-> config.tag + 1] ELSE config
    /\ UNCHANGED <<master, ledger, session, backups, runs, edits, faults, ghosts>>

RestoreConfig ==
    /\ At("restore", "ledger") /\ run.todo = {}
    /\ Goto("source")
    /\ config' = IF config.sid = "to" /\ run.disc.config.sid # "to"
                 THEN [sid |-> run.disc.config.sid, tag |-> config.tag + 1] ELSE config
    /\ UNCHANGED <<master, ledger, session, backups, runs, edits, faults, ghosts>>

(* The source is created again; of the targets only one that a repair made *)
(* and that was there when the backup was taken is deleted, whoever        *)
(* amended it or recorded movements under it.                              *)
RestoreSource ==
    /\ At("restore", "source")
    /\ Goto("target")
    /\ master' = IF Exists("from") THEN master
                 ELSE [master EXCEPT !["from"] = run.disc.master["from"]]
    /\ UNCHANGED <<config, ledger, session, backups, runs, edits, faults, ghosts>>

RestoreTarget ==
    /\ At("restore", "target")
    /\ Goto("restored")
    /\ IF run.disc.master["to"].kind = "migrated" /\ master["to"].kind = "migrated"
       THEN /\ master' = [master EXCEPT !["to"] = Absent]
            /\ due' = due \cap master["from"].amendments
       ELSE UNCHANGED <<master, due>>
    /\ UNCHANGED <<config, ledger, session, backups, runs, edits, faults, entered, late, back>>

RestoreEnds ==
    /\ At("restore", "restored") /\ End
    /\ UNCHANGED <<stored, backups, runs, edits, faults, ghosts>>

(* The process dies, or a call fails that ends it.                         *)
RunDies ==
    /\ run # None /\ MayFail /\ End
    /\ UNCHANGED <<stored, backups, runs, edits, ghosts>>

-----------------------------------------------------------------------------
MayEdit == edits < MaxEdits /\ edits' = edits + 1

Write(m, d) ==
    /\ MayEdit
    /\ ledger' = [ledger EXCEPT ![m] = d]
    /\ entered' = IF d = None THEN entered ELSE [entered EXCEPT ![m] = d.quantity]
    /\ UNCHANGED <<master, config, session, backups, run, runs, faults, back, due>>

Correct(m) ==
    /\ ledger[m] # None
    /\ Write(m, [ledger[m] EXCEPT !.quantity = @ + 1, !.tag = @ + 1])
    /\ UNCHANGED late

Remove(m) == ledger[m] # None /\ Write(m, None) /\ UNCHANGED late

(* By hand for a security that exists, or by the commit of an import       *)
(* session for the one its resolution names.                               *)
Record(m, i) ==
    /\ entered[m] = 0
    /\ Exists(i) \/ \E s \in Sessions : session[s].sid = i
    /\ Write(m, [sid |-> i, quantity |-> 1, tag |-> 0])
    /\ late' = IF i = "from" /\ (At("repair", "delete") \/ ~Exists("from"))
               THEN late \cup {m} ELSE late

(* update_security.  What is amended beside the copy, or after it was      *)
(* discovered for one, is in the source only.                              *)
Amend(i) ==
    /\ Exists(i) /\ MayEdit
    /\ master' = [master EXCEPT ![i].amendments = @ \cup {edits'}]
    /\ due' = IF i = "from" /\ (Exists("to") \/ (run # None /\ run.kind = "repair"))
              THEN due ELSE due \cup {edits'}
    /\ UNCHANGED <<config, ledger, session, backups, run, runs, faults, entered, late, back>>

EditConfig ==
    /\ config # None /\ MayEdit
    /\ config' = [config EXCEPT !.tag = @ + 1]
    /\ UNCHANGED <<master, ledger, session, backups, run, runs, faults, ghosts>>

EditSession(s) ==
    /\ MayEdit
    /\ session' = [session EXCEPT ![s].tag = @ + 1]
    /\ UNCHANGED <<master, config, ledger, backups, run, runs, faults, ghosts>>

RepairNext ==
    \/ \E c \in Currencies \cup {None}, a \in Answers : Apply(c, a)
    \/ CreateTarget \/ PatchConfig \/ MovementsPatched \/ SessionsPatched
    \/ \E x \in Movements \cup Sessions : Skip(x)
    \/ \E m \in Movements : \/ PatchMovement(m) \/ RestoreMovement(m) \/ RestoreFails(m)
                            \/ Correct(m) \/ Remove(m)
                            \/ \E i \in {"from", "to"} : Record(m, i)
    \/ \E s \in Sessions : PatchSession(s) \/ EditSession(s)
    \/ Verify \/ Recheck \/ DeleteSource
    \/ \E b \in DOMAIN backups : Restore(b)
    \/ RestoreConfig \/ RestoreSource \/ RestoreTarget \/ RestoreEnds
    \/ RunDies \/ EditConfig
    \/ \E i \in {"from", "to"} : Amend(i)

-----------------------------------------------------------------------------
(* The source is deleted under no movement: what refers to a deleted       *)
(* source was recorded after the last check, or put back by a restore that *)
(* has not come to the source yet.                                         *)
SourceOutlivesReferences ==
    ~Exists("from") => Under("from") \subseteq late \cup back

(* Neither a repair nor a restore undoes what the application wrote to a   *)
(* movement.                                                               *)
EntriesKept == \A m \in Movements : ledger[m] # None => ledger[m].quantity = entered[m]

(* An amendment of the security is in its source or in its target, though  *)
(* the target is copied from a snapshot and the source deleted under no    *)
(* ETag, in whatever order runs die, are repeated and restored.  Lost are  *)
(* only those made to the source beside its target or after the run under  *)
(* way discovered it, and those in a target that a restore deletes         *)
(* (README, Known limits).                                                 *)
AmendmentsKept == due \subseteq master["from"].amendments \cup master["to"].amendments

(* A restore that met no conflict leaves nothing it had to put back under  *)
(* the target, and the source is there.                                    *)
RestoreUndoes ==
    At("restore", "restored") /\ ~run.conflicts =>
        /\ DOMAIN run.disc.ledger \cap Under("to") = {}
        /\ config.sid = "to" => run.disc.config.sid = "to"
        /\ run.disc.master["from"].kind # "absent" => Exists("from")
=============================================================================
