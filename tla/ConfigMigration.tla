--------------------------- MODULE ConfigMigration ---------------------------
(***************************************************************************)
(* migrate_legacy_symbol_config.py, for the configuration of one ticker:   *)
(* its exchange becomes a market identifier and it gets the identifier of  *)
(* the security listed there, which is created when there is none under    *)
(* any market.  The users of the application edit, delete and add          *)
(* configurations and securities meanwhile, calls fail and runs die.       *)
(*                                                                         *)
(* Abstracted: an exchange is the market of the security "own" or an alias *)
(* of it, the market of "foreign", or unknown; both have the ticker.  A    *)
(* read with the write that an ETag guards is one step, and so is what a   *)
(* request of the application does.                                        *)
(***************************************************************************)
EXTENDS Absent, Integers, Sequences, FiniteSets, FiniteSetsExt

CONSTANTS MaxMigrations, MaxConfigEdits, MaxConfigFaults   \* bounds

ASSUME MigrationAssumption ==
    {MaxMigrations, MaxConfigEdits, MaxConfigFaults} \subseteq Nat /\ None \notin Nat

VARIABLES
    symbol,     \* symbol_config: [exchange, sid, note, tag], or None
    listed,     \* "own", "foreign" -> "absent", "user" or "migration"
    snapshots,  \* backups: [symbol, listed]
    migration,  \* the run or restore under way, or None
    etags,      \* ETags given out
    migrations, configEdits, configFaults,
    noted,      \* the note a user last wrote, or a restore put back
    unlisted    \* whether a reference dangled before, or a restore left one

configVars == <<symbol, listed, snapshots, migration, etags, migrations, configEdits,
                configFaults, noted, unlisted>>

Listed(i) == i # None /\ listed[i] # "absent"
Dangles == symbol # None /\ symbol.sid # None /\ ~Listed(symbol.sid)

MigrationInit ==
    /\ symbol \in [exchange : {"mic", "alias", "other", "unknown"}, sid : {None, "own", "foreign"},
                   note : {0}, tag : {0}]
    /\ listed \in [{"own", "foreign"} -> {"absent", "user"}]
    /\ snapshots = <<>> /\ migration = None /\ etags = 0
    /\ migrations = 0 /\ configEdits = 0 /\ configFaults = 0
    /\ noted = 0 /\ unlisted = Dangles

(* classify_one, for a configuration there is: the security it should name *)
(* and what is to be done.                                                 *)
Expected == IF symbol.exchange = "other" THEN "foreign" ELSE "own"
Status ==
    IF symbol.exchange = "unknown" THEN "unresolved_exchange"
    ELSE IF Listed(Expected)
    THEN IF symbol.exchange # "alias" /\ symbol.sid = Expected THEN "already_canonical" ELSE "link"
    ELSE IF \E i \in DOMAIN listed : Listed(i) THEN "collision_ambiguous" ELSE "create"

MigrationAt(pc) == migration # None /\ migration.pc = pc
MigrationGoto(pc) == migration' = [migration EXCEPT !.pc = pc]
ConfigFault == configFaults < MaxConfigFaults /\ configFaults' = configFaults + 1
TagOf(config) == IF config = None THEN None ELSE config.tag
WriteConfig(config) == symbol' = [config EXCEPT !.tag = etags + 1] /\ etags' = etags + 1

(* build_backup, write_backup.                                             *)
StartMigration ==
    /\ migration = None /\ migrations < MaxMigrations
    /\ migrations' = migrations + 1
    /\ snapshots' = Append(snapshots, [symbol |-> symbol, listed |-> listed])
    /\ migration' = [pc |-> "classify", tag |-> TagOf(symbol), target |-> None, todo |-> {},
                     from |-> None]
    /\ UNCHANGED <<symbol, listed, etags, configEdits, configFaults, noted, unlisted>>

(* classify_all: live, after the backup.                                   *)
Classify ==
    /\ MigrationAt("classify")
    /\ migration' = [migration EXCEPT
                       !.pc = IF symbol = None \/ Status \notin {"link", "create"} THEN "verify"
                              ELSE IF Status = "link" THEN "config" ELSE "create",
                       !.target = IF symbol = None THEN None ELSE Expected]
    /\ UNCHANGED <<symbol, listed, snapshots, etags, migrations, configEdits, configFaults, noted, unlisted>>

(* _create_migration_security.  A security that somebody has created since *)
(* (409), or a call that fails, is an error: the configuration is left.    *)
CreateListing ==
    /\ MigrationAt("create")
    /\ \/ /\ ~Listed(migration.target)
          /\ listed' = [listed EXCEPT ![migration.target] = "migration"]
          /\ MigrationGoto("config")
          /\ UNCHANGED configFaults
       \/ /\ (Listed(migration.target) /\ UNCHANGED configFaults) \/ ConfigFault
          /\ MigrationGoto("verify")
          /\ UNCHANGED listed
    /\ UNCHANGED <<symbol, snapshots, etags, migrations, configEdits, noted, unlisted>>

(* Two fields of the configuration as it is now, under the ETag of the     *)
(* backup: when that passes, it is the one that was classified.            *)
MigrateConfig ==
    /\ MigrationAt("config")
    /\ MigrationGoto("verify")
    /\ \/ /\ symbol # None /\ symbol.tag = migration.tag
          /\ WriteConfig([symbol EXCEPT !.exchange = IF @ = "alias" THEN "mic" ELSE @,
                                        !.sid = migration.target])
          /\ UNCHANGED configFaults
       \/ /\ (TagOf(symbol) # migration.tag /\ UNCHANGED configFaults) \/ ConfigFault
          /\ UNCHANGED <<symbol, etags>>
    /\ UNCHANGED <<listed, snapshots, migrations, configEdits, noted, unlisted>>

(* _verify_migration reads what is there and reports.                      *)
VerifyMigration ==
    /\ MigrationAt("verify")
    /\ migration' = None
    /\ UNCHANGED <<symbol, listed, snapshots, etags, migrations, configEdits, configFaults, noted, unlisted>>

MigrationDies ==
    /\ migration # None /\ ConfigFault
    /\ migration' = None
    /\ UNCHANGED <<symbol, listed, snapshots, etags, migrations, configEdits, noted, unlisted>>

(* run_restore: the saved documents in the order of their ids, without a   *)
(* look at what is there; a security that a migration made is deleted.     *)
StartUndo ==
    /\ migration = None /\ migrations < MaxMigrations
    /\ migrations' = migrations + 1
    /\ \E b \in DOMAIN snapshots :
         LET from == snapshots[b]
         IN  migration' = [pc |-> "undo", tag |-> None, target |-> None, from |-> from,
                 todo |-> (IF from.symbol = None THEN {} ELSE {"config"}) \cup
                          {i \in DOMAIN listed : from.listed[i] # "absent"}]
    /\ UNCHANGED <<symbol, listed, snapshots, etags, configEdits, configFaults, noted, unlisted>>

Undone(doc) ==
    /\ MigrationAt("undo") /\ doc \in migration.todo
    /\ doc = "config" \/ "config" \notin migration.todo
    /\ migration' = IF migration.todo = {doc} THEN None ELSE [migration EXCEPT !.todo = @ \ {doc}]
    /\ UNCHANGED <<snapshots, migrations, configEdits>>

UndoConfig ==
    /\ Undone("config")
    /\ WriteConfig(migration.from.symbol)
    /\ noted' = migration.from.symbol.note
    /\ UNCHANGED <<listed, configFaults>>
    /\ unlisted' = (unlisted \/ Dangles')

UndoListing(i) ==
    /\ Undone(i)
    /\ listed' = [listed EXCEPT ![i] =
                    IF migration.from.listed[i] = "migration" THEN "absent" ELSE "user"]
    /\ UNCHANGED <<symbol, etags, configFaults, noted>>
    /\ unlisted' = (unlisted \/ Dangles')

(* A document that cannot be written is counted, no more.                  *)
UndoFails ==
    /\ ConfigFault
    /\ \E doc \in {"config"} \cup DOMAIN listed : Undone(doc)
    /\ UNCHANGED <<symbol, listed, etags, noted, unlisted>>

-----------------------------------------------------------------------------
MayEditConfig ==
    /\ configEdits < MaxConfigEdits /\ configEdits' = configEdits + 1
    /\ UNCHANGED <<snapshots, migration, migrations, configFaults, unlisted>>

(* api_update_symbol: the exchange, or any other field.                    *)
UpdateSymbol(exchange, note) ==
    /\ MayEditConfig
    /\ symbol # None
    /\ WriteConfig([symbol EXCEPT !.exchange = exchange, !.note = note])
    /\ noted' = note
    /\ UNCHANGED listed

(* add_symbol: a security and, when there is none, a configuration.        *)
AddSymbol(i) ==
    /\ MayEditConfig
    /\ listed' = IF Listed(i) THEN listed ELSE [listed EXCEPT ![i] = "user"]
    /\ IF symbol # None THEN UNCHANGED <<symbol, etags, noted>>
       ELSE /\ WriteConfig([exchange |-> IF i = "own" THEN "mic" ELSE "other", sid |-> i,
                            note |-> 0, tag |-> 0])
            /\ noted' = 0

(* delete_symbol: every document of the ticker, its securities too.        *)
DeleteSymbol ==
    /\ MayEditConfig
    /\ symbol # None
    /\ symbol' = None /\ listed' = [i \in DOMAIN listed |-> "absent"]
    /\ UNCHANGED <<etags, noted>>

MigrationNext ==
    \/ StartMigration \/ Classify \/ CreateListing \/ MigrateConfig \/ VerifyMigration
    \/ StartUndo \/ UndoConfig \/ UndoFails \/ MigrationDies
    \/ \E i \in DOMAIN listed : UndoListing(i) \/ AddSymbol(i)
    \/ \E exchange \in {"mic", "alias", "other"} : symbol # None /\ UpdateSymbol(exchange, symbol.note)
    \/ symbol # None /\ UpdateSymbol(symbol.exchange, symbol.note + 1)
    \/ DeleteSymbol

-----------------------------------------------------------------------------
(* No order of runs, edits and failures leaves a configuration that names  *)
(* a security which does not exist, but for one that did so before and for *)
(* what a restore does, which removes the securities of earlier runs.      *)
ConfigResolves == Dangles => unlisted

(* A migration keeps what a user wrote to the configuration meanwhile.     *)
ConfigEditsKept == symbol # None => symbol.note = noted

------------------------------------------------------------------------------
(***************************************************************************)
(* repair_provider_symbols_enag_micct_ulvr.py: three securities get the    *)
(* provider symbols that were found to be right, each only when the        *)
(* provider itself, asked at the start of the run, corroborates it; then   *)
(* the ticker's enrichment is computed from them.                          *)
(*                                                                         *)
(* Abstracted: what the provider answers is a set of facts; symbols are    *)
(* the expected ones, those of before, or a user's.  The reads of the      *)
(* discovery are one step, those of the backup another, and a read with    *)
(* the write that its ETag guards is one.                                  *)
(***************************************************************************)

CONSTANTS Securities,
          CompanyChecked,                   \* those with verify_company
          MaxSymbolRuns, MaxSymbolEdits     \* bounds

ASSUME SymbolRepairAssumption ==
    CompanyChecked \subseteq Securities /\ {MaxSymbolRuns, MaxSymbolEdits} \subseteq Nat

VARIABLES
    named,      \* security -> [symbols, note, company], or None
    enriched,   \* security -> the symbols its ticker's enrichment was computed from
    symbolSaved,\* backups
    symbolRun,  \* the run or restore under way, or None
    symbolRuns, symbolEdits,
    vouched,    \* securities for which somebody has vouched for the expected symbols
    noticed     \* security -> the note last written, or put back

symbolVars == <<named, enriched, symbolSaved, symbolRun, symbolRuns, symbolEdits, vouched, noticed>>

(* company: whether the document has a name to compare with.               *)
SymbolInit ==
    /\ named \in [Securities -> {None} \cup [symbols : {"before", "expected"}, note : {0},
                                             company : BOOLEAN]]
    /\ enriched = [s \in Securities |-> "before"]
    /\ symbolSaved = <<>> /\ symbolRun = None
    /\ symbolRuns = 0 /\ symbolEdits = 0
    /\ vouched = {s \in Securities : named[s] # None /\ named[s].symbols = "expected"}
    /\ noticed = [s \in Securities |-> 0]

(* What the provider's answer for the expected symbol may show.            *)
Facts == {"answers", "euro", "exchange", "company"}
ProviderAnswers == {{}, Facts \ {"euro"}, Facts \ {"company"}, Facts}

(* _company_plausibly_matches: no name on file contradicts nothing.        *)
CompanyMatches(s, facts) == named[s] = None \/ ~named[s].company \/ "company" \in facts

(* verify_provider_symbol.                                                 *)
Corroborated(s, facts) ==
    /\ {"answers", "euro", "exchange"} \subseteq facts
    /\ s \in CompanyChecked => CompanyMatches(s, facts)

(* discover, and apply_repair's end when nothing can be done: exit code 2. *)
Discover ==
    /\ symbolRun = None /\ symbolRuns < MaxSymbolRuns
    /\ symbolRuns' = symbolRuns + 1
    /\ \E facts \in [Securities -> ProviderAnswers] :
         LET verified == {s \in Securities : Corroborated(s, facts[s])}
             found == {s \in Securities : named[s] # None}
             correct == {s \in found : named[s].symbols = "expected"}
         IN  /\ verified \cup correct # {}
             /\ symbolRun' = [pc |-> "backup", todo |-> found \cap verified, correct |-> correct,
                              enrich |-> None, from |-> <<>>]
             /\ vouched' = vouched \cup verified
    /\ UNCHANGED <<named, enriched, symbolSaved, symbolEdits, noticed>>

(* build_backup, write_backup: the documents there are now.                *)
BackupSymbols ==
    /\ symbolRun # None /\ symbolRun.pc = "backup"
    /\ symbolSaved' = Append(symbolSaved,
           [s \in {t \in Securities : named[t] # None} |-> named[s]])
    /\ symbolRun' = [symbolRun EXCEPT !.pc = "write"]
    /\ UNCHANGED <<named, enriched, symbolRuns, symbolEdits, vouched, noticed>>

SymbolAt(pc, s) ==
    /\ symbolRun # None /\ symbolRun.pc = pc
    /\ symbolRun.enrich = None /\ s \in symbolRun.todo

(* Phase 3, one verified security after another: the symbols as they are   *)
(* now are replaced, and what is written is read back.  One that was right *)
(* at the discovery is left as it is.                                      *)
CorrectSymbols(s) ==
    /\ SymbolAt("write", s)
    /\ s \in symbolRun.correct \/ named[s] # None
    /\ symbolRun' = [symbolRun EXCEPT !.todo = @ \ {s}, !.enrich = s]
    /\ named' = IF s \in symbolRun.correct THEN named
                ELSE [named EXCEPT ![s].symbols = "expected"]
    /\ UNCHANGED <<enriched, symbolSaved, symbolRuns, symbolEdits, vouched, noticed>>

(* Phase 4, _persist_enrichment, whose failure is reported only.           *)
EnrichSymbols ==
    /\ symbolRun # None /\ symbolRun.enrich # None
    /\ symbolRun' = [symbolRun EXCEPT !.enrich = None]
    /\ \/ /\ enriched[symbolRun.enrich] # None
          /\ enriched' = [enriched EXCEPT ![symbolRun.enrich] = "expected"]
       \/ UNCHANGED enriched
    /\ UNCHANGED <<named, symbolSaved, symbolRuns, symbolEdits, vouched, noticed>>

(* read_backup.                                                            *)
StartSymbolRestore ==
    /\ symbolRun = None /\ symbolRuns < MaxSymbolRuns
    /\ symbolRuns' = symbolRuns + 1
    /\ \E b \in DOMAIN symbolSaved :
         symbolRun' = [pc |-> "restore", todo |-> DOMAIN symbolSaved[b], correct |-> {},
                       enrich |-> None, from |-> symbolSaved[b]]
    /\ UNCHANGED <<named, enriched, symbolSaved, symbolEdits, vouched, noticed>>

(* run_restore: the whole saved body, wherever the symbols differ from it. *)
RestoreSymbols(s) ==
    /\ SymbolAt("restore", s)
    /\ named[s] # None /\ named[s].symbols # symbolRun.from[s].symbols
    /\ symbolRun' = [symbolRun EXCEPT !.todo = @ \ {s}]
    /\ named' = [named EXCEPT ![s] = symbolRun.from[s]]
    /\ noticed' = [noticed EXCEPT ![s] = symbolRun.from[s].note]
    /\ UNCHANGED <<enriched, symbolSaved, symbolRuns, symbolEdits, vouched>>

(* A document that is gone or is already as it was saved, a conflict or a  *)
(* value that is not read back skips one security.                         *)
SkipSymbols(s) ==
    /\ SymbolAt("write", s) \/ SymbolAt("restore", s)
    /\ symbolRun' = [symbolRun EXCEPT !.todo = @ \ {s}]
    /\ UNCHANGED <<named, enriched, symbolSaved, symbolRuns, symbolEdits, vouched, noticed>>

(* The securities are done, a call fails, or the process dies.             *)
EndSymbolRun ==
    /\ symbolRun # None /\ symbolRun' = None
    /\ UNCHANGED <<named, enriched, symbolSaved, symbolRuns, symbolEdits, vouched, noticed>>

MayEditSecurity == symbolEdits < MaxSymbolEdits /\ symbolEdits' = symbolEdits + 1

(* update_security: the symbols, or another field.                         *)
EditSecurity(s, symbols, note) ==
    /\ MayEditSecurity
    /\ named[s] # None
    /\ named' = [named EXCEPT ![s].symbols = symbols, ![s].note = note]
    /\ noticed' = [noticed EXCEPT ![s] = note]
    /\ UNCHANGED <<enriched, symbolSaved, symbolRun, symbolRuns, vouched>>

(* delete_symbol takes the security and the configuration, which holds the *)
(* enrichment, with the ticker's other documents.                          *)
RemoveSecurity(s) ==
    /\ MayEditSecurity
    /\ named[s] # None /\ named' = [named EXCEPT ![s] = None]
    /\ enriched' = [enriched EXCEPT ![s] = None]
    /\ UNCHANGED <<symbolSaved, symbolRun, symbolRuns, vouched, noticed>>

(* The hourly enrichment uses the symbols there are.                       *)
Enrich(s) ==
    /\ MayEditSecurity
    /\ named[s] # None /\ enriched' = [enriched EXCEPT ![s] = named[s].symbols]
    /\ UNCHANGED <<named, symbolSaved, symbolRun, symbolRuns, vouched, noticed>>

SymbolNext ==
    \/ Discover \/ BackupSymbols \/ EnrichSymbols \/ StartSymbolRestore \/ EndSymbolRun
    \/ \E s \in Securities :
         \/ CorrectSymbols(s) \/ RestoreSymbols(s) \/ SkipSymbols(s)
         \/ named[s] # None /\ EditSecurity(s, "users", named[s].note)
         \/ named[s] # None /\ EditSecurity(s, named[s].symbols, named[s].note + 1)
         \/ RemoveSecurity(s) \/ Enrich(s)

-----------------------------------------------------------------------------
(* Neither a security nor the enrichment of its ticker comes to rest on    *)
(* the symbols of this repair unless the provider had corroborated them    *)
(* for that very security, or they had been there before; and a repair     *)
(* keeps what a user wrote to the other fields.                            *)
SymbolsConfirmed ==
    \A s \in Securities :
        \/ named[s] # None /\ named[s].symbols = "expected"
        \/ enriched[s] # None /\ enriched[s] = "expected"
        => s \in vouched
SymbolEditsKept == \A s \in Securities : named[s] # None => named[s].note = noticed[s]
=============================================================================
