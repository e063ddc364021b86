------------------------------ MODULE MCBackups ------------------------------
(* Automatic backups and imports over the same documents, at most          *)
(* MaxOperations of them together.                                         *)
EXTENDS BackupImport, AutomaticBackup, TLC

CONSTANTS account, settings, b0, b1, b2, r1, r2, MaxOperations

Order == <<account, settings>>

vars == <<dataVars, importVars, backupVars>>

Symmetric == Permutations({b1, b2}) \cup Permutations({r1, r2})

Operations ==
    Cardinality({b \in Backups \ {First} : ~In(b, "idle")}) + Cardinality({r \in Imports : ~At(r, "idle")})

Importing == \E r \in Imports : import[r].phase \notin {"idle", "done"}

(* An empty database, into which a backup is restored.                     *)
Init ==
    /\ DataInit
    /\ \A i \in Items : data[i] = None
    /\ ImportInit
    /\ BackupInit

(* Imports, users and backups meet in the documents only.  Of the steps of *)
(* a backup, the export is taken while an import is under way and between  *)
(* writes of users; the others come before or after.  Days, and archives   *)
(* that cannot be read for the moment, are nothing to an import: there are *)
(* imports on one day only, and where all archives can be read.  Nobody    *)
(* edits where one cannot, as runs that upload whatever they find and runs *)
(* that need not are there without an edit.                                *)
Undisturbed == \A b \in Backups : backup[b].phase \in {"idle", "recovered", "done"}

Next ==
    \/ DataNext /\ Undisturbed /\ misreads = 0 /\ UNCHANGED <<importVars, backupVars>>
    \/ /\ ImportNext /\ UNCHANGED backupVars /\ Operations' <= MaxOperations
       /\ misreads = 0 /\ day = 1
    \/ /\ BackupNext /\ UNCHANGED <<dataVars, importVars>> /\ Operations' <= MaxOperations
       /\ Importing => clock' # clock
       /\ misreads' # misreads => edits = 0
       /\ misreads' # misreads \/ day' # day => \A r \in Imports : At(r, "idle")

Spec == Init /\ [][Next]_vars

=============================================================================
