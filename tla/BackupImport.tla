---------------------------- MODULE BackupImport ----------------------------
(***************************************************************************)
(* Imports of one archive: plan, journal, lock, plan again, inventory,     *)
(* creates, verification; and when anything fails, compensation: every     *)
(* planned document that has the archive's content is deleted, and the     *)
(* journal ends ROLLED_BACK only when none is left.  Imports of several    *)
(* processes, users and jobs interleave; a process may die at any step and *)
(* any call may fail.                                                      *)
(*                                                                         *)
(* Abstracted: the records of a section (positions are part of their       *)
(* configuration, settings are one document), dependency closure, controls *)
(* and identifier collisions, which make a plan invalid for good.  The     *)
(* reads of one plan are one step; an edit of a document that differs from *)
(* the archive before and after it, which changes the plan's fingerprint,  *)
(* is a call that fails.                                                   *)
(***************************************************************************)
EXTENDS UserData, Functions

CONSTANTS Imports,      \* bound: runs of apply, each once
          ApplyOrder    \* the items in APPLY_ORDER

ASSUME ImportAssumption ==
    /\ Range(ApplyOrder) = Items
    /\ Imports \subseteq Makers
    /\ None \notin Makers \cup Documents

VARIABLES
    import,     \* import -> what its process holds
    journal,    \* import -> its durable journal
    lock,       \* owner of user-backup-import-lock, or None
    expired     \* has a lock outlived its time to live?

importVars == <<import, journal, lock, expired>>

(* todo: the documents still to be created, or taken back; held: the one   *)
(* that compensation is about to delete.                                   *)
Idle == [phase |-> "idle", skip |-> FALSE, plan |-> <<>>, todo |-> {},
         held |-> None, errors |-> FALSE]

Empty == [state |-> None, planned |-> {}, created |-> {}]

ImportInit ==
    /\ import = [r \in Imports |-> Idle]
    /\ journal = [r \in Imports |-> Empty]
    /\ lock = None
    /\ expired = FALSE

--------------------------------------------------------------------------
(* _plan: what would be done with each document as it is now.              *)
Plan(skip) ==
    [i \in Items |->
        IF data[i] = None THEN "CREATE"
        ELSE IF data[i].content = "archived" THEN "SKIP_IDENTICAL"
        ELSE IF skip THEN "SKIP_CONFLICT"
        ELSE "CONFLICT_REQUIRES_CHOICE"]

Valid(plan) == \A i \in Items : plan[i] # "CONFLICT_REQUIRES_CHOICE"

At(r, phase) == import[r].phase = phase

Move(r, phase) == import' = [import EXCEPT ![r].phase = phase]

Place == [i \in Items |-> CHOOSE k \in DOMAIN ApplyOrder : ApplyOrder[k] = i]

Foremost(i, todo) == \A j \in todo : Place[i] <= Place[j]

Hindmost(i, todo) == \A j \in todo : Place[j] <= Place[i]

(* An exception on the way to COMPLETED: the journal as it is stored says  *)
(* what to take back, last created first.                                  *)
Compensating(r) == [Idle EXCEPT !.phase = "compensating", !.todo = journal[r].planned]

Raise(r) == import' = [import EXCEPT ![r] = Compensating(r)]

Release(r) == import' = [import EXCEPT ![r] = [Idle EXCEPT !.phase = "releasing"]]

Return(r) == import' = [import EXCEPT ![r] = [Idle EXCEPT !.phase = "done"]]

(* apply: a valid plan with the fingerprint of the dry run.                *)
Apply(r, skip) ==
    /\ At(r, "idle")
    /\ Valid(Plan(skip))
    /\ import' = [import EXCEPT ![r].phase = "locking", ![r].skip = skip, ![r].plan = Plan(skip)]
    /\ journal' = [journal EXCEPT ![r].state = "PREPARED"]
    /\ UNCHANGED <<lock, expired>>

AcquireLock(r) ==
    /\ At(r, "locking")
    /\ IF lock = None
       THEN lock' = r /\ Move(r, "locked")
       ELSE Raise(r) /\ UNCHANGED lock
    /\ UNCHANGED <<journal, expired>>

(* Under the lock the plan must be the same as before.                     *)
Recheck(r) ==
    /\ At(r, "locked")
    /\ IF Plan(import[r].skip) = import[r].plan
       THEN /\ Move(r, "applying")
            /\ journal' = [journal EXCEPT ![r].state = "APPLYING"]
       ELSE Raise(r) /\ UNCHANGED journal
    /\ UNCHANGED <<lock, expired>>

Creates(r) == {i \in Items : import[r].plan[i] = "CREATE"}

(* prepare_inventory: what will be created is on record before it is.      *)
PrepareInventory(r) ==
    /\ At(r, "applying")
    /\ journal' = [journal EXCEPT ![r].planned = Creates(r)]
    /\ import' = [import EXCEPT ![r].phase = "creating",
                     ![r].todo = Creates(r)]
    /\ UNCHANGED <<lock, expired>>

Creating(r, i) == At(r, "creating") /\ Foremost(i, import[r].todo)

(* create_item; its answer may be lost.                                    *)
CreateItem(r, i) ==
    /\ Creating(r, i)
    /\ data[i] = None
    /\ data' = [data EXCEPT ![i] = Document("archived", r, edits)]
    /\ Move(r, "created") \/ Raise(r)
    /\ UNCHANGED <<journal, lock, expired, edits>>

CreateConflicts(r, i) ==
    /\ Creating(r, i)
    /\ data[i] # None
    /\ Raise(r)
    /\ UNCHANGED <<journal, lock, expired>>

TransitionItem(r, i) ==
    /\ At(r, "created")
    /\ Foremost(i, import[r].todo)
    /\ journal' = [journal EXCEPT ![r].created = @ \cup {i}]
    /\ import' = [import EXCEPT ![r].phase = "creating", ![r].todo = @ \ {i}]
    /\ UNCHANGED <<lock, expired>>

(* The postflight plan finds everything there, or the import fails.        *)
Postflight(r) ==
    /\ At(r, "creating")
    /\ import[r].todo = {}
    /\ LET plan == Plan(import[r].skip)
       IN  IF Valid(plan) /\ \A i \in Items : plan[i] # "CREATE"
           THEN /\ journal' = [journal EXCEPT ![r].state = "COMPLETED"]
                /\ Release(r)
           ELSE Raise(r) /\ UNCHANGED journal
    /\ UNCHANGED <<lock, expired>>

(* Any call before that raises.                                            *)
CallFails(r) ==
    /\ import[r].phase \in {"locking", "locked", "applying", "creating", "created"}
    /\ Raise(r)
    /\ UNCHANGED <<journal, lock, expired>>

--------------------------------------------------------------------------
(* Compensation. *)

Undoing(r, i) == At(r, "compensating") /\ Hindmost(i, import[r].todo)

NextUndo(r, i, failed) ==
    import' = [import EXCEPT ![r].phase = "compensating", ![r].todo = @ \ {i},
                  ![r].held = None, ![r].errors = @ \/ failed]

(* Gone already, read failed, or not what the import would have created.   *)
SkipItem(r, i) ==
    /\ Undoing(r, i)
    /\ \/ data[i] = None /\ NextUndo(r, i, FALSE)
       \/ NextUndo(r, i, TRUE)
    /\ UNCHANGED <<journal, lock, expired>>

(* A planned document with the archive's content is taken for the          *)
(* import's, also when its creation was never confirmed (AMBIGUOUS).       *)
CheckItem(r, i) ==
    /\ Undoing(r, i)
    /\ data[i] # None
    /\ data[i].content = "archived"
    /\ import' = [import EXCEPT ![r].phase = "deleting", ![r].held = data[i]]
    /\ journal' = [journal EXCEPT ![r].created = @ \cup {i}]
    /\ UNCHANGED <<lock, expired>>

Unmatched(r, i) == data[i] # None              \* mutant

(* if-match on the ETag that was read, except for the settings document.   *)
Matches(r, i) == data[i] # None /\ (i \in Settings \/ data[i] = import[r].held)

DeleteItem(r, i) ==
    /\ At(r, "deleting")
    /\ Hindmost(i, import[r].todo)
    /\ IF Matches(r, i)
       THEN data' = [data EXCEPT ![i] = None] /\ \E failed \in BOOLEAN : NextUndo(r, i, failed)
       ELSE NextUndo(r, i, TRUE) /\ UNCHANGED data
    /\ UNCHANGED <<journal, lock, expired, edits>>

BelievesDeletes(r) ==                          \* mutant
    /\ At(r, "compensating")
    /\ import[r].todo = {}
    /\ journal' = [journal EXCEPT ![r].state = "ROLLED_BACK"]
    /\ Release(r)
    /\ UNCHANGED <<lock, expired>>

(* Every planned document is looked up once more.                          *)
EndCompensation(r) ==
    /\ At(r, "compensating")
    /\ import[r].todo = {}
    /\ journal' = [journal EXCEPT ![r].state =
                      IF import[r].errors \/ \E i \in journal[r].planned : data[i] # None
                      THEN "PARTIAL_REQUIRES_ATTENTION" ELSE "ROLLED_BACK"]
    /\ Release(r)
    /\ UNCHANGED <<lock, expired>>

(* The journal could not be read or saved: it stays as it is.              *)
CompensationFails(r) ==
    /\ At(r, "compensating")
    /\ Release(r)
    /\ UNCHANGED <<journal, lock, expired>>

(* release_lock, by its owner only; a failure is swallowed.                *)
ReleaseLock(r) ==
    /\ At(r, "releasing")
    /\ Return(r)
    /\ lock' \in {lock, IF lock = r THEN None ELSE lock}
    /\ UNCHANGED <<journal, expired>>

(* The process dies: nothing resumes the import, its lock stays.           *)
ImportCrash(r) ==
    /\ import[r].phase \notin {"idle", "done"}
    /\ Return(r)
    /\ UNCHANGED <<journal, lock, expired>>

(* Cosmos deletes the lock an hour after it was created.                   *)
LockExpires ==
    /\ lock # None
    /\ lock' = None
    /\ expired' = (expired \/ import[lock].phase # "done")
    /\ UNCHANGED <<import, journal>>

JournalStep(r) ==
    \/ \E skip \in BOOLEAN : Apply(r, skip)
    \/ AcquireLock(r)
    \/ Recheck(r)
    \/ PrepareInventory(r)
    \/ \E i \in import[r].todo : CreateConflicts(r, i) \/ TransitionItem(r, i)
    \/ Postflight(r)
    \/ CallFails(r)
    \/ \E i \in import[r].todo : SkipItem(r, i) \/ CheckItem(r, i)
    \/ EndCompensation(r)
    \/ CompensationFails(r)
    \/ ReleaseLock(r)
    \/ ImportCrash(r)

ImportNext ==
    \/ \E r \in Imports : JournalStep(r) /\ UNCHANGED dataVars
    \/ \E r \in Imports : \E i \in import[r].todo : CreateItem(r, i) \/ DeleteItem(r, i)
    \/ LockExpires /\ UNCHANGED dataVars

(* Imports among users and other jobs that write the documents.            *)
ImportSpec ==
    DataInit /\ ImportInit
        /\ [][ImportNext \/ (DataNext /\ UNCHANGED importVars)]_<<dataVars, importVars>>

--------------------------------------------------------------------------
(* A journal that says ROLLED_BACK is right: nothing that the import       *)
(* created is left, confirmed or not, edited since or not, whatever call   *)
(* of the import or of its compensation failed or lost its answer.         *)
RolledBackIsClean ==
    \A r \in Imports :
        journal[r].state = "ROLLED_BACK" =>
            \A i \in Items : data[i] # None => data[i].by # r

(* What an import takes away has the archive's content when it is deleted: *)
(* a document to which somebody has written another content since the      *)
(* import created it is never deleted, although the content is compared    *)
(* some calls before the delete.  The settings document is deleted without *)
(* its ETag and is not covered.                                            *)
EditsSurvive ==
    [][edits' = edits =>
         \A i \in Items \ Settings :
            data[i] # None /\ data'[i] = None => data[i].content = "archived"]_<<data, edits>>

(* As long as no lock outlives its time to live, no import deletes what    *)
(* another one created, although both plan to create the same documents.   *)
(* It may delete what no import created (by = None): a document with the   *)
(* archive's content that somebody made between the plan and the create,   *)
(* which compensation takes for its own; also against deployment.md, that  *)
(* an import never deletes existing user records.                          *)
ImportsKeepApart ==
    [][\A i \in Items :
         ~expired /\ data[i] # None /\ data'[i] = None =>
            \A r \in Imports :
               At(r, "deleting") /\ import'[r] # import[r] => data[i].by \in {r, None}
      ]_<<data, importVars>>

(* What an import takes away has the archive's content, and until a lock   *)
(* has expired under its owner no other import created it; the settings    *)
(* document, and one that a user made with just that content, are not      *)
(* protected.                                                              *)
ForeignDataSurvives == EditsSurvive /\ ImportsKeepApart
=============================================================================
