--------------------------- MODULE ImportSession ---------------------------
(***************************************************************************)
(* One CSV import session of portfolio/import_service.py on top of the     *)
(* ledger: a question per company, a preview kept in the session document, *)
(* and the commit, which writes the preview row by row, goes on after a    *)
(* failed row, and may be cut off by a restart and called again.           *)
(***************************************************************************)
EXTENDS MovementLedger

CONSTANT MaxAnswers     \* bound: answers given

VARIABLES
    session,        \* the stored import_session document
    todo,           \* rows commit_session has still to write, None if it is not running
    answers

sessionVars == <<session, todo, answers>>
importVars == <<ledgerVars, sessionVars>>

ImportInit ==
        /\ LedgerInit
        /\ session = [state |-> "ENTITY_QUESTIONS", resolved |-> {}, skipped |-> {},
                      preview |-> None]
        /\ todo = None
        /\ answers = 0

(* _compute_state: a row stands for its company's question.                *)
Pending(resolved, skipped) == Rows \ (resolved \cup skipped)
StateOf(resolved, skipped) ==
    IF Pending(resolved, skipped) = {} THEN "PREVIEW_READY" ELSE "ENTITY_QUESTIONS"

Save(s) == /\ session' = s
           /\ UNCHANGED <<ledgerVars, todo>>

Serial == op = None /\ todo = None

(* answer_question and inline_create_security: a company that was skipped  *)
(* stays in skipped_companies when it is resolved later.                   *)
Answer(r) ==
    /\ Serial /\ session.state # "COMMITTED" /\ answers < MaxAnswers
    /\ answers' = answers + 1
    /\ \E yes \in BOOLEAN :
          LET resolved == IF yes THEN session.resolved \cup {r} ELSE session.resolved
              skipped == IF yes THEN session.skipped ELSE session.skipped \cup {r}
          IN  Save([session EXCEPT !.state = StateOf(resolved, skipped),
                                   !.resolved = resolved, !.skipped = skipped])

(* _build_preview_movements.                                               *)
Previewed == session.resolved \ session.skipped

(* generate_preview.                                                       *)
Preview ==
    /\ Serial /\ session.state # "COMMITTED"
    /\ Pending(session.resolved, session.skipped) = {}
    /\ Save([session EXCEPT !.state = "PREVIEW_READY", !.preview = Previewed])
    /\ UNCHANGED answers

(* commit_session: an empty or missing preview is built now, an earlier    *)
(* one is taken as it is.                                                  *)
ToCommit == IF session.preview \in {None, {}} THEN Previewed ELSE session.preview

BeginCommit ==
    /\ Serial /\ session.state = "PREVIEW_READY"
    /\ Pending(session.resolved, session.skipped) = {}
    /\ todo' = ToCommit
    /\ UNCHANGED <<ledgerVars, session, answers>>

(* A row that the ledger refuses is skipped, as is one whose write fails.  *)
CommitRow(r) ==
    /\ op = None /\ todo # None /\ r \in todo
    /\ IF docs[r] # None /\ ~Active(r) /\ Grouped(Chain(r))
       THEN UNCHANGED ledgerVars
       ELSE Import(r)
    /\ todo' = todo \ {r}
    /\ UNCHANGED <<session, answers>>

EndCommit ==
    /\ op = None /\ todo = {}
    /\ session' = [session EXCEPT !.state = "COMMITTED", !.preview = ToCommit]
    /\ todo' = None
    /\ UNCHANGED <<ledgerVars, answers>>

(* Another upload of the same file.                                        *)
UploadAgain ==
    /\ Serial /\ session.state = "COMMITTED"
    /\ Save([state |-> "ENTITY_QUESTIONS", resolved |-> {}, skipped |-> {}, preview |-> None])
    /\ UNCHANGED answers

(* A restart forgets where the commit was; so does the death of the        *)
(* process between two rows.                                               *)
RestartCommit ==
    /\ todo # None /\ op = None /\ faults < MaxFaults
    /\ faults' = faults + 1
    /\ todo' = None
    /\ UNCHANGED <<docs, next, op, history, ops, session, answers>>

ImportNext ==
        \/ todo = None /\ Operation /\ UNCHANGED sessionVars
        \/ (Step \/ Fail) /\ UNCHANGED sessionVars
        \/ Crash /\ todo' = None /\ UNCHANGED <<session, answers>>
        \/ \E r \in Rows : Answer(r) \/ CommitRow(r)
        \/ Preview \/ BeginCommit \/ EndCommit \/ UploadAgain \/ RestartCommit

LedgerSpec == ImportInit /\ [][ImportNext]_importVars
=============================================================================
