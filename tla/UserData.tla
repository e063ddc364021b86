------------------------------ MODULE UserData ------------------------------
(* The authoritative documents that a backup exports and an import         *)
(* creates: accounts, securities, symbol configurations, movements, plans  *)
(* and the one settings document.  A content is the one that the archive   *)
(* to import holds for the document, or another one.                       *)
EXTENDS Naturals

CONSTANTS Items,        \* documents
          Settings,     \* the settings document among them
          Makers,       \* who may create a document besides its user
          None,
          MaxEdits      \* bound: writes of users and of other jobs

ASSUME UserDataAssumption ==
    /\ Settings \subseteq Items
    /\ MaxEdits \in Nat

VARIABLES
    data,       \* item -> document or None
    edits       \* how many writes were not an import's

dataVars == <<data, edits>>

Contents == {"archived", "other"}

(* Who created the document, and the last edit: together its ETag.         *)
Documents == [content : Contents, by : Makers \cup {None}, at : 0 .. MaxEdits]

Document(content, by, at) == [content |-> content, by |-> by, at |-> at]

DataInit ==
    /\ data \in [Items -> {None} \cup {Document(c, None, 0) : c \in Contents}]
    /\ edits = 0

MayEdit == edits < MaxEdits /\ edits' = edits + 1

(* Anything else that writes the documents: handlers of another replica,   *)
(* the scheduler's jobs, scripts.                                          *)
UserWrites(i, c) ==
    /\ MayEdit
    /\ data' = [data EXCEPT ![i] =
                   Document(c, IF @ = None THEN None ELSE @.by, edits + 1)]

UserDeletes(i) ==
    /\ MayEdit
    /\ data[i] # None
    /\ data' = [data EXCEPT ![i] = None]

DataNext ==
    \/ \E i \in Items, c \in Contents : UserWrites(i, c)
    \/ \E i \in Items : UserDeletes(i)

=============================================================================
