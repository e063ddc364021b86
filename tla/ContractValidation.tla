-------------------------- MODULE ContractValidation --------------------------
(***************************************************************************)
(* Validations of one contract each, beside the runs of the agents and in  *)
(* the same stream of activities: accepted once per contract and a few at  *)
(* a time, fetched, judged by three agents, stored as an activity, taken   *)
(* out of the registry; and what a poll of one of them is told.            *)
(***************************************************************************)
EXTENDS AgentReviews

CONSTANTS Validations,      \* bound: validations asked for, each once
          ContractOf,       \* the contract each is about
          MaxConcurrent     \* _MAX_CONCURRENT_VALIDATIONS

ASSUME ValidationAssumption == MaxConcurrent \in Nat /\ Agent \notin Validations

VARIABLES
    validation,     \* the task of each: its phase, its timestamp, what it wrote
    inFlight        \* _in_flight_validations: the validations registered

validationVars == <<streamVars, reviewVars, validation, inFlight>>

Task(phase, at) == [phase |-> phase, at |-> at, wrote |-> {}, lost |-> FALSE]

--------------------------------------------------------------------------
(* From the answers of the three agents to the verdict. *)

(* No view when a review fails or lacks a field; a field may be null.      *)
SupervisorViews == {"none", "holds", "reconsider", "null"}

(* Alpha's alternative: which of strike and expiration it changes, whether *)
(* it is explained, whether the market data lets it pass.                  *)
Alternatives ==
    [given : {"null", "incomplete", "complete"}, changes : SUBSET {"strike", "expiration"},
     explained : BOOLEAN, passes : BOOLEAN]

AlphaViews == [strength : {"none", "NONE", "FINDS"}, alternative : Alternatives]

Answers ==
    [primary : {"SELL", "WAIT", "unparsed"}, supervisor : SupervisorViews, alpha : AlphaViews]

Finds(a) == a.alpha.strength = "FINDS" /\ a.alpha.alternative.given = "complete"

(* _validate_alpha_alternative: one parameter changed, never two; the same *)
(* contract only when Alpha explains what it relaxes.                      *)
TwoParameters(b) == b.passes /\ (b.changes = {} => b.explained)    \* mutant
ValidAlternative(b) ==
    /\ b.passes
    /\ b.changes = {} => b.explained
    /\ b.changes # {"strike", "expiration"}

Verdict(decision, status, sold) ==
    [kind |-> IF decision = "SELL" THEN "alert" ELSE "wait", status |-> status, sold |-> sold]

Incomplete == Verdict("WAIT", "review_incomplete", "nothing")

(* An exception leaves the decision as far as it had got.                  *)
Raised(a) == Verdict(a.primary, "error", "nothing")

(* Cases A to D: both reviews are complete and the supervisor upholds.     *)
Weighed(a) ==
    LET b == a.alpha.alternative
        improves == Finds(a) /\ ValidAlternative(b)
    IN  IF Finds(a) /\ b.changes = {} /\ ~b.explained THEN Incomplete
        ELSE IF improves THEN Verdict("SELL", "approved", "alternative")
        ELSE IF a.primary = "SELL"
             THEN IF b.given = "null" THEN Raised(a) ELSE Verdict("SELL", "approved", "requested")
        ELSE IF Finds(a) THEN Incomplete
        ELSE IF b.given = "null" THEN Raised(a) ELSE Verdict("WAIT", "approved", "nothing")

(* run_contract_validation: primary, supervisor, Alpha, in this order; a   *)
(* reconsidering supervisor is final (Case E).                             *)
Judged(a) ==
    IF a.primary = "unparsed" THEN Verdict("WAIT", "error", "nothing")
    ELSE IF a.supervisor = "none" THEN Incomplete
    ELSE IF a.supervisor = "null" THEN Raised(a)
    ELSE IF a.alpha.strength = "none" THEN Incomplete
    ELSE IF a.alpha.strength = "FINDS" /\ a.alpha.alternative.given = "null" THEN Raised(a)
    ELSE IF a.supervisor = "reconsider" THEN Incomplete
    ELSE Weighed(a)

(* Whether Alpha's view is stored with the verdict.                        *)
Viewed(a) ==
    a.primary # "unparsed" /\ a.supervisor \in {"holds", "reconsider"} /\ a.alpha.strength # "none"

(* What may be stored of a validation; its error marks a WAIT as no WAIT.  *)
Outcomes ==
    {[kind |-> IF Judged(a).status = "error" /\ Judged(a).kind = "wait" THEN "error" ELSE Judged(a).kind,
      view |-> Viewed(a)] : a \in Answers}

DocumentOf(v, outcome) == Document(outcome.kind, outcome.view, "none", v)

ErrorOf(v) == Document("error", FALSE, "none", v)

--------------------------------------------------------------------------
(* start_validation: one validation per contract, MaxConcurrent at a time. *)
Accepts(v) ==
    /\ validation[v].phase = "none" /\ ops < MaxOps
    /\ \A u \in inFlight : ContractOf[u] # ContractOf[v]
    /\ Cardinality(inFlight) < MaxConcurrent
    /\ validation' = [validation EXCEPT ![v] = Task("fetching", now)]
    /\ inFlight' = inFlight \cup {v}
    /\ ops' = ops + 1
    /\ UNCHANGED <<now, run, slotVars, streamVars>>

(* The data is there; the engine mints its timestamp and asks the agents.  *)
Fetches(v) ==
    /\ validation[v].phase = "fetching"
    /\ validation' = [validation EXCEPT ![v] = Task("judging", now)]
    /\ UNCHANGED <<reviewVars, streamVars, inFlight>>

(* _persist_validation_activity: stored, or the call raises, the document  *)
(* being stored or not.                                                    *)
Stores(v, at, d, next) ==
    /\ activities' = Upserted(at, d)
    /\ history' = Noted(at, Event({}, "none", FALSE))
    /\ validation' = [validation EXCEPT ![v].phase = next, ![v].wrote = @ \cup {at}]

Persists(v) ==
    /\ \/ validation[v].phase = "fetching" /\ Stores(v, now, ErrorOf(v), "persisted")
       \/ /\ validation[v].phase = "judging"
          /\ \E o \in Outcomes : Stores(v, validation[v].at, DocumentOf(v, o), "persisted")
    /\ UNCHANGED <<reviewVars, inFlight>>

PersistRaises(v) ==
    /\ \/ /\ validation[v].phase = "judging"
          /\ \E o \in Outcomes : Stores(v, validation[v].at, DocumentOf(v, o), "failing")
       \/ /\ validation[v].phase \in {"fetching", "judging"}
          /\ validation' = [validation EXCEPT ![v].phase = "failing"]
          /\ UNCHANGED streamVars
    /\ UNCHANGED <<reviewVars, inFlight>>

(* The handler of every exception stores an error, and may itself fail.    *)
PersistsError(v) ==
    /\ validation[v].phase = "failing"
    /\ \/ Stores(v, now, ErrorOf(v), "persisted")
       \/ /\ validation' = [validation EXCEPT ![v].phase = "persisted", ![v].lost = TRUE]
          /\ UNCHANGED streamVars
    /\ UNCHANGED <<reviewVars, inFlight>>

PopsAtOnce(v) ==                                                   \* mutant
    /\ validation[v].phase \in {"judging", "persisted"} /\ v \in inFlight
    /\ inFlight' = inFlight \ {v}
    /\ UNCHANGED <<reviewVars, streamVars, validation>>

Pops(v) ==
    /\ validation[v].phase = "persisted" /\ v \in inFlight
    /\ inFlight' = inFlight \ {v}
    /\ UNCHANGED <<reviewVars, streamVars, validation>>

Validates(v) ==
    Accepts(v) \/ Fetches(v) \/ Persists(v) \/ PersistRaises(v) \/ PersistsError(v) \/ Pops(v)

(* get_validation_status                                                   *)
StatusOf(v) ==
    IF v \in inFlight THEN "in_progress"
    ELSE IF \E at \in DOMAIN activities : activities[at].by = v THEN "completed"
    ELSE "not_found"

ValidationInit ==
    /\ InitReviews
    /\ validation = [v \in Validations |-> Task("none", 0)]
    /\ inFlight = {}

ValidationNext ==
    \/ NextReviews /\ UNCHANGED <<validation, inFlight>>
    \/ \E v \in Validations : Validates(v)

ValidationSpec == ValidationInit /\ [][ValidationNext]_validationVars

--------------------------------------------------------------------------
(* A validation that was accepted is never unknown to who polls it: not    *)
(* between its task's last write and the registry, and not after a failed  *)
(* write; unless nothing could be written at all, or what it wrote was     *)
(* deleted or overwritten by an activity of the same second.               *)
NeverUnknown ==
    \A v \in Validations :
        /\ validation[v].phase # "none" /\ ~validation[v].lost
        /\ validation[v].wrote = {} \/ \E at \in validation[v].wrote :
                                          at \in DOMAIN activities /\ history[at].why # "mixed"
        => StatusOf(v) # "not_found"

(* A sale that all three agents stand behind: the supervisor upheld, Alpha *)
(* answered, and either the primary sold or Alpha named a contract that    *)
(* changes one parameter, or explains what it relaxes.                     *)
Backed(a, w) ==
    /\ w.status = "approved" /\ a.supervisor = "holds" /\ a.alpha.strength # "none"
    /\ \/ w.sold = "requested" /\ a.primary = "SELL"
       \/ /\ w.sold = "alternative" /\ Finds(a)
          /\ \/ Cardinality(a.alpha.alternative.changes) = 1
             \/ a.alpha.alternative.changes = {} /\ a.alpha.alternative.explained

(* A null where the code expects a text or an object raises after the      *)
(* primary's decision is noted.                                            *)
HasNull(a) == a.supervisor = "null" \/ a.alpha.alternative.given = "null"

Unbacked ==
    {a \in Answers :
        LET w == Judged(a)
        IN  /\ w.kind = "alert" /\ ~Backed(a, w)
            /\ ~(a.primary = "SELL" /\ HasNull(a) /\ w.status = "error")}

(* A validation ends in an alert only if all three agents stand behind the *)
(* sale, whatever they leave out, with one exception: the code is not      *)
(* fail-closed, as its docstring says, against a null.  The SELL of the    *)
(* primary is stored as an alert there, marked with the status error and   *)
(* never as approved.                                                      *)
FailsClosed == (\E v \in Validations : validation[v].phase = "judging") => Unbacked = {}

(* A validation is never unknown, and never approves a sale alone.         *)
ValidationsSound == NeverUnknown /\ FailsClosed

=============================================================================
