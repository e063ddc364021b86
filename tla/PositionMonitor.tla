--------------------------- MODULE PositionMonitor ---------------------------
(***************************************************************************)
(* The position monitors over the document of one symbol: a run reads the  *)
(* position, mints its timestamp, fetches, writes a snapshot, asks the     *)
(* assessment and then perhaps the roll agent, persists one activity and   *)
(* scores the snapshot.  Between any two of these steps the position may   *)
(* be rolled, closed, corrected or deleted.                                *)
(*                                                                         *)
(* Abstracted: prompts, prose, prices and premiums.  An agent's answer is  *)
(* any member of Assessments or RollAnswers.  The reviews that follow the  *)
(* activity are AgentReviews'.                                             *)
(***************************************************************************)
EXTENDS Positions, FiniteSetsExt

CONSTANTS Runs,         \* bound: monitor runs, each happening once
          Crons,        \* bound: positions scored by dps_cron, each once
          TargetStrikes, TargetExpirations    \* of what an agent may name to roll to

Targets == [strike : TargetStrikes, expiration : TargetExpirations]

VARIABLES
    run,            \* run -> what it holds; None before it, Done after it
    cron,           \* pass of dps_cron -> what it read of a position
    activities,     \* activities of the monitors
    snapshots       \* position snapshots

monitorVars == <<run, cron, activities, snapshots>>

vars == <<docVars, monitorVars>>

Done == [phase |-> "done"]

VALID_ROLL_ACTIONS == {"ROLL_OUT"}      \* stands for the five directions

VALID_PHASE2_ACTIVITIES == VALID_ROLL_ACTIONS \cup {"WAIT", "CLOSE"}

Words == {"WAIT", "CLOSE", "ROLL", "ROLL_OUT"}

ASSUME WordsAssumption == None \notin Words

(* An assessment: its handoff word, its activity word, the target it names *)
(* and whether its text sounds an alarm; None for what it leaves out.      *)
Assessments ==
    [handoff : {None, "ROLL", "ROLL_OUT"}, profitOnly : BOOLEAN,
     activity : Words \cup {None}, target : Targets \cup {None}, alarm : BOOLEAN]

RollAnswers ==
    [activity : Words \cup {"WORD", None}, target : Targets \cup {None},
     economics : BOOLEAN]

--------------------------------------------------------------------------
(* Reading back what the monitors wrote. *)

CorrectedAt(pos) == IF pos.expirationAt > pos.strikeAt THEN pos.expirationAt ELSE pos.strikeAt

Corrected(pos) == CorrectedAt(pos) > 0

(* strike is what the record says it is about.                             *)
monitoring_after_expiration_correction(pos, strike, at) ==
    Corrected(pos) =>
        /\ pos.strikeAt > 0 => strike = pos.contract.strike
        /\ at > CorrectedAt(pos)

AnyExpiration(p) ==                            \* mutant
    {s \in snapshots :
        /\ s.id = p
        /\ Held(p) => monitoring_after_expiration_correction(doc[p], s.contract.strike, s.at)}

(* get_position_snapshots: of the position as the document has it now.     *)
CurrentSnapshots(p) ==
    {s \in snapshots :
        /\ s.id = p
        /\ Held(p) =>
            /\ Corrected(doc[p]) => s.contract.expiration = doc[p].contract.expiration
            /\ monitoring_after_expiration_correction(doc[p], s.contract.strike, s.at)}

(* get_context: of the position as the run holds it, by the contract the   *)
(* agent's answer named; no alerts.                                        *)
Context(p, pos) ==
    {a \in activities :
        /\ a.id = p
        /\ ~a.alert
        /\ Corrected(pos) =>
            /\ a.named.expiration = pos.contract.expiration
            /\ monitoring_after_expiration_correction(pos, a.named.strike, a.at)}

--------------------------------------------------------------------------
(* From the agents' answers to the activity that is stored. *)

Decision(activity, target, economics, incomplete) ==
    [activity |-> activity, target |-> target, economics |-> economics,
     incomplete |-> incomplete]

Wait == Decision("WAIT", None, TRUE, TRUE)

(* _try_extract_handoff_json: only a directed roll hands over.             *)
HandsOver(a) == a.handoff \in VALID_ROLL_ACTIONS

(* _try_extract_json; None when the response has no activity.              *)
Parsed(a) ==
    IF a.activity = None THEN None ELSE Decision(a.activity, a.target, FALSE, FALSE)

(* _apply_buyback_quote_state: a decision about a call on a missing ask is *)
(* incomplete, and where that is forced a WAIT.                            *)
QuoteState(d, ask) ==
    IF d = None THEN None
    ELSE IF ask THEN [d EXCEPT !.incomplete = FALSE]
    ELSE Wait

(* Phase 2.  A failing agent, an answer without an activity, a bare or     *)
(* unknown word and a roll without target or economics all end in CLOSE.   *)
RollManagement(r) ==
    IF r.activity \in VALID_PHASE2_ACTIVITIES
       /\ (r.activity \in VALID_ROLL_ACTIONS => r.target # None /\ r.economics)
    THEN Decision(r.activity, r.target, r.economics, FALSE)
    ELSE Decision("CLOSE", None, FALSE, FALSE)

(* _validate_premium_against_chain corrects prices; without an ask for the *)
(* contract the buyback cost of a roll cannot be checked and is marked so. *)
Validated(d, ask) ==
    IF d # None /\ d.activity \in VALID_ROLL_ACTIONS /\ d.economics /\ ~ask
    THEN [d EXCEPT !.incomplete = TRUE]
    ELSE d

NoSafetyNet(d) == d                            \* mutant

(* The final safety net: no roll without a target.                         *)
SafetyNet(d) ==
    IF d # None /\ d.activity \in VALID_ROLL_ACTIONS /\ d.target = None
    THEN [d EXCEPT !.activity = "CLOSE", !.economics = FALSE]
    ELSE d

(* The decision of one run; None when no answer could be parsed.  A call   *)
(* whose profit alone called for action skips phase 2 without an ask.      *)
Decided(kind, ask, a, r) ==
    LET skipped == kind = "call" /\ ~ask /\ a.profitOnly
        phase1  == IF kind = "call" THEN QuoteState(Parsed(a), ask) ELSE Parsed(a)
        phase2  == IF skipped THEN Wait ELSE RollManagement(r)
        checked == SafetyNet(Validated(IF HandsOver(a) THEN phase2 ELSE phase1, ask))
    IN  IF kind = "call" THEN QuoteState(checked, ask) ELSE checked

(* _is_alert: any word but a waiting one; without a word, how the text     *)
(* sounds; and never on an incomplete quote.                               *)
Alerts(d, alarm) ==
    IF d = None THEN alarm ELSE d.activity # "WAIT" /\ ~d.incomplete

(* What may be stored for a position of a kind with or without an ask; the *)
(* target is kept of rolls only.                                           *)
Outcomes ==
    [kind \in {"call", "put"} |-> [ask \in BOOLEAN |->
        {LET d == Decided(kind, ask, a, r)
             word == IF d = None THEN None ELSE d.activity
         IN  [activity |-> word,
              target |-> IF word \in VALID_ROLL_ACTIONS THEN d.target ELSE None,
              alert |-> Alerts(d, a.alarm)] :
         a \in Assessments, r \in RollAnswers}]]

--------------------------------------------------------------------------
Upsert(a) == {b \in activities : ~(b.id = a.id /\ b.at = a.at)} \cup {a}

Create(s) ==
    IF \E t \in snapshots : t.id = s.id /\ t.at = s.at THEN snapshots ELSE snapshots \cup {s}

Seen(pos) ==
    [kind |-> pos.kind, contract |-> pos.contract,
     expirationAt |-> pos.expirationAt, strikeAt |-> pos.strikeAt]

(* get_symbols_with_active_positions and resolve_active_monitor_position:  *)
(* the run keeps the position as it is now and works on it when its turn   *)
(* comes.                                                                  *)
MonitorReads(r, p) ==
    /\ run[r] = None
    /\ doc # None
    /\ Held(p)
    /\ doc[p].status = "active"
    /\ run' = [run EXCEPT ![r] =
                  [phase |-> "read", id |-> p, held |-> Seen(doc[p]), at |-> 0,
                   ask |-> FALSE, snapshot |-> FALSE]]
    /\ UNCHANGED <<cron, activities, snapshots, docVars>>

(* analysis_ts is minted and the context read.                             *)
MonitorStarts(r) ==
    /\ run[r] # None
    /\ run[r].phase = "read"
    /\ run' = [run EXCEPT ![r].phase = "started", ![r].at = now]
    /\ UNCHANGED <<cron, activities, snapshots, docVars>>

(* The fetch answers, perhaps without a price or an executable ask.        *)
MonitorFetches(r, price, ask) ==
    /\ run[r] # None
    /\ run[r].phase = "started"
    /\ run' = [run EXCEPT ![r].phase = "fetched", ![r].ask = ask, ![r].snapshot = price]
    /\ snapshots' = IF price
                    THEN Create([id |-> run[r].id, at |-> run[r].at, by |-> "monitor",
                                 contract |-> run[r].held.contract, score |-> None])
                    ELSE snapshots
    /\ UNCHANGED <<cron, activities, docVars>>

(* The contract's identity is the held one's whatever the answer says, but *)
(* current_strike and current_expiration stay as the answer has them: they *)
(* are named, the held ones where the answer leaves them out.  (An alert's *)
(* are left out here: nobody reads them.)                                  *)
Activity(r, outcome, named) ==
    [id |-> run[r].id, at |-> run[r].at, kind |-> run[r].held.kind,
     contract |-> run[r].held.contract, named |-> named, ask |-> run[r].ask,
     activity |-> outcome.activity, target |-> outcome.target, alert |-> outcome.alert]

MonitorPersists(r) ==
    /\ run[r] # None
    /\ run[r].phase = "fetched"
    /\ \E outcome \in Outcomes[run[r].held.kind][run[r].ask] :
       \E named \in IF outcome.activity = None \/ outcome.alert
                   THEN {run[r].held.contract}
                   ELSE Contracts :
          activities' = Upsert(Activity(r, outcome, named))
    /\ run' = [run EXCEPT ![r].phase = "persisted"]
    /\ UNCHANGED <<cron, snapshots, docVars>>

(* Anything raised on the way, the reviews after the activity included, is *)
(* stored as an activity with an error, under the same id.                 *)
MonitorFails(r) ==
    /\ run[r] # None
    /\ run[r].phase \notin {"read", "done"}
    /\ activities' =
          Upsert(Activity(r, [activity |-> None, target |-> None, alert |-> FALSE],
                          run[r].held.contract))
    /\ run' = [run EXCEPT ![r].phase = "persisted"]
    /\ UNCHANGED <<cron, snapshots, docVars>>

Newest(S) == {s \in S : \A t \in S : t.at <= s.at}

Scored(S, contract) ==
    (snapshots \ S) \cup {[s EXCEPT !.score = contract] : s \in S}

WhicheverIsNewest(p, contract, at) ==          \* mutant
    snapshots' = Scored(Newest(CurrentSnapshots(p)), contract)

(* update_snapshot_dps: the newest current snapshot, if it is this run's.  *)
update_snapshot_dps(p, contract, at) ==
    snapshots' = Scored({s \in Newest(CurrentSnapshots(p)) :
                            s.contract.expiration = contract.expiration /\ s.at = at},
                        contract)

MonitorScores(r) ==
    /\ run[r] # None
    /\ run[r].phase = "persisted"
    /\ run' = [run EXCEPT ![r] = Done]
    /\ IF run[r].snapshot
       THEN update_snapshot_dps(run[r].id, run[r].held.contract, run[r].at)
       ELSE UNCHANGED snapshots
    /\ UNCHANGED <<cron, activities, docVars>>

(* dps_cron reads the positions and awaits the market data...              *)
DpsCronReads(c, p) ==
    /\ cron[c] = None
    /\ Held(p)
    /\ doc[p].status = "active"
    /\ cron' = [cron EXCEPT ![c] = [phase |-> "read", id |-> p, contract |-> doc[p].contract]]
    /\ UNCHANGED <<run, activities, snapshots, docVars>>

(* ...then stores a snapshot with the score of what it read and the strike *)
(* of the newest current snapshot.                                         *)
DpsCronScores(c) ==
    /\ cron[c] # None
    /\ cron[c].phase = "read"
    /\ LET newest  == Newest(CurrentSnapshots(cron[c].id))
           strikes == IF newest = {} THEN {None} ELSE {s.contract.strike : s \in newest}
       IN  \E strike \in strikes :
              snapshots' = Create([id |-> cron[c].id, at |-> now, by |-> "cron",
                                   contract |-> [cron[c].contract EXCEPT !.strike = strike],
                                   score |-> cron[c].contract])
    /\ cron' = [cron EXCEPT ![c] = Done]
    /\ UNCHANGED <<run, activities, docVars>>

(* api_roll_position_from_activity takes the activity's own strike and     *)
(* expiration before its target's.                                         *)
ApiRollPositionFromActivity(a, new) ==
    /\ doc # None
    /\ new \in Fresh
    /\ Held(a.id) /\ CanRoll(doc, a.id)
    /\ Request(Rolled(doc, a.id, new, a.kind, a.contract), FALSE, "replace", None)
    /\ UNCHANGED monitorVars

(* delete_position deletes the position's activities and keeps its         *)
(* snapshots; delete_symbol deletes everything.                            *)
DeleteCascade ==
    /\ Cascade
    /\ activities' = {a \in activities : web.id # None /\ a.id # web.id}
    /\ snapshots' = IF web.id = None THEN {} ELSE snapshots
    /\ UNCHANGED <<run, cron>>

MonitorInit ==
    /\ Init
    /\ run = [r \in Runs |-> None]
    /\ cron = [c \in Crons |-> None]
    /\ activities = {}
    /\ snapshots = {}

(* A handler between its read and its replace has changed nothing that a   *)
(* monitor could see, so the monitors' steps come before or after.         *)
Visible == IF web = None THEN TRUE ELSE web.step = "cascade"

MonitorStep ==
    \/ \E r \in Runs, p \in Ids : MonitorReads(r, p)
    \/ \E r \in Runs : MonitorStarts(r)
    \/ \E r \in Runs, price, ask \in BOOLEAN : MonitorFetches(r, price, ask)
    \/ \E r \in Runs : MonitorPersists(r)
    \/ \E r \in Runs : MonitorFails(r)
    \/ \E r \in Runs : MonitorScores(r)
    \/ \E c \in Crons, p \in Ids : DpsCronReads(c, p)
    \/ \E c \in Crons : DpsCronScores(c)

MonitorNext ==
    \/ DocumentNext /\ UNCHANGED monitorVars
    \/ DeleteCascade
    \/ \E a \in activities, new \in Ids : ApiRollPositionFromActivity(a, new)
    \/ Visible /\ MonitorStep

MonitorSpec == MonitorInit /\ [][MonitorNext]_vars

(* For TLC.  A pass of dps_cron looks at snapshots, and nothing looks both *)
(* at these and at what an activity says: beside a pass one activity does  *)
(* for all.                                                                *)
Plain(a) == a.activity = None /\ ~a.alert

RunSpec ==
    MonitorInit
    /\ [][MonitorNext /\ ((\E c \in Crons : cron'[c] # None) => \A a \in activities' : Plain(a))]_vars

--------------------------------------------------------------------------
(* What get_position_snapshots returns of a position is always of          *)
(* the position's present contract, whenever the snapshot was taken and    *)
(* whenever the correction came (position_expiration.py: old observations  *)
(* are history, not current-contract monitoring); except a position whose  *)
(* correction an unconditional replace has set back.                       *)
SnapshotsCurrent ==
    doc # None =>
        \A p \in DOMAIN doc \ undone :
            \A s \in CurrentSnapshots(p) :
                /\ s.contract.expiration = doc[p].contract.expiration
                /\ s.contract.strike \in {None, doc[p].contract.strike}

(* The same of the activities an agent is shown as its own history, unless *)
(* the answer of a run on the old contract named the new one's strike or   *)
(* expiration: then it passes for an observation of it.                    *)
ContextCurrent ==
    doc # None =>
        \A p \in DOMAIN doc \ undone :
            \A a \in Context(p, doc[p]) : \A half \in {"strike", "expiration"} :
                doc[p].contract[half] \in {a.contract[half], a.named[half]}

(* No snapshot carries the score of another expiration, although a run     *)
(* looks for the newest snapshot long after it wrote its own.              *)
ScoresMatch ==
    \A s \in snapshots : s.score # None => s.score.expiration = s.contract.expiration

(* What is stored holds through every repair of the two agents' answers: a *)
(* directed roll says where to, and without an executable ask the monitor  *)
(* of a call stores a WAIT and no alert, unless nothing could be parsed.   *)
DecisionsHold ==
    \A a \in activities :
        /\ a.activity \in VALID_ROLL_ACTIONS => a.target # None
        /\ a.kind = "call" /\ ~a.ask /\ a.activity # None => a.activity = "WAIT" /\ ~a.alert

(* Neither a score nor an agent is given an observation of a contract the  *)
(* position no longer is, unless the agent itself took it for the present  *)
(* one.                                                                    *)
ObservationsCurrent == SnapshotsCurrent /\ ContextCurrent
=============================================================================
