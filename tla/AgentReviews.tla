----------------------------- MODULE AgentReviews -----------------------------
(***************************************************************************)
(* The stream of activities of one symbol and one agent type: the worker   *)
(* of the scheduler and the threads the dashboard starts analyse the       *)
(* symbol, store an activity, have it reviewed and write the reviews back  *)
(* field by field; users delete activities and clone recommendations.      *)
(*                                                                         *)
(* Abstracted: what the models say (a decision is a WAIT or an alert), the *)
(* supervisor's view, which nothing reads back, traces and notifications.  *)
(* An activity is named by its timestamp, which has the grain of a second. *)
(***************************************************************************)
EXTENDS Integers, FiniteSets, FiniteSetsExt, Functions

CONSTANTS Runners,      \* bound: runs in flight at once, scheduled or manual
          Keys,         \* slots: this symbol, every symbol ("*"), a position besides
          Nobody,
          Threshold,    \* PROLONGED_WAIT_THRESHOLD
          Cooldown,     \* SUPERVISOR_COOLDOWN
          Margin,       \* activities read beyond the two
          SlotAge,      \* age at which a slot of the dashboard is stale
          MaxNow,       \* bound: seconds
          MaxOps        \* bound: threads, scheduled runs, deletions and clones

(* The WAIT a stream begins with is not a prolonged one.                   *)
ASSUME ReviewAssumption ==
    /\ Cooldown \in Nat /\ Threshold \in Nat \ {0, 1} /\ Cooldown <= Threshold /\ Margin \in Nat
    /\ SlotAge \in Nat
    /\ Nobody \notin [owner : Runners, since : Nat]
    /\ Nobody \notin [key : Keys, since : Nat, begun : BOOLEAN]

VARIABLES
    now,            \* the clock
    activities,     \* timestamp -> activity stored there
    run,            \* the runs in flight; Idle for a place that is free
    slot,           \* trigger_inflight: key -> its record, or Nobody
    asked,          \* the threads of the dashboard: what each was started for
    ops,            \* threads, scheduled runs, deletions and clones so far
    history         \* what happened at each timestamp that was ever written

streamVars == <<activities, history>>

slotVars == <<slot, asked>>

reviewVars == <<now, run, slotVars, ops>>

Idle == [phase |-> "idle"]

Agent == "agent"

Seconds == 1..MaxNow

--------------------------------------------------------------------------
(* The stream. *)

Document(kind, view, review, by) ==
    [kind |-> kind, view |-> view, run |-> review, by |-> by]

(* write_activity: the identifier is the timestamp, to the second; what    *)
(* was stored under it is replaced.                                        *)
Upserted(at, d) == [x \in DOMAIN activities \cup {at} |-> IF x = at THEN d ELSE activities[x]]

(* Which other activities were settled when the run of this one began, why *)
(* it was reviewed, and whether the record of its review, or what it is    *)
(* decided by, could not be had.                                           *)
Event(settled, why, lost) == [settled |-> settled, why |-> why, lost |-> lost]

(* Two activities of one second are mixed up: they count as overlapping    *)
(* everything.                                                             *)
Noted(at, e) ==
    LET noted == IF at \in DOMAIN history THEN [e EXCEPT !.settled = {}, !.why = "mixed"] ELSE e
    IN  [x \in DOMAIN history \cup {at} |-> IF x = at THEN noted ELSE history[x]]

(* get_recent_activities: the newest, so many of them.                     *)
Newer(at) == {x \in DOMAIN activities : x > at}
Newest(n) == {at \in DOMAIN activities : Cardinality(Newer(at)) < n}
Recent == Newest(Threshold + Cooldown + Margin)

(* An activity with a review of Alpha's that was not forced; without a     *)
(* record of the review it counts as not forced.                           *)
DueReview(d) == d.view /\ d.run # "forced"

(* _detect_prolonged_wait                                                  *)
Prolonged ==
    LET waited == {at \in Recent : \A x \in Recent : x >= at => ~DueReview(activities[x])}
    IN  /\ Cardinality(Recent) >= Threshold
        /\ \A at \in Newest(Threshold) : activities[at].kind = "wait"
        /\ waited = Recent \/ Cardinality(waited) >= Cooldown

--------------------------------------------------------------------------
(* What the dashboard starts: threads, each under the slot of its key.  A  *)
(* thread for every symbol reaches this one sometime and once, and goes on *)
(* after it; runs under different keys may meet in the stream.             *)

(* _acquire_trigger_slot: a fresh record refuses, a stale one is replaced. *)
SlotFree(key) == slot[key] # Nobody => now - slot[key].since >= SlotAge

Acquired(p, at) == [owner |-> p, since |-> at]

Asks(p, key) ==
    /\ run[p] = Idle /\ asked[p] = Nobody /\ ops < MaxOps
    /\ SlotFree(key)
    /\ slot' = [slot EXCEPT ![key] = Acquired(p, now)]
    /\ asked' = [asked EXCEPT ![p] = [key |-> key, since |-> now, begun |-> FALSE]]
    /\ ops' = ops + 1
    /\ UNCHANGED <<now, run, streamVars>>

(* _release_trigger_slot: only by the owner the record names.              *)
ReleasedByAnyone(p, key) == Nobody                                 \* mutant
Released(p, key) == IF slot[key] = Acquired(p, asked[p].since) THEN Nobody ELSE slot[key]

(* The thread is through, or could not be started.                         *)
Leaves(p) ==
    /\ run[p] = Idle /\ asked[p] # Nobody
    /\ slot' = [slot EXCEPT ![asked[p].key] = Released(p, asked[p].key)]
    /\ asked' = [asked EXCEPT ![p] = Nobody]
    /\ UNCHANGED <<now, run, streamVars, ops>>

--------------------------------------------------------------------------
(* One run of one process (run_symbol_agent). *)

(* What nobody is at work on: the activities no later step will touch.     *)
Settled == DOMAIN history \ {run[p].since : p \in {q \in Runners : run[q] # Idle}}

(* A scheduled run takes no slot and forces nothing; the dashboard's runs  *)
(* may force.                                                              *)
Starts(p, force) ==
    /\ run[p] = Idle
    /\ IF asked[p] = Nobody
       THEN ~force /\ ops < MaxOps /\ ops' = ops + 1 /\ UNCHANGED asked
       ELSE ~asked[p].begun /\ asked' = [asked EXCEPT ![p].begun = TRUE] /\ UNCHANGED ops
    /\ run' = [run EXCEPT ![p] = [phase |-> "asking", since |-> now, force |-> force,
                                  due |-> FALSE, settled |-> Settled]]
    /\ UNCHANGED <<now, slot, streamVars>>

Ends(p) == run' = [run EXCEPT ![p] = Idle]

(* The agent answers, or anything before the write fails.                  *)
Writes(p, kind) ==
    /\ run[p].phase = "asking"
    /\ activities' = Upserted(run[p].since, Document(kind, FALSE, "none", Agent))
    /\ history' = Noted(run[p].since, Event(run[p].settled, "none", FALSE))
    /\ IF kind = "error" THEN Ends(p)
       ELSE run' = [run EXCEPT ![p].phase = IF kind = "alert" THEN "alert" ELSE "deciding"]
    /\ UNCHANGED <<now, slotVars, ops>>

ForcedIsForced(p, due) == run[p].force                             \* mutant
RecordedAsForced(p, due) == run[p].force /\ ~due

(* Who reviews a WAIT: the supervisor always, Alpha when a review is due   *)
(* or forced.  When the activities cannot be read, none is due.            *)
Decides(p, read) ==
    /\ run[p].phase = "deciding"
    /\ LET due == read /\ Prolonged
           why == IF due THEN "due" ELSE IF run[p].force THEN "forced" ELSE "none"
       IN  /\ IF why = "none" THEN Ends(p)
              ELSE run' = [run EXCEPT ![p].phase = "reviewing", ![p].due = due]
           /\ history' = [history EXCEPT ![run[p].since].why = IF @ = "mixed" THEN @ ELSE why,
                                         ![run[p].since].lost = @ \/ ~read]
    /\ UNCHANGED <<now, slotVars, activities, ops>>

(* update_activity_field: read, set, replace; a failure is logged.         *)
Updates(p, field, value) ==
    activities' = [activities EXCEPT ![run[p].since][field] = value]

Updatable(p) == run[p].since \in DOMAIN activities

(* Alpha answers or fails; the view is written, or the write fails.        *)
Reviews(p, stored) ==
    /\ run[p].phase \in {"alert", "reviewing"}
    /\ IF stored THEN Updatable(p) /\ Updates(p, "view", TRUE) ELSE UNCHANGED activities
    /\ run' = [run EXCEPT ![p].phase = IF @ = "alert" THEN "recording alert" ELSE "recording"]
    /\ UNCHANGED <<now, slotVars, ops, history>>

(* alpha_run: whether the review was forced.  An alert's never is.         *)
Records(p, stored) ==
    /\ run[p].phase \in {"recording alert", "recording"}
    /\ IF stored
       THEN /\ Updatable(p)
            /\ Updates(p, "run",
                 IF run[p].phase = "recording" /\ RecordedAsForced(p, run[p].due)
                 THEN "forced" ELSE "due")
            /\ UNCHANGED history
       ELSE UNCHANGED activities /\ history' = [history EXCEPT ![run[p].since].lost = TRUE]
    /\ Ends(p)
    /\ UNCHANGED <<now, slotVars, ops>>

(* What prepares the reviews raises: the error replaces the activity.  The *)
(* reviews and the updates raise nothing.                                  *)
Fails(p) ==
    /\ run[p].phase \in {"alert", "deciding"}
    /\ activities' = Upserted(run[p].since, Document("error", FALSE, "none", Agent))
    /\ Ends(p)
    /\ UNCHANGED <<now, slotVars, ops, history>>

Runs(p) ==
    \/ \E key \in Keys : Asks(p, key)
    \/ Leaves(p)
    \/ \E force \in BOOLEAN : Starts(p, force)
    \/ \E kind \in {"wait", "alert", "error"} : Writes(p, kind)
    \/ \E read \in BOOLEAN : Decides(p, read)
    \/ \E stored \in BOOLEAN : Reviews(p, stored) \/ Records(p, stored)
    \/ Fails(p)

--------------------------------------------------------------------------
(* The users. *)

(* api_delete_activity                                                     *)
Deletes(at) ==
    /\ at \in DOMAIN activities /\ ops < MaxOps
    /\ activities' = Restrict(activities, DOMAIN activities \ {at})
    /\ ops' = ops + 1
    /\ UNCHANGED <<now, run, slotVars, history>>

(* api_create_activity_from_recommendation: a copy, as an alert, of an     *)
(* activity as it is stored, without the view of the agent it follows; the *)
(* record of the review is copied along.                                   *)
Clones(at, keepView) ==
    /\ at \in DOMAIN activities /\ ops < MaxOps
    /\ LET d == activities[at]
       IN  activities' = Upserted(now, [d EXCEPT !.kind = IF d.kind = "error" THEN "error" ELSE "alert",
                                                 !.view = d.view /\ keepView])
    /\ history' = Noted(now, Event(Settled, "none", FALSE))
    /\ ops' = ops + 1
    /\ UNCHANGED <<now, run, slotVars>>

Users == \E at \in Seconds : Deletes(at) \/ \E keep \in BOOLEAN : Clones(at, keep)

Ticks ==
    /\ now < MaxNow
    /\ now' = now + 1
    /\ UNCHANGED <<streamVars, run, slotVars, ops>>

(* A stream that begins with a WAIT. *)
InitReviews ==
    /\ now = 2
    /\ activities = <<Document("wait", FALSE, "none", Agent)>>
    /\ run = [p \in Runners |-> Idle]
    /\ slot = [key \in Keys |-> Nobody]
    /\ asked = [p \in Runners |-> Nobody]
    /\ ops = 0
    /\ history = <<Event({}, "none", FALSE)>>

NextReviews == Ticks \/ Users \/ \E p \in Runners : Runs(p)

--------------------------------------------------------------------------
(* After a review that was due, Cooldown more activities come before the   *)
(* next: whenever the run that was due began after the other had ended,    *)
(* however often a review was forced, failed or lost in between.           *)
CooldownKept ==
    \A i, j \in DOMAIN history :
        /\ i < j /\ i \in history[j].settled
        /\ i \in DOMAIN activities /\ activities[i].view
        /\ history[i].why = "due" \/ (activities[i].kind = "alert" /\ history[i].why # "mixed")
        /\ history[j].why = "due"
        => Cardinality({k \in DOMAIN history : k > i /\ j \notin history[k].settled}) >= Cooldown

(* Activities of runs that did not overlap.                                *)
InOrder(S) == \A i, j \in S : i < j => i \in history[j].settled

(* Threshold WAITs in a row never go by without a review that was due: a   *)
(* forced review suppresses none, unless the record that it was forced     *)
(* could not be written, or the activities could not be read.              *)
WaitsAreReviewed ==
    \A S \in kSubset(Threshold, Settled) :
        /\ InOrder(S) /\ S \subseteq DOMAIN activities
        /\ \A k \in DOMAIN history \ S : k < Min(S) \/ Max(S) \in history[k].settled
        /\ \A k \in S : activities[k].kind = "wait" /\ activities[k].by = Agent
        => \E k \in S : history[k].why \in {"due", "mixed"} \/ history[k].lost

(* Of the threads that the dashboard started for one key, never two are    *)
(* both younger than a stale slot: a thread that outlived its slot does    *)
(* not release the one that took it over.  Threads of different keys, for  *)
(* this symbol and for all of them, may write to the stream at once.       *)
OneFreshRun ==
    \A key \in Keys :
        Cardinality({p \in Runners : /\ asked[p] # Nobody /\ asked[p].key = key
                                     /\ now - asked[p].since < SlotAge}) <= 1

(* Reviews that are due come neither too early nor too late, however often *)
(* a review is forced in between.                                          *)
ReviewsWhenDue == CooldownKept /\ WaitsAreReviewed
=============================================================================
