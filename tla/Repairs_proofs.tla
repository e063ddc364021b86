--------------------------- MODULE Repairs_proofs ---------------------------
(***************************************************************************)
(* The maintenance scripts keep what MCRepairs checks, for any number of   *)
(* documents, runs, restores and writes of others.                         *)
(*                                                                         *)
(* A script's run is a record whose fields are typed one by one: a field   *)
(* that holds a saved body, whatever that is, is in the set of itself.     *)
(***************************************************************************)
EXTENDS MCRepairs, TLAPS

(* A list of backups.                                                      *)
IsList(s) == s \in Seq({s[b] : b \in DOMAIN s})

(* A backup that is saved comes after the ones there are.                  *)
Extends(t, s, e) ==
    /\ IsList(t) /\ t # <<>>
    /\ \A b \in DOMAIN t : t[b] = e \/ (b \in DOMAIN s /\ t[b] = s[b])

LEMMA Saved ==
    ASSUME NEW s, IsList(s), NEW e
    PROVE  Extends(Append(s, e), s, e)
<1> SUFFICES ASSUME NEW t, t = Append(s, e)
             PROVE  Extends(t, s, e)
  OBVIOUS
<1> DEFINE S == {s[b] : b \in DOMAIN s} \cup {e}
<1>1. s \in Seq(S) /\ e \in S
  <2>1. s \in Seq({s[b] : b \in DOMAIN s})
    BY DEF IsList
  <2>2. Len(s) \in Nat /\ DOMAIN s = 1..Len(s)
    BY <2>1
  <2>3. \A b \in 1..Len(s) : s[b] \in S
    BY <2>2
  <2> QED BY <2>1, <2>2, <2>3
<1> HIDE DEF S
<1>2. t \in Seq(S) /\ Len(t) = Len(s) + 1 /\ Len(s) \in Nat /\ DOMAIN t = 1..Len(t)
      /\ DOMAIN s = 1..Len(s)
  BY <1>1
<1>3. \A b \in DOMAIN t : t[b] = IF b = Len(s) + 1 THEN e ELSE s[b]
  BY <1>1, <1>2
<1>4. \A b \in DOMAIN t : t[b] = e \/ (b \in DOMAIN s /\ t[b] = s[b])
  BY <1>2, <1>3
<1>5. t \in Seq({t[b] : b \in DOMAIN t})
  BY <1>2
<1> QED BY <1>2, <1>4, <1>5 DEF IsList, Extends

LEMMA NoneSaved == IsList(<<>>) /\ DOMAIN <<>> = {}
BY DEF IsList

Identifiers == {"from", "to"}
SecurityBodies ==
    {s \in [kind : {"absent", "plain", "other", "migrated"}, currency : Currencies \cup {None},
            amendments : SUBSET Nat] : s.kind = "absent" => s.amendments = {}}
Masters == [Identifiers -> SecurityBodies]
Configs == [sid : {"none", "from", "to"}, tag : Nat]
Entries == [sid : Identifiers, quantity : Nat \ {0}, tag : Nat]
Imported == [sid : Identifiers, tag : Nat]

SecurityTypeOK ==
    /\ master \in Masters
    /\ config \in {None} \cup Configs
    /\ ledger \in [Movements -> {None} \cup Entries]
    /\ session \in [Sessions -> Imported]
    /\ entered \in [Movements -> Nat]
    /\ IsList(backups)

(* A backup is of what was stored under the source.  Whoever writes to one *)
(* of its movements gives it a later tag.                                  *)
Taken(d) ==
    /\ d.config \in Configs /\ d.master \in Masters
    /\ DOMAIN d.ledger \subseteq Movements /\ DOMAIN d.session \subseteq Sessions
    /\ \A m \in DOMAIN d.ledger :
          /\ d.ledger[m] \in Entries /\ d.ledger[m].sid = "from"
          /\ entered[m] # 0
          /\ ledger[m] # None => \/ ledger[m] = d.ledger[m]
                                 \/ ledger[m].tag > d.ledger[m].tag

RepairSteps == {"target", "config", "ledger", "sessions", "verify", "recheck", "delete"}
RestoreSteps == {"ledger", "source", "target", "restored"}

RunTyped(r) ==
    /\ r \in [kind : {"repair", "restore"}, pc : RepairSteps \cup RestoreSteps, disc : {r.disc},
              currency : Currencies \cup {None}, todo : SUBSET (Movements \cup Sessions),
              conflicts : BOOLEAN]
    /\ r.pc \in IF r.kind = "repair" THEN RepairSteps ELSE RestoreSteps
    /\ r.pc \in {"target", "config", "ledger"} => r.todo \subseteq DOMAIN r.disc.ledger
    /\ r.pc = "sessions" => r.todo \subseteq DOMAIN r.disc.session

(* What a restore that met no conflict has undone so far.                  *)
Undoes(r) ==
    r.kind = "restore" =>
        /\ ~r.conflicts => \A m \in DOMAIN r.disc.ledger \ r.todo : ~Refers(m, "to")
        /\ r.pc \in {"source", "target", "restored"} =>
              /\ r.todo = {}
              /\ config.sid = "to" => r.disc.config.sid = "to"
        /\ r.pc \in {"target", "restored"} /\ r.disc.master["from"].kind # "absent" => Exists("from")

(* The source is deleted only after the last check.                        *)
Abandoned == ~Exists("from") \/ At("repair", "delete") => Under("from") \subseteq late \cup back

SecurityIInv ==
    /\ SecurityTypeOK
    /\ EntriesKept
    /\ backups # <<>> \/ run # None => config \in Configs
    /\ \A b \in DOMAIN backups : Taken(backups[b])
    /\ run # None => RunTyped(run) /\ Taken(run.disc) /\ Undoes(run)
    /\ Abandoned

-----------------------------------------------------------------------------
LEMMA SecurityInit == RepairInit => SecurityIInv
<1> SUFFICES ASSUME RepairInit PROVE SecurityIInv
  OBVIOUS
<1>1. master \in Masters /\ Exists("from")
  <2>1. PICK c \in Currencies, k \in {"absent", "plain", "other"} :
         master = [i \in {"from", "to"} |->
                     IF i = "from" THEN Security("plain", c, {})
                     ELSE IF k = "absent" THEN Absent ELSE Security(k, c, {})]
    BY DEF RepairInit
  <2> QED BY <2>1 DEF Masters, SecurityBodies, Identifiers, Absent, Security, Exists
<1>2. /\ ledger \in [Movements -> {None} \cup Entries] /\ entered \in [Movements -> Nat]
      /\ EntriesKept
  <2>1. PICK free \in Movements :
         /\ ledger = [m \in Movements |-> IF m = free THEN None
                                          ELSE [sid |-> "from", quantity |-> 1, tag |-> 0]]
         /\ entered = [m \in Movements |-> IF m = free THEN 0 ELSE 1]
    BY DEF RepairInit
  <2> QED BY <2>1 DEF Entries, Identifiers, EntriesKept
<1>3. /\ config \in {None} \cup Configs /\ session \in [Sessions -> Imported]
      /\ backups = <<>> /\ run = None
  BY DEF RepairInit, Configs, Imported, Identifiers
<1>4. Abandoned
  BY <1>1, <1>3 DEF Abandoned, At
<1> QED BY <1>1, <1>2, <1>3, <1>4, NoneSaved DEF SecurityIInv, SecurityTypeOK

(* Movements that were entered stay so, and change with their tag.         *)
Grown ==
    \A m \in Movements : entered[m] # 0 =>
        /\ entered'[m] # 0
        /\ ledger'[m] # None => /\ ledger[m] # None
                                /\ ledger'[m] = ledger[m] \/ ledger'[m].tag > ledger[m].tag

LEMMA TakenStays ==
    ASSUME SecurityTypeOK, SecurityTypeOK', Grown, NEW d, Taken(d)
    PROVE  Taken(d)'
<1> SUFFICES ASSUME NEW m \in DOMAIN d.ledger
             PROVE  /\ entered'[m] # 0
                    /\ ledger'[m] # None => \/ ledger'[m] = d.ledger[m]
                                            \/ ledger'[m].tag > d.ledger[m].tag
  BY DEF Taken
<1>1. m \in Movements /\ entered[m] # 0 /\ d.ledger[m] \in Entries
  BY DEF Taken
<1>2. entered'[m] # 0
  BY <1>1 DEF Grown
<1>3. CASE ledger'[m] # None
  <2>1. ledger[m] \in Entries /\ ledger'[m] \in Entries
    BY <1>1, <1>3 DEF SecurityTypeOK, Grown
  <2>2. ledger[m].tag \in Nat /\ ledger'[m].tag \in Nat /\ d.ledger[m].tag \in Nat
    BY <1>1, <2>1 DEF Entries
  <2>3. ledger'[m] = ledger[m] \/ ledger'[m].tag > ledger[m].tag
    BY <1>1, <1>3 DEF Grown
  <2>4. ledger[m] = d.ledger[m] \/ ledger[m].tag > d.ledger[m].tag
    BY <1>1, <1>3 DEF Taken, Grown
  <2> QED BY <1>2, <2>2, <2>3, <2>4
<1> QED BY <1>2, <1>3

(* A run goes on with the documents it discovered.                         *)
Continues ==
    run' # None => run # None /\ run'.disc = run.disc /\ RunTyped(run') /\ Undoes(run)'

(* What a step has to show, when no backup is saved.                       *)
LEMMA StepKeeps ==
    ASSUME SecurityIInv, SecurityTypeOK', EntriesKept', Grown, backups' = backups,
           config \in Configs => config' \in Configs, Continues, Abandoned'
    PROVE  SecurityIInv'
<1>1. (backups # <<>> \/ run # None => config \in Configs)'
  BY DEF SecurityIInv, Continues
<1>2. (\A b \in DOMAIN backups : Taken(backups[b]))'
  <2> SUFFICES ASSUME NEW b \in DOMAIN backups
               PROVE  Taken(backups[b])'
    OBVIOUS
  <2>1. PICK d : d = backups[b]
    OBVIOUS
  <2>2. Taken(d)'
    BY <2>1, TakenStays DEF SecurityIInv
  <2> QED BY <2>1, <2>2
<1>3. (run # None => RunTyped(run) /\ Taken(run.disc) /\ Undoes(run))'
  <2> SUFFICES ASSUME run' # None
               PROVE  RunTyped(run') /\ Taken(run.disc)' /\ Undoes(run)'
    OBVIOUS
  <2>1. PICK d : d = run.disc
    OBVIOUS
  <2>2. Taken(d)'
    BY <2>1, TakenStays DEF SecurityIInv, Continues
  <2>3. run'.disc = d
    BY <2>1 DEF Continues
  <2> QED BY <2>2, <2>3 DEF Continues
<1> QED BY <1>1, <1>2, <1>3 DEF SecurityIInv

(* Movements that nobody writes to keep what is known of them.             *)
LEMMA LedgerAlone ==
    ASSUME SecurityIInv, UNCHANGED <<ledger, entered>>
    PROVE  EntriesKept' /\ Grown /\ \A i : Under(i)' = Under(i)
BY DEF SecurityIInv, EntriesKept, Grown, Under, Refers

RunFollows(r, s, pc, todo, conflicts) ==
    /\ s.kind = r.kind /\ s.disc = r.disc
    /\ s.pc = pc /\ s.todo = todo /\ s.conflicts = conflicts

(* The record of a run after one of its steps.                             *)
LEMMA RunFields ==
    ASSUME NEW r, RunTyped(r), NEW pc \in RepairSteps \cup RestoreSteps,
           NEW todo \in SUBSET (Movements \cup Sessions), NEW conflicts \in BOOLEAN, NEW s,
           s = [r EXCEPT !.pc = pc, !.todo = todo, !.conflicts = conflicts],
           r.kind = "repair" => pc \in RepairSteps, r.kind = "restore" => pc \in RestoreSteps,
           pc \in {"target", "config", "ledger"} => todo \subseteq DOMAIN r.disc.ledger,
           pc = "sessions" => todo \subseteq DOMAIN r.disc.session
    PROVE  RunTyped(s) /\ RunFollows(r, s, pc, todo, conflicts)
<1>1. /\ s \in [kind : {"repair", "restore"}, pc : RepairSteps \cup RestoreSteps, disc : {r.disc},
              currency : Currencies \cup {None}, todo : SUBSET (Movements \cup Sessions),
              conflicts : BOOLEAN]
      /\ s.kind = r.kind /\ s.disc = r.disc
      /\ s.pc = pc /\ s.todo = todo /\ s.conflicts = conflicts
  BY DEF RunTyped
<1> QED BY <1>1 DEF RunTyped, RunFollows

LEMMA RunSame ==
    ASSUME NEW r, RunTyped(r)
    PROVE  /\ \A pc : [r EXCEPT !.pc = pc] =
                        [r EXCEPT !.pc = pc, !.todo = r.todo, !.conflicts = r.conflicts]
           /\ \A pc, c : [r EXCEPT !.pc = pc, !.conflicts = c] =
                        [r EXCEPT !.pc = pc, !.todo = r.todo, !.conflicts = c]
           /\ \A pc, todo : [r EXCEPT !.pc = pc, !.todo = todo] =
                        [r EXCEPT !.pc = pc, !.todo = todo, !.conflicts = r.conflicts]
           /\ \A todo : [r EXCEPT !.todo = todo] =
                          [r EXCEPT !.pc = r.pc, !.todo = todo, !.conflicts = r.conflicts]
           /\ \A todo, c : [r EXCEPT !.todo = todo, !.conflicts = c] =
                          [r EXCEPT !.pc = r.pc, !.todo = todo, !.conflicts = c]
           /\ r.conflicts \in BOOLEAN /\ r.todo \in SUBSET (Movements \cup Sessions)
BY DEF RunTyped

-----------------------------------------------------------------------------
(* The steps of a repair.                                                  *)

(* A step that turns only the run's record over keeps everything.          *)
LEMMA RecordedOnly ==
    ASSUME SecurityIInv, UNCHANGED <<stored, backups, ghosts>>, Continues,
           At("repair", "delete")' => At("repair", "delete") \/ Under("from") = {}
    PROVE  SecurityIInv'
<1>1. UNCHANGED <<master, config, ledger, session, entered, late, back, backups>>
  BY DEF stored, ghosts
<1>2. SecurityTypeOK'
  BY <1>1 DEF SecurityIInv, SecurityTypeOK
<1>3. Abandoned'
  <2>1. Under("from")' = Under("from") /\ (Exists("from") <=> Exists("from")')
    BY <1>1, LedgerAlone DEF Exists
  <2> QED BY <1>1, <2>1 DEF SecurityIInv, Abandoned
<1> QED BY <1>1, <1>2, <1>3, LedgerAlone, StepKeeps

LEMMA EndContinues == End => Continues /\ ~At("repair", "delete")'
BY DEF End, Continues, At

(* A repair that goes on.                                                  *)
LEMMA RepairContinues ==
    ASSUME SecurityIInv, run # None, run.kind = "repair", NEW pc \in RepairSteps,
           NEW todo \in SUBSET (Movements \cup Sessions), NEW conflicts \in BOOLEAN,
           run' = [run EXCEPT !.pc = pc, !.todo = todo, !.conflicts = conflicts],
           pc \in {"target", "config", "ledger"} => todo \subseteq DOMAIN run.disc.ledger,
           pc = "sessions" => todo \subseteq DOMAIN run.disc.session
    PROVE  Continues /\ (At("repair", "delete")' => pc = "delete")
<1>1. PICK r, s : r = run /\ s = run'
  OBVIOUS
<1>2. RunTyped(r)
  BY <1>1 DEF SecurityIInv
<1>3. s = [r EXCEPT !.pc = pc, !.todo = todo, !.conflicts = conflicts] /\ r.kind = "repair"
  BY <1>1
<1>4. /\ pc \in RepairSteps \cup RestoreSteps
      /\ r.kind = "repair" => pc \in RepairSteps
      /\ r.kind = "restore" => pc \in RestoreSteps
      /\ pc \in {"target", "config", "ledger"} => todo \subseteq DOMAIN r.disc.ledger
      /\ pc = "sessions" => todo \subseteq DOMAIN r.disc.session
  BY <1>1, <1>3
<1>5. RunTyped(s) /\ RunFollows(r, s, pc, todo, conflicts)
  BY <1>2, <1>3, <1>4, RunFields
<1> QED BY <1>1, <1>3, <1>5 DEF RunFollows, Continues, Undoes, At

(* What is known of a run.                                                 *)
LEMMA RunKnown ==
    ASSUME SecurityIInv, run # None
    PROVE  /\ RunTyped(run) /\ Taken(run.disc) /\ Undoes(run)
           /\ run.todo \in SUBSET (Movements \cup Sessions) /\ run.conflicts \in BOOLEAN
           /\ config \in Configs
BY RunSame DEF SecurityIInv

LEMMA GotoContinues ==
    ASSUME SecurityIInv, run # None, run.kind = "repair", NEW pc \in RepairSteps \ {"sessions"},
           pc \in {"target", "config", "ledger"} => run.todo \subseteq DOMAIN run.disc.ledger,
           Goto(pc) \/ Conflicting(pc)
    PROVE  Continues /\ (At("repair", "delete")' => pc = "delete")
<1>1. /\ RunTyped(run) /\ run.todo \in SUBSET (Movements \cup Sessions)
      /\ run.conflicts \in BOOLEAN
  BY RunKnown
<1>2. CASE Goto(pc)
  <2>1. run' = [run EXCEPT !.pc = pc, !.todo = run.todo, !.conflicts = run.conflicts]
    BY <1>1, <1>2, RunSame DEF Goto
  <2> QED BY <1>1, <2>1, RepairContinues
<1>3. CASE Conflicting(pc)
  <2>1. run' = [run EXCEPT !.pc = pc, !.todo = run.todo, !.conflicts = TRUE]
    BY <1>1, <1>3, RunSame DEF Conflicting
  <2> QED BY <1>1, <2>1, RepairContinues
<1> QED BY <1>2, <1>3

LEMMA MovementsPatchedKeeps == SecurityIInv /\ MovementsPatched => SecurityIInv'
<1> SUFFICES ASSUME SecurityIInv, MovementsPatched PROVE SecurityIInv'
  OBVIOUS
<1>1. run # None /\ run.kind = "repair"
  BY DEF MovementsPatched, At
<1>2. RunTyped(run) /\ DOMAIN run.disc.session \subseteq Sessions /\ run.conflicts \in BOOLEAN
  BY <1>1, RunKnown DEF Taken
<1>3. run' = [run EXCEPT !.pc = "sessions", !.todo = DOMAIN run.disc.session,
                         !.conflicts = run.conflicts]
  BY <1>2, RunSame DEF MovementsPatched
<1>4. Continues /\ ~At("repair", "delete")'
  BY <1>1, <1>2, <1>3, RepairContinues DEF RepairSteps
<1> QED BY <1>4, RecordedOnly DEF MovementsPatched

LEMMA SessionsPatchedKeeps == SecurityIInv /\ SessionsPatched => SecurityIInv'
<1> SUFFICES ASSUME SecurityIInv, SessionsPatched PROVE SecurityIInv'
  OBVIOUS
<1>1. run # None /\ run.kind = "repair"
  BY DEF SessionsPatched, At
<1>2. Continues /\ ~At("repair", "delete")'
  BY <1>1, EndContinues, GotoContinues DEF SessionsPatched, RepairSteps
<1> QED BY <1>2, RecordedOnly DEF SessionsPatched

LEMMA TodoShrinks ==
    ASSUME SecurityIInv, run # None, run.kind = "repair", NEW x, NEW c \in BOOLEAN,
           run' = [run EXCEPT !.todo = run.todo \ {x}, !.conflicts = c]
    PROVE  Continues /\ (At("repair", "delete")' => At("repair", "delete"))
<1>1. /\ RunTyped(run) /\ run.todo \in SUBSET (Movements \cup Sessions)
  BY RunKnown
<1>2. run' = [run EXCEPT !.pc = run.pc, !.todo = run.todo \ {x}, !.conflicts = c]
  BY <1>1, RunSame
<1>3. /\ run.pc \in RepairSteps /\ run.todo \ {x} \in SUBSET (Movements \cup Sessions)
      /\ run.pc \in {"target", "config", "ledger"} => run.todo \ {x} \subseteq DOMAIN run.disc.ledger
      /\ run.pc = "sessions" => run.todo \ {x} \subseteq DOMAIN run.disc.session
  BY <1>1 DEF RunTyped
<1>4. Continues /\ (At("repair", "delete")' => run.pc = "delete")
  BY <1>2, <1>3, RepairContinues
<1> QED BY <1>4 DEF At

LEMMA SkipKeeps == ASSUME NEW x, SecurityIInv, Skip(x) PROVE SecurityIInv'
<1>1. run # None /\ run.kind = "repair"
  BY DEF Skip, At
<1>2. RunTyped(run) /\ run.conflicts \in BOOLEAN
  BY <1>1, RunKnown
<1>3. run' = [run EXCEPT !.todo = run.todo \ {x}, !.conflicts = run.conflicts]
  BY <1>2, RunSame DEF Skip
<1> QED BY <1>1, <1>2, <1>3, TodoShrinks, RecordedOnly DEF Skip

LEMMA VerifyKeeps == SecurityIInv /\ Verify => SecurityIInv'
<1> SUFFICES ASSUME SecurityIInv, Verify PROVE SecurityIInv'
  OBVIOUS
<1>1. run # None /\ run.kind = "repair"
  BY DEF Verify, At
<1>2. Continues /\ ~At("repair", "delete")'
  BY <1>1, EndContinues, GotoContinues DEF Verify, RepairSteps
<1> QED BY <1>2, RecordedOnly DEF Verify

LEMMA RecheckKeeps == SecurityIInv /\ Recheck => SecurityIInv'
<1> SUFFICES ASSUME SecurityIInv, Recheck PROVE SecurityIInv'
  OBVIOUS
<1>1. run # None /\ run.kind = "repair"
  BY DEF Recheck, At
<1>2. CASE End
  BY <1>2, EndContinues, RecordedOnly DEF Recheck
<1>3. CASE ~End
  <2>1. Goto("delete") /\ Under("from") = {}
    BY <1>3 DEF Recheck
  <2>2. Continues
    BY <1>1, <2>1, GotoContinues DEF RepairSteps
  <2> QED BY <2>1, <2>2, RecordedOnly DEF Recheck
<1> QED BY <1>2, <1>3

LEMMA RunDiesKeeps == SecurityIInv /\ RunDies => SecurityIInv'
BY EndContinues, RecordedOnly DEF RunDies

LEMMA RestoreEndsKeeps == SecurityIInv /\ RestoreEnds => SecurityIInv'
BY EndContinues, RecordedOnly DEF RestoreEnds
LEMMA CreateTargetKeeps == SecurityIInv /\ CreateTarget => SecurityIInv'
<1> SUFFICES ASSUME SecurityIInv, CreateTarget PROVE SecurityIInv'
  OBVIOUS
<1>1. /\ run # None /\ run.kind = "repair"
      /\ UNCHANGED <<config, ledger, session, backups, entered, late, back>>
  BY DEF CreateTarget, At, ghosts
<1>2. Taken(run.disc) /\ RunTyped(run)
  BY <1>1, RunKnown
<1>3. Continues /\ ~At("repair", "delete")'
  <2>1. End \/ Goto("config")
    BY DEF CreateTarget
  <2>2. run.todo \subseteq DOMAIN run.disc.ledger
    BY <1>2 DEF RunTyped, CreateTarget, At
  <2> QED BY <1>1, <2>1, <2>2, EndContinues, GotoContinues DEF RepairSteps
<1>4. run.currency \in Currencies \cup {None}
      /\ run.disc.master["from"].currency \in Currencies \cup {None}
  BY <1>2 DEF Taken, RunTyped, Masters, SecurityBodies, Identifiers
<1>5. master' \in Masters /\ master'["from"] = master["from"]
  <2>1. run.disc.master["from"].amendments \in SUBSET Nat
    BY <1>2 DEF Taken, Masters, SecurityBodies, Identifiers
  <2> QED BY <1>4, <2>1 DEF CreateTarget, SecurityIInv, SecurityTypeOK, Masters, SecurityBodies,
                            Security, Identifiers
<1>6. SecurityTypeOK'
  BY <1>1, <1>5 DEF SecurityIInv, SecurityTypeOK
<1>7. Abandoned'
  BY <1>1, <1>3, <1>5, LedgerAlone DEF SecurityIInv, Abandoned, Exists
<1> QED BY <1>1, <1>3, <1>6, <1>7, LedgerAlone, StepKeeps

LEMMA EntryRepointed ==
    ASSUME NEW e \in Entries, NEW i \in Identifiers
    PROVE  LET f == [e EXCEPT !.sid = i, !.tag = @ + 1]
           IN  /\ f \in Entries /\ f.sid = i /\ f.quantity = e.quantity
               /\ f.tag = e.tag + 1 /\ e.tag \in Nat
<1>1. e \in [sid : Identifiers, quantity : Nat \ {0}, tag : Nat]
  BY DEF Entries
<1>2. e.tag \in Nat /\ e.tag + 1 \in Nat
  BY <1>1
<1>3. PICK t \in Nat : t = e.tag + 1
  BY <1>2
<1>4. [e EXCEPT !.sid = i, !.tag = t] \in [sid : Identifiers, quantity : Nat \ {0}, tag : Nat]
  BY <1>1, <1>3
<1> QED BY <1>1, <1>2, <1>3, <1>4 DEF Entries

LEMMA PatchConfigKeeps == SecurityIInv /\ PatchConfig => SecurityIInv'
<1> SUFFICES ASSUME SecurityIInv, PatchConfig PROVE SecurityIInv'
  OBVIOUS
<1>1. /\ run # None /\ run.kind = "repair" /\ run.pc = "config"
      /\ UNCHANGED <<master, ledger, session, backups, entered, late, back>>
  BY DEF PatchConfig, At, ghosts
<1>2. /\ Taken(run.disc) /\ RunTyped(run) /\ config \in Configs
  BY <1>1, RunKnown
<1>3. Continues /\ ~At("repair", "delete")'
  <2>1. Goto("ledger") \/ Conflicting("ledger")
    BY DEF PatchConfig
  <2>2. run.todo \subseteq DOMAIN run.disc.ledger
    BY <1>1, <1>2 DEF RunTyped
  <2> QED BY <1>1, <2>1, <2>2, GotoContinues DEF RepairSteps
<1>4. config' \in Configs
  BY <1>2 DEF PatchConfig, Configs
<1>5. SecurityTypeOK'
  BY <1>1, <1>4 DEF SecurityIInv, SecurityTypeOK
<1>6. Abandoned'
  BY <1>1, <1>3, LedgerAlone DEF SecurityIInv, Abandoned, Exists
<1> QED BY <1>1, <1>3, <1>4, <1>5, <1>6, LedgerAlone, StepKeeps

(* Only a movement that is as it was discovered is written, and only its   *)
(* identifier.                                                             *)
LEMMA PatchMovementKeeps ==
    ASSUME NEW m \in Movements, SecurityIInv, PatchMovement(m) PROVE SecurityIInv'
<1>1. /\ run # None /\ run.kind = "repair" /\ run.pc = "ledger" /\ m \in run.todo
      /\ UNCHANGED <<master, config, session, backups, entered, late, back>>
  BY DEF PatchMovement, At, ghosts
<1>2. /\ Taken(run.disc) /\ RunTyped(run) /\ run.conflicts \in BOOLEAN
  BY <1>1, RunKnown
<1> DEFINE seen == run.disc.ledger[m]
<1>3. m \in DOMAIN run.disc.ledger /\ seen \in Entries /\ entered[m] # 0
  BY <1>1, <1>2 DEF RunTyped, Taken
<1> HIDE DEF seen
<1>4. Continues /\ ~At("repair", "delete")'
  <2>1. CASE run' = [run EXCEPT !.todo = @ \ {m}]
    <3>1. run' = [run EXCEPT !.todo = run.todo \ {m}, !.conflicts = run.conflicts]
      BY <1>2, <2>1, RunSame
    <3> QED BY <1>1, <1>2, <3>1, TodoShrinks DEF At
  <2>2. CASE run' = [run EXCEPT !.todo = @ \ {m}, !.conflicts = @ \/ ledger[m] # None]
    <3>1. run' = [run EXCEPT !.todo = run.todo \ {m},
                             !.conflicts = run.conflicts \/ ledger[m] # None]
      BY <2>2
    <3> QED BY <1>1, <1>2, <3>1, TodoShrinks DEF At
  <2> QED BY <2>1, <2>2 DEF PatchMovement, Patch
<1>5. CASE UNCHANGED ledger
  <2>1. SecurityTypeOK'
    BY <1>1, <1>5 DEF SecurityIInv, SecurityTypeOK
  <2>2. Abandoned'
    BY <1>1, <1>4, <1>5, LedgerAlone DEF SecurityIInv, Abandoned, Exists
  <2> QED BY <1>1, <1>4, <1>5, <2>1, <2>2, LedgerAlone, StepKeeps
<1>6. CASE ~UNCHANGED ledger
  <2>1. /\ ledger[m] # None /\ ledger[m].tag = seen.tag
        /\ ledger' = [ledger EXCEPT ![m] = [seen EXCEPT !.sid = "to", !.tag = @ + 1]]
    BY <1>6 DEF PatchMovement, Patch, seen
  <2>2. ledger \in [Movements -> {None} \cup Entries] /\ ledger[m] \in Entries
    BY <2>1 DEF SecurityIInv, SecurityTypeOK
  <2>3. ledger[m] = seen
    <3>1. ledger[m] = seen \/ ledger[m].tag > seen.tag
      BY <1>2, <1>3, <2>1 DEF Taken, seen
    <3>2. ledger[m].tag \in Nat
      BY <2>2 DEF Entries
    <3> QED BY <2>1, <3>1, <3>2
  <2> DEFINE new == [ledger[m] EXCEPT !.sid = "to", !.tag = @ + 1]
  <2>4. /\ new \in Entries /\ new.sid = "to" /\ new.quantity = ledger[m].quantity
        /\ new.tag = ledger[m].tag + 1 /\ ledger[m].tag \in Nat
    BY <2>2, EntryRepointed DEF Identifiers
  <2> HIDE DEF new
  <2>5. /\ \A n \in Movements : ledger'[n] = IF n = m THEN new ELSE ledger[n]
        /\ ledger' \in [Movements -> {None} \cup Entries]
    BY <2>1, <2>2, <2>3, <2>4 DEF new
  <2>6. SecurityTypeOK'
    BY <1>1, <2>5 DEF SecurityIInv, SecurityTypeOK
  <2>7. EntriesKept' /\ Grown
    BY <1>1, <2>1, <2>3, <2>4, <2>5 DEF SecurityIInv, EntriesKept, Grown
  <2>8. Under("from")' \subseteq Under("from")
    BY <2>4, <2>5 DEF Under, Refers
  <2>9. Abandoned'
    BY <1>1, <1>4, <2>8 DEF SecurityIInv, Abandoned, Exists
  <2> QED BY <1>1, <1>4, <2>6, <2>7, <2>9, StepKeeps
<1> QED BY <1>5, <1>6

LEMMA PatchSessionKeeps ==
    ASSUME NEW s \in Sessions, SecurityIInv, PatchSession(s) PROVE SecurityIInv'
<1>1. /\ run # None /\ run.kind = "repair" /\ run.pc = "sessions"
      /\ UNCHANGED <<master, config, ledger, backups, entered, late, back>>
  BY DEF PatchSession, At, ghosts
<1>2. RunTyped(run) /\ run.conflicts \in BOOLEAN
  BY <1>1, RunKnown
<1>3. PICK c \in BOOLEAN : run' = [run EXCEPT !.todo = run.todo \ {s}, !.conflicts = c]
  BY <1>2 DEF PatchSession
<1>4. Continues /\ ~At("repair", "delete")'
  BY <1>1, <1>3, TodoShrinks DEF At
<1>5. session' \in [Sessions -> Imported]
  BY DEF PatchSession, SecurityIInv, SecurityTypeOK, Imported, Identifiers
<1>6. SecurityTypeOK'
  BY <1>1, <1>5 DEF SecurityIInv, SecurityTypeOK
<1>7. Abandoned'
  BY <1>1, <1>4, LedgerAlone DEF SecurityIInv, Abandoned, Exists
<1> QED BY <1>1, <1>4, <1>6, <1>7, LedgerAlone, StepKeeps

(* The source goes only when nothing but what came late refers to it.      *)
LEMMA DeleteSourceKeeps == SecurityIInv /\ DeleteSource => SecurityIInv'
<1> SUFFICES ASSUME SecurityIInv, DeleteSource PROVE SecurityIInv'
  OBVIOUS
<1>1. /\ At("repair", "delete") /\ End
      /\ UNCHANGED <<config, ledger, session, backups, entered, late, back>>
  BY DEF DeleteSource, ghosts
<1>2. SecurityTypeOK'
  BY <1>1 DEF DeleteSource, SecurityIInv, SecurityTypeOK, Masters, SecurityBodies, Absent, Security,
              Identifiers
<1>3. Abandoned'
  BY <1>1, LedgerAlone DEF SecurityIInv, Abandoned
<1> QED BY <1>1, <1>2, <1>3, EndContinues, LedgerAlone, StepKeeps
-----------------------------------------------------------------------------
(* The steps of a restore.                                                 *)

(* A restore that goes on has undone what it should have by then.          *)
LEMMA RestoreContinues ==
    ASSUME SecurityIInv, run # None, run.kind = "restore", NEW pc \in RestoreSteps,
           NEW todo \in SUBSET (Movements \cup Sessions), NEW conflicts \in BOOLEAN,
           run' = [run EXCEPT !.pc = pc, !.todo = todo, !.conflicts = conflicts],
           todo \subseteq DOMAIN run.disc.ledger,
           ~conflicts => \A m \in DOMAIN run.disc.ledger \ todo : ~Refers(m, "to")',
           pc \in {"source", "target", "restored"} =>
               todo = {} /\ (config'.sid = "to" => run.disc.config.sid = "to"),
           pc \in {"target", "restored"} /\ run.disc.master["from"].kind # "absent" => Exists("from")'
    PROVE  Continues /\ ~At("repair", "delete")'
<1>1. PICK r, s : r = run /\ s = run'
  OBVIOUS
<1>2. RunTyped(r)
  BY <1>1 DEF SecurityIInv
<1>3. s = [r EXCEPT !.pc = pc, !.todo = todo, !.conflicts = conflicts] /\ r.kind = "restore"
  BY <1>1
<1>4. /\ pc \in RepairSteps \cup RestoreSteps
      /\ r.kind = "repair" => pc \in RepairSteps
      /\ r.kind = "restore" => pc \in RestoreSteps
      /\ pc \in {"target", "config", "ledger"} => todo \subseteq DOMAIN r.disc.ledger
      /\ pc = "sessions" => todo \subseteq DOMAIN r.disc.session
  BY <1>1, <1>3 DEF RestoreSteps
<1>5. RunTyped(s) /\ RunFollows(r, s, pc, todo, conflicts)
  BY <1>2, <1>3, <1>4, RunFields
<1>6. Undoes(run)'
  BY <1>1, <1>5 DEF RunFollows, Undoes
<1> QED BY <1>1, <1>3, <1>5, <1>6 DEF RunFollows, Continues, At

LEMMA RestoreGoto ==
    ASSUME SecurityIInv, run # None, run.kind = "restore", NEW pc \in RestoreSteps, Goto(pc),
           run.todo = {}, \A m \in Movements : Refers(m, "to")' => Refers(m, "to"),
           config'.sid = "to" => run.disc.config.sid = "to",
           pc \in {"target", "restored"} /\ run.disc.master["from"].kind # "absent" => Exists("from")'
    PROVE  Continues /\ ~At("repair", "delete")'
<1>1. RunTyped(run) /\ Taken(run.disc) /\ Undoes(run) /\ run.conflicts \in BOOLEAN
  BY RunKnown
<1>2. run' = [run EXCEPT !.pc = pc, !.todo = {}, !.conflicts = run.conflicts]
  BY <1>1, RunSame DEF Goto
<1>3. ~run.conflicts => \A m \in DOMAIN run.disc.ledger \ {} : ~Refers(m, "to")'
  BY <1>1 DEF Undoes, Taken
<1> QED BY <1>1, <1>2, <1>3, RestoreContinues

LEMMA RestoreConfigKeeps == SecurityIInv /\ RestoreConfig => SecurityIInv'
<1> SUFFICES ASSUME SecurityIInv, RestoreConfig PROVE SecurityIInv'
  OBVIOUS
<1>1. /\ run # None /\ run.kind = "restore" /\ run.todo = {} /\ Goto("source")
      /\ UNCHANGED <<master, ledger, session, backups, entered, late, back>>
  BY DEF RestoreConfig, At, ghosts
<1>2. Taken(run.disc) /\ config \in Configs
  BY <1>1, RunKnown
<1>3. config' \in Configs /\ (config'.sid = "to" => run.disc.config.sid = "to")
  <2>1. run.disc.config.sid \in {"none", "from", "to"}
    BY <1>2 DEF Taken, Configs
  <2> QED BY <1>2, <2>1 DEF RestoreConfig, Configs
<1>4. Continues /\ ~At("repair", "delete")'
  BY <1>1, <1>3, RestoreGoto DEF RestoreSteps, Refers
<1>5. SecurityTypeOK'
  BY <1>1, <1>3 DEF SecurityIInv, SecurityTypeOK
<1>6. Abandoned'
  BY <1>1, <1>4, LedgerAlone DEF SecurityIInv, Abandoned, Exists
<1> QED BY <1>1, <1>3, <1>4, <1>5, <1>6, LedgerAlone, StepKeeps

LEMMA RestoreSourceKeeps == SecurityIInv /\ RestoreSource => SecurityIInv'
<1> SUFFICES ASSUME SecurityIInv, RestoreSource PROVE SecurityIInv'
  OBVIOUS
<1>1. /\ run # None /\ run.kind = "restore" /\ run.pc = "source" /\ Goto("target")
      /\ UNCHANGED <<config, ledger, session, backups, entered, late, back>>
  BY DEF RestoreSource, At, ghosts
<1>2. Taken(run.disc) /\ config \in Configs /\ Undoes(run)
  BY <1>1, RunKnown
<1>3. /\ master' \in Masters /\ (Exists("from") => Exists("from")')
      /\ run.disc.master["from"].kind # "absent" => Exists("from")'
  <2>1. run.disc.master["from"] \in SecurityBodies
    BY <1>2 DEF Taken, Masters, Identifiers
  <2>2. master \in Masters
    BY DEF SecurityIInv, SecurityTypeOK
  <2> QED BY <2>1, <2>2 DEF RestoreSource, Masters, Identifiers, Exists
<1>4. Continues /\ ~At("repair", "delete")'
  BY <1>1, <1>2, <1>3, RestoreGoto DEF RestoreSteps, Refers, Undoes
<1>5. SecurityTypeOK'
  BY <1>1, <1>3 DEF SecurityIInv, SecurityTypeOK
<1>6. Abandoned'
  BY <1>1, <1>3, <1>4, LedgerAlone DEF SecurityIInv, Abandoned
<1> QED BY <1>1, <1>4, <1>5, <1>6, LedgerAlone, StepKeeps

LEMMA RestoreTargetKeeps == SecurityIInv /\ RestoreTarget => SecurityIInv'
<1> SUFFICES ASSUME SecurityIInv, RestoreTarget PROVE SecurityIInv'
  OBVIOUS
<1>1. /\ run # None /\ run.kind = "restore" /\ run.pc = "target" /\ Goto("restored")
      /\ UNCHANGED <<config, ledger, session, backups, entered, late, back>>
  BY DEF RestoreTarget, At, ghosts
<1>2. Taken(run.disc) /\ config \in Configs /\ Undoes(run)
  BY <1>1, RunKnown
<1>3. master' \in Masters /\ (Exists("from")' <=> Exists("from"))
  BY DEF RestoreTarget, SecurityIInv, SecurityTypeOK, Masters, SecurityBodies, Identifiers, Exists,
         Absent, Security
<1>4. Continues /\ ~At("repair", "delete")'
  BY <1>1, <1>2, <1>3, RestoreGoto DEF RestoreSteps, Refers, Undoes
<1>5. SecurityTypeOK'
  BY <1>1, <1>3 DEF SecurityIInv, SecurityTypeOK
<1>6. Abandoned'
  BY <1>1, <1>3, <1>4, LedgerAlone DEF SecurityIInv, Abandoned
<1> QED BY <1>1, <1>4, <1>5, <1>6, LedgerAlone, StepKeeps

(* A restore that is done with a movement, as long as nothing comes under  *)
(* the target.                                                             *)
LEMMA MovementDone ==
    ASSUME SecurityIInv, NEW m, run # None, run.kind = "restore", run.pc = "ledger",
           NEW conflicts \in BOOLEAN, run.conflicts => conflicts,
           run' = [run EXCEPT !.todo = run.todo \ {m}, !.conflicts = conflicts],
           \A n \in Movements : Refers(n, "to")' => Refers(n, "to") /\ (n = m => conflicts)
    PROVE  Continues /\ ~At("repair", "delete")'
<1>1. /\ RunTyped(run) /\ Taken(run.disc) /\ Undoes(run)
      /\ run.todo \in SUBSET (Movements \cup Sessions)
  BY RunKnown
<1>2. /\ run' = [run EXCEPT !.pc = run.pc, !.todo = run.todo \ {m}, !.conflicts = conflicts]
      /\ run.pc \in RestoreSteps
  BY <1>1, RunSame DEF RestoreSteps
<1>3. run.todo \ {m} \subseteq DOMAIN run.disc.ledger
  BY <1>1 DEF RunTyped
<1>4. ~conflicts => \A n \in DOMAIN run.disc.ledger \ (run.todo \ {m}) : ~Refers(n, "to")'
  BY <1>1 DEF Undoes, Taken
<1> QED BY <1>1, <1>2, <1>3, <1>4, RestoreContinues

LEMMA RestoreFailsKeeps ==
    ASSUME NEW m \in Movements, SecurityIInv, RestoreFails(m) PROVE SecurityIInv'
<1>1. /\ run # None /\ run.kind = "restore" /\ run.pc = "ledger"
      /\ run' = [run EXCEPT !.todo = run.todo \ {m}, !.conflicts = TRUE]
      /\ UNCHANGED ledger
  <2>1. run # None
    BY DEF RestoreFails, At
  <2>2. RunTyped(run)
    BY <2>1, RunKnown
  <2> QED BY <2>1, <2>2 DEF RestoreFails, At, RunTyped, stored
<1>2. Continues /\ ~At("repair", "delete")'
  BY <1>1, MovementDone DEF Refers
<1> QED BY <1>2, RecordedOnly DEF RestoreFails

(* What is put back keeps its quantity and gets another tag.               *)
LEMMA RestoreMovementKeeps ==
    ASSUME NEW m \in Movements, SecurityIInv, RestoreMovement(m) PROVE SecurityIInv'
<1>1. /\ run # None /\ run.kind = "restore" /\ run.pc = "ledger" /\ m \in run.todo
      /\ UNCHANGED <<master, config, session, backups, entered, late>>
  BY DEF RestoreMovement, At
<1>2. /\ Taken(run.disc) /\ RunTyped(run) /\ run.conflicts \in BOOLEAN
  BY <1>1, RunKnown
<1>3. run' = [run EXCEPT !.todo = run.todo \ {m}, !.conflicts = run.conflicts]
  BY <1>2, RunSame DEF RestoreMovement
<1>4. CASE ~Refers(m, "to")
  <2>1. UNCHANGED <<ledger, back>>
    BY <1>4 DEF RestoreMovement
  <2>2. Continues /\ ~At("repair", "delete")'
    BY <1>1, <1>2, <1>3, <1>4, <2>1, MovementDone DEF Refers
  <2>3. SecurityTypeOK'
    BY <1>1, <2>1 DEF SecurityIInv, SecurityTypeOK
  <2>4. Abandoned'
    BY <1>1, <2>1, <2>2, LedgerAlone DEF SecurityIInv, Abandoned, Exists
  <2> QED BY <1>1, <2>1, <2>2, <2>3, <2>4, LedgerAlone, StepKeeps
<1>5. CASE Refers(m, "to")
  <2>1. /\ ledger[m] # None
        /\ ledger' = [ledger EXCEPT ![m] = PutBack(m)] /\ back' = back \cup {m}
    BY <1>5 DEF RestoreMovement, Refers
  <2>2. ledger \in [Movements -> {None} \cup Entries] /\ ledger[m] \in Entries
    BY <2>1 DEF SecurityIInv, SecurityTypeOK
  <2>3. run.disc.ledger[m].sid = "from"
    BY <1>1, <1>2 DEF RunTyped, Taken
  <2>4. /\ PutBack(m) \in Entries /\ PutBack(m).sid = "from"
        /\ PutBack(m).quantity = ledger[m].quantity
        /\ PutBack(m).tag = ledger[m].tag + 1 /\ ledger[m].tag \in Nat
    BY <2>2, <2>3, EntryRepointed DEF PutBack, Identifiers
  <2>5. /\ \A n \in Movements : ledger'[n] = IF n = m THEN PutBack(m) ELSE ledger[n]
        /\ ledger' \in [Movements -> {None} \cup Entries]
    BY <2>1, <2>2, <2>4
  <2>6. SecurityTypeOK'
    BY <1>1, <2>5 DEF SecurityIInv, SecurityTypeOK
  <2>7. EntriesKept' /\ Grown
    BY <1>1, <2>1, <2>4, <2>5 DEF SecurityIInv, EntriesKept, Grown
  <2>8. \A n \in Movements : Refers(n, "to")' => Refers(n, "to") /\ n # m
    BY <2>4, <2>5 DEF Refers
  <2>9. Continues /\ ~At("repair", "delete")'
    BY <1>1, <1>2, <1>3, <2>8, MovementDone
  <2>10. Under("from")' \subseteq Under("from") \cup {m}
    BY <2>4, <2>5 DEF Under, Refers
  <2>11. Abandoned'
    BY <1>1, <2>1, <2>9, <2>10 DEF SecurityIInv, Abandoned, Exists
  <2> QED BY <1>1, <2>6, <2>7, <2>9, <2>11, StepKeeps
<1> QED BY <1>4, <1>5

-----------------------------------------------------------------------------
(* The application.                                                        *)

(* It leaves the run alone, and does not point what a backup holds         *)
(* elsewhere.                                                              *)
LEMMA EditContinues ==
    ASSUME SecurityIInv, SecurityTypeOK', UNCHANGED run, Exists("from")' = Exists("from"), Grown,
           config \in Configs => config' \in Configs /\ config'.sid = config.sid,
           \A m \in Movements : entered[m] # 0 /\ Refers(m, "to")' => Refers(m, "to")
    PROVE  Continues /\ (At("repair", "delete")' <=> At("repair", "delete"))
<1>1. ASSUME run # None PROVE Undoes(run)'
  <2>1. Undoes(run) /\ Taken(run.disc) /\ config \in Configs
    BY <1>1, RunKnown
  <2> QED BY <2>1 DEF Undoes, Taken
<1> QED BY <1>1, RunKnown DEF Continues, At

LEMMA WriteKeeps ==
    ASSUME NEW m \in Movements, NEW d \in Entries \cup {None}, SecurityIInv, Write(m, d),
           d # None => \/ /\ ledger[m] # None
                          /\ d.sid = ledger[m].sid /\ d.tag > ledger[m].tag
                       \/ entered[m] = 0,
           late \subseteq late',
           d # None /\ d.sid = "from" /\ (At("repair", "delete") \/ ~Exists("from")) =>
              Refers(m, "from") \/ m \in late'
    PROVE  SecurityIInv'
<1>1. /\ UNCHANGED <<master, config, session, backups, run, back>>
      /\ ledger' = [ledger EXCEPT ![m] = d]
      /\ entered' = IF d = None THEN entered ELSE [entered EXCEPT ![m] = d.quantity]
  BY DEF Write
<1>2. ledger \in [Movements -> {None} \cup Entries] /\ entered \in [Movements -> Nat]
  BY DEF SecurityIInv, SecurityTypeOK
<1>3. /\ \A n \in Movements : ledger'[n] = IF n = m THEN d ELSE ledger[n]
      /\ ledger' \in [Movements -> {None} \cup Entries]
  BY <1>1, <1>2
<1>4. /\ d # None => d \in Entries /\ d.quantity \in Nat \ {0}
      /\ entered' \in [Movements -> Nat]
      /\ \A n \in Movements : entered'[n] = IF n = m /\ d # None THEN d.quantity ELSE entered[n]
  <2>1. d # None => d \in Entries /\ d.quantity \in Nat \ {0}
    BY DEF Entries
  <2> QED BY <1>1, <1>2, <2>1
<1>5. SecurityTypeOK'
  BY <1>1, <1>3, <1>4 DEF SecurityIInv, SecurityTypeOK
<1>6. EntriesKept'
  BY <1>3, <1>4 DEF SecurityIInv, EntriesKept
<1>7. Grown
  <2> SUFFICES ASSUME NEW n \in Movements, entered[n] # 0
               PROVE  /\ entered'[n] # 0
                      /\ ledger'[n] # None =>
                            /\ ledger[n] # None
                            /\ ledger'[n] = ledger[n] \/ ledger'[n].tag > ledger[n].tag
    BY DEF Grown
  <2> QED BY <1>3, <1>4
<1>8. \A n \in Movements : entered[n] # 0 /\ Refers(n, "to")' => Refers(n, "to")
  BY <1>3 DEF Refers
<1>9. Continues /\ (At("repair", "delete")' <=> At("repair", "delete"))
  BY <1>1, <1>5, <1>7, <1>8, EditContinues DEF Exists
<1>10. Abandoned'
  <2> SUFFICES ASSUME ~Exists("from") \/ At("repair", "delete"), NEW n \in Under("from")'
               PROVE  n \in late' \cup back'
    BY <1>1, <1>9 DEF Abandoned, Exists
  <2>1. n \in Movements /\ Refers(n, "from")'
    BY DEF Under
  <2>2. n \in Under("from") \/ n \in late'
    BY <1>3, <2>1 DEF Under, Refers
  <2> QED BY <1>1, <2>2 DEF SecurityIInv, Abandoned
<1> QED BY <1>1, <1>5, <1>6, <1>7, <1>9, <1>10, StepKeeps

LEMMA CorrectKeeps == ASSUME NEW m \in Movements, SecurityIInv, Correct(m) PROVE SecurityIInv'
<1>1. ledger[m] # None /\ ledger[m] \in [sid : Identifiers, quantity : Nat \ {0}, tag : Nat]
  BY DEF Correct, SecurityIInv, SecurityTypeOK, Entries
<1>2. PICK q, t : q = ledger[m].quantity + 1 /\ t = ledger[m].tag + 1
  OBVIOUS
<1>3. q \in Nat \ {0} /\ t \in Nat /\ t > ledger[m].tag
  BY <1>1, <1>2
<1>4. PICK d : d = [ledger[m] EXCEPT !.quantity = q, !.tag = t]
  OBVIOUS
<1>5. d \in Entries /\ d.sid = ledger[m].sid /\ d.tag > ledger[m].tag
  BY <1>1, <1>3, <1>4 DEF Entries
<1>6. Write(m, d) /\ UNCHANGED late
  BY <1>2, <1>4 DEF Correct
<1> QED BY <1>1, <1>5, <1>6, WriteKeeps DEF Refers

LEMMA RemoveKeeps == ASSUME NEW m \in Movements, SecurityIInv, Remove(m) PROVE SecurityIInv'
BY WriteKeeps DEF Remove

LEMMA RecordKeeps ==
    ASSUME NEW m \in Movements, NEW i \in Identifiers, SecurityIInv, Record(m, i)
    PROVE  SecurityIInv'
<1>1. PICK d : d = [sid |-> i, quantity |-> 1, tag |-> 0]
  OBVIOUS
<1>2. d \in Entries /\ d.sid = i
  BY <1>1 DEF Entries
<1>3. Write(m, d) /\ entered[m] = 0
  BY <1>1 DEF Record
<1>4. late' = IF i = "from" /\ (At("repair", "delete") \/ ~Exists("from"))
              THEN late \cup {m} ELSE late
  BY DEF Record
<1> QED BY <1>2, <1>3, <1>4, WriteKeeps

LEMMA EditConfigKeeps == SecurityIInv /\ EditConfig => SecurityIInv'
<1> SUFFICES ASSUME SecurityIInv, EditConfig PROVE SecurityIInv'
  OBVIOUS
<1>1. UNCHANGED <<master, ledger, session, backups, run, entered, late, back>>
  BY DEF EditConfig, ghosts
<1>2. config' \in Configs /\ config'.sid = config.sid
  BY DEF EditConfig, SecurityIInv, SecurityTypeOK, Configs
<1>3. SecurityTypeOK'
  BY <1>1, <1>2 DEF SecurityIInv, SecurityTypeOK
<1>4. Continues /\ (At("repair", "delete")' <=> At("repair", "delete"))
  BY <1>1, <1>2, <1>3, LedgerAlone, EditContinues DEF Refers, Exists
<1>5. Abandoned'
  BY <1>1, <1>4, LedgerAlone DEF SecurityIInv, Abandoned, Exists
<1> QED BY <1>1, <1>2, <1>3, <1>4, <1>5, LedgerAlone, StepKeeps

LEMMA EditSessionKeeps ==
    ASSUME NEW s \in Sessions, SecurityIInv, EditSession(s) PROVE SecurityIInv'
<1>1. UNCHANGED <<master, config, ledger, backups, run, entered, late, back>>
  BY DEF EditSession, ghosts
<1>2. session' \in [Sessions -> Imported]
  BY DEF EditSession, SecurityIInv, SecurityTypeOK, Imported
<1>3. SecurityTypeOK'
  BY <1>1, <1>2 DEF SecurityIInv, SecurityTypeOK
<1>4. Continues /\ (At("repair", "delete")' <=> At("repair", "delete"))
  BY <1>1, <1>3, LedgerAlone, EditContinues DEF Refers, Exists
<1>5. Abandoned'
  BY <1>1, <1>4, LedgerAlone DEF SecurityIInv, Abandoned, Exists
<1> QED BY <1>1, <1>3, <1>4, <1>5, LedgerAlone, StepKeeps

(* An amendment leaves everything but the security's amendments.           *)
LEMMA AmendKeeps ==
    ASSUME NEW i \in Identifiers, edits \in Nat, SecurityIInv, Amend(i) PROVE SecurityIInv'
<1>1. UNCHANGED <<config, ledger, session, backups, run, entered, late, back>>
  BY DEF Amend
<1>2. PICK a \in SUBSET Nat : master' = [master EXCEPT ![i].amendments = a]
  <2>1. master[i].amendments \cup {edits'} \in SUBSET Nat
    BY DEF Amend, MayEdit, SecurityIInv, SecurityTypeOK, Masters, SecurityBodies
  <2> QED BY <2>1 DEF Amend
<1>3. master' \in Masters /\ (Exists("from")' = Exists("from"))
  <2>1. master \in [Identifiers -> SecurityBodies] /\ master[i].kind # "absent"
    BY DEF Amend, Exists, SecurityIInv, SecurityTypeOK, Masters
  <2>2. PICK r : r = [master[i] EXCEPT !.amendments = a]
    OBVIOUS
  <2>3. r \in SecurityBodies /\ r.kind = master[i].kind
    BY <2>1, <2>2 DEF SecurityBodies
  <2>4. master' = [master EXCEPT ![i] = r]
    BY <1>2, <2>2
  <2> QED BY <2>1, <2>3, <2>4 DEF Masters, Exists, Identifiers
<1>4. SecurityTypeOK'
  BY <1>1, <1>3 DEF SecurityIInv, SecurityTypeOK
<1>5. Continues /\ (At("repair", "delete")' <=> At("repair", "delete"))
  BY <1>1, <1>3, <1>4, LedgerAlone, EditContinues DEF Refers
<1>6. Abandoned'
  BY <1>1, <1>3, <1>5, LedgerAlone DEF SecurityIInv, Abandoned
<1> QED BY <1>1, <1>4, <1>5, <1>6, LedgerAlone, StepKeeps
-----------------------------------------------------------------------------
(* The runs begin.                                                         *)

LEMMA DiscoveryTaken ==
    ASSUME SecurityIInv, config # None
    PROVE  Taken(Discovery) /\ DOMAIN Discovery.ledger = Under("from")
<1>1. PICK d : d = Discovery
  OBVIOUS
<1>2. /\ d.config = config /\ d.master = master
      /\ d.ledger = [m \in Under("from") |-> ledger[m]]
      /\ d.session = [s \in Pointing |-> session[s]]
  BY <1>1 DEF Discovery
<1>3. config \in Configs /\ master \in Masters
  BY DEF SecurityIInv, SecurityTypeOK
<1>4. \A m \in Under("from") :
        m \in Movements /\ ledger[m] \in Entries /\ ledger[m].sid = "from" /\ entered[m] # 0
  BY DEF Under, Refers, SecurityIInv, SecurityTypeOK, EntriesKept, Entries
<1>5. Pointing \subseteq Sessions /\ Under("from") \subseteq Movements
  BY DEF Pointing, Under
<1>6. Taken(d) /\ DOMAIN d.ledger = Under("from")
  BY <1>2, <1>3, <1>4, <1>5 DEF Taken
<1> QED BY <1>1, <1>6

LEMMA ApplyKeeps ==
    ASSUME NEW wanted \in Currencies \cup {None}, NEW answer, SecurityIInv, Apply(wanted, answer)
    PROVE  SecurityIInv'
<1>1. PICK d : d = Discovery
  OBVIOUS
<1>2. /\ config # None /\ backups' = Append(backups, d)
      /\ run' = [kind |-> "repair", pc |-> "target", disc |-> d, currency |-> wanted,
                 todo |-> Under("from"), conflicts |-> FALSE]
      /\ UNCHANGED <<master, config, ledger, session, entered, late, back>>
  BY <1>1 DEF Apply, stored, ghosts
<1>3. Taken(d) /\ DOMAIN d.ledger = Under("from")
  BY <1>1, <1>2, DiscoveryTaken
<1>4. /\ IsList(backups')
      /\ \A b \in DOMAIN backups' : backups'[b] = d \/ (b \in DOMAIN backups /\ backups'[b] = backups[b])
  <2>1. IsList(backups) /\ backups' = Append(backups, d)
    BY <1>2 DEF SecurityIInv, SecurityTypeOK
  <2>2. Extends(backups', backups, d)
    BY <2>1, Saved
  <2> QED BY <2>2 DEF Extends
<1>5. SecurityTypeOK'
  BY <1>2, <1>4 DEF SecurityIInv, SecurityTypeOK
<1>6. \A e : Taken(e) => Taken(e)'
  BY <1>2 DEF Taken
<1>7. (\A b \in DOMAIN backups : Taken(backups[b]))'
  <2> SUFFICES ASSUME NEW b \in DOMAIN backups' PROVE Taken(backups[b])'
    OBVIOUS
  <2>1. PICK e : e = backups'[b]
    OBVIOUS
  <2>2. Taken(e)
    BY <1>3, <1>4, <2>1 DEF SecurityIInv
  <2> QED BY <1>6, <2>1, <2>2
<1>8. RunTyped(run') /\ run'.disc = d /\ run'.kind = "repair"
  <2>1. PICK r : r = run'
    OBVIOUS
  <2>2. RunTyped(r) /\ r.disc = d /\ r.kind = "repair"
    BY <1>2, <1>3, <2>1 DEF RunTyped, RepairSteps, RestoreSteps, Under
  <2> QED BY <2>1, <2>2
<1>9. Taken(run.disc)' /\ Undoes(run)'
  BY <1>3, <1>6, <1>8 DEF Undoes
<1>10. EntriesKept' /\ Abandoned'
  BY <1>2, LedgerAlone DEF SecurityIInv, Abandoned, Exists, At
<1> QED BY <1>2, <1>5, <1>7, <1>8, <1>9, <1>10 DEF SecurityIInv, SecurityTypeOK

LEMMA RestoreKeeps ==
    ASSUME NEW b \in DOMAIN backups, SecurityIInv, Restore(b) PROVE SecurityIInv'
<1>1. PICK d : d = backups[b]
  OBVIOUS
<1>2. Taken(d) /\ config \in Configs /\ backups # <<>>
  <2>1. backups # <<>>
    BY NoneSaved
  <2> QED BY <1>1, <2>1 DEF SecurityIInv
<1>3. /\ run' = [kind |-> "restore", pc |-> "ledger", disc |-> d, currency |-> None,
                 todo |-> DOMAIN d.ledger, conflicts |-> FALSE]
      /\ UNCHANGED <<master, config, ledger, session, backups, entered, late, back>>
  BY <1>1 DEF Restore, stored, ghosts
<1>4. RunTyped(run') /\ run'.disc = d /\ Undoes(run)'
  <2>1. PICK r : r = run'
    OBVIOUS
  <2>2. RunTyped(r) /\ r.disc = d /\ r.pc = "ledger" /\ r.todo = DOMAIN r.disc.ledger
    BY <1>2, <1>3, <2>1 DEF RunTyped, RepairSteps, RestoreSteps, Taken
  <2> QED BY <2>1, <2>2 DEF Undoes
<1>5. SecurityTypeOK' /\ EntriesKept' /\ Abandoned'
  BY <1>3, LedgerAlone DEF SecurityIInv, SecurityTypeOK, Abandoned, Exists, At
<1>6. \A e : Taken(e) => Taken(e)'
  BY <1>3 DEF Taken
<1>7. (\A c \in DOMAIN backups : Taken(backups[c]))'
  BY <1>3, <1>6 DEF SecurityIInv
<1>8. Taken(run.disc)'
  BY <1>2, <1>4, <1>6
<1> QED BY <1>2, <1>3, <1>4, <1>5, <1>7, <1>8 DEF SecurityIInv

LEMMA SecurityKeeps ==
    ASSUME edits \in Nat, SecurityIInv, [RepairNext]_repairVars PROVE SecurityIInv'
<1>1. CASE UNCHANGED repairVars
  BY <1>1, RecordedOnly, RunKnown DEF repairVars, Continues, Undoes, stored, Refers, Exists, At
<1>2. ASSUME NEW c \in Currencies \cup {None}, NEW a \in Answers, Apply(c, a) PROVE SecurityIInv'
  BY <1>2, ApplyKeeps
<1>3. CASE CreateTarget \/ PatchConfig \/ MovementsPatched \/ SessionsPatched
  BY <1>3, CreateTargetKeeps, PatchConfigKeeps, MovementsPatchedKeeps, SessionsPatchedKeeps
<1>4. ASSUME NEW x \in Movements \cup Sessions, Skip(x) PROVE SecurityIInv'
  BY <1>4, SkipKeeps
<1>5. ASSUME NEW m \in Movements, PatchMovement(m) \/ RestoreMovement(m) \/ RestoreFails(m)
      PROVE  SecurityIInv'
  BY <1>5, PatchMovementKeeps, RestoreMovementKeeps, RestoreFailsKeeps
<1>6. ASSUME NEW m \in Movements, Correct(m) \/ Remove(m) PROVE SecurityIInv'
  BY <1>6, CorrectKeeps, RemoveKeeps
<1>7. ASSUME NEW m \in Movements, NEW i \in {"from", "to"}, Record(m, i) PROVE SecurityIInv'
  BY <1>7, RecordKeeps DEF Identifiers
<1>8. ASSUME NEW s \in Sessions, PatchSession(s) \/ EditSession(s) PROVE SecurityIInv'
  BY <1>8, PatchSessionKeeps, EditSessionKeeps
<1>9. CASE Verify \/ Recheck \/ DeleteSource
  BY <1>9, VerifyKeeps, RecheckKeeps, DeleteSourceKeeps
<1>10. ASSUME NEW b \in DOMAIN backups, Restore(b) PROVE SecurityIInv'
  BY <1>10, RestoreKeeps
<1>11. CASE RestoreConfig \/ RestoreSource \/ RestoreTarget \/ RestoreEnds
  BY <1>11, RestoreConfigKeeps, RestoreSourceKeeps, RestoreTargetKeeps, RestoreEndsKeeps
<1>12. CASE RunDies \/ EditConfig
  BY <1>12, RunDiesKeeps, EditConfigKeeps
<1>13. ASSUME NEW i \in {"from", "to"}, Amend(i) PROVE SecurityIInv'
  BY <1>13, AmendKeeps DEF Identifiers
<1> QED BY <1>1, <1>2, <1>3, <1>4, <1>5, <1>6, <1>7, <1>8, <1>9, <1>10, <1>11, <1>12, <1>13
        DEF RepairNext

LEMMA SecurityImplies ==
    SecurityIInv => EntriesKept /\ SourceOutlivesReferences /\ RestoreUndoes
<1> SUFFICES ASSUME SecurityIInv
             PROVE  EntriesKept /\ SourceOutlivesReferences /\ RestoreUndoes
  OBVIOUS
<1>1. SourceOutlivesReferences
  BY DEF SecurityIInv, Abandoned, SourceOutlivesReferences
<1>2. ASSUME At("restore", "restored"), ~run.conflicts
      PROVE  /\ DOMAIN run.disc.ledger \cap Under("to") = {}
             /\ config.sid = "to" => run.disc.config.sid = "to"
             /\ run.disc.master["from"].kind # "absent" => Exists("from")
  BY <1>2, RunKnown DEF At, Undoes, Under
<1> QED BY <1>1, <1>2 DEF SecurityIInv, RestoreUndoes

-----------------------------------------------------------------------------
(* The amendments of the security.  What a run may not lose and the source *)
(* holds, the target holds too as soon as there is one; until a repair     *)
(* creates it, the copy that it discovered does.                           *)
Kept(source) == due \cap master["from"].amendments \subseteq source.amendments

Copied(r) ==
    r.kind = "repair" =>
        IF r.pc = "target" /\ r.disc.master["to"].kind = "absent"
        THEN r.disc.master["from"].kind = "absent" \/ Exists("to") \/ Kept(r.disc.master["from"])
        ELSE Exists("to")

AmendedIInv ==
    /\ edits \in Nat
    /\ \A e \in due : e \in Nat /\ e <= edits
    /\ AmendmentsKept
    /\ Exists("to") => Kept(master["to"])
    /\ run # None => Copied(run)

LEMMA AmendedInit == RepairInit => AmendedIInv
BY DEF RepairInit, AmendedIInv, AmendmentsKept, Kept

(* The run under way, if it goes on, was at the step it is at, or is past  *)
(* the creation of the target as before.                                   *)
Onward ==
    run' # None =>
        /\ run # None /\ run'.kind = run.kind /\ run'.disc = run.disc
        /\ run.kind = "repair" => (run'.pc = "target" <=> run.pc = "target")

LEMMA AmendmentsAlone ==
    ASSUME AmendedIInv, UNCHANGED <<master, due>>, edits' = edits \/ edits' = edits + 1, Onward
    PROVE  AmendedIInv'
<1>1. \A s : Kept(s)' = Kept(s)
  BY DEF Kept
<1>2. \A i : Exists(i)' = Exists(i)
  BY DEF Exists
<1>3. edits' \in Nat /\ \A e \in due' : e \in Nat /\ e <= edits'
  BY DEF AmendedIInv
<1>4. AmendmentsKept' /\ (Exists("to") => Kept(master["to"]))'
  BY <1>1, <1>2 DEF AmendedIInv, AmendmentsKept, Kept
<1>5. ASSUME run' # None PROVE Copied(run)'
  <2>1. PICK r, q : r = run /\ q = run'
    OBVIOUS
  <2>2. /\ Copied(r) /\ q.kind = r.kind /\ q.disc = r.disc
        /\ r.kind = "repair" => (q.pc = "target" <=> r.pc = "target")
    BY <1>5, <2>1 DEF AmendedIInv, Onward
  <2>3. Copied(q)
    BY <2>2 DEF Copied
  <2>4. Copied(q)'
    BY <1>1, <1>2, <2>3 DEF Copied
  <2> QED BY <2>1, <2>4
<1> QED BY <1>3, <1>4, <1>5 DEF AmendedIInv

LEMMA GotoOnward ==
    ASSUME SecurityIInv, run # None, NEW pc, Goto(pc) \/ Conflicting(pc), pc # "target",
           run.kind = "repair" => run.pc # "target"
    PROVE  Onward
<1>1. PICK r, q : r = run /\ q = run'
  OBVIOUS
<1>2. /\ RunTyped(r)
      /\ q = [r EXCEPT !.pc = pc] \/ q = [r EXCEPT !.pc = pc, !.conflicts = TRUE]
  BY <1>1, RunKnown DEF Goto, Conflicting
<1>3. q.kind = r.kind /\ q.disc = r.disc /\ q.pc = pc
  BY <1>2 DEF RunTyped
<1> QED BY <1>1, <1>3 DEF Onward

LEMMA TodoOnward ==
    ASSUME SecurityIInv, run # None, NEW todo, NEW c,
           run' = [run EXCEPT !.todo = todo] \/ run' = [run EXCEPT !.todo = todo, !.conflicts = c]
    PROVE  Onward
<1>1. PICK r, q : r = run /\ q = run'
  OBVIOUS
<1>2. /\ RunTyped(r)
      /\ q = [r EXCEPT !.todo = todo] \/ q = [r EXCEPT !.todo = todo, !.conflicts = c]
  BY <1>1, RunKnown
<1>3. q.kind = r.kind /\ q.disc = r.disc /\ q.pc = r.pc
  BY <1>2 DEF RunTyped
<1> QED BY <1>1, <1>3 DEF Onward

(* The steps of a run that leave the security alone.                       *)
LEMMA AmendedByRuns ==
    ASSUME SecurityIInv, AmendedIInv,
           \/ PatchConfig \/ MovementsPatched \/ SessionsPatched
           \/ \E x \in Movements \cup Sessions : Skip(x)
           \/ \E m \in Movements : PatchMovement(m) \/ RestoreMovement(m) \/ RestoreFails(m)
           \/ \E s \in Sessions : PatchSession(s)
           \/ Verify \/ Recheck \/ RestoreConfig \/ RestoreEnds \/ RunDies
    PROVE  AmendedIInv'
<1>1. CASE PatchConfig \/ Verify \/ Recheck \/ RestoreConfig \/ SessionsPatched
  <2>1. UNCHANGED <<master, due, edits>> /\ run # None
    BY <1>1 DEF PatchConfig, Verify, Recheck, RestoreConfig, SessionsPatched, ghosts, stored, At
  <2>2. Onward
    <3>1. CASE PatchConfig
      BY <3>1, GotoOnward DEF PatchConfig, At
    <3>2. CASE Verify \/ Recheck \/ SessionsPatched
      <4>1. CASE End
        BY <4>1 DEF End, Onward
      <4>2. CASE ~End
        BY <3>2, <4>2, GotoOnward DEF Verify, Recheck, SessionsPatched, At
      <4> QED BY <4>1, <4>2
    <3>3. CASE RestoreConfig
      BY <3>3, GotoOnward DEF RestoreConfig, At
    <3> QED BY <1>1, <3>1, <3>2, <3>3
  <2> QED BY <2>1, <2>2, AmendmentsAlone
<1>2. CASE MovementsPatched
  <2>1. UNCHANGED <<master, due, edits>> /\ run # None /\ run.pc # "target"
    BY <1>2 DEF MovementsPatched, ghosts, stored, At
  <2>2. PICK r, q : r = run /\ q = run'
    OBVIOUS
  <2>3. RunTyped(r) /\ q = [r EXCEPT !.pc = "sessions", !.todo = DOMAIN r.disc.session]
    BY <1>2, <2>1, <2>2, RunKnown DEF MovementsPatched
  <2>4. q.kind = r.kind /\ q.disc = r.disc /\ q.pc = "sessions"
    BY <2>3 DEF RunTyped
  <2>5. Onward
    BY <2>1, <2>2, <2>4 DEF Onward
  <2> QED BY <2>1, <2>5, AmendmentsAlone
<1>3. ASSUME NEW x \in Movements \cup Sessions, Skip(x) PROVE AmendedIInv'
  <2>1. UNCHANGED <<master, due, edits>> /\ run # None /\ run' = [run EXCEPT !.todo = run.todo \ {x}]
    BY <1>3 DEF Skip, ghosts, stored, At
  <2> QED BY <2>1, TodoOnward, AmendmentsAlone
<1>4. ASSUME NEW m \in Movements, PatchMovement(m) \/ RestoreMovement(m) \/ RestoreFails(m)
      PROVE  AmendedIInv'
  <2>1. UNCHANGED <<master, due, edits>> /\ run # None
    BY <1>4 DEF PatchMovement, RestoreMovement, RestoreFails, ghosts, stored, At
  <2>2. \E c : \/ run' = [run EXCEPT !.todo = run.todo \ {m}]
               \/ run' = [run EXCEPT !.todo = run.todo \ {m}, !.conflicts = c]
    BY <1>4 DEF PatchMovement, Patch, RestoreMovement, RestoreFails
  <2> QED BY <2>1, <2>2, TodoOnward, AmendmentsAlone
<1>5. ASSUME NEW s \in Sessions, PatchSession(s) PROVE AmendedIInv'
  <2>1. UNCHANGED <<master, due, edits>> /\ run # None
    BY <1>5 DEF PatchSession, ghosts, At
  <2>2. \E c : run' = [run EXCEPT !.todo = run.todo \ {s}, !.conflicts = c]
    BY <1>5 DEF PatchSession
  <2> QED BY <2>1, <2>2, TodoOnward, AmendmentsAlone
<1>6. CASE RestoreEnds \/ RunDies
  <2>1. UNCHANGED <<master, due, edits>> /\ Onward
    BY <1>6 DEF RestoreEnds, RunDies, End, Onward, ghosts, stored
  <2> QED BY <2>1, AmendmentsAlone
<1> QED BY <1>1, <1>2, <1>3, <1>4, <1>5, <1>6

(* The writes of the application that leave it alone.                      *)
LEMMA AmendedByWrites ==
    ASSUME AmendedIInv,
           \/ \E m \in Movements : \/ Correct(m) \/ Remove(m)
                                   \/ \E i \in {"from", "to"} : Record(m, i)
           \/ \E s \in Sessions : EditSession(s)
           \/ EditConfig
    PROVE  AmendedIInv'
<1>1. UNCHANGED <<master, due, run>> /\ edits' = edits + 1
  BY DEF Correct, Remove, Record, Write, EditSession, EditConfig, MayEdit, ghosts
<1>2. Onward
  BY <1>1 DEF Onward
<1> QED BY <1>1, <1>2, AmendmentsAlone

(* A run begins: a repair with the copy it discovers.                      *)
LEMMA AmendedByStarts ==
    ASSUME SecurityIInv, AmendedIInv,
           \/ \E c \in Currencies \cup {None}, a \in Answers : Apply(c, a)
           \/ \E b \in DOMAIN backups : Restore(b)
    PROVE  AmendedIInv'
<1>1. UNCHANGED <<master, due, edits>>
  BY DEF Apply, Restore, stored, ghosts
<1>2. AmendmentsKept' /\ (Exists("to") => Kept(master["to"]))'
  BY <1>1 DEF AmendedIInv, AmendmentsKept, Kept, Exists
<1>3. PICK q : q = run'
  OBVIOUS
<1>4. q.kind = "repair" => q.pc = "target" /\ q.disc.master = master
  <2>1. ASSUME NEW c, NEW a, Apply(c, a) PROVE q.pc = "target" /\ q.disc.master = master
    <3>1. PICK d : d = Discovery
      OBVIOUS
    <3>2. d.master = master
      BY <3>1 DEF Discovery
    <3>3. q = [kind |-> "repair", pc |-> "target", disc |-> d, currency |-> c,
               todo |-> Under("from"), conflicts |-> FALSE]
      BY <1>3, <2>1, <3>1 DEF Apply
    <3> QED BY <3>2, <3>3
  <2>2. ASSUME NEW b, Restore(b) PROVE q.kind = "restore"
    BY <1>3, <2>2 DEF Restore
  <2> QED BY <2>1, <2>2
<1>5. /\ Kept(master["from"])' /\ \A s : Kept(s)' = Kept(s)
      /\ master["to"].kind # "absent" => Exists("to")'
  BY <1>1 DEF Kept, Exists
<1>6. Copied(q)'
  BY <1>1, <1>4, <1>5 DEF Copied
<1> QED BY <1>1, <1>2, <1>3, <1>6 DEF AmendedIInv

(* Phase 3a makes the target of the copy that was discovered.              *)
LEMMA AmendedByCreate == ASSUME SecurityIInv, AmendedIInv, CreateTarget PROVE AmendedIInv'
<1>1. /\ At("repair", "target") /\ UNCHANGED <<due, edits>>
      /\ run # None /\ run.kind = "repair" /\ run.pc = "target"
  BY DEF CreateTarget, At, ghosts
<1>2. PICK source : source = run.disc.master["from"]
  OBVIOUS
<1>3. master \in [Identifiers -> SecurityBodies] /\ Copied(run)
  BY <1>1 DEF AmendedIInv, SecurityIInv, SecurityTypeOK, Masters
<1>4. run' # None => Goto("config")
  BY DEF CreateTarget, End
<1>5. run' # None => run'.kind = "repair" /\ run'.pc = "config"
  <2>1. PICK r, q : r = run /\ q = run'
    OBVIOUS
  <2>2. RunTyped(r) /\ (q # None => q = [r EXCEPT !.pc = "config"])
    BY <1>1, <1>4, <2>1, RunKnown DEF Goto
  <2> QED BY <1>1, <2>1, <2>2 DEF RunTyped
<1>6. CASE UNCHANGED master
  <2>1. run' # None => Exists("to")
    BY <1>1, <1>2, <1>3, <1>6 DEF CreateTarget, End, Copied, Exists, Identifiers, Security
  <2>2. run' # None => Copied(run)'
    BY <1>5, <1>6, <2>1 DEF Copied, Exists
  <2> QED BY <1>1, <1>6, <2>2 DEF AmendedIInv, AmendmentsKept, Kept, Exists
<1>7. CASE ~UNCHANGED master
  <2>1. PICK given :
           master' = [master EXCEPT !["to"] = Security("migrated", given, source.amendments)]
    BY <1>2, <1>7 DEF CreateTarget
  <2>2. /\ run.disc.master["to"].kind = "absent" /\ source.kind # "absent" /\ ~Exists("to")
    BY <1>2, <1>7 DEF CreateTarget
  <2>3. Kept(source)
    BY <1>1, <1>2, <1>3, <2>2 DEF Copied
  <2>4. /\ master'["from"] = master["from"] /\ Exists("to")'
        /\ master'["to"].amendments = source.amendments /\ master["to"].amendments = {}
    BY <1>3, <2>1, <2>2 DEF Security, Exists, Identifiers, SecurityBodies
  <2>5. AmendmentsKept' /\ Kept(master["to"])'
    BY <1>1, <2>3, <2>4 DEF AmendedIInv, AmendmentsKept, Kept
  <2>6. run' # None => Copied(run)'
    BY <1>5, <2>4 DEF Copied
  <2> QED BY <1>1, <2>5, <2>6 DEF AmendedIInv
<1> QED BY <1>6, <1>7

(* Phase 5 deletes the source beside its target.                           *)
LEMMA AmendedByDelete == ASSUME SecurityIInv, AmendedIInv, DeleteSource PROVE AmendedIInv'
<1>1. /\ UNCHANGED <<due, edits>> /\ run' = None
      /\ run # None /\ run.kind = "repair" /\ run.pc = "delete"
  BY DEF DeleteSource, At, End, ghosts
<1>2. Exists("to") /\ Kept(master["to"])
  BY <1>1 DEF AmendedIInv, Copied
<1>3. master \in [Identifiers -> SecurityBodies]
  BY DEF SecurityIInv, SecurityTypeOK, Masters
<1>4. /\ master'["to"] = master["to"] /\ master'["from"].amendments = {}
  BY <1>3 DEF DeleteSource, Identifiers, Absent, Security
<1>5. AmendmentsKept' /\ Kept(master["to"])'
  BY <1>1, <1>2, <1>4 DEF AmendedIInv, AmendmentsKept, Kept
<1> QED BY <1>1, <1>5 DEF AmendedIInv

(* A restore puts the source back where the target has what is to be kept, *)
(* and deletes the target beside its source.                               *)
LEMMA AmendedByRestore ==
    ASSUME SecurityIInv, AmendedIInv, RestoreSource \/ RestoreTarget PROVE AmendedIInv'
<1>1. /\ UNCHANGED edits /\ run # None /\ run.kind = "restore"
      /\ Goto("target") \/ Goto("restored")
  BY DEF RestoreSource, RestoreTarget, At
<1>2. master \in [Identifiers -> SecurityBodies]
  BY DEF SecurityIInv, SecurityTypeOK, Masters
<1>3. Copied(run)'
  <2>1. PICK r, q : r = run /\ q = run'
    OBVIOUS
  <2>2. RunTyped(r) /\ (q = [r EXCEPT !.pc = "target"] \/ q = [r EXCEPT !.pc = "restored"])
    BY <1>1, <2>1, RunKnown DEF Goto
  <2>3. q.kind = "restore"
    BY <1>1, <2>1, <2>2 DEF RunTyped
  <2> QED BY <2>1, <2>3 DEF Copied
<1>4. CASE RestoreSource
  <2>1. UNCHANGED due /\ master'["to"] = master["to"]
    BY <1>2, <1>4 DEF RestoreSource, ghosts, Identifiers
  <2>2. CASE Exists("from")
    <3>1. UNCHANGED master
      BY <1>4, <2>2 DEF RestoreSource
    <3> QED BY <1>1, <1>3, <2>1, <3>1 DEF AmendedIInv, AmendmentsKept, Kept, Exists
  <2>3. CASE ~Exists("from")
    <3>1. due \subseteq master["to"].amendments
      BY <1>2, <2>3 DEF AmendedIInv, AmendmentsKept, SecurityBodies, Exists, Identifiers
    <3> QED BY <1>1, <1>3, <2>1, <3>1 DEF AmendedIInv, AmendmentsKept, Kept
  <2> QED BY <2>2, <2>3
<1>5. CASE RestoreTarget
  <2>1. CASE UNCHANGED <<master, due>>
    BY <1>1, <1>3, <2>1 DEF AmendedIInv, AmendmentsKept, Kept, Exists
  <2>2. CASE ~UNCHANGED <<master, due>>
    <3>1. /\ master' = [master EXCEPT !["to"] = Absent]
          /\ due' = due \cap master["from"].amendments
      BY <1>5, <2>2 DEF RestoreTarget
    <3>2. master'["from"] = master["from"] /\ ~Exists("to")'
      BY <1>2, <3>1 DEF Exists, Absent, Security, Identifiers
    <3> QED BY <1>1, <1>3, <3>1, <3>2 DEF AmendedIInv, AmendmentsKept
  <2> QED BY <2>1, <2>2
<1> QED BY <1>4, <1>5

(* An amendment is a new one.                                              *)
LEMMA AmendedByAmend ==
    ASSUME NEW i \in {"from", "to"}, SecurityIInv, AmendedIInv, Amend(i) PROVE AmendedIInv'
<1>1. /\ UNCHANGED run /\ Exists(i) /\ edits' = edits + 1 /\ edits' \in Nat /\ edits' \notin due
      /\ \A e \in due \cup {edits'} : e \in Nat /\ e <= edits'
  BY DEF Amend, MayEdit, AmendedIInv
<1>2. master \in [Identifiers -> SecurityBodies]
  BY DEF SecurityIInv, SecurityTypeOK, Masters
<1>3. PICK r : r = [master[i] EXCEPT !.amendments = @ \cup {edits'}]
  OBVIOUS
<1>4. master' = [master EXCEPT ![i] = r]
  BY <1>3 DEF Amend
<1>5. r.kind = master[i].kind /\ r.amendments = master[i].amendments \cup {edits'}
  BY <1>2, <1>3 DEF SecurityBodies, Identifiers
<1>6. /\ master'[i].amendments = master[i].amendments \cup {edits'}
      /\ \A j \in {"from", "to"} : j # i => master'[j] = master[j]
      /\ \A j \in {"from", "to"} : Exists(j)' = Exists(j)
  BY <1>2, <1>4, <1>5 DEF Identifiers, Exists
<1>7. PICK new : new = edits'
  OBVIOUS
<1>8. CASE i = "to"
  <2>1. due' = due \cup {new}
    BY <1>7, <1>8 DEF Amend
  <2>2. AmendmentsKept' /\ Kept(master["to"])'
    BY <1>1, <1>6, <1>7, <1>8, <2>1 DEF AmendedIInv, AmendmentsKept, Kept
  <2>3. ASSUME run' # None PROVE Copied(run)'
    BY <1>1, <1>6, <1>8, <2>3 DEF AmendedIInv, Copied
  <2> QED BY <1>1, <1>7, <2>1, <2>2, <2>3 DEF AmendedIInv
<1>9. CASE i = "from" /\ (Exists("to") \/ (run # None /\ run.kind = "repair"))
  <2>1. due' = due /\ new \notin due
    BY <1>1, <1>7, <1>9 DEF Amend
  <2>2. AmendmentsKept' /\ \A s : Kept(s) => Kept(s)'
    BY <1>6, <1>7, <1>9, <2>1 DEF AmendedIInv, AmendmentsKept, Kept
  <2>3. ASSUME run' # None PROVE Copied(run)'
    BY <1>1, <1>6, <2>2, <2>3 DEF AmendedIInv, Copied
  <2>4. (Exists("to") => Kept(master["to"]))'
    BY <1>6, <1>9, <2>2 DEF AmendedIInv, Kept
  <2> QED BY <1>1, <2>1, <2>2, <2>3, <2>4 DEF AmendedIInv
<1>10. CASE i = "from" /\ ~(Exists("to") \/ (run # None /\ run.kind = "repair"))
  <2>1. due' = due \cup {new}
    BY <1>7, <1>10 DEF Amend
  <2>2. AmendmentsKept' /\ ~Exists("to")'
    BY <1>6, <1>7, <1>10, <2>1 DEF AmendedIInv, AmendmentsKept
  <2>3. ASSUME run' # None PROVE Copied(run)'
    BY <1>1, <1>10, <2>3 DEF Copied
  <2> QED BY <1>1, <1>7, <2>1, <2>2, <2>3 DEF AmendedIInv
<1> QED BY <1>8, <1>9, <1>10

LEMMA AmendmentsKeep ==
    ASSUME SecurityIInv, AmendedIInv, [RepairNext]_repairVars PROVE AmendedIInv'
<1>1. CASE UNCHANGED repairVars
  BY <1>1, AmendmentsAlone DEF repairVars, stored, ghosts, Onward
<1>2. CASE RepairNext
  BY <1>2, AmendedByRuns, AmendedByWrites, AmendedByStarts, AmendedByCreate, AmendedByDelete,
     AmendedByRestore, AmendedByAmend DEF RepairNext
<1> QED BY <1>1, <1>2

-----------------------------------------------------------------------------
(* Configurations.                                                         *)

Markets == {"own", "foreign"}
Symbols == [exchange : {"mic", "alias", "other", "unknown"}, sid : {None} \cup Markets,
            note : Nat, tag : Nat]
Listings == [Markets -> {"absent", "user", "migration"}]
Snapshots == [symbol : {None} \cup Symbols, listed : Listings]

MigrationTyped(r) ==
    r \in [pc : {"classify", "create", "config", "verify", "undo"}, tag : {None} \cup Nat,
           target : {None} \cup Markets, todo : SUBSET ({"config"} \cup Markets),
           from : {None} \cup Snapshots]

MigrationTypeOK ==
    /\ symbol \in {None} \cup Symbols
    /\ listed \in Listings
    /\ IsList(snapshots)
    /\ \A b \in DOMAIN snapshots : snapshots[b] \in Snapshots
    /\ migration # None =>
          /\ MigrationTyped(migration)
          /\ migration.pc = "undo" =>
                /\ migration.from \in Snapshots
                /\ "config" \in migration.todo => migration.from.symbol # None
    /\ etags \in Nat
    /\ unlisted \in BOOLEAN

(* An ETag is never given out twice, so that a configuration which still   *)
(* has the one of the backup is the one that was classified: nobody has    *)
(* removed its security since.                                             *)
Classified ==
    migration # None /\ migration.pc = "config" /\ symbol # None /\ symbol.tag = migration.tag
      => migration.target = None \/ Listed(migration.target)

MigrationIInv ==
    /\ MigrationTypeOK
    /\ symbol # None => symbol.tag <= etags
    /\ migration # None /\ migration.tag # None => migration.tag <= etags
    /\ Classified
    /\ ConfigResolves
    /\ ConfigEditsKept
LEMMA MigrationInitial == MigrationInit => MigrationIInv
<1> SUFFICES ASSUME MigrationInit PROVE MigrationIInv
  OBVIOUS
<1>1. /\ symbol \in [exchange : {"mic", "alias", "other", "unknown"}, sid : {None, "own", "foreign"},
                     note : {0}, tag : {0}]
      /\ listed \in Listings /\ snapshots = <<>> /\ migration = None /\ etags = 0
      /\ noted = 0 /\ unlisted = Dangles
  BY DEF MigrationInit, Listings, Markets
<1>2. symbol \in Symbols /\ symbol.tag = 0 /\ symbol.note = 0
  BY <1>1 DEF Symbols, Markets
<1>3. unlisted \in BOOLEAN
  BY <1>1 DEF Dangles, Listed
<1> QED BY <1>1, <1>2, <1>3, NoneSaved
        DEF MigrationIInv, MigrationTypeOK, Classified, ConfigResolves, ConfigEditsKept

(* A step of a run that leaves the documents alone.                        *)
LEMMA DocumentsAlone ==
    ASSUME MigrationIInv, UNCHANGED <<symbol, listed, snapshots, etags, noted, unlisted>>,
           migration' # None =>
              /\ MigrationTyped(migration')
              /\ migration'.pc = "undo" =>
                    /\ migration'.from \in Snapshots
                    /\ "config" \in migration'.todo => migration'.from.symbol # None
              /\ migration'.tag # None => migration'.tag <= etags
              /\ migration'.pc = "config" => migration'.target = None \/ Listed(migration'.target)
    PROVE  MigrationIInv'
<1>1. MigrationTypeOK'
  BY DEF MigrationIInv, MigrationTypeOK
<1>2. (Dangles <=> Dangles') /\ \A i : Listed(i) <=> Listed(i)'
  BY DEF Dangles, Listed
<1> QED BY <1>1, <1>2 DEF MigrationIInv, Classified, ConfigResolves, ConfigEditsKept

LEMMA StartMigrationKeeps == MigrationIInv /\ StartMigration => MigrationIInv'
<1> SUFFICES ASSUME MigrationIInv, StartMigration PROVE MigrationIInv'
  OBVIOUS
<1>1. PICK d : d = [symbol |-> symbol, listed |-> listed]
  OBVIOUS
<1>2. /\ snapshots' = Append(snapshots, d) /\ d \in Snapshots
      /\ UNCHANGED <<symbol, listed, etags, noted, unlisted>>
  BY <1>1 DEF StartMigration, MigrationIInv, MigrationTypeOK, Snapshots
<1>3. IsList(snapshots') /\ \A b \in DOMAIN snapshots' : snapshots'[b] \in Snapshots
  <2>1. IsList(snapshots) /\ snapshots' = Append(snapshots, d)
    BY <1>2 DEF MigrationIInv, MigrationTypeOK
  <2>2. Extends(snapshots', snapshots, d)
    BY <2>1, Saved
  <2> QED BY <1>2, <2>2 DEF MigrationIInv, MigrationTypeOK, Extends
<1>4. PICK r : r = migration'
  OBVIOUS
<1>5. /\ r = [pc |-> "classify", tag |-> TagOf(symbol), target |-> None, todo |-> {}, from |-> None]
      /\ r.pc = "classify" /\ r.tag = TagOf(symbol)
  BY <1>4 DEF StartMigration
<1>6. TagOf(symbol) \in {None} \cup Nat /\ (TagOf(symbol) # None => TagOf(symbol) <= etags)
  BY DEF TagOf, MigrationIInv, MigrationTypeOK, Symbols
<1>7. MigrationTyped(r)
  BY <1>5, <1>6 DEF MigrationTyped
<1>8. MigrationTypeOK'
  BY <1>2, <1>3, <1>4, <1>5, <1>7 DEF MigrationIInv, MigrationTypeOK
<1>9. Dangles <=> Dangles'
  BY <1>2 DEF Dangles, Listed
<1> QED BY <1>2, <1>4, <1>5, <1>6, <1>8, <1>9
        DEF MigrationIInv, Classified, ConfigResolves, ConfigEditsKept

LEMMA StartUndoKeeps == MigrationIInv /\ StartUndo => MigrationIInv'
<1> SUFFICES ASSUME MigrationIInv, StartUndo PROVE MigrationIInv'
  OBVIOUS
<1>1. PICK b \in DOMAIN snapshots :
         migration' = [pc |-> "undo", tag |-> None, target |-> None, from |-> snapshots[b],
             todo |-> (IF snapshots[b].symbol = None THEN {} ELSE {"config"}) \cup
                      {i \in DOMAIN listed : snapshots[b].listed[i] # "absent"}]
  BY DEF StartUndo
<1>2. snapshots[b] \in Snapshots /\ DOMAIN listed = Markets
  BY DEF MigrationIInv, MigrationTypeOK, Listings
<1>3. PICK r, d : r = migration' /\ d = snapshots[b]
  OBVIOUS
<1>4. /\ MigrationTyped(r) /\ r.pc = "undo" /\ r.from = d /\ r.tag = None
      /\ "config" \in r.todo => d.symbol # None
  BY <1>1, <1>2, <1>3 DEF MigrationTyped, Markets
<1> QED BY <1>2, <1>3, <1>4, DocumentsAlone DEF StartUndo

LEMMA ClassifyKeeps == MigrationIInv /\ Classify => MigrationIInv'
<1> SUFFICES ASSUME MigrationIInv, Classify PROVE MigrationIInv'
  OBVIOUS
<1>1. PICK r, s : r = migration /\ s = migration'
  OBVIOUS
<1>2. PICK pc, target :
         /\ s = [r EXCEPT !.pc = pc, !.target = target]
         /\ pc = IF symbol = None \/ Status \notin {"link", "create"} THEN "verify"
                 ELSE IF Status = "link" THEN "config" ELSE "create"
         /\ target = IF symbol = None THEN None ELSE Expected
  BY <1>1 DEF Classify
<1>3. MigrationTyped(r) /\ (r.tag # None => r.tag <= etags)
  BY <1>1 DEF Classify, MigrationAt, MigrationIInv, MigrationTypeOK
<1>4. /\ pc \in {"verify", "config", "create"} /\ target \in {None} \cup Markets
      /\ pc # "verify" => target = Expected
      /\ pc = "config" => Listed(target)
  BY <1>2 DEF Status, Expected, Markets
<1>5. MigrationTyped(s) /\ s.pc = pc /\ s.target = target /\ s.tag = r.tag
  BY <1>2, <1>3, <1>4 DEF MigrationTyped
<1> QED BY <1>1, <1>3, <1>4, <1>5, DocumentsAlone DEF Classify
(* A step that leaves the configuration with a run or another one under a  *)
(* tag of its own.                                                         *)
LEMMA CreateListingKeeps == MigrationIInv /\ CreateListing => MigrationIInv'
<1> SUFFICES ASSUME MigrationIInv, CreateListing PROVE MigrationIInv'
  OBVIOUS
<1>1. PICK r, s : r = migration /\ s = migration'
  OBVIOUS
<1>2. /\ r # None /\ r.pc = "create"
      /\ UNCHANGED <<symbol, snapshots, etags, noted, unlisted>>
  BY <1>1 DEF CreateListing, MigrationAt
<1>3. MigrationTyped(r) /\ (r.tag # None => r.tag <= etags)
  BY <1>1, <1>2 DEF MigrationIInv, MigrationTypeOK
<1>4. CASE MigrationGoto("verify") /\ UNCHANGED listed
  <2>1. MigrationTyped(s) /\ s.pc = "verify" /\ s.tag = r.tag
    BY <1>1, <1>3, <1>4 DEF MigrationGoto, MigrationTyped
  <2> QED BY <1>1, <1>2, <1>3, <1>4, <2>1, DocumentsAlone
<1>5. CASE MigrationGoto("config") /\ listed' = [listed EXCEPT ![r.target] = "migration"]
  <2>1. MigrationTyped(s) /\ s.pc = "config" /\ s.tag = r.tag /\ s.target = r.target
    BY <1>1, <1>3, <1>5 DEF MigrationGoto, MigrationTyped
  <2>2. /\ listed' \in Listings /\ r.target \in {None} \cup Markets
        /\ \A i \in Markets : listed'[i] = IF i = r.target THEN "migration" ELSE listed[i]
    BY <1>3, <1>5 DEF MigrationIInv, MigrationTypeOK, Listings, MigrationTyped
  <2>3. r.target = None \/ Listed(r.target)'
    BY <2>2 DEF Listed
  <2>4. Dangles' => Dangles
    BY <1>2, <2>2 DEF Dangles, Listed, MigrationIInv, MigrationTypeOK, Symbols
  <2>5. MigrationTypeOK'
    BY <1>1, <1>2, <2>1, <2>2 DEF MigrationIInv, MigrationTypeOK
  <2>6. Classified'
    BY <1>1, <2>1, <2>3 DEF Classified
  <2> QED BY <1>1, <1>2, <1>3, <2>1, <2>4, <2>5, <2>6
          DEF MigrationIInv, ConfigResolves, ConfigEditsKept
<1> QED BY <1>1, <1>4, <1>5 DEF CreateListing

(* What is written to the configuration gets a tag that no run knows.      *)
LEMMA Tagged ==
    ASSUME MigrationIInv, NEW d \in Symbols, WriteConfig(d)
    PROVE  /\ symbol' \in Symbols /\ etags' = etags + 1 /\ etags' \in Nat
           /\ symbol'.tag = etags' /\ symbol'.sid = d.sid /\ symbol'.note = d.note
           /\ \A t \in {None} \cup Nat : (t # None => t <= etags) => symbol'.tag # t
<1>1. etags \in Nat /\ etags' = etags + 1 /\ symbol' = [d EXCEPT !.tag = etags']
  BY DEF MigrationIInv, MigrationTypeOK, WriteConfig
<1>2. PICK t \in Nat : t = etags'
  BY <1>1
<1>3. /\ [d EXCEPT !.tag = t] \in Symbols /\ [d EXCEPT !.tag = t].tag = t
      /\ [d EXCEPT !.tag = t].sid = d.sid /\ [d EXCEPT !.tag = t].note = d.note
  BY DEF Symbols
<1> QED BY <1>1, <1>2, <1>3, MigrationAssumption

LEMMA MigrateConfigKeeps == MigrationIInv /\ MigrateConfig => MigrationIInv'
<1> SUFFICES ASSUME MigrationIInv, MigrateConfig PROVE MigrationIInv'
  OBVIOUS
<1>1. PICK r, s : r = migration /\ s = migration'
  OBVIOUS
<1>2. /\ r # None /\ r.pc = "config" /\ s = [r EXCEPT !.pc = "verify"]
      /\ UNCHANGED <<listed, snapshots, noted, unlisted>>
  BY <1>1 DEF MigrateConfig, MigrationAt, MigrationGoto
<1>3. MigrationTyped(r) /\ (r.tag # None => r.tag <= etags)
  BY <1>1, <1>2 DEF MigrationIInv, MigrationTypeOK
<1>4. MigrationTyped(s) /\ s.pc = "verify" /\ s.tag = r.tag
  BY <1>2, <1>3 DEF MigrationTyped
<1>5. CASE UNCHANGED <<symbol, etags>>
  BY <1>1, <1>2, <1>3, <1>4, <1>5, DocumentsAlone
<1>6. CASE ~UNCHANGED <<symbol, etags>>
  <2>1. PICK d : d = [symbol EXCEPT !.exchange = IF @ = "alias" THEN "mic" ELSE @,
                                    !.sid = r.target]
    OBVIOUS
  <2>2. symbol # None /\ symbol.tag = r.tag /\ WriteConfig(d)
    BY <1>1, <1>6, <2>1 DEF MigrateConfig
  <2>3. symbol \in Symbols /\ r.target \in {None} \cup Markets
    BY <1>3, <2>2 DEF MigrationIInv, MigrationTypeOK, MigrationTyped
  <2>4. d \in Symbols /\ d.sid = r.target /\ d.note = symbol.note
    BY <2>1, <2>3 DEF Symbols
  <2>5. /\ symbol' \in Symbols /\ etags' = etags + 1 /\ etags' \in Nat
        /\ symbol'.tag = etags' /\ symbol'.sid = r.target /\ symbol'.note = symbol.note
    BY <2>2, <2>4, Tagged
  <2>6. ~Dangles'
    BY <1>1, <1>2, <2>2, <2>5 DEF MigrationIInv, Classified, Dangles, Listed
  <2>7. MigrationTypeOK'
    BY <1>1, <1>2, <1>4, <2>5 DEF MigrationIInv, MigrationTypeOK
  <2>8. s.tag # None => s.tag <= etags'
    <3>1. etags \in Nat /\ s.tag \in {None} \cup Nat
      BY <1>4 DEF MigrationIInv, MigrationTypeOK, MigrationTyped
    <3> QED BY <1>3, <1>4, <2>5, <3>1
  <2> QED BY <1>1, <1>2, <1>4, <2>2, <2>5, <2>6, <2>7, <2>8
          DEF MigrationIInv, Classified, ConfigResolves, ConfigEditsKept
<1> QED BY <1>5, <1>6

LEMMA MigrationEnds ==
    MigrationIInv /\ (VerifyMigration \/ MigrationDies) => MigrationIInv'
BY DocumentsAlone DEF VerifyMigration, MigrationDies

-----------------------------------------------------------------------------
(* The restore.                                                            *)

LEMMA UndoGoesOn ==
    ASSUME MigrationIInv, NEW doc, Undone(doc)
    PROVE  /\ migration # None /\ migration.pc = "undo" /\ migration.from \in Snapshots
           /\ doc \in migration.todo /\ ("config" \in migration.todo => migration.from.symbol # None)
           /\ migration' # None =>
                /\ MigrationTyped(migration')
                /\ migration'.pc = "undo" /\ migration'.from \in Snapshots
                /\ "config" \in migration'.todo => migration'.from.symbol # None
                /\ migration'.tag # None => migration'.tag <= etags
<1>1. PICK r, s : r = migration /\ s = migration'
  OBVIOUS
<1>2. /\ r # None /\ r.pc = "undo" /\ doc \in r.todo
      /\ s # None => s = [r EXCEPT !.todo = r.todo \ {doc}]
  BY <1>1 DEF Undone, MigrationAt
<1>3. /\ MigrationTyped(r) /\ (r.tag # None => r.tag <= etags) /\ r.from \in Snapshots
      /\ "config" \in r.todo => r.from.symbol # None
  BY <1>1, <1>2 DEF MigrationIInv, MigrationTypeOK
<1>4. s # None =>
        /\ MigrationTyped(s) /\ s.pc = "undo" /\ s.from = r.from /\ s.tag = r.tag
        /\ s.todo = r.todo \ {doc}
  BY <1>2, <1>3 DEF MigrationTyped
<1> QED BY <1>1, <1>2, <1>3, <1>4

(* A restore tells when it leaves a reference that does not resolve.       *)
LEMMA UndoConfigKeeps == MigrationIInv /\ UndoConfig => MigrationIInv'
<1> SUFFICES ASSUME MigrationIInv, UndoConfig PROVE MigrationIInv'
  OBVIOUS
<1>1. /\ Undone("config") /\ WriteConfig(migration.from.symbol)
      /\ noted' = migration.from.symbol.note /\ UNCHANGED <<listed, snapshots>>
      /\ unlisted' = (unlisted \/ Dangles')
  BY DEF UndoConfig, Undone
<1>2. PICK d : d = migration.from.symbol
  OBVIOUS
<1>3. d \in Symbols /\ WriteConfig(d)
  BY <1>1, <1>2, UndoGoesOn DEF Snapshots
<1>4. /\ symbol' \in Symbols /\ etags' = etags + 1 /\ etags' \in Nat
      /\ symbol'.tag = etags' /\ symbol'.note = d.note /\ etags \in Nat
  BY <1>3, Tagged DEF MigrationIInv, MigrationTypeOK
<1>5. migration' # None =>
        /\ MigrationTyped(migration')
        /\ migration'.pc = "undo" /\ migration'.from \in Snapshots
        /\ "config" \in migration'.todo => migration'.from.symbol # None
        /\ migration'.tag # None => migration'.tag <= etags
  BY <1>1, UndoGoesOn
<1>6. migration' # None /\ migration'.tag # None => migration'.tag <= etags'
  BY <1>4, <1>5 DEF MigrationTyped
<1>7. unlisted' \in BOOLEAN /\ (Dangles' => unlisted')
  BY <1>1 DEF Dangles
<1>8. MigrationTypeOK'
  BY <1>1, <1>4, <1>5, <1>7 DEF MigrationIInv, MigrationTypeOK
<1> QED BY <1>1, <1>2, <1>4, <1>5, <1>6, <1>7, <1>8
        DEF MigrationIInv, Classified, ConfigResolves, ConfigEditsKept

LEMMA UndoListingKeeps ==
    ASSUME NEW i, MigrationIInv, UndoListing(i) PROVE MigrationIInv'
<1>1. /\ Undone(i) /\ UNCHANGED <<symbol, etags, noted, snapshots>>
      /\ listed' = [listed EXCEPT ![i] =
                    IF migration.from.listed[i] = "migration" THEN "absent" ELSE "user"]
      /\ unlisted' = (unlisted \/ Dangles')
  BY DEF UndoListing, Undone
<1>2. listed' \in Listings
  BY <1>1 DEF MigrationIInv, MigrationTypeOK, Listings
<1>3. migration' # None =>
        /\ MigrationTyped(migration')
        /\ migration'.pc = "undo" /\ migration'.from \in Snapshots
        /\ "config" \in migration'.todo => migration'.from.symbol # None
        /\ migration'.tag # None => migration'.tag <= etags
  BY <1>1, UndoGoesOn
<1>4. unlisted' \in BOOLEAN /\ (Dangles' => unlisted')
  BY <1>1 DEF Dangles
<1>5. MigrationTypeOK'
  BY <1>1, <1>2, <1>3, <1>4 DEF MigrationIInv, MigrationTypeOK
<1> QED BY <1>1, <1>3, <1>4, <1>5
        DEF MigrationIInv, Classified, ConfigResolves, ConfigEditsKept

LEMMA UndoFailsKeeps == MigrationIInv /\ UndoFails => MigrationIInv'
<1> SUFFICES ASSUME MigrationIInv, UndoFails PROVE MigrationIInv'
  OBVIOUS
<1>1. PICK doc : Undone(doc) /\ UNCHANGED <<symbol, listed, etags, noted, unlisted>>
  BY DEF UndoFails
<1>2. UNCHANGED snapshots
  BY <1>1 DEF Undone
<1> QED BY <1>1, <1>2, UndoGoesOn, DocumentsAlone

-----------------------------------------------------------------------------
(* The users.                                                              *)

LEMMA ConfigWritten ==
    ASSUME MigrationIInv, NEW d \in Symbols, WriteConfig(d), noted' = d.note,
           listed' \in Listings, UNCHANGED <<snapshots, migration, unlisted>>,
           Dangles' => unlisted
    PROVE  MigrationIInv'
<1>1. /\ symbol' \in Symbols /\ etags' = etags + 1 /\ etags' \in Nat
      /\ symbol'.tag = etags' /\ symbol'.note = d.note /\ etags \in Nat
      /\ \A t \in {None} \cup Nat : (t # None => t <= etags) => symbol'.tag # t
  BY Tagged DEF MigrationIInv, MigrationTypeOK
<1>2. migration # None =>
        /\ migration.tag \in {None} \cup Nat
        /\ migration.tag # None => migration.tag <= etags
  BY DEF MigrationIInv, MigrationTypeOK, MigrationTyped
<1>3. MigrationTypeOK'
  BY <1>1 DEF MigrationIInv, MigrationTypeOK
<1>4. Classified' /\ (migration' # None /\ migration'.tag # None => migration'.tag <= etags')
  BY <1>1, <1>2 DEF Classified
<1> QED BY <1>1, <1>3, <1>4 DEF MigrationIInv, ConfigResolves, ConfigEditsKept

LEMMA UpdateSymbolKeeps ==
    ASSUME NEW exchange \in {"mic", "alias", "other", "unknown"}, NEW note \in Nat, MigrationIInv,
           UpdateSymbol(exchange, note)
    PROVE  MigrationIInv'
<1>1. symbol \in Symbols
  BY DEF UpdateSymbol, MigrationIInv, MigrationTypeOK
<1>2. PICK d : d = [symbol EXCEPT !.exchange = exchange, !.note = note]
  OBVIOUS
<1>3. d \in Symbols /\ d.sid = symbol.sid /\ d.note = note
  BY <1>1, <1>2 DEF Symbols
<1>4. /\ WriteConfig(d) /\ noted' = note /\ symbol # None
      /\ UNCHANGED <<listed, snapshots, migration, unlisted>>
  BY <1>2 DEF UpdateSymbol, MayEditConfig
<1>5. Dangles' => unlisted
  BY <1>3, <1>4, Tagged DEF MigrationIInv, ConfigResolves, Dangles, Listed
<1>6. listed' \in Listings
  BY <1>4 DEF MigrationIInv, MigrationTypeOK
<1> QED BY <1>3, <1>4, <1>5, <1>6, ConfigWritten

LEMMA AddSymbolKeeps ==
    ASSUME NEW i \in Markets, MigrationIInv, AddSymbol(i) PROVE MigrationIInv'
<1>1. /\ listed' = IF Listed(i) THEN listed ELSE [listed EXCEPT ![i] = "user"]
      /\ UNCHANGED <<snapshots, migration, unlisted>> /\ listed \in Listings
  BY DEF AddSymbol, MayEditConfig, MigrationIInv, MigrationTypeOK
<1>2. /\ listed' \in Listings /\ (i = None \/ Listed(i)')
      /\ \A j \in Markets : Listed(j) => Listed(j)'
  BY <1>1 DEF Listed, Listings
<1>3. CASE symbol # None
  <2>1. UNCHANGED <<symbol, etags, noted>>
    BY <1>3 DEF AddSymbol
  <2>2. Dangles' => Dangles
    BY <1>2, <1>3, <2>1 DEF Dangles, MigrationIInv, MigrationTypeOK, Symbols
  <2>3. MigrationTypeOK'
    BY <1>1, <1>2, <2>1 DEF MigrationIInv, MigrationTypeOK
  <2>4. Classified'
    BY <1>1, <1>2, <2>1 DEF MigrationIInv, MigrationTypeOK, MigrationTyped, Classified
  <2> QED BY <1>1, <2>1, <2>2, <2>3, <2>4 DEF MigrationIInv, ConfigResolves, ConfigEditsKept
<1>4. CASE symbol = None
  <2>1. PICK d : d = [exchange |-> IF i = "own" THEN "mic" ELSE "other", sid |-> i, note |-> 0,
                      tag |-> 0]
    OBVIOUS
  <2>2. d \in Symbols /\ d.sid = i /\ d.note = 0
    BY <2>1 DEF Symbols
  <2>3. WriteConfig(d) /\ noted' = d.note
    BY <1>4, <2>1, <2>2 DEF AddSymbol
  <2>4. ~Dangles'
    BY <1>2, <2>2, <2>3, Tagged DEF Dangles
  <2> QED BY <1>1, <1>2, <2>2, <2>3, <2>4, ConfigWritten
<1> QED BY <1>3, <1>4

LEMMA DeleteSymbolKeeps == MigrationIInv /\ DeleteSymbol => MigrationIInv'
<1> SUFFICES ASSUME MigrationIInv, DeleteSymbol PROVE MigrationIInv'
  OBVIOUS
<1>1. /\ symbol' = None /\ listed' = [i \in DOMAIN listed |-> "absent"]
      /\ UNCHANGED <<snapshots, migration, unlisted, etags, noted>>
  BY DEF DeleteSymbol, MayEditConfig
<1>2. listed' \in Listings
  BY <1>1 DEF MigrationIInv, MigrationTypeOK, Listings
<1>3. MigrationTypeOK'
  BY <1>1, <1>2 DEF MigrationIInv, MigrationTypeOK
<1> QED BY <1>1, <1>3 DEF MigrationIInv, Classified, ConfigResolves, ConfigEditsKept, Dangles

LEMMA MigrationKeeps == MigrationIInv /\ [MigrationNext]_configVars => MigrationIInv'
<1> SUFFICES ASSUME MigrationIInv, [MigrationNext]_configVars PROVE MigrationIInv'
  OBVIOUS
<1>1. CASE UNCHANGED configVars
  BY <1>1 DEF configVars, MigrationIInv, MigrationTypeOK, Classified, ConfigResolves,
              ConfigEditsKept, Dangles, Listed
<1>2. CASE StartMigration \/ Classify \/ CreateListing \/ MigrateConfig \/ VerifyMigration
  BY <1>2, StartMigrationKeeps, ClassifyKeeps, CreateListingKeeps, MigrateConfigKeeps,
     MigrationEnds
<1>3. CASE StartUndo \/ UndoConfig \/ UndoFails \/ MigrationDies
  BY <1>3, StartUndoKeeps, UndoConfigKeeps, UndoFailsKeeps, MigrationEnds
<1>4. ASSUME NEW i \in DOMAIN listed, UndoListing(i) \/ AddSymbol(i) PROVE MigrationIInv'
  <2>1. i \in Markets
    BY <1>4 DEF MigrationIInv, MigrationTypeOK, Listings
  <2> QED BY <1>4, <2>1, UndoListingKeeps, AddSymbolKeeps
<1>5. ASSUME NEW exchange \in {"mic", "alias", "other"}, symbol # None,
             UpdateSymbol(exchange, symbol.note)
      PROVE  MigrationIInv'
  <2>1. symbol.note \in Nat
    BY <1>5 DEF MigrationIInv, MigrationTypeOK, Symbols
  <2> QED BY <1>5, <2>1, UpdateSymbolKeeps
<1>6. CASE symbol # None /\ UpdateSymbol(symbol.exchange, symbol.note + 1)
  <2>1. /\ symbol.exchange \in {"mic", "alias", "other", "unknown"}
        /\ symbol.note + 1 \in Nat
    BY <1>6 DEF MigrationIInv, MigrationTypeOK, Symbols
  <2> QED BY <1>6, <2>1, UpdateSymbolKeeps
<1>7. CASE DeleteSymbol
  BY <1>7, DeleteSymbolKeeps
<1> QED BY <1>1, <1>2, <1>3, <1>4, <1>5, <1>6, <1>7 DEF MigrationNext

-----------------------------------------------------------------------------
(* Provider symbols.                                                       *)

Origins == {"before", "expected", "users"}
Names == [symbols : Origins, note : Nat, company : BOOLEAN]

(* What is saved or put back has the expected symbols only where they are  *)
(* vouched for.                                                            *)
VouchedFor(docs) ==
    /\ DOMAIN docs \subseteq Securities
    /\ \A s \in DOMAIN docs : docs[s] \in Names /\ (docs[s].symbols = "expected" => s \in vouched)

SymbolRunTyped(r) ==
    /\ r \in [pc : {"backup", "write", "restore"}, todo : SUBSET Securities,
              correct : SUBSET Securities, enrich : {None} \cup Securities, from : {r.from}]
    /\ r.pc # "restore" => r.todo \subseteq vouched
    /\ r.correct \subseteq vouched
    /\ r.enrich # None => r.enrich \in vouched
    /\ r.pc = "restore" => VouchedFor(r.from) /\ r.todo \subseteq DOMAIN r.from

SymbolIInv ==
    /\ named \in [Securities -> {None} \cup Names]
    /\ enriched \in [Securities -> {None} \cup Origins]
    /\ noticed \in [Securities -> Nat]
    /\ vouched \subseteq Securities
    /\ IsList(symbolSaved)
    /\ \A b \in DOMAIN symbolSaved : VouchedFor(symbolSaved[b])
    /\ symbolRun # None => SymbolRunTyped(symbolRun)
    /\ SymbolsConfirmed
    /\ SymbolEditsKept

LEMMA SymbolInitial == SymbolInit => SymbolIInv
<1> SUFFICES ASSUME SymbolInit PROVE SymbolIInv
  OBVIOUS
<1>1. /\ named \in [Securities -> {None} \cup [symbols : {"before", "expected"}, note : {0},
                                             company : BOOLEAN]]
      /\ enriched = [s \in Securities |-> "before"]
      /\ symbolSaved = <<>> /\ symbolRun = None
      /\ vouched = {s \in Securities : named[s] # None /\ named[s].symbols = "expected"}
      /\ noticed = [s \in Securities |-> 0]
  BY DEF SymbolInit
<1>2. \A s \in Securities : named[s] # None => named[s] \in Names /\ named[s].note = 0
  BY <1>1 DEF Names, Origins
<1>3. named \in [Securities -> {None} \cup Names]
  BY <1>1, <1>2
<1>4. SymbolsConfirmed /\ SymbolEditsKept
  BY <1>1, <1>2 DEF SymbolsConfirmed, SymbolEditsKept
<1> QED BY <1>1, <1>3, <1>4, NoneSaved DEF SymbolIInv, Origins

(* A step of a run that leaves the documents alone.                        *)
LEMMA SymbolsAlone ==
    ASSUME SymbolIInv, UNCHANGED <<named, enriched, symbolSaved, noticed>>,
           vouched \subseteq vouched', vouched' \subseteq Securities,
           symbolRun' # None => SymbolRunTyped(symbolRun)'
    PROVE  SymbolIInv'
<1>1. \A docs : VouchedFor(docs) => VouchedFor(docs)'
  BY DEF VouchedFor
<1>2. (\A b \in DOMAIN symbolSaved : VouchedFor(symbolSaved[b]))'
  BY <1>1 DEF SymbolIInv
<1>3. SymbolsConfirmed' /\ SymbolEditsKept'
  BY DEF SymbolIInv, SymbolsConfirmed, SymbolEditsKept
<1> QED BY <1>2, <1>3 DEF SymbolIInv

(* A run that goes on keeps what it started from.                          *)
LEMMA RunGoesOn ==
    ASSUME NEW r, NEW s, SymbolRunTyped(r), UNCHANGED vouched, NEW todo \in SUBSET r.todo,
           NEW enrich \in {None} \cup vouched, vouched \subseteq Securities,
           s = [r EXCEPT !.todo = todo, !.enrich = enrich]
    PROVE  SymbolRunTyped(s)'
<1>1. r \in [pc : {"backup", "write", "restore"}, todo : SUBSET Securities,
             correct : SUBSET Securities, enrich : {None} \cup Securities, from : {r.from}]
  BY DEF SymbolRunTyped
<1>2. /\ s \in [pc : {"backup", "write", "restore"}, todo : SUBSET Securities,
                correct : SUBSET Securities, enrich : {None} \cup Securities, from : {r.from}]
      /\ s.pc = r.pc /\ s.todo = todo /\ s.correct = r.correct /\ s.enrich = enrich
      /\ s.from = r.from
  BY <1>1
<1>3. VouchedFor(s.from)' <=> VouchedFor(r.from)
  BY <1>2 DEF VouchedFor
<1> QED BY <1>2, <1>3 DEF SymbolRunTyped

LEMMA TodoOnly ==
    ASSUME NEW r, SymbolRunTyped(r)
    PROVE  /\ \A todo : [r EXCEPT !.todo = todo] = [r EXCEPT !.todo = todo, !.enrich = r.enrich]
           /\ \A e : [r EXCEPT !.enrich = e] = [r EXCEPT !.todo = r.todo, !.enrich = e]
           /\ r.enrich \in {None} \cup vouched
BY DEF SymbolRunTyped

LEMMA DiscoverKeeps == SymbolIInv /\ Discover => SymbolIInv'
<1> SUFFICES ASSUME SymbolIInv, Discover PROVE SymbolIInv'
  OBVIOUS
<1>1. PICK verified, found, correct :
         /\ verified \subseteq Securities
         /\ found = {s \in Securities : named[s] # None}
         /\ correct = {s \in found : named[s].symbols = "expected"}
         /\ symbolRun' = [pc |-> "backup", todo |-> found \cap verified, correct |-> correct,
                          enrich |-> None, from |-> <<>>]
         /\ vouched' = vouched \cup verified
  <2>1. PICK facts \in [Securities -> ProviderAnswers] :
         LET verified == {s \in Securities : Corroborated(s, facts[s])}
             found == {s \in Securities : named[s] # None}
             correct == {s \in found : named[s].symbols = "expected"}
         IN  /\ symbolRun' = [pc |-> "backup", todo |-> found \cap verified, correct |-> correct,
                              enrich |-> None, from |-> <<>>]
             /\ vouched' = vouched \cup verified
    BY DEF Discover
  <2>2. PICK verified : verified = {s \in Securities : Corroborated(s, facts[s])}
    OBVIOUS
  <2> QED BY <2>1, <2>2
<1>2. correct \subseteq vouched /\ vouched \subseteq Securities
  BY <1>1 DEF SymbolIInv, SymbolsConfirmed
<1>3. PICK r : r = symbolRun'
  OBVIOUS
<1>4. SymbolRunTyped(r)'
  BY <1>1, <1>2, <1>3 DEF SymbolRunTyped
<1> QED BY <1>1, <1>2, <1>3, <1>4, SymbolsAlone DEF Discover

LEMMA BackupSymbolsKeeps == SymbolIInv /\ BackupSymbols => SymbolIInv'
<1> SUFFICES ASSUME SymbolIInv, BackupSymbols PROVE SymbolIInv'
  OBVIOUS
<1>1. PICK d : d = [s \in {t \in Securities : named[t] # None} |-> named[s]]
  OBVIOUS
<1>2. VouchedFor(d)
  BY <1>1 DEF VouchedFor, SymbolIInv, SymbolsConfirmed
<1>3. IsList(symbolSaved') /\ \A b \in DOMAIN symbolSaved' : VouchedFor(symbolSaved'[b])
  <2>1. IsList(symbolSaved) /\ symbolSaved' = Append(symbolSaved, d)
    BY <1>1 DEF SymbolIInv, BackupSymbols
  <2>2. Extends(symbolSaved', symbolSaved, d)
    BY <2>1, Saved
  <2> QED BY <1>2, <2>2 DEF SymbolIInv, Extends
<1>4. \A docs : VouchedFor(docs) <=> VouchedFor(docs)'
  BY DEF BackupSymbols, VouchedFor
<1>5. (\A b \in DOMAIN symbolSaved : VouchedFor(symbolSaved[b]))'
  BY <1>3, <1>4
<1>6. PICK r, s : r = symbolRun /\ s = symbolRun'
  OBVIOUS
<1>7. SymbolRunTyped(s)'
  <2>1. SymbolRunTyped(r) /\ r.pc = "backup" /\ s = [r EXCEPT !.pc = "write"] /\ UNCHANGED vouched
    BY <1>6 DEF BackupSymbols, SymbolIInv
  <2> QED BY <2>1 DEF SymbolRunTyped
<1> QED BY <1>3, <1>5, <1>6, <1>7
        DEF BackupSymbols, SymbolIInv, SymbolsConfirmed, SymbolEditsKept

(* A write of one security and of its ticker's enrichment.                 *)
LEMMA SecurityWritten ==
    ASSUME SymbolIInv, UNCHANGED <<symbolSaved, vouched>>, NEW s \in Securities,
           NEW d \in {None} \cup Names, NEW e \in {None} \cup Origins, NEW note \in Nat,
           named' = [named EXCEPT ![s] = d], enriched' = [enriched EXCEPT ![s] = e],
           noticed' = [noticed EXCEPT ![s] = note],
           d # None => d.note = note,
           (d # None /\ d.symbols = "expected") \/ (e # None /\ e = "expected") => s \in vouched,
           symbolRun' # None => SymbolRunTyped(symbolRun)'
    PROVE  SymbolIInv'
<1>1. /\ \A t \in Securities :
            /\ named'[t] = IF t = s THEN d ELSE named[t]
            /\ enriched'[t] = IF t = s THEN e ELSE enriched[t]
            /\ noticed'[t] = IF t = s THEN note ELSE noticed[t]
      /\ named' \in [Securities -> {None} \cup Names]
      /\ enriched' \in [Securities -> {None} \cup Origins]
      /\ noticed' \in [Securities -> Nat]
  BY DEF SymbolIInv
<1>2. SymbolsConfirmed' /\ SymbolEditsKept'
  BY <1>1 DEF SymbolIInv, SymbolsConfirmed, SymbolEditsKept
<1>3. \A docs : VouchedFor(docs) <=> VouchedFor(docs)'
  BY DEF VouchedFor
<1>4. (\A b \in DOMAIN symbolSaved : VouchedFor(symbolSaved[b]))'
  BY <1>3 DEF SymbolIInv
<1> QED BY <1>1, <1>2, <1>4 DEF SymbolIInv

(* What is written as it was, or was put there before.                     *)
LEMMA AsItWas ==
    ASSUME SymbolIInv, NEW s \in Securities
    PROVE  /\ named = [named EXCEPT ![s] = named[s]] /\ enriched = [enriched EXCEPT ![s] = enriched[s]]
           /\ noticed = [noticed EXCEPT ![s] = noticed[s]]
           /\ named[s] \in {None} \cup Names /\ enriched[s] \in {None} \cup Origins
           /\ noticed[s] \in Nat
           /\ named[s] # None => named[s].note = noticed[s]
           /\ (named[s] # None /\ named[s].symbols = "expected") \/ (enriched[s] # None /\ enriched[s] = "expected")
                => s \in vouched
BY DEF SymbolIInv, SymbolsConfirmed, SymbolEditsKept

LEMMA CorrectSymbolsKeeps ==
    ASSUME NEW s \in Securities, SymbolIInv, CorrectSymbols(s) PROVE SymbolIInv'
<1>1. PICK r, t : r = symbolRun /\ t = symbolRun'
  OBVIOUS
<1>2. /\ SymbolRunTyped(r) /\ r.pc = "write" /\ s \in r.todo
      /\ t = [r EXCEPT !.todo = r.todo \ {s}, !.enrich = s]
      /\ UNCHANGED <<enriched, symbolSaved, vouched, noticed>>
  BY <1>1 DEF CorrectSymbols, SymbolAt, SymbolIInv
<1>3. s \in vouched /\ vouched \subseteq Securities
  BY <1>2 DEF SymbolRunTyped, SymbolIInv
<1>4. SymbolRunTyped(symbolRun)'
  BY <1>1, <1>2, <1>3, RunGoesOn
<1>5. CASE s \in r.correct
  BY <1>1, <1>2, <1>4, <1>5, SymbolsAlone DEF CorrectSymbols, SymbolIInv
<1>6. CASE s \notin r.correct
  <2>1. PICK d : d = [named[s] EXCEPT !.symbols = "expected"]
    OBVIOUS
  <2>2. named[s] # None /\ named' = [named EXCEPT ![s] = d]
    BY <1>1, <1>6, <2>1 DEF CorrectSymbols
  <2>3. d \in Names /\ d.note = noticed[s]
    BY <2>1, <2>2, AsItWas DEF Names, Origins
  <2>4. /\ enriched' = [enriched EXCEPT ![s] = enriched[s]]
        /\ noticed' = [noticed EXCEPT ![s] = noticed[s]]
        /\ enriched[s] \in {None} \cup Origins /\ noticed[s] \in Nat
    BY <1>2, AsItWas
  <2> QED BY <1>2, <1>3, <1>4, <2>2, <2>3, <2>4, SecurityWritten
<1> QED BY <1>5, <1>6

LEMMA EnrichSymbolsKeeps == SymbolIInv /\ EnrichSymbols => SymbolIInv'
<1> SUFFICES ASSUME SymbolIInv, EnrichSymbols PROVE SymbolIInv'
  OBVIOUS
<1>1. PICK r, t, s : r = symbolRun /\ t = symbolRun' /\ s = r.enrich
  OBVIOUS
<1>2. /\ SymbolRunTyped(r) /\ s # None /\ t = [r EXCEPT !.enrich = None]
      /\ UNCHANGED <<named, symbolSaved, vouched, noticed>>
      /\ enriched' = [enriched EXCEPT ![s] = "expected"] \/ UNCHANGED enriched
  BY <1>1 DEF EnrichSymbols, SymbolIInv
<1>3. s \in vouched /\ vouched \subseteq Securities
  BY <1>1, <1>2 DEF SymbolRunTyped, SymbolIInv
<1>4. SymbolRunTyped(symbolRun)'
  <2>1. t = [r EXCEPT !.todo = r.todo, !.enrich = None]
    BY <1>2, TodoOnly
  <2>2. SymbolRunTyped(t)'
    BY <1>2, <1>3, <2>1, RunGoesOn
  <2> QED BY <1>1, <2>2
<1>5. CASE UNCHANGED enriched
  BY <1>2, <1>3, <1>4, <1>5, SymbolsAlone
<1>6. CASE enriched' = [enriched EXCEPT ![s] = "expected"]
  <2>1. s \in Securities /\ "expected" \in {None} \cup Origins
    BY <1>3 DEF Origins
  <2>2. /\ named' = [named EXCEPT ![s] = named[s]] /\ named[s] \in {None} \cup Names
        /\ noticed' = [noticed EXCEPT ![s] = noticed[s]] /\ noticed[s] \in Nat
        /\ named[s] # None => named[s].note = noticed[s]
    BY <1>2, <2>1, AsItWas
  <2> QED BY <1>2, <1>3, <1>4, <1>6, <2>1, <2>2, SecurityWritten
<1> QED BY <1>2, <1>5, <1>6

LEMMA StartSymbolRestoreKeeps == SymbolIInv /\ StartSymbolRestore => SymbolIInv'
<1> SUFFICES ASSUME SymbolIInv, StartSymbolRestore PROVE SymbolIInv'
  OBVIOUS
<1>1. PICK b \in DOMAIN symbolSaved :
         symbolRun' = [pc |-> "restore", todo |-> DOMAIN symbolSaved[b], correct |-> {},
                       enrich |-> None, from |-> symbolSaved[b]]
  BY DEF StartSymbolRestore
<1>2. PICK d, r : d = symbolSaved[b] /\ r = symbolRun'
  OBVIOUS
<1>3. VouchedFor(d) /\ UNCHANGED vouched /\ VouchedFor(d)'
  BY <1>2 DEF SymbolIInv, StartSymbolRestore, VouchedFor
<1>4. r \in [pc : {"backup", "write", "restore"}, todo : SUBSET Securities,
             correct : SUBSET Securities, enrich : {None} \cup Securities, from : {r.from}]
      /\ r.pc = "restore" /\ r.from = d /\ r.todo = DOMAIN d /\ r.correct = {} /\ r.enrich = None
  BY <1>1, <1>2, <1>3 DEF VouchedFor
<1>5. SymbolRunTyped(r)'
  BY <1>3, <1>4 DEF SymbolRunTyped
<1>6. vouched \subseteq Securities
  BY DEF SymbolIInv
<1> QED BY <1>2, <1>3, <1>5, <1>6, SymbolsAlone DEF StartSymbolRestore

LEMMA RestoreSymbolsKeeps ==
    ASSUME NEW s \in Securities, SymbolIInv, RestoreSymbols(s) PROVE SymbolIInv'
<1>1. PICK r, t, d : r = symbolRun /\ t = symbolRun' /\ d = r.from[s]
  OBVIOUS
<1>2. /\ SymbolRunTyped(r) /\ r.pc = "restore" /\ s \in r.todo
      /\ t = [r EXCEPT !.todo = r.todo \ {s}]
      /\ named' = [named EXCEPT ![s] = d] /\ noticed' = [noticed EXCEPT ![s] = d.note]
      /\ UNCHANGED <<enriched, symbolSaved, vouched>>
  BY <1>1 DEF RestoreSymbols, SymbolAt, SymbolIInv
<1>3. d \in Names /\ (d.symbols = "expected" => s \in vouched)
  BY <1>1, <1>2 DEF SymbolRunTyped, VouchedFor
<1>4. SymbolRunTyped(symbolRun)'
  <2>1. t = [r EXCEPT !.todo = r.todo \ {s}, !.enrich = r.enrich]
    BY <1>2, TodoOnly
  <2>2. r.enrich \in {None} \cup vouched /\ vouched \subseteq Securities
    BY <1>2, TodoOnly DEF SymbolIInv
  <2>3. SymbolRunTyped(t)'
    BY <1>2, <2>1, <2>2, RunGoesOn
  <2> QED BY <1>1, <2>3
<1>5. d.note \in Nat
  BY <1>3 DEF Names
<1> QED BY <1>2, <1>3, <1>4, <1>5, AsItWas, SecurityWritten

LEMMA SkipSymbolsKeeps ==
    ASSUME NEW s \in Securities, SymbolIInv, SkipSymbols(s) PROVE SymbolIInv'
<1>1. PICK r, t : r = symbolRun /\ t = symbolRun'
  OBVIOUS
<1>2. /\ SymbolRunTyped(r) /\ t = [r EXCEPT !.todo = r.todo \ {s}]
      /\ UNCHANGED <<named, enriched, symbolSaved, vouched, noticed>>
  BY <1>1 DEF SkipSymbols, SymbolAt, SymbolIInv
<1>3. SymbolRunTyped(symbolRun)'
  <2>1. t = [r EXCEPT !.todo = r.todo \ {s}, !.enrich = r.enrich]
    BY <1>2, TodoOnly
  <2>2. r.enrich \in {None} \cup vouched /\ vouched \subseteq Securities
    BY <1>2, TodoOnly DEF SymbolIInv
  <2>3. SymbolRunTyped(t)'
    BY <1>2, <2>1, <2>2, RunGoesOn
  <2> QED BY <1>1, <2>3
<1> QED BY <1>2, <1>3, SymbolsAlone DEF SymbolIInv

LEMMA EndSymbolRunKeeps == SymbolIInv /\ EndSymbolRun => SymbolIInv'
BY SymbolsAlone DEF EndSymbolRun, SymbolIInv

(* The application's writes leave the run alone.                           *)
LEMMA SymbolRunStays ==
    ASSUME SymbolIInv, UNCHANGED <<symbolRun, vouched>>, symbolRun # None
    PROVE  SymbolRunTyped(symbolRun)'
BY DEF SymbolIInv, SymbolRunTyped, VouchedFor

LEMMA EditSecurityKeeps ==
    ASSUME NEW s \in Securities, NEW symbols \in Origins, NEW note \in Nat, SymbolIInv,
           EditSecurity(s, symbols, note), symbols \in {named[s].symbols, "users"}
    PROVE  SymbolIInv'
<1>1. PICK d : d = [named[s] EXCEPT !.symbols = symbols, !.note = note]
  OBVIOUS
<1>2. /\ named[s] # None /\ named' = [named EXCEPT ![s] = d]
      /\ noticed' = [noticed EXCEPT ![s] = note]
      /\ UNCHANGED <<enriched, symbolSaved, symbolRun, vouched>>
  <2>1. named[s] # None /\ named' = [named EXCEPT ![s].symbols = symbols, ![s].note = note]
    BY DEF EditSecurity
  <2>2. named' = [named EXCEPT ![s] = d]
    BY <1>1, <2>1 DEF SymbolIInv
  <2> QED BY <2>1, <2>2 DEF EditSecurity
<1>3. d \in Names /\ d.note = note /\ d.symbols = symbols
  BY <1>1, <1>2, AsItWas DEF Names
<1>4. /\ enriched' = [enriched EXCEPT ![s] = enriched[s]]
      /\ enriched[s] \in {None} \cup Origins
      /\ (named[s].symbols = "expected") \/ (enriched[s] # None /\ enriched[s] = "expected") => s \in vouched
  BY <1>2, AsItWas
<1>5. (d # None /\ d.symbols = "expected") \/ (enriched[s] # None /\ enriched[s] = "expected") => s \in vouched
  BY <1>3, <1>4
<1> QED BY <1>2, <1>3, <1>4, <1>5, SymbolRunStays, SecurityWritten

LEMMA RemoveSecurityKeeps ==
    ASSUME NEW s \in Securities, SymbolIInv, RemoveSecurity(s) PROVE SymbolIInv'
BY AsItWas, SymbolRunStays, SecurityWritten DEF RemoveSecurity

LEMMA EnrichKeeps ==
    ASSUME NEW s \in Securities, SymbolIInv, Enrich(s) PROVE SymbolIInv'
<1>1. named[s] # None /\ named[s].symbols \in Origins
  BY AsItWas DEF Enrich, Names
<1>2. /\ named' = [named EXCEPT ![s] = named[s]] /\ named[s] \in {None} \cup Names
      /\ noticed' = [noticed EXCEPT ![s] = noticed[s]] /\ noticed[s] \in Nat
      /\ named[s].note = noticed[s]
      /\ (named[s].symbols = "expected") => s \in vouched
  BY <1>1, AsItWas DEF Enrich
<1>3. enriched' = [enriched EXCEPT ![s] = named[s].symbols] /\ UNCHANGED <<symbolSaved, symbolRun, vouched>>
  BY DEF Enrich
<1> QED BY <1>1, <1>2, <1>3, SymbolRunStays, SecurityWritten

LEMMA SymbolKeeps == SymbolIInv /\ [SymbolNext]_symbolVars => SymbolIInv'
<1> SUFFICES ASSUME SymbolIInv, [SymbolNext]_symbolVars PROVE SymbolIInv'
  OBVIOUS
<1>1. CASE UNCHANGED symbolVars
  BY <1>1, SymbolsAlone, SymbolRunStays DEF symbolVars, SymbolIInv
<1>2. CASE Discover \/ BackupSymbols \/ EnrichSymbols \/ StartSymbolRestore \/ EndSymbolRun
  BY <1>2, DiscoverKeeps, BackupSymbolsKeeps, EnrichSymbolsKeeps, StartSymbolRestoreKeeps,
     EndSymbolRunKeeps
<1>3. ASSUME NEW s \in Securities, CorrectSymbols(s) \/ RestoreSymbols(s) \/ SkipSymbols(s)
      PROVE  SymbolIInv'
  BY <1>3, CorrectSymbolsKeeps, RestoreSymbolsKeeps, SkipSymbolsKeeps
<1>4. ASSUME NEW s \in Securities,
             \/ named[s] # None /\ EditSecurity(s, "users", named[s].note)
             \/ named[s] # None /\ EditSecurity(s, named[s].symbols, named[s].note + 1)
      PROVE  SymbolIInv'
  <2>1. named[s].symbols \in Origins /\ named[s].note \in Nat /\ named[s].note + 1 \in Nat
        /\ "users" \in Origins
    BY <1>4, AsItWas DEF Names, Origins
  <2> QED BY <1>4, <2>1, EditSecurityKeeps
<1>5. ASSUME NEW s \in Securities, RemoveSecurity(s) \/ Enrich(s) PROVE SymbolIInv'
  BY <1>5, RemoveSecurityKeeps, EnrichKeeps
<1> QED BY <1>1, <1>2, <1>3, <1>4, <1>5 DEF SymbolNext

-----------------------------------------------------------------------------
(* Purchases.                                                              *)

(* The native amounts of a purchase in euro are its amounts in euro.       *)
InEuro(d) == d.rate = 1 => d.nativeGross = d.gross /\ d.nativeNet = d.net

PurchaseBodies ==
    [gross : Int, net : Int, fees : Nat, rate : Nat, nativeGross : Int, nativeNet : Int,
     by : {"csv_import", "manual"}, source : {None} \cup Int,
     status : {"COMPLETE", "INCOMPLETE", "ZERO_COST"}, active : BOOLEAN, v1 : BOOLEAN, v2 : BOOLEAN,
     corrects : {None} \cup Buys, supersededBy : {None} \cup Buys]
Purchases == {d \in PurchaseBodies : InEuro(d)}

Old(d, w) == d.gross = w /\ d.net = w - d.fees
Inverted(d, w) == d.gross = w + d.fees /\ d.net = w
Final(d, w) == d.gross = w /\ d.net = w + d.fees

Unreadable(d, w) == w = 0 /\ d.source = None /\ d.fees > 0

(* What the stored and the saved bodies of a purchase have in common, with *)
(* w the value of the trade: a source row that says something else comes   *)
(* from a correction, and the first repair leaves no old shape where only  *)
(* its mark tells the second one what the trade was worth.                 *)
Sound(d, w) ==
    Unreadable(d, w) \/
      /\ Old(d, w) \/ Inverted(d, w) \/ Final(d, w)
      /\ d.source # None /\ d.source # w => Final(d, w) /\ d.by = "manual"
      /\ d.v1 /\ d.source = None /\ d.fees > 0 => Inverted(d, w) \/ Final(d, w)
      /\ d.v2 /\ ~d.v1 => Final(d, w)

(* A purchase and the one it corrects have their ids for good.             *)
Placed(m, d) ==
    /\ m \in Buys \ fresh /\ d \in Purchases /\ Sound(d, worth[m])
    /\ d.corrects # None =>
          /\ d.corrects \notin fresh
          /\ Stored(d.corrects) /\ buys[d.corrects].active => d.corrects \in reopened

SavedBuys(docs) == \A m \in DOMAIN docs : Placed(m, docs[m]) /\ ~(docs[m].v1 /\ docs[m].v2)

BuyRunOK(r) ==
    /\ r \in [kind : {"v1", "v2"}, pc : {"backup", "apply", "restore"}, auto : SUBSET (Buys \ fresh),
              todo : SUBSET (Buys \ fresh), from : {r.from}]
    /\ r.pc = "restore" => SavedBuys(r.from) /\ r.todo \subseteq DOMAIN r.from
    /\ r.pc = "backup" =>
          \A m \in r.auto : Stored(m) =>
              IF r.kind = "v1" THEN ~buys[m].v1 ELSE ~buys[m].v2
    /\ r.kind = "v1" /\ r.pc # "restore" =>
          \A m \in r.todo \ r.auto : Stored(m) /\ buys[m].active => buys[m].gross = worth[m]

BuyTypeOK ==
    /\ buys \in [Buys -> {None} \cup Purchases]
    /\ fresh \subseteq Buys
    /\ worth \in [Buys -> Int]
    /\ IsList(buySaved)

StoredOK(m) ==
    Stored(m) =>
        /\ Placed(m, buys[m])
        /\ m \in reversed => buys[m].v1
        /\ buys[m].v2 /\ m \notin reversed =>
              Unreadable(buys[m], worth[m]) \/ Final(buys[m], worth[m])

BuyIInv ==
    /\ BuyTypeOK
    /\ reversed \cap fresh = {}
    /\ \A m \in Buys : StoredOK(m)
    /\ \A b \in DOMAIN buySaved : SavedBuys(buySaved[b].docs)
    /\ buyRun # None => BuyRunOK(buyRun)

-----------------------------------------------------------------------------
(* The shapes.                                                             *)

LEMMA ShapesAre ==
    ASSUME NEW d \in Purchases, NEW w \in Int
    PROVE  LET s == Shapes(w, d.fees)
           IN  /\ Shape(d) = s.old <=> Old(d, w)
               /\ Shape(d) = s.inverted <=> Inverted(d, w)
               /\ Shape(d) = s.final <=> Final(d, w)
               /\ s.final.gross = w
BY DEF Shapes, Shape, Old, Inverted, Final, Purchases, PurchaseBodies

LEMMA RepairedV1 ==
    ASSUME NEW d \in Purchases, NEW w \in Int, Sound(d, w), NEW manual \in BOOLEAN,
           IF manual THEN Candidate(d) /\ d.gross = w ELSE PlannedV1(d)
    PROVE  LET e == RepairV1(d, manual)
           IN  /\ e \in Purchases /\ Sound(e, w) /\ e.corrects = d.corrects
               /\ e.v1 /\ e.v2 = d.v2 /\ e.active = d.active
<1>1. /\ d.gross \in Int /\ d.net \in Int /\ d.fees \in Nat /\ d.source \in {None} \cup Int
      /\ d.v1 \in BOOLEAN /\ d.v2 \in BOOLEAN /\ d.nativeGross \in Int /\ d.nativeNet \in Int
      /\ d \in PurchaseBodies /\ InEuro(d)
  BY DEF Purchases, PurchaseBodies
<1>2. PICK swap \in BOOLEAN, status \in {"COMPLETE", "INCOMPLETE", "ZERO_COST"} :
        /\ swap <=> (manual \/ NeedsSwap(d))
        /\ RepairV1(d, manual) = [(IF swap THEN Swapped(d) ELSE d) EXCEPT !.status = status, !.v1 = TRUE]
  <2>1. d.status \in {"COMPLETE", "INCOMPLETE", "ZERO_COST"}
    BY DEF Purchases, PurchaseBodies
  <2>2. PICK swap \in BOOLEAN : swap <=> (manual \/ NeedsSwap(d))
    OBVIOUS
  <2>3. PICK status : status = IF ~manual /\ NeedsStatus(d) THEN "ZERO_COST" ELSE d.status
    OBVIOUS
  <2>4. (IF swap THEN Swapped(d) ELSE d).status = d.status
    BY DEF Swapped, Purchases, PurchaseBodies
  <2>5. status \in {"COMPLETE", "INCOMPLETE", "ZERO_COST"}
    BY <2>1, <2>3
  <2>6. RepairV1(d, manual) = [(IF swap THEN Swapped(d) ELSE d) EXCEPT !.status = status, !.v1 = TRUE]
    BY <2>2, <2>3, <2>4 DEF RepairV1
  <2> QED BY <2>2, <2>5, <2>6
<1>3. PICK e : e = RepairV1(d, manual)
  OBVIOUS
<1>4. /\ e \in Purchases /\ e.v1 /\ e.corrects = d.corrects /\ e.v2 = d.v2 /\ e.active = d.active
      /\ e.source = d.source /\ e.fees = d.fees /\ e.by = d.by
      /\ e.gross = IF swap THEN d.gross + d.fees ELSE d.gross
      /\ e.net = IF swap THEN d.gross ELSE d.net
  <2>1. CASE swap
    <3>1. PICK g, native : g = d.gross + d.fees /\ native = d.nativeGross + d.fees
      OBVIOUS
    <3>2. e = [d EXCEPT !.gross = g, !.net = d.gross, !.nativeGross = native,
                        !.nativeNet = d.nativeGross, !.status = status, !.v1 = TRUE]
      BY <1>1, <1>2, <1>3, <2>1, <3>1 DEF Swapped, PurchaseBodies
    <3>3. g \in Int /\ native \in Int
      BY <1>1, <3>1
    <3>4. /\ e \in PurchaseBodies /\ e.v1 /\ e.corrects = d.corrects /\ e.v2 = d.v2
          /\ e.active = d.active /\ e.source = d.source /\ e.fees = d.fees /\ e.by = d.by
          /\ e.gross = g /\ e.net = d.gross
          /\ e.rate = d.rate /\ e.nativeGross = native /\ e.nativeNet = d.nativeGross
      BY <1>1, <3>2, <3>3 DEF PurchaseBodies
    <3>5. InEuro(e)
      BY <1>1, <3>1, <3>4 DEF InEuro
    <3> QED BY <2>1, <3>1, <3>4, <3>5 DEF Purchases
  <2>2. CASE ~swap
    <3>1. e = [d EXCEPT !.status = status, !.v1 = TRUE]
      BY <1>2, <1>3, <2>2
    <3>2. /\ e \in PurchaseBodies /\ e.v1 /\ e.corrects = d.corrects /\ e.v2 = d.v2
          /\ e.active = d.active /\ e.source = d.source /\ e.fees = d.fees /\ e.by = d.by
          /\ e.gross = d.gross /\ e.net = d.net
          /\ e.rate = d.rate /\ e.nativeGross = d.nativeGross /\ e.nativeNet = d.nativeNet
      BY <1>1, <3>1 DEF PurchaseBodies
    <3> QED BY <1>1, <2>2, <3>2 DEF Purchases, InEuro
  <2> QED BY <2>1, <2>2
<1>5. CASE Unreadable(d, w)
  BY <1>3, <1>4, <1>5 DEF Sound, Unreadable
<1>6. CASE ~Unreadable(d, w)
  <2>1. CASE swap
    <3>1. d.fees > 0 /\ d.gross = w /\ (d.source = None \/ d.source = w)
      BY <1>1, <1>2, <1>6, <2>1 DEF Candidate, PlannedV1, NeedsSwap, Sound, Final
    <3>2. Inverted(e, w)
      BY <1>4, <2>1, <3>1 DEF Inverted
    <3> QED BY <1>3, <1>4, <3>1, <3>2 DEF Sound
  <2>2. CASE ~swap
    <3>1. PlannedV1(d) /\ NeedsStatus(d)
      BY <1>2, <2>2 DEF PlannedV1
    <3>2. /\ Old(e, w) <=> Old(d, w)
          /\ Inverted(e, w) <=> Inverted(d, w)
          /\ Final(e, w) <=> Final(d, w)
      BY <1>4, <2>2 DEF Old, Inverted, Final
    <3>3. d.source = None /\ d.fees > 0 => d.gross = 0 /\ w # 0
      BY <1>6, <3>1 DEF NeedsStatus, Unreadable
    <3>4. d.source = None /\ d.fees > 0 => ~Old(d, w)
      BY <3>3 DEF Old
    <3> QED BY <1>3, <1>4, <1>6, <3>1, <3>2, <3>4 DEF Sound, PlannedV1
  <2> QED BY <2>1, <2>2
<1> QED BY <1>3, <1>4, <1>5, <1>6

LEMMA RepairedV2 ==
    ASSUME NEW d \in Purchases, NEW w \in Int, Sound(d, w), PlannedV2(d)
    PROVE  LET e == RepairV2(d)
           IN  /\ e \in Purchases /\ Sound(e, w) /\ e.corrects = d.corrects
               /\ e.v1 = d.v1 /\ e.v2 /\ e.active = d.active
               /\ Unreadable(e, w) \/ Final(e, w)
<1>1. /\ d.gross \in Int /\ d.net \in Int /\ d.fees \in Nat /\ d.source \in {None} \cup Int
      /\ d.v1 \in BOOLEAN /\ d.v2 \in BOOLEAN /\ d.nativeGross \in Int /\ d.nativeNet \in Int
      /\ d \in PurchaseBodies /\ InEuro(d)
  BY DEF Purchases, PurchaseBodies
<1>2. PICK t : t = Trade(d)
  OBVIOUS
<1>3. t \in Int /\ d.fees > 0
  BY <1>1, <1>2 DEF Trade, PlannedV2
<1>4. ~Final(d, t) /\ (Inverted(d, t) \/ d.gross = t)
  BY <1>2, <1>3, ShapesAre DEF PlannedV2
<1>5. PICK e, n : e = RepairV2(d) /\ n = t + d.fees
  OBVIOUS
<1>6a. PICK swap \in BOOLEAN : swap <=> Inverted(d, t)
  OBVIOUS
<1>6b. PICK nativeGross, nativeNet :
         /\ nativeGross = IF swap THEN d.nativeNet ELSE d.nativeGross
         /\ nativeNet = IF swap THEN d.nativeGross ELSE n
  OBVIOUS
<1>6. /\ e = [d EXCEPT !.gross = t, !.net = n, !.v2 = TRUE, !.nativeGross = nativeGross,
                       !.nativeNet = nativeNet]
      /\ n \in Int /\ nativeGross \in Int /\ nativeNet \in Int
  <2>1. (Shape(d) = Shapes(t, d.fees).inverted) <=> swap
    BY <1>3, <1>6a, ShapesAre
  <2>2. n \in Int /\ nativeGross \in Int /\ nativeNet \in Int
    BY <1>1, <1>3, <1>5, <1>6b
  <2>3. e = [d EXCEPT !.gross = t, !.net = n, !.v2 = TRUE,
                  !.nativeGross = IF swap THEN d.nativeNet ELSE d.nativeGross,
                  !.nativeNet = IF swap THEN d.nativeGross ELSE n]
    BY <1>1, <1>2, <1>5, <2>1 DEF RepairV2, PurchaseBodies
  <2> QED BY <1>6b, <2>2, <2>3
<1>7. /\ e \in Purchases /\ e.v1 = d.v1 /\ e.v2 /\ e.corrects = d.corrects /\ e.active = d.active
      /\ e.source = d.source /\ e.fees = d.fees /\ e.gross = t /\ e.net = t + e.fees
  <2>1. /\ e \in PurchaseBodies /\ e.v1 = d.v1 /\ e.v2 /\ e.corrects = d.corrects
        /\ e.active = d.active /\ e.source = d.source /\ e.fees = d.fees /\ e.gross = t /\ e.net = n
        /\ e.rate = d.rate /\ e.nativeGross = nativeGross /\ e.nativeNet = nativeNet
    BY <1>1, <1>3, <1>6 DEF PurchaseBodies
  <2>2. InEuro(e)
    BY <1>1, <1>3, <1>4, <1>5, <1>6a, <1>6b, <2>1 DEF InEuro, Inverted
  <2> QED BY <1>5, <2>1, <2>2 DEF Purchases
<1>8. CASE Unreadable(d, w)
  BY <1>5, <1>7, <1>8 DEF Sound, Unreadable
<1>9. CASE ~Unreadable(d, w)
  <2>1. t = w
    <3>1. CASE d.source # None
      BY <1>1, <1>2, <1>3, <1>4, <1>9, <3>1 DEF Trade, Sound, Final, Inverted
    <3>2. CASE d.source = None
      <4>1. d.v1 /\ d.gross = d.net + d.fees /\ t = d.net
        BY <1>2, <3>2 DEF Trade, PlannedV2
      <4> QED BY <1>1, <1>3, <1>9, <3>2, <4>1 DEF Sound, Final, Inverted
    <3> QED BY <3>1, <3>2
  <2>2. Final(e, w)
    BY <1>7, <2>1 DEF Final
  <2>3. e.source = None \/ e.source = w
    BY <1>2, <1>7, <2>1 DEF Trade
  <2> QED BY <1>5, <1>7, <2>2, <2>3 DEF Sound
<1> QED BY <1>8, <1>9
-----------------------------------------------------------------------------
(* What a step has to leave.                                               *)

PlacedStay == \A k, e : Placed(k, e) => Placed(k, e)'

LEMMA SavedStay ==
    ASSUME PlacedStay
    PROVE  \A docs : SavedBuys(docs) => SavedBuys(docs)'
BY DEF PlacedStay, SavedBuys

LEMMA NothingPlaced ==
    ASSUME UNCHANGED <<buys, fresh, worth, reopened>>
    PROVE  PlacedStay
BY DEF PlacedStay, Placed, Stored

(* A step that saves nothing.                                              *)
LEMMA BuysFrame ==
    ASSUME BuyIInv, BuyTypeOK', UNCHANGED buySaved, PlacedStay, (reversed \cap fresh = {})',
           \A m \in Buys : StoredOK(m)', buyRun' # None => BuyRunOK(buyRun)'
    PROVE  BuyIInv'
<1>1. (\A b \in DOMAIN buySaved : SavedBuys(buySaved[b].docs))'
  BY SavedStay DEF BuyIInv
<1> QED BY <1>1 DEF BuyIInv

(* A step that leaves the purchases alone.                                 *)
LEMMA BuysAlone ==
    ASSUME BuyIInv, UNCHANGED <<buys, fresh, buySaved, worth, reversed, reopened>>,
           buyRun' # None => BuyRunOK(buyRun)'
    PROVE  BuyIInv'
<1>1. PlacedStay
  BY NothingPlaced
<1>2. \A m \in Buys : StoredOK(m)'
  BY <1>1 DEF PlacedStay, BuyIInv, StoredOK, Stored
<1> QED BY <1>1, <1>2, BuysFrame DEF BuyIInv, BuyTypeOK

(* A run that has dealt with a record.                                     *)
LEMMA BuyRunShrinks ==
    ASSUME NEW r, NEW s, BuyRunOK(r), NEW m \in r.todo, s = [r EXCEPT !.todo = @ \ {m}],
           r.pc # "backup", UNCHANGED <<fresh, worth>>, PlacedStay,
           \A k \in Buys \ {m} : buys'[k] = buys[k]
    PROVE  BuyRunOK(s)'
<1>1. r \in [kind : {"v1", "v2"}, pc : {"backup", "apply", "restore"}, auto : SUBSET (Buys \ fresh),
             todo : SUBSET (Buys \ fresh), from : {r.from}]
  BY DEF BuyRunOK
<1>2. /\ s \in [kind : {"v1", "v2"}, pc : {"backup", "apply", "restore"}, auto : SUBSET (Buys \ fresh),
                todo : SUBSET (Buys \ fresh), from : {r.from}]
      /\ s.kind = r.kind /\ s.pc = r.pc /\ s.auto = r.auto /\ s.todo = r.todo \ {m} /\ s.from = r.from
  BY <1>1
<1>3. s.pc = "restore" => SavedBuys(s.from)' /\ s.todo \subseteq DOMAIN s.from
  BY <1>2, SavedStay DEF BuyRunOK
<1>4. s.kind = "v1" /\ s.pc # "restore" =>
         \A k \in s.todo \ s.auto : Stored(k)' /\ buys'[k].active => buys'[k].gross = worth'[k]
  BY <1>1, <1>2 DEF BuyRunOK, Stored
<1> QED BY <1>2, <1>3, <1>4 DEF BuyRunOK

(* A write of the application: at most one purchase is there anew.         *)
LEMMA BuyRunStays ==
    ASSUME BuyIInv, UNCHANGED buyRun, buyRun # None, PlacedStay, fresh' \subseteq fresh,
           \A k \in Buys \ fresh : Stored(k)' =>
              /\ Stored(k) /\ buys'[k].v1 = buys[k].v1 /\ buys'[k].v2 = buys[k].v2
              /\ buys'[k].active => buys[k].active /\ buys'[k].gross = buys[k].gross
              /\ worth'[k] = worth[k]
    PROVE  BuyRunOK(buyRun)'
<1>1. PICK r : r = buyRun
  OBVIOUS
<1>2. BuyRunOK(r)
  BY <1>1 DEF BuyIInv
<1>3. /\ r \in [kind : {"v1", "v2"}, pc : {"backup", "apply", "restore"}, auto : SUBSET (Buys \ fresh),
               todo : SUBSET (Buys \ fresh), from : {r.from}]
      /\ r \in [kind : {"v1", "v2"}, pc : {"backup", "apply", "restore"}, auto : SUBSET (Buys \ fresh'),
               todo : SUBSET (Buys \ fresh'), from : {r.from}]
  BY <1>2 DEF BuyRunOK
<1>4. r.pc = "restore" => SavedBuys(r.from)' /\ r.todo \subseteq DOMAIN r.from
  BY <1>2, SavedStay DEF BuyRunOK
<1>5. r.pc = "backup" =>
          \A m \in r.auto : Stored(m)' =>
              IF r.kind = "v1" THEN ~buys'[m].v1 ELSE ~buys'[m].v2
  BY <1>2, <1>3 DEF BuyRunOK
<1>6. r.kind = "v1" /\ r.pc # "restore" =>
          \A m \in r.todo \ r.auto : Stored(m)' /\ buys'[m].active => buys'[m].gross = worth'[m]
  BY <1>2, <1>3 DEF BuyRunOK
<1>7. BuyRunOK(r)'
  BY <1>3, <1>4, <1>5, <1>6 DEF BuyRunOK
<1> QED BY <1>1, <1>7

(* A purchase that a script writes over the one there was.                 *)
LEMMA BuyWritten ==
    ASSUME BuyIInv, NEW m \in Buys, NEW d \in Purchases, Stored(m),
           buys' = [buys EXCEPT ![m] = d], UNCHANGED <<fresh, buySaved, worth>>,
           reopened \subseteq reopened', reversed' \subseteq reversed \cup {m}, m \notin fresh,
           Placed(m, d), d.active => buys[m].active \/ m \in reopened',
           m \in reversed' => d.v1,
           d.v2 /\ m \notin reversed' => Unreadable(d, worth[m]) \/ Final(d, worth[m]),
           reversed \subseteq reversed' \cup {m},
           NEW r, BuyRunOK(r), m \in r.todo, r.pc # "backup",
           buyRun' = [r EXCEPT !.todo = @ \ {m}]
    PROVE  BuyIInv'
<1>1. /\ buys' \in [Buys -> {None} \cup Purchases]
      /\ \A k \in Buys \ {m} : buys'[k] = buys[k]
      /\ buys'[m] = d
  BY DEF BuyIInv, BuyTypeOK
<1>2. PlacedStay
  <2> SUFFICES ASSUME NEW k, NEW e, Placed(k, e) PROVE Placed(k, e)'
    BY DEF PlacedStay
  <2>1. e.corrects # None => e.corrects \in Buys
    BY DEF Placed, Purchases, PurchaseBodies
  <2> QED BY <1>1, <2>1 DEF Placed, Stored
<1>3. \A k \in Buys : StoredOK(k)'
  BY <1>1, <1>2 DEF StoredOK, Stored, BuyIInv, PlacedStay
<1>4. BuyRunOK(buyRun)'
  BY <1>1, <1>2, BuyRunShrinks
<1> QED BY <1>1, <1>2, <1>3, <1>4, BuysFrame DEF BuyIInv, BuyTypeOK
-----------------------------------------------------------------------------
(* The scripts and the application, step by step.                          *)

LEMMA BuyInitial == BuyInit => BuyIInv
<1> SUFFICES ASSUME BuyInit PROVE BuyIInv
  OBVIOUS
<1>1. PICK free \in Buys, t \in Values, f \in Fees, rate \in Rates,
           shape \in {"old", "inverted", "final"}, by \in {"csv_import", "manual"}, known \in BOOLEAN,
           status \in {"COMPLETE", "INCOMPLETE"} :
        /\ worth = [m \in Buys |-> t]
        /\ fresh = {free}
        /\ buys = [m \in Buys |->
                     IF m = free THEN None
                     ELSE Purchase(t, f, rate, shape, by, IF known THEN t ELSE None, status)]
  BY DEF BuyInit
<1>2. PICK d : d = Purchase(t, f, rate, shape, by, IF known THEN t ELSE None, status)
  OBVIOUS
<1>3. t \in Nat /\ f \in Nat /\ rate \in Nat /\ t - f \in Int /\ t + f \in Int
  BY BuyRepairAssumption
<1>4a. PICK source \in {None, t} : source = IF known THEN t ELSE None
  OBVIOUS
<1>4b. PICK s : s = Shapes(t, f)[shape]
  OBVIOUS
<1>4. /\ s \in {[gross |-> t, net |-> t - f], [gross |-> t + f, net |-> t], [gross |-> t, net |-> t + f]}
      /\ d = [gross |-> s.gross, net |-> s.net, fees |-> f, rate |-> rate,
              nativeGross |-> rate * s.gross, nativeNet |-> rate * s.net, by |-> by,
              source |-> source, status |-> status, active |-> TRUE, v1 |-> FALSE, v2 |-> FALSE,
              corrects |-> None, supersededBy |-> None]
  BY <1>2, <1>4a, <1>4b DEF Purchase, Shapes
<1>5. /\ d \in Purchases /\ d.corrects = None /\ ~d.v1 /\ ~d.v2 /\ d.source \in {None, t}
      /\ Old(d, t) \/ Inverted(d, t) \/ Final(d, t)
  <2>1. \/ s.gross = t /\ s.net = t - f
        \/ s.gross = t + f /\ s.net = t
        \/ s.gross = t /\ s.net = t + f
    BY <1>4
  <2>2. s.gross \in Int /\ s.net \in Int
    BY <1>3, <2>1
  <2>3. PICK nativeGross, nativeNet : nativeGross = rate * s.gross /\ nativeNet = rate * s.net
    OBVIOUS
  <2>4. /\ nativeGross \in Int /\ nativeNet \in Int
        /\ rate = 1 => nativeGross = s.gross /\ nativeNet = s.net
    BY <1>3, <2>2, <2>3
  <2>5. /\ d \in PurchaseBodies /\ d.corrects = None /\ ~d.v1 /\ ~d.v2 /\ d.source \in {None, t}
        /\ d.gross = s.gross /\ d.net = s.net /\ d.fees = f /\ d.rate = rate
        /\ d.nativeGross = nativeGross /\ d.nativeNet = nativeNet
    BY <1>3, <1>4, <2>2, <2>3, <2>4 DEF PurchaseBodies
  <2>6. d \in Purchases
    BY <2>4, <2>5 DEF Purchases, InEuro
  <2> QED BY <2>1, <2>5, <2>6 DEF Old, Inverted, Final
<1>6. Sound(d, t)
  BY <1>5 DEF Sound
<1>7. \A m \in Buys : Stored(m) => m # free /\ buys[m] = d /\ worth[m] = t
  BY <1>1, <1>2 DEF Stored
<1>8. \A m \in Buys : StoredOK(m)
  BY <1>1, <1>5, <1>6, <1>7 DEF StoredOK, Placed, BuyInit
<1>9. BuyTypeOK
  BY <1>1, <1>2, <1>3, <1>5, NoneSaved DEF BuyTypeOK, BuyInit
<1> QED BY <1>8, <1>9, NoneSaved DEF BuyIInv, BuyInit

(* A run that starts.                                                      *)
LEMMA BuyRunStarts ==
    ASSUME NEW kind \in {"v1", "v2"}, NEW pc \in {"backup", "restore"}, NEW auto \in SUBSET (Buys \ fresh),
           NEW todo \in SUBSET (Buys \ fresh), NEW from, BuyRun(kind, pc, auto, todo, from),
           UNCHANGED <<buys, fresh, worth, reopened>>,
           pc = "restore" => SavedBuys(from) /\ todo \subseteq DOMAIN from,
           pc = "backup" =>
              /\ \A m \in auto : IF kind = "v1" THEN ~buys[m].v1 ELSE ~buys[m].v2
              /\ kind = "v1" => \A m \in todo \ auto : buys[m].gross = worth[m]
    PROVE  BuyRunOK(buyRun)'
<1>1. PICK r : r = buyRun'
  OBVIOUS
<1>2. /\ r \in [kind : {"v1", "v2"}, pc : {"backup", "apply", "restore"}, auto : SUBSET (Buys \ fresh),
               todo : SUBSET (Buys \ fresh), from : {r.from}]
      /\ r.kind = kind /\ r.pc = pc /\ r.auto = auto /\ r.todo = todo /\ r.from = from
  BY <1>1 DEF BuyRun
<1>3. pc = "restore" => SavedBuys(from)'
  BY NothingPlaced, SavedStay
<1>4. BuyRunOK(r)'
  BY <1>2, <1>3 DEF BuyRunOK, Stored
<1> QED BY <1>1, <1>4

(* Every purchase that is there has its id for good.                       *)
LEMMA NotFresh ==
    ASSUME BuyIInv, NEW m \in Buys, Stored(m)
    PROVE  m \in Buys \ fresh /\ buys[m] \in Purchases
BY DEF BuyIInv, StoredOK, Placed

LEMMA AuditV1Keeps == BuyIInv /\ AuditV1 => BuyIInv'
<1> SUFFICES ASSUME BuyIInv, AuditV1 PROVE BuyIInv'
  OBVIOUS
<1>1. PICK auto, genuine, approved :
        /\ auto = {m \in ImportedBuys : PlannedV1(buys[m])}
        /\ genuine = {m \in ManualBuys : Candidate(buys[m]) /\ buys[m].gross = worth[m]}
        /\ approved \in SUBSET genuine
        /\ BuyRun("v1", "backup", auto, auto \cup approved, <<>>)
  BY DEF AuditV1
<1>2. auto \in SUBSET (Buys \ fresh) /\ approved \in SUBSET (Buys \ fresh)
  BY <1>1, NotFresh DEF ImportedBuys, ManualBuys
<1>3. BuyRunOK(buyRun)'
  BY <1>1, <1>2, BuyRunStarts DEF AuditV1, StartBuyRun, PlannedV1
<1> QED BY <1>3, BuysAlone DEF AuditV1, StartBuyRun

LEMMA AuditV2Keeps == BuyIInv /\ AuditV2 => BuyIInv'
<1> SUFFICES ASSUME BuyIInv, AuditV2 PROVE BuyIInv'
  OBVIOUS
<1>1. PICK auto : auto = {m \in AllBuys : PlannedV2(buys[m])} /\ BuyRun("v2", "backup", auto, auto, <<>>)
  BY DEF AuditV2
<1>2. auto \in SUBSET (Buys \ fresh)
  BY <1>1, NotFresh DEF AllBuys
<1>3. BuyRunOK(buyRun)'
  BY <1>1, <1>2, BuyRunStarts DEF AuditV2, StartBuyRun, PlannedV2
<1> QED BY <1>3, BuysAlone DEF AuditV2, StartBuyRun

LEMMA StartRestoreKeeps == BuyIInv /\ (StartRestoreV1 \/ StartRestoreV2) => BuyIInv'
<1> SUFFICES ASSUME BuyIInv, StartRestoreV1 \/ StartRestoreV2 PROVE BuyIInv'
  OBVIOUS
<1>1. StartBuyRun
  BY DEF StartRestoreV1, StartRestoreV2
<1>2. PICK kind \in {"v1", "v2"}, b \in DOMAIN buySaved :
         BuyRun(kind, "restore", {}, DOMAIN buySaved[b].docs, buySaved[b].docs)
  BY DEF StartRestoreV1, StartRestoreV2
<1>3. PICK docs : docs = buySaved[b].docs
  OBVIOUS
<1>4. SavedBuys(docs) /\ DOMAIN docs \in SUBSET (Buys \ fresh)
  BY <1>3 DEF BuyIInv, SavedBuys, Placed
<1>5. BuyRunOK(buyRun)'
  BY <1>1, <1>2, <1>3, <1>4, BuyRunStarts DEF StartBuyRun
<1> QED BY <1>1, <1>5, BuysAlone DEF StartBuyRun

(* A backup of what is still as it was planned.                            *)
LEMMA BackupBuysKeeps == BuyIInv /\ (BackupV1 \/ BackupV2) => BuyIInv'
<1> SUFFICES ASSUME BuyIInv, BackupV1 \/ BackupV2 PROVE BuyIInv'
  OBVIOUS
<1>0. PICK r, s, docs : r = buyRun /\ s = buyRun' /\ docs = [m \in r.auto |-> buys[m]]
  OBVIOUS
<1>1. /\ r # None /\ r.pc = "backup" /\ r.auto \subseteq AllBuys /\ s = [r EXCEPT !.pc = "apply"]
      /\ \/ buySaved' = buySaved
         \/ buySaved' = Append(buySaved, [version |-> "v1", docs |-> docs])
         \/ buySaved' = Append(buySaved, [version |-> "v2", docs |-> docs])
  BY <1>0 DEF BackupV1, BackupV2, BuyAt
<1>2. UNCHANGED <<buys, fresh, worth, reversed, reopened>>
  BY DEF BackupV1, BackupV2
<1>3. PlacedStay
  BY <1>2, NothingPlaced
<1>4. BuyRunOK(r)
  BY <1>0, <1>1 DEF BuyIInv
<1>5. SavedBuys(docs)
  <2> SUFFICES ASSUME NEW m \in r.auto
               PROVE  Placed(m, buys[m]) /\ ~(buys[m].v1 /\ buys[m].v2)
    BY <1>0, <1>1 DEF SavedBuys
  <2>1. m \in Buys /\ Stored(m)
    BY <1>1 DEF AllBuys
  <2>2. ~buys[m].v1 \/ ~buys[m].v2
    BY <1>1, <1>4, <2>1 DEF BuyRunOK
  <2> QED BY <2>1, <2>2 DEF BuyIInv, StoredOK
<1>6. IsList(buySaved') /\ \A b \in DOMAIN buySaved' : SavedBuys(buySaved'[b].docs)
  <2>1. CASE buySaved' = buySaved
    BY <2>1 DEF BuyIInv, BuyTypeOK
  <2>2. ASSUME NEW kind, buySaved' = Append(buySaved, [version |-> kind, docs |-> docs])
        PROVE  IsList(buySaved') /\ \A b \in DOMAIN buySaved' : SavedBuys(buySaved'[b].docs)
    <3>1. PICK e : e = [version |-> kind, docs |-> docs]
      OBVIOUS
    <3>2. IsList(buySaved) /\ buySaved' = Append(buySaved, e) /\ e.docs = docs
      BY <2>2, <3>1 DEF BuyIInv, BuyTypeOK
    <3>3. Extends(buySaved', buySaved, e)
      BY <3>2, Saved
    <3> QED BY <1>5, <3>2, <3>3 DEF BuyIInv, Extends
  <2> QED BY <1>1, <2>1, <2>2
<1>7. (\A b \in DOMAIN buySaved : SavedBuys(buySaved[b].docs))'
  BY <1>3, <1>6, SavedStay
<1>8. BuyRunOK(s)'
  <2>1. r \in [kind : {"v1", "v2"}, pc : {"backup", "apply", "restore"}, auto : SUBSET (Buys \ fresh),
               todo : SUBSET (Buys \ fresh), from : {r.from}]
    BY <1>4 DEF BuyRunOK
  <2>2. /\ s \in [kind : {"v1", "v2"}, pc : {"backup", "apply", "restore"}, auto : SUBSET (Buys \ fresh),
               todo : SUBSET (Buys \ fresh), from : {r.from}]
        /\ s.kind = r.kind /\ s.pc = "apply" /\ s.auto = r.auto /\ s.todo = r.todo /\ s.from = r.from
    BY <1>1, <2>1
  <2> QED BY <1>1, <1>2, <1>4, <2>2 DEF BuyRunOK, Stored
<1>9. \A m \in Buys : StoredOK(m)'
  BY <1>2, <1>3 DEF PlacedStay, BuyIInv, StoredOK, Stored
<1> QED BY <1>0, <1>1, <1>2, <1>6, <1>7, <1>8, <1>9 DEF BuyIInv, BuyTypeOK

(* A record that is dealt with and not written.                            *)
LEMMA BuySkipped ==
    ASSUME BuyIInv, buyRun # None, buyRun.pc # "backup", NEW m \in buyRun.todo, BuyDone(m),
           UNCHANGED <<buys, fresh, buySaved, worth, reversed, reopened>>
    PROVE  BuyIInv'
<1>1. PICK r, s : r = buyRun /\ s = buyRun' /\ BuyRunOK(r) /\ s = [r EXCEPT !.todo = @ \ {m}]
  BY DEF BuyDone, BuyIInv
<1>2. PlacedStay
  BY NothingPlaced
<1>3. BuyRunOK(s)'
  BY <1>1, <1>2, BuyRunShrinks
<1> QED BY <1>1, <1>3, BuysAlone
LEMMA ApplyV1Keeps == ASSUME NEW m \in Buys, BuyIInv, ApplyV1(m) PROVE BuyIInv'
<1>1. PICK r, manual, d, e :
        /\ r = buyRun /\ manual = (m \notin r.auto) /\ d = buys[m] /\ e = RepairV1(buys[m], manual)
  OBVIOUS
<1>2. /\ BuyRunOK(r) /\ r.kind = "v1" /\ r.pc = "apply" /\ m \in r.todo
      /\ UNCHANGED <<fresh, buySaved, worth, reopened>>
      /\ buyRun' = [r EXCEPT !.todo = @ \ {m}]
  BY <1>1 DEF ApplyV1, BuyAt, BuyDone, BuyIInv
<1>3. CASE Stored(m) /\ (IF manual THEN Candidate(d) ELSE PlannedV1(d))
  <2>1. /\ buys' = [buys EXCEPT ![m] = e]
        /\ reversed' = IF d.v2 THEN reversed \cup {m} ELSE reversed
    BY <1>1, <1>3 DEF ApplyV1
  <2>2. d \in Purchases /\ m \notin fresh /\ Placed(m, d) /\ manual \in BOOLEAN /\ d.active
    BY <1>1, <1>3, NotFresh DEF BuyIInv, StoredOK, Candidate, PlannedV1
  <2>3. manual => d.gross = worth[m]
    BY <1>1, <1>2, <1>3, <2>2 DEF BuyRunOK
  <2>4. worth[m] \in Int /\ Sound(d, worth[m])
    BY <2>2 DEF BuyIInv, BuyTypeOK, Placed
  <2>5. /\ e \in Purchases /\ Sound(e, worth[m]) /\ e.corrects = d.corrects
        /\ e.v1 /\ e.v2 = d.v2 /\ e.active = d.active
    BY <1>1, <1>3, <2>2, <2>3, <2>4, RepairedV1
  <2>6. Placed(m, e)
    BY <2>2, <2>5 DEF Placed
  <2>7. d.v2 /\ m \notin reversed' => FALSE
    BY <2>1
  <2>8. reversed' \subseteq reversed \cup {m} /\ reversed \subseteq reversed' \cup {m}
    BY <2>1
  <2> QED BY <1>1, <1>2, <1>3, <2>1, <2>2, <2>5, <2>6, <2>7, <2>8, BuyWritten
<1>4. CASE ~(Stored(m) /\ (IF manual THEN Candidate(d) ELSE PlannedV1(d)))
  <2>1. UNCHANGED <<buys, reversed>>
    BY <1>1, <1>4 DEF ApplyV1
  <2> QED BY <1>1, <1>2, <2>1, BuySkipped DEF ApplyV1, BuyAt
<1> QED BY <1>3, <1>4

LEMMA ApplyV2Keeps == ASSUME NEW m \in Buys, BuyIInv, ApplyV2(m) PROVE BuyIInv'
<1>1. PICK r, d, e : r = buyRun /\ d = buys[m] /\ e = RepairV2(buys[m])
  OBVIOUS
<1>2. /\ BuyRunOK(r) /\ r.pc = "apply" /\ m \in r.todo
      /\ UNCHANGED <<fresh, buySaved, worth, reversed, reopened>>
      /\ buyRun' = [r EXCEPT !.todo = @ \ {m}]
  BY <1>1 DEF ApplyV2, BuyAt, BuyDone, BuyIInv
<1>3. CASE Stored(m) /\ PlannedV2(d)
  <2>1. buys' = [buys EXCEPT ![m] = e]
    BY <1>1, <1>3 DEF ApplyV2
  <2>2. d \in Purchases /\ m \notin fresh /\ Placed(m, d) /\ d.active /\ (m \in reversed => d.v1)
    BY <1>1, <1>3, NotFresh DEF BuyIInv, StoredOK, PlannedV2
  <2>3. worth[m] \in Int /\ Sound(d, worth[m])
    BY <2>2 DEF BuyIInv, BuyTypeOK, Placed
  <2>4. /\ e \in Purchases /\ Sound(e, worth[m]) /\ e.corrects = d.corrects
        /\ e.v1 = d.v1 /\ e.v2 /\ e.active = d.active
        /\ Unreadable(e, worth[m]) \/ Final(e, worth[m])
    BY <1>1, <1>3, <2>2, <2>3, RepairedV2
  <2>5. Placed(m, e)
    BY <2>2, <2>4 DEF Placed
  <2> QED BY <1>1, <1>2, <1>3, <2>1, <2>2, <2>4, <2>5, BuyWritten
<1>4. CASE ~(Stored(m) /\ PlannedV2(d))
  <2>1. UNCHANGED buys
    BY <1>1, <1>4 DEF ApplyV2
  <2> QED BY <1>1, <1>2, <2>1, BuySkipped DEF ApplyV2, BuyAt
<1> QED BY <1>3, <1>4

LEMMA RestoreBuyKeeps ==
    ASSUME NEW m \in Buys, BuyIInv, RestoreV1(m) \/ RestoreV2(m) PROVE BuyIInv'
<1>1. PICK r, d : r = buyRun /\ d = r.from[m]
  OBVIOUS
<1>2. /\ BuyRunOK(r) /\ r # None /\ r.pc = "restore" /\ m \in r.todo
      /\ UNCHANGED <<fresh, buySaved, worth>>
      /\ buyRun' = [r EXCEPT !.todo = @ \ {m}]
      /\ PutBuyBack(m)
  BY <1>1 DEF RestoreV1, RestoreV2, BuyAt, BuyDone, BuyIInv
<1>3. CASE Stored(m)
  <2>1. /\ buys' = [buys EXCEPT ![m] = d] /\ reopened' = reopened \cup {m} /\ reversed' = reversed \ {m}
    BY <1>1, <1>2, <1>3 DEF PutBuyBack
  <2>2. Placed(m, d) /\ ~(d.v1 /\ d.v2)
    BY <1>1, <1>2 DEF BuyRunOK, SavedBuys
  <2>3. d \in Purchases /\ m \notin fresh /\ Sound(d, worth[m])
    BY <2>2 DEF Placed
  <2>4. d.v2 => Unreadable(d, worth[m]) \/ Final(d, worth[m])
    BY <2>2, <2>3 DEF Sound
  <2> QED BY <1>2, <1>3, <2>1, <2>2, <2>3, <2>4, BuyWritten
<1>4. CASE ~Stored(m)
  <2>1. UNCHANGED <<buys, reversed, reopened>>
    BY <1>2, <1>4 DEF PutBuyBack
  <2> QED BY <1>1, <1>2, <2>1, BuySkipped DEF BuyDone
<1> QED BY <1>3, <1>4

LEMMA SkipBuyKeeps == ASSUME NEW m \in Buys, BuyIInv, SkipBuy(m) PROVE BuyIInv'
BY BuySkipped DEF SkipBuy

LEMMA EndBuyRunKeeps == BuyIInv /\ EndBuyRun => BuyIInv'
BY BuysAlone DEF EndBuyRun

(* A correction: the one before is no longer active, and the replacement,  *)
(* under an id of its own, is final or what the one before is.             *)
LEMMA CorrectBuyKeeps ==
    ASSUME NEW m \in Buys, NEW n \in Buys, NEW gross \in Values \cup {None},
           NEW fees \in Fees \cup {None}, BuyIInv, CorrectBuy(m, n, gross, fees)
    PROVE  BuyIInv'
<1>1. PICK d, anew, g, f :
        /\ d = buys[m] /\ anew = (gross # None \/ fees # None)
        /\ g = IF gross # None THEN gross ELSE d.gross
        /\ f = IF fees # None THEN fees ELSE d.fees
  OBVIOUS
<1>2. PICK net, native :
        /\ net = IF anew THEN g + f ELSE d.net
        /\ native = IF gross # None THEN d.rate * gross ELSE d.nativeGross
  OBVIOUS
<1>2a. PICK nativeNet : nativeNet = IF anew THEN native + d.rate * f ELSE d.nativeNet
  OBVIOUS
<1>3. PICK was, now, w :
        /\ was = [d EXCEPT !.active = FALSE, !.supersededBy = n]
        /\ now = [d EXCEPT !.by = "manual", !.corrects = m, !.supersededBy = None,
                           !.gross = g, !.fees = f, !.net = net, !.nativeGross = native,
                           !.nativeNet = nativeNet]
        /\ w = IF anew THEN g ELSE worth[m]
  OBVIOUS
<1>4. /\ Stored(m) /\ d.active /\ n \in fresh /\ fresh' = fresh \ {n}
      /\ UNCHANGED <<buySaved, buyRun, reopened>>
  BY <1>1 DEF CorrectBuy, EditBuy
<1>5. d \in Purchases /\ m \notin fresh /\ Placed(m, d)
  BY <1>1, <1>4, NotFresh DEF BuyIInv, StoredOK
<1>6. /\ g \in Int /\ f \in Nat /\ net \in Int /\ w \in Int /\ worth[m] \in Int
      /\ native \in Int /\ nativeNet \in Int
      /\ d.rate = 1 => native = g /\ nativeNet = net
  <2>1. /\ d.gross \in Int /\ d.net \in Int /\ d.fees \in Nat /\ d.rate \in Nat
        /\ d.nativeGross \in Int /\ d.nativeNet \in Int /\ InEuro(d)
    BY <1>5 DEF Purchases, PurchaseBodies
  <2>2. /\ gross # None => gross \in Int /\ d.rate * gross \in Int
        /\ fees # None => fees \in Nat
    BY <2>1, BuyRepairAssumption
  <2>3. g \in Int /\ f \in Nat /\ net \in Int /\ native \in Int
    BY <1>1, <1>2, <2>1, <2>2
  <2>4. d.rate * f \in Int /\ nativeNet \in Int
    BY <1>2a, <2>1, <2>3
  <2>5. d.rate = 1 => native = g /\ nativeNet = net
    BY <1>1, <1>2, <1>2a, <2>1, <2>2, <2>3 DEF InEuro
  <2>6. w \in Int /\ worth[m] \in Int
    BY <1>3, <2>3 DEF BuyIInv, BuyTypeOK
  <2> QED BY <2>3, <2>4, <2>5, <2>6
<1>7. /\ was \in Purchases /\ ~was.active /\ was.gross = d.gross /\ was.net = d.net
      /\ was.fees = d.fees /\ was.v1 = d.v1 /\ was.v2 = d.v2 /\ was.by = d.by
      /\ was.source = d.source /\ was.corrects = d.corrects
  <2>1. d \in PurchaseBodies /\ InEuro(d)
    BY <1>5 DEF Purchases
  <2>2. /\ was \in PurchaseBodies /\ ~was.active /\ was.gross = d.gross /\ was.net = d.net
        /\ was.fees = d.fees /\ was.v1 = d.v1 /\ was.v2 = d.v2 /\ was.by = d.by
        /\ was.source = d.source /\ was.corrects = d.corrects /\ was.rate = d.rate
        /\ was.nativeGross = d.nativeGross /\ was.nativeNet = d.nativeNet
    BY <1>3, <2>1 DEF PurchaseBodies
  <2> QED BY <2>1, <2>2 DEF Purchases, InEuro
<1>8. /\ now \in Purchases /\ now.gross = g /\ now.net = net /\ now.fees = f /\ now.v1 = d.v1
      /\ now.v2 = d.v2 /\ now.by = "manual" /\ now.source = d.source /\ now.corrects = m
  <2>1. d \in PurchaseBodies
    BY <1>5 DEF Purchases
  <2>2. /\ now \in PurchaseBodies /\ now.gross = g /\ now.net = net /\ now.fees = f
        /\ now.v1 = d.v1 /\ now.v2 = d.v2 /\ now.by = "manual" /\ now.source = d.source
        /\ now.corrects = m /\ now.rate = d.rate /\ now.nativeGross = native
        /\ now.nativeNet = nativeNet
    BY <1>3, <1>6, <2>1 DEF PurchaseBodies
  <2> QED BY <1>6, <2>2 DEF Purchases, InEuro
<1>9. m # n /\ buys' = [buys EXCEPT ![m] = was, ![n] = now] /\ worth' = [worth EXCEPT ![n] = w]
      /\ reversed' = IF m \in reversed /\ ~anew THEN reversed \cup {n} ELSE reversed
  <2>1. PICK copy : copy = [d EXCEPT !.by = "manual", !.corrects = m, !.supersededBy = None]
    OBVIOUS
  <2>2. /\ copy.gross = d.gross /\ copy.fees = d.fees /\ copy.net = d.net /\ copy.rate = d.rate
        /\ copy.nativeGross = d.nativeGross /\ copy.nativeNet = d.nativeNet
    BY <1>5, <2>1 DEF Purchases, PurchaseBodies
  <2>3. now = [copy EXCEPT !.gross = g, !.fees = f, !.net = net, !.nativeGross = native,
                           !.nativeNet = nativeNet]
    BY <1>3, <1>5, <2>1 DEF Purchases, PurchaseBodies
  <2>4. /\ buys' = [buys EXCEPT ![m].active = FALSE, ![m].supersededBy = n,
                       ![n] = [copy EXCEPT !.gross = g, !.fees = f, !.net = IF anew THEN g + f ELSE @,
                                           !.nativeGross = native,
                                           !.nativeNet = IF anew THEN native + copy.rate * f ELSE @]]
        /\ worth' = [worth EXCEPT ![n] = w]
        /\ reversed' = IF m \in reversed /\ ~anew THEN reversed \cup {n} ELSE reversed
    <3>1. /\ g = IF gross # None THEN gross ELSE copy.gross
          /\ f = IF fees # None THEN fees ELSE copy.fees
          /\ native = IF gross # None THEN copy.rate * gross ELSE copy.nativeGross
      BY <1>1, <1>2, <2>2
    <3>2. copy = [buys[m] EXCEPT !.by = "manual", !.corrects = m, !.supersededBy = None]
      BY <1>1, <2>1
    <3>3. buys' = [buys EXCEPT ![m].active = FALSE, ![m].supersededBy = n,
                       ![n] = [copy EXCEPT !.gross = g, !.fees = f, !.net = IF anew THEN g + f ELSE @,
                                           !.nativeGross = native,
                                           !.nativeNet = IF anew THEN native + copy.rate * f ELSE @]]
      <4>1. LET g1 == IF gross # None THEN gross ELSE copy.gross
                f1 == IF fees # None THEN fees ELSE copy.fees
                a1 == gross # None \/ fees # None
                n1 == IF gross # None THEN copy.rate * gross ELSE copy.nativeGross
            IN  buys' = [buys EXCEPT ![m].active = FALSE, ![m].supersededBy = n,
                             ![n] = [copy EXCEPT !.gross = g1, !.fees = f1,
                                                 !.net = IF a1 THEN g1 + f1 ELSE @,
                                                 !.nativeGross = n1,
                                                 !.nativeNet = IF a1 THEN n1 + copy.rate * f1 ELSE @]]
        BY <3>2 DEF CorrectBuy
      <4>2. (gross # None \/ fees # None) = anew
        BY <1>1
      <4> QED BY <3>1, <4>1, <4>2, Zenon
    <3>4. worth' = [worth EXCEPT ![n] = w]
      BY <1>1, <1>3, <3>1, <3>2, Zenon DEF CorrectBuy
    <3>5. reversed' = IF m \in reversed /\ ~anew THEN reversed \cup {n} ELSE reversed
      BY <1>1 DEF CorrectBuy
    <3> QED BY <3>3, <3>4, <3>5
  <2>5. [copy EXCEPT !.gross = g, !.fees = f, !.net = IF anew THEN g + f ELSE @,
                     !.nativeGross = native,
                     !.nativeNet = IF anew THEN native + copy.rate * f ELSE @] = now
    BY <1>2, <1>2a, <2>2, <2>3
  <2>6. m # n
    BY <1>4, <1>5
  <2>7. [buys EXCEPT ![m].active = FALSE, ![m].supersededBy = n, ![n] = now]
          = [buys EXCEPT ![m] = was, ![n] = now]
    BY <1>1, <1>3, <1>5, <2>6 DEF BuyIInv, BuyTypeOK
  <2> QED BY <2>4, <2>5, <2>6, <2>7
<1>10. /\ buys' \in [Buys -> {None} \cup Purchases] /\ worth' \in [Buys -> Int]
       /\ \A k \in Buys : buys'[k] = IF k = n THEN now ELSE IF k = m THEN was ELSE buys[k]
       /\ \A k \in Buys : worth'[k] = IF k = n THEN w ELSE worth[k]
  BY <1>6, <1>7, <1>8, <1>9 DEF BuyIInv, BuyTypeOK
<1>11. PlacedStay
  <2> SUFFICES ASSUME NEW k, NEW e, Placed(k, e) PROVE Placed(k, e)'
    BY DEF PlacedStay
  <2>1. e.corrects # None => e.corrects \in Buys
    BY DEF Placed, Purchases, PurchaseBodies
  <2> QED BY <1>1, <1>4, <1>7, <1>10, <2>1 DEF Placed, Stored
<1>12. Sound(was, worth[m]) /\ (was.v2 /\ m \notin reversed => Unreadable(was, worth[m]) \/ Final(was, worth[m]))
  <2>1. Sound(d, worth[m]) /\ (d.v2 /\ m \notin reversed => Unreadable(d, worth[m]) \/ Final(d, worth[m]))
    BY <1>1, <1>4, <1>5 DEF Placed, BuyIInv, StoredOK
  <2> QED BY <1>7, <2>1 DEF Sound, Old, Inverted, Final, Unreadable
<1>13. Sound(now, w) /\ (now.v2 /\ n \notin reversed' => Unreadable(now, w) \/ Final(now, w))
  <2>1. CASE anew
    <3>1. Final(now, w)
      BY <1>2, <1>3, <1>8, <2>1 DEF Final
    <3> QED BY <1>8, <3>1 DEF Sound
  <2>2. CASE ~anew
    <3>1. now.gross = was.gross /\ now.net = was.net /\ now.fees = was.fees /\ w = worth[m]
      BY <1>1, <1>2, <1>3, <1>7, <1>8, <2>2
    <3>2. n \notin reversed' => m \notin reversed
      BY <1>9, <2>2
    <3> QED BY <1>7, <1>8, <1>12, <3>1, <3>2 DEF Sound, Old, Inverted, Final, Unreadable
  <2> QED BY <2>1, <2>2
<1>14. \A k \in Buys : StoredOK(k)'
  <2> SUFFICES ASSUME NEW k \in Buys, Stored(k)' PROVE StoredOK(k)'
    BY DEF StoredOK
  <2>1. CASE k = n
    <3>1. Placed(n, now)'
      BY <1>4, <1>5, <1>7, <1>8, <1>9, <1>10, <1>13 DEF Placed, Stored
    <3>2. n \in reversed' => now.v1
      BY <1>1, <1>4, <1>8, <1>9 DEF BuyIInv, StoredOK
    <3> QED BY <1>10, <1>13, <2>1, <3>1, <3>2 DEF StoredOK
  <2>2. CASE k = m
    <3>1. Placed(m, was)
      BY <1>5, <1>7, <1>12 DEF Placed
    <3>2. m \in reversed' => was.v1
      BY <1>1, <1>4, <1>7, <1>9 DEF BuyIInv, StoredOK
    <3>3. m \in reversed <=> m \in reversed'
      BY <1>9
    <3> QED BY <1>9, <1>10, <1>11, <1>12, <2>2, <3>1, <3>2, <3>3 DEF StoredOK, PlacedStay
  <2>3. CASE k # n /\ k # m
    <3>1. Stored(k) /\ (k \in reversed <=> k \in reversed')
      BY <1>9, <1>10, <2>3 DEF Stored
    <3> QED BY <1>10, <1>11, <2>3, <3>1 DEF StoredOK, BuyIInv, PlacedStay
  <2> QED BY <2>1, <2>2, <2>3
<1>15. buyRun' # None => BuyRunOK(buyRun)'
  <2>1. \A k \in Buys \ fresh : Stored(k)' =>
              /\ Stored(k) /\ buys'[k].v1 = buys[k].v1 /\ buys'[k].v2 = buys[k].v2
              /\ buys'[k].active => buys[k].active /\ buys'[k].gross = buys[k].gross
              /\ worth'[k] = worth[k]
    BY <1>1, <1>4, <1>7, <1>10 DEF Stored
  <2> QED BY <1>4, <1>11, <2>1, BuyRunStays
<1>16. (reversed \cap fresh = {})'
  BY <1>4, <1>9 DEF BuyIInv
<1>17. BuyTypeOK'
  BY <1>4, <1>10 DEF BuyTypeOK, BuyIInv
<1> QED BY <1>4, <1>11, <1>14, <1>15, <1>16, <1>17, BuysFrame

LEMMA DeleteBuyKeeps ==
    ASSUME NEW m \in Buys, NEW chain \in BOOLEAN, BuyIInv, DeleteBuy(m, chain) PROVE BuyIInv'
<1>1. PICK out : buys' = [n \in Buys |-> IF n \in out THEN None ELSE buys[n]]
  BY DEF DeleteBuy
<1>2. UNCHANGED <<fresh, worth, reversed, buySaved, buyRun, reopened>>
  BY DEF DeleteBuy, EditBuy
<1>3. \A k \in Buys : Stored(k)' => Stored(k) /\ buys'[k] = buys[k]
  BY <1>1 DEF Stored
<1>4. PlacedStay
  <2> SUFFICES ASSUME NEW k, NEW e, Placed(k, e) PROVE Placed(k, e)'
    BY DEF PlacedStay
  <2>1. e.corrects # None => e.corrects \in Buys
    BY DEF Placed, Purchases, PurchaseBodies
  <2> QED BY <1>2, <1>3, <2>1 DEF Placed
<1>5. \A k \in Buys : StoredOK(k)'
  BY <1>2, <1>3, <1>4 DEF StoredOK, BuyIInv, PlacedStay
<1>6. buyRun' # None => BuyRunOK(buyRun)'
  BY <1>2, <1>3, <1>4, BuyRunStays
<1>7. BuyTypeOK'
  BY <1>1, <1>2 DEF BuyTypeOK, BuyIInv
<1> QED BY <1>2, <1>4, <1>5, <1>6, <1>7, BuysFrame DEF BuyIInv

LEMMA BuyKeeps == BuyIInv /\ [BuyNext]_buyVars => BuyIInv'
<1> SUFFICES ASSUME BuyIInv, [BuyNext]_buyVars PROVE BuyIInv'
  OBVIOUS
<1>1. CASE UNCHANGED buyVars
  <2>1. UNCHANGED <<buys, fresh, buySaved, buyRun, worth, reversed, reopened>>
    BY <1>1 DEF buyVars
  <2>2. PlacedStay
    BY <2>1, NothingPlaced
  <2>3. buyRun' # None => BuyRunOK(buyRun)'
    BY <2>1, <2>2, BuyRunStays DEF Stored
  <2> QED BY <2>1, <2>3, BuysAlone
<1>2. CASE AuditV1 \/ AuditV2 \/ BackupV1 \/ BackupV2 \/ StartRestoreV1 \/ StartRestoreV2 \/ EndBuyRun
  BY <1>2, AuditV1Keeps, AuditV2Keeps, BackupBuysKeeps, StartRestoreKeeps, EndBuyRunKeeps
<1>3. ASSUME NEW m \in Buys, ApplyV1(m) \/ ApplyV2(m) \/ RestoreV1(m) \/ RestoreV2(m) \/ SkipBuy(m)
      PROVE  BuyIInv'
  BY <1>3, ApplyV1Keeps, ApplyV2Keeps, RestoreBuyKeeps, SkipBuyKeeps
<1>4. ASSUME NEW m \in Buys, NEW n \in Buys, NEW g \in Values \cup {None}, NEW f \in Fees \cup {None},
             CorrectBuy(m, n, g, f)
      PROVE  BuyIInv'
  BY <1>4, CorrectBuyKeeps
<1>5. ASSUME NEW m \in Buys, NEW chain \in BOOLEAN, DeleteBuy(m, chain) PROVE BuyIInv'
  BY <1>5, DeleteBuyKeeps
<1> QED BY <1>1, <1>2, <1>3, <1>4, <1>5 DEF BuyNext

LEMMA BuyImplies == BuyIInv => BuysConsistent /\ CorrectionsStand
<1> SUFFICES ASSUME BuyIInv PROVE BuysConsistent /\ CorrectionsStand
  OBVIOUS
<1>1. ASSUME NEW m \in AllBuys, ~Misread(m)
      PROVE  LET s == Shapes(worth[m], buys[m].fees)
             IN  /\ Shape(buys[m]) \in {s.old, s.inverted, s.final}
                 /\ buys[m].v2 /\ m \notin reversed => Shape(buys[m]) = s.final
  <2>1. PICK d, w : d = buys[m] /\ w = worth[m]
    OBVIOUS
  <2>2. /\ m \in Buys /\ d \in Purchases /\ w \in Int /\ Sound(d, w) /\ ~Unreadable(d, w)
        /\ d.v2 /\ m \notin reversed => Final(d, w)
    BY <1>1, <2>1 DEF AllBuys, BuyIInv, StoredOK, Placed, BuyTypeOK, Misread, Unreadable
  <2>3. Old(d, w) \/ Inverted(d, w) \/ Final(d, w)
    BY <2>2 DEF Sound
  <2> QED BY <2>1, <2>2, <2>3, ShapesAre
<1>2. CorrectionsStand
  BY DEF CorrectionsStand, AllBuys, BuyIInv, StoredOK, Placed
<1>3. ASSUME NEW m \in AllBuys, buys[m].rate = 1
      PROVE  [gross |-> buys[m].nativeGross, net |-> buys[m].nativeNet] = Shape(buys[m])
  BY <1>3, NotFresh DEF AllBuys, Purchases, InEuro, Shape
<1> QED BY <1>1, <1>2, <1>3 DEF BuysConsistent

-----------------------------------------------------------------------------
(* Costs.                                                                  *)

Canonical(c) ==
    /\ Classification(c) = "ALREADY_CANONICAL"
    /\ c.netEur = c.grossEur + FeeEur(c)

LEMMA CostAmounts ==
    ASSUME NEW c \in Costs, ~Reviewed(c)
    PROVE  /\ GrossEur(c) \in Nat /\ FeeEur(c) \in Nat
           /\ GrossEur(c) + FeeEur(c) \in Nat
           /\ c.gross \in Amounts /\ c.fee \in Amounts /\ c.feeEur \in Amounts /\ c.fx \in Amounts
           /\ c.net \in Amounts /\ c.netEur \in Amounts /\ c.grossEur \in Amounts
           /\ Known(c.gross) => c.gross \in Nat
           /\ Known(Fee(c)) => Fee(c) \in Nat
           /\ Known(c.gross) /\ Known(Fee(c)) => c.gross + Fee(c) \in Nat
<1>1. /\ c.gross \in Amounts /\ c.fee \in Amounts /\ c.feeEur \in Amounts /\ c.fx \in Amounts
      /\ c.net \in Amounts /\ c.netEur \in Amounts /\ c.grossEur \in Amounts
  BY DEF Costs
<1>2. \A i, j \in Nat : i * j \in Nat /\ i + j \in Nat
  OBVIOUS
<1>3. Known(GrossEur(c)) /\ Known(FeeEur(c))
  BY DEF Reviewed
<1>4. FeeEur(c) \in Nat
  <2>1. CASE NoFees(c) \/ (~Known(c.feeEur) /\ c.fee = 0)
    BY <2>1 DEF FeeEur
  <2>2. CASE ~(NoFees(c) \/ (~Known(c.feeEur) /\ c.fee = 0))
    <3>1. CASE ~Known(c.feeEur) /\ OwnFeeCurrency(c) /\ Rated(c)
      <4>1. c.fee \in Nat /\ c.fx \in Nat
        BY <1>1, <2>2, <3>1 DEF NoFees, Known, Amounts, Rated
      <4>2. FeeEur(c) = c.fee * c.fx
        BY <2>2, <3>1 DEF FeeEur
      <4> QED BY <1>2, <4>1, <4>2
    <3>2. CASE ~(~Known(c.feeEur) /\ OwnFeeCurrency(c) /\ Rated(c))
      <4>1. FeeEur(c) = c.feeEur
        BY <2>2, <3>2 DEF FeeEur
      <4> QED BY <1>1, <1>3, <4>1 DEF Known, Amounts
    <3> QED BY <3>1, <3>2
  <2> QED BY <2>1, <2>2
<1>5. GrossEur(c) \in Nat
  <2>1. CASE Known(c.grossEur) \/ c.gross = 0
    BY <1>1, <2>1 DEF GrossEur, Known, Amounts
  <2>2. CASE ~Known(c.grossEur) /\ c.gross # 0
    <3>1. Known(c.gross) /\ c.gross \in Nat
      BY <1>1, <1>3, <2>2 DEF GrossEur, Known, Amounts
    <3>2. CASE c.currency \notin {"", Euro} /\ Rated(c)
      <4>1. GrossEur(c) = c.gross * c.fx /\ c.fx \in Nat
        BY <1>1, <2>2, <3>1, <3>2 DEF GrossEur, Rated, Known, Amounts
      <4> QED BY <1>2, <3>1, <4>1
    <3>3. CASE ~(c.currency \notin {"", Euro} /\ Rated(c))
      <4>1. NetIsCanonical(c) /\ GrossEur(c) = c.netEur - FeeEur(c)
        BY <1>3, <2>2, <3>1, <3>3 DEF GrossEur, Known
      <4>2. c.netEur \in Nat /\ c.netEur >= FeeEur(c)
        BY <1>1, <4>1 DEF NetIsCanonical, Known, Amounts
      <4> QED BY <1>4, <4>1, <4>2
    <3> QED BY <3>2, <3>3
  <2> QED BY <2>1, <2>2
<1>6. Known(Fee(c)) => Fee(c) \in Nat
  BY <1>1 DEF Fee, Known, Amounts
<1>7. Known(c.gross) => c.gross \in Nat
  BY <1>1 DEF Known, Amounts
<1> QED BY <1>1, <1>2, <1>4, <1>5, <1>6, <1>7

(* A cost that is repaired is canonical: a second audit proposes what it   *)
(* finds.                                                                  *)
LEMMA RepairedCost ==
    ASSUME NEW c \in Costs, ~Reviewed(c)
    PROVE  Proposed(c) \in Costs /\ Canonical(Proposed(c))
<1>1. PICK e, ge, fe, ne, native :
        /\ e = Proposed(c) /\ ge = GrossEur(c) /\ fe = FeeEur(c) /\ ne = ge + fe
        /\ native = (Known(c.gross) /\ Known(Fee(c)) /\ c.currency # "" /\ OwnFeeCurrency(c))
  OBVIOUS
<1>2. PICK feeEur, net, netCurrency, status :
        /\ feeEur = IF NoFees(c) THEN c.feeEur ELSE fe
        /\ net = IF native THEN c.gross + Fee(c) ELSE c.net
        /\ netCurrency = IF native THEN c.currency ELSE c.netCurrency
        /\ status = IF ne = 0 THEN "ZERO_COST" ELSE "COMPLETE"
  OBVIOUS
<1>3. e = [c EXCEPT !.grossEur = ge, !.feeEur = feeEur, !.netEur = ne, !.net = net,
                    !.netCurrency = netCurrency, !.status = status]
  BY <1>1, <1>2 DEF Proposed
<1>4. /\ ge \in Nat /\ fe \in Nat /\ ne \in Nat /\ feeEur \in Amounts /\ net \in Amounts
      /\ netCurrency \in STRING /\ status \in {"COMPLETE", "ZERO_COST"}
  <2>1. c.netCurrency \in STRING /\ c.currency \in STRING
    BY DEF Costs
  <2>2. ge \in Nat /\ fe \in Nat /\ ne \in Nat
    BY <1>1, CostAmounts
  <2>3. feeEur \in Amounts /\ net \in Amounts
    BY <1>1, <1>2, <2>2, CostAmounts DEF Amounts
  <2>4. netCurrency \in STRING
    BY <1>2, <2>1
  <2>5. status \in {"COMPLETE", "ZERO_COST"}
    BY <1>2
  <2> QED BY <2>2, <2>3, <2>4, <2>5
<1>5. /\ e \in Costs /\ e.gross = c.gross /\ e.grossEur = ge /\ e.currency = c.currency
      /\ e.fee = c.fee /\ e.feeEur = feeEur /\ e.feeCurrency = c.feeCurrency /\ e.net = net
      /\ e.netEur = ne /\ e.netCurrency = netCurrency /\ e.fx = c.fx /\ e.status = status
  BY <1>3, <1>4 DEF Costs, Amounts
<1>6. Known(ge) /\ Known(fe) /\ Known(ne)
  BY <1>4, LegRepairAssumption DEF Known
<1>7. /\ NoFees(e) <=> NoFees(c)
      /\ Fee(e) = Fee(c)
      /\ OwnFeeCurrency(e) <=> OwnFeeCurrency(c)
      /\ NoFees(c) => feeEur = None
      /\ ~NoFees(c) => feeEur = fe
  BY <1>2, <1>5, <1>6 DEF NoFees, Fee, OwnFeeCurrency, Known
<1>8. FeeEur(e) = fe
  <2>1. CASE NoFees(c)
    BY <1>1, <1>7, <2>1 DEF FeeEur
  <2>2. CASE ~NoFees(c)
    BY <1>5, <1>6, <1>7, <2>2 DEF FeeEur
  <2> QED BY <2>1, <2>2
<1>9. GrossEur(e) = ge
  BY <1>5, <1>6 DEF GrossEur
<1>10. ~Reviewed(e)
  <2>1. ~MixedFees(e)
    BY <1>5, <1>6, <1>7 DEF MixedFees
  <2>2. ~ForeignNet(e)
    <3>1. CASE native
      BY <1>1, <1>2, <1>5, <3>1 DEF ForeignNet, Or
    <3>2. CASE ~native
      <4>1. ~ForeignNet(c)
        BY DEF Reviewed
      <4> QED BY <1>2, <1>5, <3>2, <4>1 DEF ForeignNet
    <3> QED BY <3>1, <3>2
  <2>3. ~WrongNet(e)
    <3>1. ~WrongNet(c)
      BY DEF Reviewed
    <3> QED BY <1>2, <1>5, <1>7, <3>1 DEF WrongNet
  <2> QED BY <1>6, <1>8, <1>9, <2>1, <2>2, <2>3 DEF Reviewed
<1>11. Proposed(e) = e
  <2>1. native = (Known(e.gross) /\ Known(Fee(e)) /\ e.currency # "" /\ OwnFeeCurrency(e))
    BY <1>1, <1>5, <1>7
  <2>2. /\ (IF NoFees(e) THEN e.feeEur ELSE FeeEur(e)) = e.feeEur
        /\ GrossEur(e) = e.grossEur /\ GrossEur(e) + FeeEur(e) = e.netEur
        /\ (IF native THEN e.gross + Fee(e) ELSE e.net) = e.net
        /\ (IF native THEN e.currency ELSE e.netCurrency) = e.netCurrency
        /\ (IF e.netEur = 0 THEN "ZERO_COST" ELSE "COMPLETE") = e.status
    BY <1>1, <1>2, <1>5, <1>7, <1>8, <1>9
  <2>3. Proposed(e) = [e EXCEPT !.grossEur = e.grossEur, !.feeEur = e.feeEur, !.netEur = e.netEur,
                                !.net = e.net, !.netCurrency = e.netCurrency, !.status = e.status]
    BY <2>1, <2>2 DEF Proposed
  <2> QED BY <1>5, <2>3 DEF Costs
<1>12. Canonical(e)
  BY <1>1, <1>5, <1>8, <1>10, <1>11 DEF Canonical, Classification
<1> QED BY <1>1, <1>5, <1>12
-----------------------------------------------------------------------------
(* Legs, plans and backups.                                                *)

Plans == UNION {LegPlans(planned) : planned \in SUBSET Legs}

LEMMA PlansAre ==
    /\ None \notin Plans
    /\ \A p \in Plans : /\ DOMAIN p.tags \subseteq Legs
                        /\ \A m \in DOMAIN p.tags : p.tags[m] \in Nat
    /\ \A planned \in SUBSET Legs : \A tags \in [planned -> Nat], force \in BOOLEAN :
          /\ [script |-> "cost", force |-> force, tags |-> tags] \in Plans
          /\ [script |-> "fmv", force |-> force, tags |-> tags] \in Plans
<1>1. None \notin Plans
  BY LegRepairAssumption DEF Plans
<1>2. ASSUME NEW p \in Plans
      PROVE  /\ DOMAIN p.tags \subseteq Legs
             /\ \A m \in DOMAIN p.tags : p.tags[m] \in Nat
  <2>1. PICK planned \in SUBSET Legs : p \in LegPlans(planned)
    BY DEF Plans
  <2> QED BY <2>1 DEF LegPlans
<1>3. ASSUME NEW planned \in SUBSET Legs, NEW tags \in [planned -> Nat], NEW force \in BOOLEAN
      PROVE  /\ [script |-> "cost", force |-> force, tags |-> tags] \in LegPlans(planned)
             /\ [script |-> "fmv", force |-> force, tags |-> tags] \in LegPlans(planned)
  BY DEF LegPlans
<1> QED BY <1>1, <1>2, <1>3 DEF Plans

IsLeg(d) ==
    /\ d \in [cost : Costs, marker : {d.marker}, fmv : {d.fmv}, security : Nat, active : BOOLEAN,
              linked : BOOLEAN, tag : Nat]
    /\ d.marker # None => Canonical(d.cost)

Before(m, plans, plan) == {p \in plans : p.tags[m] < plan.tags[m]}

(* What a run saved of a leg is the leg itself for as long as its ETag is  *)
(* the saved one; and while what the run wrote stands, the saved marker    *)
(* names the last plan that wrote before it.                               *)
SavedOK(plan, m, d) ==
    /\ IsLeg(d)
    /\ d.tag = plan.tags[m] /\ d.tag <= legs[m].tag
    /\ d.tag = legs[m].tag => d = legs[m]
    /\ plan \in standing[m].cost => LastOf(m, d.marker, Before(m, standing[m].cost, plan))
    /\ plan \in standing[m].fmv => LastOf(m, d.fmv, Before(m, standing[m].fmv, plan))

BackupOK(plan, docs) ==
    /\ plan \in Plans /\ DOMAIN docs \subseteq DOMAIN plan.tags
    /\ \A m \in DOMAIN docs : SavedOK(plan, m, docs[m])

StandOK(m) ==
    /\ standing[m] \in [cost : SUBSET Plans, fmv : SUBSET Plans]
    /\ \A p \in standing[m].cost \cup standing[m].fmv :
          p.tags[m] \in Nat /\ p.tags[m] < legs[m].tag
    /\ LastOf(m, legs[m].marker, standing[m].cost)
    /\ LastOf(m, legs[m].fmv, standing[m].fmv)
    /\ legs[m].security = pointed[m]

(* A leg that is as it was planned is still to be repaired.                *)
PlannedOK(plan, m) ==
    /\ plan.tags[m] <= legs[m].tag
    /\ plan.script = "cost" /\ plan.tags[m] = legs[m].tag => ~Reviewed(legs[m].cost)

LegRunOK(r) ==
    /\ r \in [plan : {r.plan}, pc : {"backup", "apply", "restore"}, todo : SUBSET Legs, from : {r.from}]
    /\ r.plan \in Plans /\ r.todo \subseteq DOMAIN r.plan.tags
    /\ r.pc = "restore" => BackupOK(r.plan, r.from) /\ r.todo \subseteq DOMAIN r.from
    /\ r.pc # "restore" => \A m \in r.todo : PlannedOK(r.plan, m)

LegIInv ==
    /\ DOMAIN legs = Legs /\ DOMAIN standing = Legs /\ DOMAIN pointed = Legs
    /\ legs = [m \in Legs |-> legs[m]] /\ standing = [m \in Legs |-> standing[m]]
    /\ pointed = [m \in Legs |-> pointed[m]]
    /\ \A m \in Legs : IsLeg(legs[m]) /\ StandOK(m)
    /\ IsList(legSaved)
    /\ \A b \in DOMAIN legSaved : BackupOK(legSaved[b].plan, legSaved[b].docs)
    /\ legRun # None => LegRunOK(legRun)

LEMMA LegImplies == LegIInv => LegWritesStand /\ RepairedOnce
BY DEF LegIInv, LegWritesStand, RepairedOnce, StandOK, IsLeg, Canonical

LEMMA LegInitial == LegInit => LegIInv
<1> SUFFICES ASSUME LegInit PROVE LegIInv
  OBVIOUS
<1>1. legs \in [Legs -> UnrepairedLegs]
  BY LegRepairAssumption DEF LegInit
<1>2. \A m \in Legs : IsLeg(legs[m])
  BY <1>1 DEF UnrepairedLegs, IsLeg
<1>3. \A m \in Legs : StandOK(m)
  BY <1>1 DEF LegInit, StandOK, LastOf, UnrepairedLegs
<1> QED BY <1>1, <1>2, <1>3, NoneSaved DEF LegIInv, LegInit

-----------------------------------------------------------------------------
(* Steps that leave the legs alone.                                        *)

LEMMA LegsAlone ==
    ASSUME LegIInv, UNCHANGED <<legs, legSaved, standing, pointed>>,
           legRun' # None => LegRunOK(legRun)'
    PROVE  LegIInv'
<1>1. \A plan, docs : BackupOK(plan, docs) => BackupOK(plan, docs)'
  BY DEF BackupOK, SavedOK
<1>2. (\A b \in DOMAIN legSaved : BackupOK(legSaved[b].plan, legSaved[b].docs))'
  BY <1>1 DEF LegIInv
<1>3. \A m \in Legs : StandOK(m)'
  BY DEF LegIInv, StandOK
<1> QED BY <1>2, <1>3 DEF LegIInv

LEMMA TagsAre == LegIInv => \A m \in Legs : legs[m].tag \in Nat /\ legs[m].cost \in Costs
BY DEF LegIInv, IsLeg

LEMMA PlanKeeps ==
    ASSUME LegIInv, UNCHANGED <<legs, legSaved, standing, pointed>>,
           NEW by \in {"cost", "fmv"}, NEW force \in BOOLEAN, NEW planned \in SUBSET Legs,
           by = "cost" => \A m \in planned : ~Reviewed(legs[m].cost),
           legRun' = [plan |-> Plan(by, force, planned), pc |-> "backup", todo |-> planned,
                      from |-> <<>>]
    PROVE  LegIInv'
<1>1. PICK r, p : r = legRun' /\ p = Plan(by, force, planned)
  OBVIOUS
<1>2. PICK tags : tags = [m \in planned |-> legs[m].tag]
  OBVIOUS
<1>3. p = [script |-> by, force |-> force, tags |-> tags] /\ tags \in [planned -> Nat]
  BY <1>1, <1>2, TagsAre DEF Plan
<1>4. p \in Plans /\ p.script = by /\ DOMAIN p.tags = planned
      /\ \A m \in planned : p.tags[m] = legs[m].tag
  BY <1>2, <1>3, PlansAre
<1>5. r = [plan |-> p, pc |-> "backup", todo |-> planned, from |-> <<>>]
  BY <1>1
<1>6. \A m \in planned : PlannedOK(p, m)'
  BY <1>4, TagsAre DEF PlannedOK
<1>7. LegRunOK(r)'
  BY <1>4, <1>5, <1>6 DEF LegRunOK
<1> QED BY <1>1, <1>7, LegsAlone

LEMMA PlanCostsKeeps == LegIInv /\ PlanCosts => LegIInv'
<1> SUFFICES ASSUME LegIInv, PlanCosts PROVE LegIInv'
  OBVIOUS
<1>1. PICK planned \in SUBSET WantedCosts :
         legRun' = [plan |-> Plan("cost", FALSE, planned), pc |-> "backup", todo |-> planned,
                    from |-> <<>>]
  BY DEF PlanCosts
<1>2. planned \in SUBSET Legs /\ \A m \in planned : ~Reviewed(legs[m].cost)
  BY DEF WantedCosts, Classification
<1> QED BY <1>1, <1>2, PlanKeeps DEF PlanCosts, StartLegRun

LEMMA PlanFmvsKeeps == LegIInv /\ PlanFmvs => LegIInv'
<1> SUFFICES ASSUME LegIInv, PlanFmvs PROVE LegIInv'
  OBVIOUS
<1>1. PICK force \in BOOLEAN : \E planned \in SUBSET WantedFmvs(force) :
         legRun' = [plan |-> Plan("fmv", force, planned), pc |-> "backup", todo |-> planned,
                    from |-> <<>>]
  BY DEF PlanFmvs
<1>2. PICK planned \in SUBSET WantedFmvs(force) :
         legRun' = [plan |-> Plan("fmv", force, planned), pc |-> "backup", todo |-> planned,
                    from |-> <<>>]
  BY <1>1
<1>3. planned \in SUBSET Legs
  BY DEF WantedFmvs
<1> QED BY <1>2, <1>3, PlanKeeps DEF PlanFmvs, StartLegRun

LEMMA ReadLegBackupKeeps == ASSUME NEW by, LegIInv, ReadLegBackup(by) PROVE LegIInv'
<1>1. PICK b \in DOMAIN legSaved :
         legRun' = [plan |-> legSaved[b].plan, pc |-> "restore", todo |-> DOMAIN legSaved[b].docs,
                    from |-> legSaved[b].docs]
  BY DEF ReadLegBackup
<1>2. PICK r, p, docs : r = legRun' /\ p = legSaved[b].plan /\ docs = legSaved[b].docs
  OBVIOUS
<1>3. BackupOK(p, docs) /\ UNCHANGED <<legs, legSaved, standing, pointed>>
  BY <1>2 DEF LegIInv, ReadLegBackup, StartLegRun
<1>4. BackupOK(p, docs)'
  BY <1>3 DEF BackupOK, SavedOK
<1>5. r = [plan |-> p, pc |-> "restore", todo |-> DOMAIN docs, from |-> docs]
  BY <1>1, <1>2
<1>6. p \in Plans /\ DOMAIN docs \subseteq DOMAIN p.tags /\ DOMAIN docs \in SUBSET Legs
  BY <1>3, PlansAre DEF BackupOK
<1>7. LegRunOK(r)'
  BY <1>4, <1>5, <1>6 DEF LegRunOK
<1> QED BY <1>2, <1>3, <1>7, LegsAlone

LEMMA SaveLegsKeeps == LegIInv /\ legRun # None /\ legRun.pc = "backup" /\ SaveLegs => LegIInv'
<1> SUFFICES ASSUME LegIInv, legRun # None, legRun.pc = "backup", SaveLegs PROVE LegIInv'
  OBVIOUS
<1>1. PICK r, s, docs : r = legRun /\ s = legRun' /\ docs = [m \in legRun.todo |-> legs[m]]
  OBVIOUS
<1>2. /\ LegRunOK(r) /\ r.pc = "backup" /\ s = [r EXCEPT !.pc = "apply"]
      /\ \A m \in r.todo : legs[m].tag = r.plan.tags[m]
      /\ docs = [m \in r.todo |-> legs[m]]
      /\ legSaved' = Append(legSaved, [plan |-> r.plan, docs |-> docs])
      /\ UNCHANGED <<legs, standing, pointed>>
  BY <1>1 DEF SaveLegs, AsPlanned, LegIInv
<1>3. r.plan \in Plans /\ r.todo \subseteq DOMAIN r.plan.tags /\ r.todo \subseteq Legs
  BY <1>2 DEF LegRunOK
<1>4. BackupOK(r.plan, docs)
  <2> SUFFICES ASSUME NEW m \in r.todo PROVE SavedOK(r.plan, m, legs[m])
    BY <1>2, <1>3 DEF BackupOK
  <2>1. IsLeg(legs[m]) /\ legs[m].tag \in Nat /\ StandOK(m)
    BY <1>3, TagsAre DEF LegIInv
  <2>2. r.plan \notin standing[m].cost \cup standing[m].fmv
    BY <1>2, <2>1 DEF StandOK
  <2> QED BY <1>2, <2>1, <2>2 DEF SavedOK
<1>5. IsList(legSaved') /\ \A b \in DOMAIN legSaved' : BackupOK(legSaved'[b].plan, legSaved'[b].docs)
  <2>1. PICK e : e = [plan |-> r.plan, docs |-> docs]
    OBVIOUS
  <2>2. IsList(legSaved) /\ legSaved' = Append(legSaved, e) /\ e.plan = r.plan /\ e.docs = docs
    BY <1>2, <2>1 DEF LegIInv
  <2>3. Extends(legSaved', legSaved, e)
    BY <2>2, Saved
  <2> QED BY <1>4, <2>2, <2>3 DEF LegIInv, Extends
<1>6. \A plan, d : BackupOK(plan, d) => BackupOK(plan, d)'
  BY <1>2 DEF BackupOK, SavedOK
<1>7. (\A b \in DOMAIN legSaved : BackupOK(legSaved[b].plan, legSaved[b].docs))'
  BY <1>5, <1>6
<1>8. LegRunOK(s)'
  <2>1. r \in [plan : {r.plan}, pc : {"backup", "apply", "restore"}, todo : SUBSET Legs, from : {r.from}]
    BY <1>2 DEF LegRunOK
  <2>2. /\ s \in [plan : {s.plan}, pc : {"backup", "apply", "restore"}, todo : SUBSET Legs, from : {s.from}]
        /\ s.plan = r.plan /\ s.pc = "apply" /\ s.todo = r.todo /\ s.from = r.from
    BY <1>2, <2>1
  <2>3. \A m \in r.todo : PlannedOK(r.plan, m)'
    BY <1>2 DEF LegRunOK, PlannedOK
  <2> QED BY <1>3, <2>2, <2>3 DEF LegRunOK
<1>9. \A m \in Legs : StandOK(m)'
  BY <1>2 DEF LegIInv, StandOK
<1> QED BY <1>1, <1>2, <1>5, <1>7, <1>8, <1>9 DEF LegIInv
-----------------------------------------------------------------------------
(* Steps that write a leg.                                                 *)

(* A write of leg m leaves it with another ETag, and what the plans that   *)
(* stand for it found before them is what their backups have.              *)
Writes(m, d, costs, fmvs, security) ==
    /\ m \in Legs /\ IsLeg(d) /\ d.tag = legs[m].tag + 1
    /\ legs' = [legs EXCEPT ![m] = d]
    /\ standing' = [standing EXCEPT ![m] = [cost |-> costs, fmv |-> fmvs]]
    /\ pointed' = [pointed EXCEPT ![m] = security]
    /\ d.security = security
    /\ costs \subseteq Plans /\ fmvs \subseteq Plans
    /\ \A p \in costs \cup fmvs : p.tags[m] \in Nat /\ p.tags[m] <= legs[m].tag
    /\ LastOf(m, d.marker, costs) /\ LastOf(m, d.fmv, fmvs)
    /\ \A p, e : SavedOK(p, m, e) =>
          /\ p \in costs => LastOf(m, e.marker, Before(m, costs, p))
          /\ p \in fmvs => LastOf(m, e.fmv, Before(m, fmvs, p))

LEMMA LegsWritten ==
    ASSUME LegIInv, NEW m, NEW d, NEW costs, NEW fmvs, NEW security,
           Writes(m, d, costs, fmvs, security)
    PROVE  /\ \A k \in Legs : IsLeg(legs[k])' /\ StandOK(k)'
           /\ \A p, docs : BackupOK(p, docs) => BackupOK(p, docs)'
           /\ \A p \in Plans : \A k \in DOMAIN p.tags :
                 k \in Legs /\ PlannedOK(p, k) => PlannedOK(p, k)'
<1>1. /\ m \in Legs /\ legs'[m] = d /\ pointed'[m] = security
      /\ standing'[m] = [cost |-> costs, fmv |-> fmvs]
      /\ \A k \in Legs \ {m} : legs'[k] = legs[k] /\ standing'[k] = standing[k] /\ pointed'[k] = pointed[k]
  BY DEF Writes, LegIInv
<1>2. legs[m].tag \in Nat /\ d.tag = legs[m].tag + 1 /\ \A k \in Legs : legs[k].tag \in Nat
  BY <1>1, TagsAre DEF Writes
<1>3. ASSUME NEW k \in Legs PROVE IsLeg(legs[k])' /\ StandOK(k)'
  <2>1. CASE k = m
    <3>1. IsLeg(legs[k])'
      BY <1>1, <2>1 DEF Writes, IsLeg
    <3>2. \A p \in costs \cup fmvs : p.tags[m] \in Nat /\ p.tags[m] < d.tag
      BY <1>2 DEF Writes
    <3>3. standing'[m] \in [cost : SUBSET Plans, fmv : SUBSET Plans]
      BY <1>1 DEF Writes, Plans
    <3>4. standing'[m].cost = costs /\ standing'[m].fmv = fmvs
      BY <1>1
    <3>5. LastOf(m, legs'[m].marker, standing'[m].cost) /\ LastOf(m, legs'[m].fmv, standing'[m].fmv)
      BY <1>1, <3>4 DEF Writes
    <3>6. StandOK(m)'
      BY <1>1, <3>2, <3>3, <3>4, <3>5 DEF StandOK, Plans, LastOf, Writes
    <3> QED BY <2>1, <3>1, <3>6
  <2>2. CASE k # m
    <3>1. IsLeg(legs[k]) /\ StandOK(k)
      BY DEF LegIInv
    <3> QED BY <1>1, <2>2, <3>1 DEF IsLeg, StandOK, LastOf
  <2> QED BY <2>1, <2>2
<1>4. ASSUME NEW p \in Plans, NEW k \in Legs, NEW e, SavedOK(p, k, e) PROVE SavedOK(p, k, e)'
  <2>1. CASE k = m
    <3>1. e.tag \in Nat
      BY <1>4 DEF SavedOK, IsLeg
    <3>2. e.tag < d.tag /\ e.tag <= d.tag /\ e.tag # d.tag
      BY <1>2, <1>4, <2>1, <3>1 DEF SavedOK
    <3>3. standing'[m].cost = costs /\ standing'[m].fmv = fmvs
      BY <1>1
    <3>4. /\ p \in costs => LastOf(m, e.marker, Before(m, costs, p))
          /\ p \in fmvs => LastOf(m, e.fmv, Before(m, fmvs, p))
      BY <1>4, <2>1 DEF Writes
    <3> QED BY <1>1, <1>4, <2>1, <3>2, <3>3, <3>4 DEF SavedOK
  <2>2. CASE k # m
    BY <1>1, <1>4, <2>2 DEF SavedOK
  <2> QED BY <2>1, <2>2
<1>5. ASSUME NEW p \in Plans, NEW k \in DOMAIN p.tags, k \in Legs, PlannedOK(p, k)
      PROVE  PlannedOK(p, k)'
  <2>1. p.tags[k] \in Nat
    BY <1>5, PlansAre
  <2>2. CASE k = m
    <3>1. p.tags[k] < d.tag /\ p.tags[k] <= d.tag /\ p.tags[k] # d.tag
      BY <1>2, <1>5, <2>1, <2>2 DEF PlannedOK
    <3> QED BY <1>1, <2>2, <3>1 DEF PlannedOK
  <2>3. CASE k # m
    BY <1>1, <1>5, <2>3 DEF PlannedOK
  <2> QED BY <2>2, <2>3
<1>6. ASSUME NEW p, NEW docs, BackupOK(p, docs) PROVE BackupOK(p, docs)'
  <2>1. p \in Plans /\ DOMAIN docs \subseteq Legs /\ DOMAIN docs \subseteq DOMAIN p.tags
    BY <1>6, PlansAre DEF BackupOK
  <2> QED BY <1>4, <1>6, <2>1 DEF BackupOK, Plans
<1> QED BY <1>3, <1>5, <1>6

LEMMA LegsKept ==
    ASSUME LegIInv, NEW m, NEW d, NEW costs, NEW fmvs, NEW security,
           Writes(m, d, costs, fmvs, security), UNCHANGED legSaved,
           legRun' # None => LegRunOK(legRun)'
    PROVE  LegIInv'
<1>1. /\ \A k \in Legs : IsLeg(legs[k])' /\ StandOK(k)'
      /\ \A p, docs : BackupOK(p, docs) => BackupOK(p, docs)'
  BY LegsWritten
<1>2. (\A b \in DOMAIN legSaved : BackupOK(legSaved[b].plan, legSaved[b].docs))'
  BY <1>1 DEF LegIInv
<1>3. /\ (DOMAIN legs = Legs /\ DOMAIN standing = Legs /\ DOMAIN pointed = Legs)'
      /\ (legs = [k \in Legs |-> legs[k]])' /\ (standing = [k \in Legs |-> standing[k]])'
      /\ (pointed = [k \in Legs |-> pointed[k]])'
  BY DEF Writes, LegIInv
<1>4. IsList(legSaved)'
  BY DEF LegIInv
<1> QED BY <1>1, <1>2, <1>3, <1>4 DEF LegIInv

(* A run that has dealt with a leg, and one that others write beside.      *)
LEMMA LegRunGoesOn ==
    ASSUME NEW r, NEW s, LegRunOK(r), NEW todo \in SUBSET r.todo, s = [r EXCEPT !.todo = todo],
           \A p, docs : BackupOK(p, docs) => BackupOK(p, docs)',
           \A p \in Plans : \A k \in DOMAIN p.tags : k \in Legs /\ PlannedOK(p, k) => PlannedOK(p, k)'
    PROVE  LegRunOK(s)'
<1>1. r \in [plan : {r.plan}, pc : {"backup", "apply", "restore"}, todo : SUBSET Legs, from : {r.from}]
      /\ r.plan \in Plans /\ r.todo \subseteq DOMAIN r.plan.tags
  BY DEF LegRunOK
<1>2. /\ s \in [plan : {s.plan}, pc : {"backup", "apply", "restore"}, todo : SUBSET Legs, from : {s.from}]
      /\ s.plan = r.plan /\ s.pc = r.pc /\ s.todo = todo /\ s.from = r.from
  BY <1>1
<1>3. s.pc = "restore" => BackupOK(s.plan, s.from)' /\ s.todo \subseteq DOMAIN s.from
  BY <1>2 DEF LegRunOK
<1>4. s.pc # "restore" => \A m \in s.todo : PlannedOK(s.plan, m)'
  BY <1>1, <1>2 DEF LegRunOK
<1> QED BY <1>1, <1>2, <1>3, <1>4 DEF LegRunOK, Plans

LEMMA LegSkipped ==
    ASSUME LegIInv, legRun # None, NEW m, LegDone(m), UNCHANGED <<legs, legSaved, standing, pointed>>
    PROVE  LegIInv'
<1>1. PICK r, s : r = legRun /\ s = legRun'
  OBVIOUS
<1>2. LegRunOK(r) /\ s = [r EXCEPT !.todo = r.todo \ {m}]
  BY <1>1 DEF LegDone, LegIInv
<1>3. /\ \A p, docs : BackupOK(p, docs) => BackupOK(p, docs)'
      /\ \A p \in Plans : \A k \in DOMAIN p.tags : k \in Legs /\ PlannedOK(p, k) => PlannedOK(p, k)'
  BY DEF BackupOK, SavedOK, PlannedOK
<1>4. LegRunOK(s)'
  BY <1>2, <1>3, LegRunGoesOn
<1> QED BY <1>1, <1>4, LegsAlone

(* The application writes a leg and no plan.                               *)
LEMMA OthersWrite ==
    ASSUME LegIInv, NEW m \in Legs, NEW d, NEW security, d.security = security,
           IsLeg(d), d.tag = legs[m].tag + 1, d.marker = legs[m].marker, d.fmv = legs[m].fmv,
           legs' = [legs EXCEPT ![m] = d], pointed' = [pointed EXCEPT ![m] = security],
           UNCHANGED <<legSaved, legRun, standing>>
    PROVE  LegIInv'
<1>1. PICK costs, fmvs : costs = standing[m].cost /\ fmvs = standing[m].fmv
  OBVIOUS
<1>2. StandOK(m) /\ legs[m].tag \in Nat
  BY TagsAre DEF LegIInv
<1>3. standing' = [standing EXCEPT ![m] = [cost |-> costs, fmv |-> fmvs]]
  BY <1>1, <1>2 DEF StandOK, LegIInv
<1>4. \A p \in costs \cup fmvs : p.tags[m] \in Nat /\ p.tags[m] <= legs[m].tag
  BY <1>1, <1>2 DEF StandOK
<1>5. costs \subseteq Plans /\ fmvs \subseteq Plans
  BY <1>1, <1>2 DEF StandOK
<1>6. Writes(m, d, costs, fmvs, security)
  BY <1>1, <1>2, <1>3, <1>4, <1>5 DEF Writes, StandOK, SavedOK
<1>7. legRun' # None => LegRunOK(legRun)'
  <2> SUFFICES ASSUME legRun' # None PROVE LegRunOK(legRun)'
    OBVIOUS
  <2>1. PICK r : r = legRun /\ r = legRun'
    OBVIOUS
  <2>2. LegRunOK(r) /\ r = [r EXCEPT !.todo = r.todo]
    BY <2>1 DEF LegIInv, LegRunOK
  <2>3. LegRunOK(r)'
    BY <1>6, <2>2, LegsWritten, LegRunGoesOn
  <2> QED BY <2>1, <2>3
<1> QED BY <1>6, <1>7, LegsKept

LEMMA SupersedeKeeps == ASSUME NEW m \in Legs, LegIInv, Supersede(m) PROVE LegIInv'
<1>1. PICK d, tag : tag = legs[m].tag + 1 /\ d = [legs[m] EXCEPT !.active = FALSE, !.tag = tag]
  OBVIOUS
<1>2. IsLeg(legs[m]) /\ tag \in Nat /\ legs[m].security = pointed[m]
  BY <1>1, TagsAre DEF LegIInv, StandOK
<1>3. legs' = [legs EXCEPT ![m] = d] /\ UNCHANGED <<legSaved, legRun, standing, pointed>>
  BY <1>1, <1>2 DEF Supersede, WriteLeg, IsLeg
<1>4. /\ IsLeg(d) /\ d.tag = tag /\ d.marker = legs[m].marker /\ d.fmv = legs[m].fmv
      /\ d.security = pointed[m]
  BY <1>1, <1>2 DEF IsLeg
<1>5. pointed' = [pointed EXCEPT ![m] = pointed[m]]
  BY <1>3 DEF LegIInv
<1> QED BY <1>1, <1>3, <1>4, <1>5, OthersWrite

LEMMA RepointKeeps == ASSUME NEW m \in Legs, LegIInv, Repoint(m) PROVE LegIInv'
<1>1. PICK d, tag, to : /\ tag = legs[m].tag + 1 /\ to = legs[m].security + 1
                        /\ d = [legs[m] EXCEPT !.security = to, !.tag = tag]
  OBVIOUS
<1>2. IsLeg(legs[m]) /\ tag \in Nat /\ to \in Nat /\ legs[m].security = pointed[m]
  <2>1. IsLeg(legs[m]) /\ legs[m].security = pointed[m] /\ legs[m].tag \in Nat
    BY TagsAre DEF LegIInv, StandOK
  <2>2. legs[m].security \in Nat
    BY <2>1 DEF IsLeg
  <2> QED BY <1>1, <2>1, <2>2
<1>3. legs' = [legs EXCEPT ![m] = d] /\ UNCHANGED <<legSaved, legRun, standing>>
  BY <1>1, <1>2 DEF Repoint, WriteLeg, IsLeg
<1>4. /\ IsLeg(d) /\ d.tag = tag /\ d.marker = legs[m].marker /\ d.fmv = legs[m].fmv
      /\ d.security = to
  BY <1>1, <1>2 DEF IsLeg
<1>5. pointed' = [pointed EXCEPT ![m] = to]
  BY <1>1, <1>2 DEF Repoint
<1> QED BY <1>1, <1>3, <1>4, <1>5, OthersWrite
-----------------------------------------------------------------------------
(* What a plan finds before it, when it is added to the standing ones or   *)
(* taken from them.                                                        *)

LEMMA Newer ==
    ASSUME NEW m, NEW plans, NEW plan, NEW all, all = plans \cup {plan}, plan.tags[m] \in Nat,
           \A p \in plans : p.tags[m] \in Nat /\ p.tags[m] < plan.tags[m]
    PROVE  /\ LastOf(m, plan, all)
           /\ Before(m, all, plan) = plans
           /\ \A p \in plans : Before(m, all, p) = Before(m, plans, p)
<1>1. plan \notin plans /\ ~(plan.tags[m] < plan.tags[m])
  OBVIOUS
<1>2. \A p \in plans : ~(plan.tags[m] < p.tags[m])
  OBVIOUS
<1> QED BY <1>1, <1>2 DEF LastOf, Before

LEMMA Older ==
    ASSUME NEW m, NEW plans, NEW plan \in plans, LastOf(m, plan, plans),
           \A p \in plans : p.tags[m] \in Nat
    PROVE  /\ plans \ {plan} = Before(m, plans, plan)
           /\ \A p \in plans \ {plan} : Before(m, plans \ {plan}, p) = Before(m, plans, p)
<1>1. \A p \in plans \ {plan} : p.tags[m] < plan.tags[m] /\ ~(plan.tags[m] < p.tags[m])
  BY DEF LastOf
<1>2. ~(plan.tags[m] < plan.tags[m])
  OBVIOUS
<1> QED BY <1>1, <1>2 DEF Before

(* A run writes to a leg as it was planned.                                *)
LEMMA AppliedPlan ==
    ASSUME LegIInv, NEW r, LegRunOK(r), NEW m \in r.todo, legs[m].tag = r.plan.tags[m]
    PROVE  /\ m \in Legs /\ IsLeg(legs[m]) /\ StandOK(m) /\ legs[m].tag \in Nat /\ legs[m].tag + 1 \in Nat
           /\ r.plan \in Plans /\ r.plan.tags[m] \in Nat
           /\ \A p \in standing[m].cost : p.tags[m] \in Nat /\ p.tags[m] < r.plan.tags[m]
           /\ \A p \in standing[m].fmv : p.tags[m] \in Nat /\ p.tags[m] < r.plan.tags[m]
           /\ \A e : SavedOK(r.plan, m, e) => e = legs[m]
<1>1. m \in Legs /\ r.plan \in Plans
  BY DEF LegRunOK
<1>2. IsLeg(legs[m]) /\ StandOK(m) /\ legs[m].tag \in Nat
  BY <1>1, TagsAre DEF LegIInv
<1> QED BY <1>1, <1>2 DEF StandOK, SavedOK

LEMMA ApplyCostKeeps == ASSUME NEW m \in Legs, LegIInv, ApplyCost(m) PROVE LegIInv'
<1>1. PICK r, s, plan : r = legRun /\ s = legRun' /\ plan = r.plan
  OBVIOUS
<1>2. /\ LegRunOK(r) /\ r.pc = "apply" /\ plan.script = "cost" /\ m \in r.todo
      /\ s = [r EXCEPT !.todo = r.todo \ {m}] /\ UNCHANGED <<legSaved, pointed>>
  BY <1>1 DEF ApplyCost, LegAt, LegDone, LegIInv
<1>3. CASE ~AsPlanned(m)
  BY <1>3, LegSkipped DEF ApplyCost, LegAt
<1>4. CASE AsPlanned(m)
  <2>1. PICK cost, tag, costs, fmvs, d :
          /\ cost = Proposed(legs[m].cost) /\ tag = legs[m].tag + 1
          /\ costs = standing[m].cost \cup {plan} /\ fmvs = standing[m].fmv
          /\ d = [legs[m] EXCEPT !.cost = cost, !.marker = plan, !.tag = tag]
    OBVIOUS
  <2>2. legs[m].tag = plan.tags[m]
    BY <1>1, <1>4 DEF AsPlanned
  <2>3. /\ IsLeg(legs[m]) /\ StandOK(m) /\ legs[m].tag \in Nat /\ tag \in Nat
        /\ plan \in Plans /\ plan.tags[m] \in Nat
        /\ \A p \in standing[m].cost : p.tags[m] \in Nat /\ p.tags[m] < plan.tags[m]
        /\ \A p \in standing[m].fmv : p.tags[m] \in Nat /\ p.tags[m] < plan.tags[m]
        /\ \A e : SavedOK(plan, m, e) => e = legs[m]
    BY <1>1, <1>2, <2>1, <2>2, AppliedPlan
  <2>4. cost \in Costs /\ Canonical(cost)
    <3>1. ~Reviewed(legs[m].cost)
      BY <1>1, <1>2, <2>2 DEF LegRunOK, PlannedOK
    <3> QED BY <2>1, <3>1, TagsAre, RepairedCost
  <2>5. /\ IsLeg(d) /\ d.tag = tag /\ d.marker = plan /\ d.fmv = legs[m].fmv
        /\ d.security = legs[m].security
    BY <2>1, <2>3, <2>4 DEF IsLeg
  <2>6. legs' = [legs EXCEPT ![m] = d]
    BY <1>1, <1>4, <2>1, <2>3 DEF ApplyCost, WriteLeg, IsLeg
  <2>7. standing' = [standing EXCEPT ![m] = [cost |-> costs, fmv |-> fmvs]]
    BY <1>1, <1>4, <2>1, <2>3 DEF ApplyCost, StandOK, LegIInv
  <2>8. /\ LastOf(m, plan, costs)
        /\ Before(m, costs, plan) = standing[m].cost
        /\ \A p \in standing[m].cost : Before(m, costs, p) = Before(m, standing[m].cost, p)
    <3>1. PICK olds : olds = standing[m].cost
      OBVIOUS
    <3>2. /\ plan.tags[m] \in Nat /\ costs = olds \cup {plan}
          /\ \A p \in olds : p.tags[m] \in Nat /\ p.tags[m] < plan.tags[m]
      BY <2>1, <2>3, <3>1
    <3>3. LastOf(m, plan, costs)
      BY <3>2, Newer
    <3>4. Before(m, costs, plan) = olds
      BY <3>2, Newer DEF Before
    <3>5. \A p \in olds : Before(m, costs, p) = Before(m, olds, p)
      BY <3>2, Newer DEF Before
    <3> QED BY <3>1, <3>3, <3>4, <3>5
  <2>9. ASSUME NEW p, NEW e, SavedOK(p, m, e)
        PROVE  /\ p \in costs => LastOf(m, e.marker, Before(m, costs, p))
               /\ p \in fmvs => LastOf(m, e.fmv, Before(m, fmvs, p))
    <3>1. p \in fmvs => LastOf(m, e.fmv, Before(m, fmvs, p))
      BY <2>1, <2>9 DEF SavedOK
    <3>2. CASE p = plan
      BY <2>3, <2>8, <2>9, <3>1, <3>2 DEF StandOK
    <3>3. CASE p # plan
      BY <2>1, <2>8, <2>9, <3>1, <3>3 DEF SavedOK
    <3> QED BY <3>2, <3>3
  <2>10. costs \subseteq Plans /\ fmvs \subseteq Plans
    BY <2>1, <2>3 DEF StandOK
  <2>11. \A p \in costs \cup fmvs : p.tags[m] \in Nat /\ p.tags[m] <= legs[m].tag
    BY <2>1, <2>2, <2>3
  <2>12. /\ LastOf(m, d.fmv, fmvs) /\ legs[m].security = pointed[m]
         /\ pointed' = [pointed EXCEPT ![m] = pointed[m]]
    BY <1>2, <2>1, <2>3, <2>5 DEF StandOK, LegIInv
  <2>13. Writes(m, d, costs, fmvs, pointed[m])
    BY <2>1, <2>5, <2>6, <2>7, <2>8, <2>9, <2>10, <2>11, <2>12 DEF Writes
  <2>14. LegRunOK(s)'
    BY <1>2, <2>13, LegsWritten, LegRunGoesOn
  <2> QED BY <1>1, <1>2, <2>13, <2>14, LegsKept
<1> QED BY <1>3, <1>4
LEMMA ApplyFmvKeeps == ASSUME NEW m \in Legs, LegIInv, ApplyFmv(m) PROVE LegIInv'
<1>1. PICK r, s, plan : r = legRun /\ s = legRun' /\ plan = r.plan
  OBVIOUS
<1>2. /\ LegRunOK(r) /\ r.pc = "apply" /\ m \in r.todo
      /\ s = [r EXCEPT !.todo = r.todo \ {m}] /\ UNCHANGED <<legSaved, pointed>>
  BY <1>1 DEF ApplyFmv, LegAt, LegDone, LegIInv
<1>3. CASE ~AsPlanned(m)
  BY <1>3, LegSkipped DEF ApplyFmv, LegAt
<1>4. CASE AsPlanned(m)
  <2>1. PICK tag, costs, fmvs, d :
          /\ tag = legs[m].tag + 1
          /\ costs = standing[m].cost /\ fmvs = standing[m].fmv \cup {plan}
          /\ d = [legs[m] EXCEPT !.fmv = plan, !.tag = tag]
    OBVIOUS
  <2>2. legs[m].tag = plan.tags[m]
    BY <1>1, <1>4 DEF AsPlanned
  <2>3. /\ IsLeg(legs[m]) /\ StandOK(m) /\ legs[m].tag \in Nat /\ tag \in Nat
        /\ plan \in Plans /\ plan.tags[m] \in Nat
        /\ \A p \in standing[m].cost : p.tags[m] \in Nat /\ p.tags[m] < plan.tags[m]
        /\ \A p \in standing[m].fmv : p.tags[m] \in Nat /\ p.tags[m] < plan.tags[m]
        /\ \A e : SavedOK(plan, m, e) => e = legs[m]
    BY <1>1, <1>2, <2>1, <2>2, AppliedPlan
  <2>5. /\ IsLeg(d) /\ d.tag = tag /\ d.marker = legs[m].marker /\ d.fmv = plan
        /\ d.security = legs[m].security
    BY <2>1, <2>3 DEF IsLeg
  <2>6. legs' = [legs EXCEPT ![m] = d]
    BY <1>1, <1>4, <2>1, <2>3 DEF ApplyFmv, WriteLeg, IsLeg
  <2>7. standing' = [standing EXCEPT ![m] = [cost |-> costs, fmv |-> fmvs]]
    BY <1>1, <1>4, <2>1, <2>3 DEF ApplyFmv, StandOK, LegIInv
  <2>8. /\ LastOf(m, plan, fmvs)
        /\ Before(m, fmvs, plan) = standing[m].fmv
        /\ \A p \in standing[m].fmv : Before(m, fmvs, p) = Before(m, standing[m].fmv, p)
    <3>1. PICK olds : olds = standing[m].fmv
      OBVIOUS
    <3>2. /\ plan.tags[m] \in Nat /\ fmvs = olds \cup {plan}
          /\ \A p \in olds : p.tags[m] \in Nat /\ p.tags[m] < plan.tags[m]
      BY <2>1, <2>3, <3>1
    <3>3. LastOf(m, plan, fmvs)
      BY <3>2, Newer
    <3>4. Before(m, fmvs, plan) = olds
      BY <3>2, Newer DEF Before
    <3>5. \A p \in olds : Before(m, fmvs, p) = Before(m, olds, p)
      BY <3>2, Newer DEF Before
    <3> QED BY <3>1, <3>3, <3>4, <3>5
  <2>9. ASSUME NEW p, NEW e, SavedOK(p, m, e)
        PROVE  /\ p \in costs => LastOf(m, e.marker, Before(m, costs, p))
               /\ p \in fmvs => LastOf(m, e.fmv, Before(m, fmvs, p))
    <3>1. p \in costs => LastOf(m, e.marker, Before(m, costs, p))
      BY <2>1, <2>9 DEF SavedOK
    <3>2. CASE p = plan
      BY <2>3, <2>8, <2>9, <3>1, <3>2 DEF StandOK
    <3>3. CASE p # plan
      BY <2>1, <2>8, <2>9, <3>1, <3>3 DEF SavedOK
    <3> QED BY <3>2, <3>3
  <2>10. costs \subseteq Plans /\ fmvs \subseteq Plans
    BY <2>1, <2>3 DEF StandOK
  <2>11. \A p \in costs \cup fmvs : p.tags[m] \in Nat /\ p.tags[m] <= legs[m].tag
    BY <2>1, <2>2, <2>3
  <2>12. /\ LastOf(m, d.marker, costs) /\ legs[m].security = pointed[m]
         /\ pointed' = [pointed EXCEPT ![m] = pointed[m]]
    BY <1>2, <2>1, <2>3, <2>5 DEF StandOK, LegIInv
  <2>13. Writes(m, d, costs, fmvs, pointed[m])
    BY <2>1, <2>5, <2>6, <2>7, <2>8, <2>9, <2>10, <2>11, <2>12 DEF Writes
  <2>14. LegRunOK(s)'
    BY <1>2, <2>13, LegsWritten, LegRunGoesOn
  <2> QED BY <1>1, <1>2, <2>13, <2>14, LegsKept
<1> QED BY <1>3, <1>4

(* A restore takes the last plan that stands back.                         *)
LEMMA UndonePlan ==
    ASSUME NEW m, NEW plan, NEW plans, NEW rest, rest = plans \ {plan}, plan # None,
           LastOf(m, plan, plans), \A p \in plans : p.tags[m] \in Nat
    PROVE  /\ plan \in plans /\ rest = Before(m, plans, plan)
           /\ \A p \in rest : Before(m, rest, p) = Before(m, plans, p)
<1>1. plan \in plans
  BY DEF LastOf
<1> QED BY <1>1, Older DEF Before

LEMMA RestoredLeg ==
    ASSUME LegIInv, NEW r, LegRunOK(r), r.pc = "restore", NEW m \in r.todo
    PROVE  /\ m \in Legs /\ r.plan \in Plans /\ r.plan # None
           /\ IsLeg(legs[m]) /\ StandOK(m) /\ legs[m].tag \in Nat /\ legs[m].tag + 1 \in Nat
           /\ SavedOK(r.plan, m, r.from[m]) /\ IsLeg(r.from[m])
           /\ \A p \in standing[m].cost \cup standing[m].fmv :
                 p.tags[m] \in Nat /\ p.tags[m] <= legs[m].tag
<1>1. m \in Legs /\ r.plan \in Plans /\ SavedOK(r.plan, m, r.from[m])
  BY DEF LegRunOK, BackupOK
<1>2. IsLeg(legs[m]) /\ StandOK(m) /\ legs[m].tag \in Nat
  BY <1>1, TagsAre DEF LegIInv
<1>3. IsLeg(r.from[m])
  BY <1>1 DEF SavedOK
<1> QED BY <1>1, <1>2, <1>3, PlansAre DEF StandOK

LEMMA UndoCostKeeps == ASSUME NEW m \in Legs, LegIInv, UndoCost(m) PROVE LegIInv'
<1>1. PICK r, s, plan, saved : r = legRun /\ s = legRun' /\ plan = r.plan /\ saved = r.from[m]
  OBVIOUS
<1>2. /\ LegRunOK(r) /\ r.pc = "restore" /\ m \in r.todo
      /\ s = [r EXCEPT !.todo = r.todo \ {m}] /\ UNCHANGED <<legSaved, pointed>>
  BY <1>1 DEF UndoCost, LegAt, LegDone, LegIInv
<1>3. CASE UNCHANGED <<legs, standing>>
  BY <1>3, LegSkipped DEF UndoCost, LegAt
<1>4. CASE ~UNCHANGED <<legs, standing>>
  <2>1. PICK tag, costs, fmvs, d :
          /\ tag = legs[m].tag + 1
          /\ costs = standing[m].cost \ {plan} /\ fmvs = standing[m].fmv
          /\ d = [saved EXCEPT !.tag = tag]
    OBVIOUS
  <2>2. /\ legs[m].marker = plan /\ BesidesCost(legs[m], saved) = BesidesCost(saved, saved)
        /\ WriteLeg(m, saved)
        /\ standing' = [standing EXCEPT ![m].cost = @ \ {plan}]
    BY <1>1, <1>4 DEF UndoCost
  <2>3. /\ IsLeg(legs[m]) /\ StandOK(m) /\ legs[m].tag \in Nat /\ tag \in Nat
        /\ plan \in Plans /\ plan # None /\ SavedOK(plan, m, saved) /\ IsLeg(saved)
        /\ \A p \in standing[m].cost \cup standing[m].fmv :
              p.tags[m] \in Nat /\ p.tags[m] <= legs[m].tag
    BY <1>1, <1>2, <2>1, RestoredLeg
  <2>4. legs[m].fmv = saved.fmv /\ legs[m].security = saved.security
    BY <2>2 DEF BesidesCost
  <2>5. /\ IsLeg(d) /\ d.tag = tag /\ d.marker = saved.marker /\ d.fmv = legs[m].fmv
        /\ d.security = legs[m].security
    BY <2>1, <2>3, <2>4 DEF IsLeg
  <2>6. legs' = [legs EXCEPT ![m] = d]
    BY <2>1, <2>2 DEF WriteLeg
  <2>7. standing' = [standing EXCEPT ![m] = [cost |-> costs, fmv |-> fmvs]]
    <3>1. standing[m] \in [cost : SUBSET Plans, fmv : SUBSET Plans]
      BY <2>3 DEF StandOK
    <3>2. standing[m] = [cost |-> standing[m].cost, fmv |-> standing[m].fmv]
      BY <3>1
    <3>4. [standing[m] EXCEPT !.cost = costs] = [cost |-> costs, fmv |-> fmvs]
      BY <2>1, <3>2
    <3>3. standing' = [standing EXCEPT ![m] = [standing[m] EXCEPT !.cost = costs]]
      BY <2>1, <2>2 DEF LegIInv
    <3> QED BY <3>3, <3>4
  <2>8. PICK olds : olds = standing[m].cost
    OBVIOUS
  <2>9. /\ plan \in olds /\ costs = Before(m, olds, plan)
        /\ \A p \in costs : Before(m, costs, p) = Before(m, olds, p)
    <3>1. LastOf(m, plan, olds) /\ costs = olds \ {plan} /\ \A p \in olds : p.tags[m] \in Nat
      BY <2>1, <2>2, <2>3, <2>8 DEF StandOK
    <3> QED BY <2>3, <3>1, UndonePlan DEF Before
  <2>10. LastOf(m, d.marker, costs)
    BY <2>3, <2>5, <2>8, <2>9 DEF SavedOK
  <2>11. ASSUME NEW p, NEW e, SavedOK(p, m, e)
         PROVE  /\ p \in costs => LastOf(m, e.marker, Before(m, costs, p))
                /\ p \in fmvs => LastOf(m, e.fmv, Before(m, fmvs, p))
    BY <2>1, <2>8, <2>9, <2>11 DEF SavedOK
  <2>12. costs \subseteq Plans /\ fmvs \subseteq Plans
    BY <2>1, <2>3 DEF StandOK
  <2>13. \A p \in costs \cup fmvs : p.tags[m] \in Nat /\ p.tags[m] <= legs[m].tag
    BY <2>1, <2>3
  <2>14. /\ LastOf(m, d.fmv, fmvs) /\ legs[m].security = pointed[m]
         /\ pointed' = [pointed EXCEPT ![m] = pointed[m]]
    BY <1>2, <2>1, <2>3, <2>5 DEF StandOK, LegIInv
  <2>15. Writes(m, d, costs, fmvs, pointed[m])
    BY <2>1, <2>5, <2>6, <2>7, <2>10, <2>11, <2>12, <2>13, <2>14 DEF Writes
  <2>16. LegRunOK(s)'
    BY <1>2, <2>15, LegsWritten, LegRunGoesOn
  <2> QED BY <1>1, <1>2, <2>15, <2>16, LegsKept
<1> QED BY <1>3, <1>4

LEMMA UndoFmvKeeps == ASSUME NEW m \in Legs, LegIInv, UndoFmv(m) PROVE LegIInv'
<1>1. PICK r, s, plan, saved : r = legRun /\ s = legRun' /\ plan = r.plan /\ saved = r.from[m]
  OBVIOUS
<1>2. /\ LegRunOK(r) /\ r.pc = "restore" /\ m \in r.todo
      /\ s = [r EXCEPT !.todo = r.todo \ {m}] /\ UNCHANGED <<legSaved, pointed>>
  BY <1>1 DEF UndoFmv, LegAt, LegDone, LegIInv
<1>3. CASE UNCHANGED <<legs, standing>>
  BY <1>3, LegSkipped DEF UndoFmv, LegAt
<1>4. CASE ~UNCHANGED <<legs, standing>>
  <2>1. PICK tag, costs, fmvs, d :
          /\ tag = legs[m].tag + 1
          /\ costs = standing[m].cost /\ fmvs = standing[m].fmv \ {plan}
          /\ d = [saved EXCEPT !.tag = tag]
    OBVIOUS
  <2>2. /\ legs[m].fmv = plan /\ BesidesFmv(legs[m]) = BesidesFmv(saved)
        /\ WriteLeg(m, saved)
        /\ standing' = [standing EXCEPT ![m].fmv = @ \ {plan}]
    BY <1>1, <1>4 DEF UndoFmv
  <2>3. /\ IsLeg(legs[m]) /\ StandOK(m) /\ legs[m].tag \in Nat /\ tag \in Nat
        /\ plan \in Plans /\ plan # None /\ SavedOK(plan, m, saved) /\ IsLeg(saved)
        /\ \A p \in standing[m].cost \cup standing[m].fmv :
              p.tags[m] \in Nat /\ p.tags[m] <= legs[m].tag
    BY <1>1, <1>2, <2>1, RestoredLeg
  <2>4. legs[m].marker = saved.marker /\ legs[m].security = saved.security
    BY <2>2 DEF BesidesFmv
  <2>5. /\ IsLeg(d) /\ d.tag = tag /\ d.marker = legs[m].marker /\ d.fmv = saved.fmv
        /\ d.security = legs[m].security
    BY <2>1, <2>3, <2>4 DEF IsLeg
  <2>6. legs' = [legs EXCEPT ![m] = d]
    BY <2>1, <2>2 DEF WriteLeg
  <2>7. standing' = [standing EXCEPT ![m] = [cost |-> costs, fmv |-> fmvs]]
    <3>1. standing[m] \in [cost : SUBSET Plans, fmv : SUBSET Plans]
      BY <2>3 DEF StandOK
    <3>2. standing[m] = [cost |-> standing[m].cost, fmv |-> standing[m].fmv]
      BY <3>1
    <3>4. [standing[m] EXCEPT !.fmv = fmvs] = [cost |-> costs, fmv |-> fmvs]
      BY <2>1, <3>2
    <3>3. standing' = [standing EXCEPT ![m] = [standing[m] EXCEPT !.fmv = fmvs]]
      BY <2>1, <2>2 DEF LegIInv
    <3> QED BY <3>3, <3>4
  <2>8. PICK olds : olds = standing[m].fmv
    OBVIOUS
  <2>9. /\ plan \in olds /\ fmvs = Before(m, olds, plan)
        /\ \A p \in fmvs : Before(m, fmvs, p) = Before(m, olds, p)
    <3>1. LastOf(m, plan, olds) /\ fmvs = olds \ {plan} /\ \A p \in olds : p.tags[m] \in Nat
      BY <2>1, <2>2, <2>3, <2>8 DEF StandOK
    <3> QED BY <2>3, <3>1, UndonePlan DEF Before
  <2>10. LastOf(m, d.fmv, fmvs)
    BY <2>3, <2>5, <2>8, <2>9 DEF SavedOK
  <2>11. ASSUME NEW p, NEW e, SavedOK(p, m, e)
         PROVE  /\ p \in costs => LastOf(m, e.marker, Before(m, costs, p))
                /\ p \in fmvs => LastOf(m, e.fmv, Before(m, fmvs, p))
    BY <2>1, <2>8, <2>9, <2>11 DEF SavedOK
  <2>12. costs \subseteq Plans /\ fmvs \subseteq Plans
    BY <2>1, <2>3 DEF StandOK
  <2>13. \A p \in costs \cup fmvs : p.tags[m] \in Nat /\ p.tags[m] <= legs[m].tag
    BY <2>1, <2>3
  <2>14. /\ LastOf(m, d.marker, costs) /\ legs[m].security = pointed[m]
         /\ pointed' = [pointed EXCEPT ![m] = pointed[m]]
    BY <1>2, <2>1, <2>3, <2>5 DEF StandOK, LegIInv
  <2>15. Writes(m, d, costs, fmvs, pointed[m])
    BY <2>1, <2>5, <2>6, <2>7, <2>10, <2>11, <2>12, <2>13, <2>14 DEF Writes
  <2>16. LegRunOK(s)'
    BY <1>2, <2>15, LegsWritten, LegRunGoesOn
  <2> QED BY <1>1, <1>2, <2>15, <2>16, LegsKept
<1> QED BY <1>3, <1>4

LEMMA LegKeeps == LegIInv /\ [LegNext]_legVars => LegIInv'
<1> SUFFICES ASSUME LegIInv, [LegNext]_legVars PROVE LegIInv'
  OBVIOUS
<1>1. CASE UNCHANGED legVars
  <2>1. UNCHANGED <<legs, legSaved, legRun, standing, pointed>>
    BY <1>1 DEF legVars
  <2>2. legRun' # None => LegRunOK(legRun)'
    BY <2>1 DEF LegIInv, LegRunOK, BackupOK, SavedOK, PlannedOK
  <2> QED BY <2>1, <2>2, LegsAlone
<1>2. CASE PlanCosts \/ PlanFmvs \/ RestoreCosts \/ RestoreFmvs
  BY <1>2, PlanCostsKeeps, PlanFmvsKeeps, ReadLegBackupKeeps DEF RestoreCosts, RestoreFmvs
<1>3. CASE BackupCosts \/ BackupFmvs
  BY <1>3, SaveLegsKeeps DEF BackupCosts, BackupFmvs, LegAt
<1>4. CASE EndLegRun
  BY <1>4, LegsAlone DEF EndLegRun
<1>5. ASSUME NEW m \in Legs,
             \/ ApplyCost(m) \/ UndoCost(m) \/ ApplyFmv(m) \/ UndoFmv(m) \/ SkipLeg(m)
             \/ Supersede(m) \/ Repoint(m)
      PROVE  LegIInv'
  <2>1. CASE SkipLeg(m)
    BY <2>1, LegSkipped DEF SkipLeg
  <2> QED BY <1>5, <2>1, ApplyCostKeeps, UndoCostKeeps, ApplyFmvKeeps, UndoFmvKeeps,
             SupersedeKeeps, RepointKeeps
<1> QED BY <1>1, <1>2, <1>3, <1>4, <1>5 DEF LegNext

-----------------------------------------------------------------------------
(* The scripts write different documents: a step is one script's, and      *)
(* leaves the documents of the others as they are.                         *)

RepairsIInv == SecurityIInv /\ AmendedIInv /\ BuyIInv /\ LegIInv /\ MigrationIInv /\ SymbolIInv

LEMMA RepairsInitial == Init => RepairsIInv
BY SecurityInit, AmendedInit, BuyInitial, LegInitial, MigrationInitial, SymbolInitial DEF Init, RepairsIInv

LEMMA RepairsKeep == RepairsIInv /\ [Next]_vars => RepairsIInv'
<1> SUFFICES ASSUME RepairsIInv, [Next]_vars PROVE RepairsIInv'
  OBVIOUS
<1>1. /\ [RepairNext]_repairVars /\ [BuyNext]_buyVars /\ [LegNext]_legVars
      /\ [MigrationNext]_configVars /\ [SymbolNext]_symbolVars
  BY DEF Next, vars
<1>2. SecurityIInv' /\ AmendedIInv'
  <2>1. SecurityIInv /\ AmendedIInv /\ edits \in Nat
    BY DEF RepairsIInv, AmendedIInv
  <2> QED BY <1>1, <2>1, SecurityKeeps, AmendmentsKeep
<1> QED BY <1>1, <1>2, BuyKeeps, LegKeeps, MigrationKeeps, SymbolKeeps DEF RepairsIInv

LEMMA RepairsInvariant == Spec => []RepairsIInv
BY RepairsInitial, RepairsKeep, PTL DEF Spec

(* Neither a repair nor a restore undoes what users and other writers      *)
(* wrote to a document it works on, as far as EditsOutliveRepairs says:    *)
(* entries that followed a security, its amendments but for those beside   *)
(* or after its copy and in a target that is deleted, the corrections of   *)
(* purchases no restore wrote over, other scripts' writes to legs, edits   *)
(* of configurations and symbols.                                          *)
THEOREM EditsSurvive == Spec => []EditsOutliveRepairs
<1>1. RepairsIInv => EditsOutliveRepairs
  BY SecurityImplies, BuyImplies, LegImplies
     DEF RepairsIInv, AmendedIInv, MigrationIInv, SymbolIInv, EditsOutliveRepairs
<1> QED BY <1>1, RepairsInvariant, PTL

(* A source is deleted under no movement that was recorded before the last *)
(* check and that no restore put back, a migrated configuration names a    *)
(* security that is there, and what a script repaired is right; each but   *)
(* for the cases the parts of RepairsHold name, whatever ran before, in    *)
(* between and after.                                                      *)
THEOREM RepairsAreRight == Spec => []RepairsHold
<1>1. RepairsIInv => RepairsHold
  BY SecurityImplies, BuyImplies, LegImplies
     DEF RepairsIInv, MigrationIInv, SymbolIInv, RepairsHold, ReferencesResolve, RepairsRight
<1> QED BY <1>1, RepairsInvariant, PTL

(* A restore of the security's repair that met no conflict leaves nothing  *)
(* it had to put back under the target, and the source is there.  Import   *)
(* sessions, and a target that the run created, stay as they are.          *)
THEOREM RestoresUndo == Spec => []RestoreUndoes
<1>1. RepairsIInv => RestoreUndoes
  BY SecurityImplies DEF RepairsIInv
<1> QED BY <1>1, RepairsInvariant, PTL
=============================================================================
