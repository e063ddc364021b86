----------------------------- MODULE LegRepair -----------------------------
(***************************************************************************)
(* Two scripts write to the share legs of scrip dividends:                 *)
(* repair_legacy_scrip_costs.py their cost, and                            *)
(* backfill_dividend_buy_share_fmv.py the market value of the shares.      *)
(* Both plan, save a backup, write each leg under the ETag it was planned  *)
(* with, and can restore what a run wrote, leg by leg.  In between other   *)
(* writers supersede legs or write other fields of them.                   *)
(*                                                                         *)
(* Abstracted: a plan is confirmed by the fingerprint of the plan that the *)
(* next call makes, ETags included, so that confirming and applying start  *)
(* from one plan.  The reads of a plan, or of a backup, are one step, and  *)
(* so is a read with the write that its ETag guards.  Amounts are natural  *)
(* numbers, stored with six decimals.  What the provider says of a day in  *)
(* the past does not change.                                               *)
(***************************************************************************)
EXTENDS Absent, Integers, Sequences, FiniteSets, FiniteSetsExt

--------------------------------------------------------------------------
(* classify_document of repair_legacy_scrip_costs.py: what a stored cost   *)
(* becomes.  An amount is None when it is absent; values that are not      *)
(* numbers, or have more than six decimals, and legs without a group are   *)
(* left for review before anything below.                                  *)

Euro == "EUR"

(* A cost as stored: native and euro amounts with their currencies, "" for *)
(* a currency that is not given, and the rate of the movement.             *)
Leg(gross, grossEur, currency, fee, feeEur, feeCurrency, net, netEur, netCurrency, fx, status) ==
    [gross |-> gross, grossEur |-> grossEur, currency |-> currency,
     fee |-> fee, feeEur |-> feeEur, feeCurrency |-> feeCurrency,
     net |-> net, netEur |-> netEur, netCurrency |-> netCurrency,
     fx |-> fx, status |-> status]

(* What _decimal reads: a negative amount is not one.                      *)
Amounts == {None} \cup Nat
Costs == [gross : Amounts, grossEur : Amounts, currency : STRING,
          fee : Amounts, feeEur : Amounts, feeCurrency : STRING,
          net : Amounts, netEur : Amounts, netCurrency : STRING, fx : Amounts,
          status : {"COMPLETE", "ZERO_COST", "INCOMPLETE"}]

Or(c, default) == IF c = "" THEN default ELSE c
NoFees(c) == ~Known(c.fee) /\ ~Known(c.feeEur)
Rated(c) == Known(c.fx) /\ c.fx > 0

Fee(c) == IF NoFees(c) THEN 0 ELSE c.fee
OwnFeeCurrency(c) == Or(c.feeCurrency, c.currency) = c.currency

FeeEur(c) ==
    IF NoFees(c) \/ (~Known(c.feeEur) /\ c.fee = 0) THEN 0
    ELSE IF ~Known(c.feeEur) /\ OwnFeeCurrency(c) /\ Rated(c) THEN c.fee * c.fx
    ELSE c.feeEur

(* What stored amounts must not say.                                       *)
MixedFees(c) == ~NoFees(c) /\ ~Known(c.feeEur) /\ c.fee # 0 /\ ~OwnFeeCurrency(c)
ForeignNet(c) == Known(c.net) /\ (c.currency = "" \/ Or(c.netCurrency, c.currency) # c.currency)
WrongNet(c) == Known(c.gross) /\ Known(Fee(c)) /\ Known(c.net) /\ c.net # c.gross + Fee(c)

NetIsCanonical(c) ==
    /\ Known(c.netEur) /\ Known(FeeEur(c)) /\ Known(c.net) /\ Known(Fee(c))
    /\ c.currency # "" /\ Or(c.netCurrency, c.currency) = c.currency /\ OwnFeeCurrency(c)
    /\ c.net = c.gross + Fee(c)
    /\ c.netEur >= FeeEur(c)

GrossEur(c) ==
    IF Known(c.grossEur) THEN c.grossEur
    ELSE IF c.gross = 0 THEN 0
    ELSE IF ~Known(c.gross) THEN None
    ELSE IF c.currency \notin {"", Euro} /\ Rated(c) THEN c.gross * c.fx
    ELSE IF NetIsCanonical(c) THEN c.netEur - FeeEur(c)
    ELSE None

Reviewed(c) ==
    \/ MixedFees(c) \/ ForeignNet(c) \/ WrongNet(c)
    \/ ~Known(GrossEur(c)) \/ ~Known(FeeEur(c))

(* classify_document's proposal, for a cost that is not left for review.   *)
Proposed(c) ==
    LET netEur == GrossEur(c) + FeeEur(c)
        native == Known(c.gross) /\ Known(Fee(c)) /\ c.currency # "" /\ OwnFeeCurrency(c)
    IN  [c EXCEPT !.grossEur = GrossEur(c),
                  !.feeEur = IF NoFees(c) THEN @ ELSE FeeEur(c),
                  !.netEur = netEur,
                  !.net = IF native THEN c.gross + Fee(c) ELSE @,
                  !.netCurrency = IF native THEN c.currency ELSE @,
                  !.status = IF netEur = 0 THEN "ZERO_COST" ELSE "COMPLETE"]

Classification(c) ==
    IF Reviewed(c) THEN "REVIEW_REQUIRED"
    ELSE IF Proposed(c) = c THEN "ALREADY_CANONICAL" ELSE "AUTO_REPAIRABLE"

(* _diff: the fields a proposal changes.                                   *)
Changes(c) == {f \in DOMAIN c : c[f] # Proposed(c)[f]}

--------------------------------------------------------------------------

CONSTANTS Legs,         \* ids of the share legs of one group
          GivenLegs,    \* the legs before the first run: what there may be
          MaxLegRuns,   \* bound: runs and restores
          MaxLegEdits   \* bound: writes of others

(* linked: an active leg that names a group as its successor, or its own   *)
(* as its predecessor.  marker and fmv name the plan they come from.       *)
Unrepaired(cost, active, linked) ==
    [cost |-> cost, marker |-> None, fmv |-> None, security |-> 0,
     active |-> active, linked |-> linked, tag |-> 0]
UnrepairedLegs == [cost : Costs, marker : {None}, fmv : {None}, security : {0},
                   active : BOOLEAN, linked : BOOLEAN, tag : {0}]

(* A plan of either script: its options, and the ETags it was made with.   *)
LegPlans(planned) == [script : {"cost", "fmv"}, force : BOOLEAN, tags : [planned -> Nat]]

ASSUME LegRepairAssumption ==
    /\ {MaxLegRuns, MaxLegEdits} \subseteq Nat
    /\ None \notin Nat
    /\ \A given \in GivenLegs : given \in [Legs -> UnrepairedLegs]
    /\ \A planned \in SUBSET Legs : None \notin LegPlans(planned)

VARIABLES
    legs,       \* id -> document
    legSaved,   \* backups: [plan, docs]
    legRun,     \* the run or restore under way, or None
    legRuns, legEdits,
    standing,   \* id -> per script the plans that wrote it and were not undone
    pointed     \* id -> the security others last wrote

legVars == <<legs, legSaved, legRun, legRuns, legEdits, standing, pointed>>

LegInit ==
    /\ legs \in GivenLegs
    /\ legSaved = <<>> /\ legRun = None
    /\ legRuns = 0 /\ legEdits = 0
    /\ standing = [m \in Legs |-> [cost |-> {}, fmv |-> {}]]
    /\ pointed = [m \in Legs |-> 0]

LegAt(script, pc) == legRun # None /\ legRun.plan.script = script /\ legRun.pc = pc
LegDone(m) == legRun' = [legRun EXCEPT !.todo = @ \ {m}]
StartLegRun ==
    /\ legRun = None /\ legRuns < MaxLegRuns
    /\ legRuns' = legRuns + 1
    /\ UNCHANGED <<legs, legSaved, legEdits, standing, pointed>>

(* A different ETag on every write.                                        *)
WriteLeg(m, d) == legs' = [legs EXCEPT ![m] = [d EXCEPT !.tag = legs[m].tag + 1]]

(* _duplicate_active_evidence_ambiguous: active legs of the group that     *)
(* differ in their security or cost leave all of it for review.            *)
Ambiguous ==
    \E m, n \in Legs :
        /\ legs[m].active /\ legs[n].active
        /\ legs[m].cost # legs[n].cost \/ legs[m].security # legs[n].security

WantedCosts ==
    {m \in Legs : /\ legs[m].active /\ ~Ambiguous /\ ~legs[m].linked
                  /\ Classification(legs[m].cost) = "AUTO_REPAIRABLE"}

WantedFmvs(force) == {m \in Legs : legs[m].active /\ (legs[m].fmv = None \/ force)}

(* A plan is known by its fingerprint, which becomes the id of the run.    *)
Plan(script, force, planned) ==
    [script |-> script, force |-> force, tags |-> [m \in planned |-> legs[m].tag]]

(* build_plan: filters or a limit may leave some out.                      *)
PlanCosts ==
    /\ StartLegRun
    /\ \E planned \in (SUBSET WantedCosts) \ {{}} :
         legRun' = [plan |-> Plan("cost", FALSE, planned), pc |-> "backup", todo |-> planned,
                    from |-> <<>>]

(* build_plan of the back-fill, where the provider may know some only.     *)
PlanFmvs ==
    /\ StartLegRun
    /\ \E force \in BOOLEAN : \E planned \in (SUBSET WantedFmvs(force)) \ {{}} :
         legRun' = [plan |-> Plan("fmv", force, planned), pc |-> "backup", todo |-> planned,
                    from |-> <<>>]

AsPlanned(m) == legs[m].tag = legRun.plan.tags[m]

(* write_backup of either script: nothing is written when a leg is not as  *)
(* it was planned.                                                         *)
SaveLegs ==
    /\ \A m \in legRun.todo : AsPlanned(m)
    /\ legSaved' = Append(legSaved, [plan |-> legRun.plan, docs |-> [m \in legRun.todo |-> legs[m]]])
    /\ legRun' = [legRun EXCEPT !.pc = "apply"]
    /\ UNCHANGED <<legs, legRuns, legEdits, standing, pointed>>

BackupCosts == LegAt("cost", "backup") /\ SaveLegs
BackupFmvs == LegAt("fmv", "backup") /\ SaveLegs

(* apply_plan, leg by leg.  A leg that is as planned is still eligible;    *)
(* whether its group is has been seen in the plan only.                    *)
ApplyCost(m) ==
    /\ LegAt("cost", "apply") /\ m \in legRun.todo
    /\ LegDone(m)
    /\ IF AsPlanned(m)
       THEN /\ WriteLeg(m, [legs[m] EXCEPT !.cost = Proposed(@), !.marker = legRun.plan])
            /\ standing' = [standing EXCEPT ![m].cost = @ \cup {legRun.plan}]
       ELSE UNCHANGED <<legs, standing>>
    /\ UNCHANGED <<legSaved, legRuns, legEdits, pointed>>

ApplyFmv(m) ==
    /\ LegAt("fmv", "apply") /\ m \in legRun.todo
    /\ LegDone(m)
    /\ IF AsPlanned(m)
       THEN /\ WriteLeg(m, [legs[m] EXCEPT !.fmv = legRun.plan])
            /\ standing' = [standing EXCEPT ![m].fmv = @ \cup {legRun.plan}]
       ELSE UNCHANGED <<legs, standing>>
    /\ UNCHANGED <<legSaved, legRuns, legEdits, pointed>>

(* read_backup of either script takes the backups of that script.          *)
ReadLegBackup(script) ==
    /\ StartLegRun
    /\ \E b \in DOMAIN legSaved :
         /\ legSaved[b].plan.script = script
         /\ legRun' = [plan |-> legSaved[b].plan, pc |-> "restore", todo |-> DOMAIN legSaved[b].docs,
                       from |-> legSaved[b].docs]

RestoreCosts == ReadLegBackup("cost")
RestoreFmvs == ReadLegBackup("fmv")

(* What the run did not write, in a leg like the saved one: the restore    *)
(* compares it.                                                            *)
BesidesCost(d, saved) ==
    [cost |-> [f \in DOMAIN saved.cost \ Changes(saved.cost) |-> d.cost[f]],
     fmv |-> d.fmv, security |-> d.security, active |-> d.active]
BesidesFmv(d) ==
    [cost |-> d.cost, marker |-> d.marker, security |-> d.security, active |-> d.active]

(* restore_backup: a leg that this run was the last to write goes back as  *)
(* it was saved, unless somebody has written to the rest of it.            *)
UndoCost(m) ==
    /\ LegAt("cost", "restore") /\ m \in legRun.todo
    /\ LegDone(m)
    /\ LET saved == legRun.from[m]
       IN  IF legs[m].marker = legRun.plan /\ BesidesCost(legs[m], saved) = BesidesCost(saved, saved)
           THEN /\ WriteLeg(m, saved)
                /\ standing' = [standing EXCEPT ![m].cost = @ \ {legRun.plan}]
           ELSE UNCHANGED <<legs, standing>>
    /\ UNCHANGED <<legSaved, legRuns, legEdits, pointed>>

UndoFmv(m) ==
    /\ LegAt("fmv", "restore") /\ m \in legRun.todo
    /\ LegDone(m)
    /\ LET saved == legRun.from[m]
       IN  IF legs[m].fmv = legRun.plan /\ BesidesFmv(legs[m]) = BesidesFmv(saved)
           THEN /\ WriteLeg(m, saved)
                /\ standing' = [standing EXCEPT ![m].fmv = @ \ {legRun.plan}]
           ELSE UNCHANGED <<legs, standing>>
    /\ UNCHANGED <<legSaved, legRuns, legEdits, pointed>>

(* A write that fails or meets another ETag is counted, no more.           *)
SkipLeg(m) ==
    /\ legRun # None /\ legRun.pc \in {"apply", "restore"} /\ m \in legRun.todo
    /\ LegDone(m)
    /\ UNCHANGED <<legs, legSaved, legRuns, legEdits, standing, pointed>>

(* The legs are done, a backup fails, or the process dies.                 *)
EndLegRun ==
    /\ legRun # None /\ legRun' = None
    /\ UNCHANGED <<legs, legSaved, legRuns, legEdits, standing, pointed>>

-----------------------------------------------------------------------------
MayEditLeg == legEdits < MaxLegEdits /\ legEdits' = legEdits + 1

(* correct_ or void_corporate_action_group.                                *)
Supersede(m) ==
    /\ MayEditLeg
    /\ legs[m].active /\ WriteLeg(m, [legs[m] EXCEPT !.active = FALSE])
    /\ UNCHANGED <<legSaved, legRun, legRuns, standing, pointed>>

(* Another script points it to another security.                           *)
Repoint(m) ==
    /\ MayEditLeg
    /\ WriteLeg(m, [legs[m] EXCEPT !.security = @ + 1])
    /\ pointed' = [pointed EXCEPT ![m] = @ + 1]
    /\ UNCHANGED <<legSaved, legRun, legRuns, standing>>

LegNext ==
    \/ PlanCosts \/ BackupCosts \/ RestoreCosts
    \/ PlanFmvs \/ BackupFmvs \/ RestoreFmvs
    \/ EndLegRun
    \/ \E m \in Legs : \/ ApplyCost(m) \/ UndoCost(m) \/ ApplyFmv(m) \/ UndoFmv(m) \/ SkipLeg(m)
                       \/ Supersede(m) \/ Repoint(m)

-----------------------------------------------------------------------------
(* The last of some plans to write a leg: the one made with the last ETag. *)
LastOf(m, plan, plans) ==
    IF plans = {} THEN plan = None
    ELSE plan \in plans /\ \A p \in plans \ {plan} : p.tags[m] < plan.tags[m]

(* What a run or anybody else wrote to a leg stays until a later run of    *)
(* the same script replaces it or its own restore takes it back, in        *)
(* whatever order the scripts, their restores and other writers come.      *)
LegWritesStand ==
    \A m \in Legs :
        /\ LastOf(m, legs[m].marker, standing[m].cost)
        /\ LastOf(m, legs[m].fmv, standing[m].fmv)
        /\ legs[m].security = pointed[m]

(* A repaired cost is canonical: no later audit finds it to be repaired    *)
(* again, and its euro amounts add up.                                     *)
RepairedOnce ==
    \A m \in Legs : legs[m].marker # None =>
        /\ Classification(legs[m].cost) = "ALREADY_CANONICAL"
        /\ legs[m].cost.netEur = legs[m].cost.grossEur + FeeEur(legs[m].cost)
=============================================================================
