------------------------------ MODULE MCRepairs ------------------------------
(* Small instances of the maintenance scripts for TLC.  They write         *)
(* different documents, so a behaviour runs one of them while the          *)
(* documents of the others rest in one of their initial states.            *)
EXTENDS SecurityRepair, BuyRepair, LegRepair, ConfigMigration

CONSTANTS m1, m2, s1, eur, b1, b2, l1, l2, x1, x2

VARIABLE script
vars == <<script, repairVars, buyVars, legVars, configVars, symbolVars>>

(* Legs of one group whose costs are repaired in different ways; and one   *)
(* leg with whatever may be stored of it, the others being superseded.     *)
FewCosts == {Leg(2, None, "USD", 1, None, "", None, 3, "", 2, "INCOMPLETE"),
             Leg(0, 0, Euro, None, None, "", None, 0, "", None, "INCOMPLETE"),
             Leg(2, None, Euro, 1, None, "USD", None, 3, "", None, "COMPLETE")}
ACost == CHOOSE c \in FewCosts : c.status = "COMPLETE"
Another == CHOOSE c \in FewCosts : c.currency = Euro /\ c # ACost

AllCosts == FewCosts \cup
    {Leg(gross, grossEur, currency, fee, feeEur, feeCurrency, net, netEur, "", fx, "INCOMPLETE") :
        gross \in {None, 0, 2}, grossEur \in {None, 1}, currency \in {"", Euro, "USD"},
        fee \in {None, 1}, feeEur \in {None, 2}, feeCurrency \in {"", "USD"},
        net \in {None, 3}, netEur \in {None, 3}, fx \in {None, 2}}

SomeLeg == CHOOSE m \in Legs : TRUE
TwoLegs ==
    {[m \in Legs |-> Unrepaired(c, TRUE, FALSE)] : c \in FewCosts} \cup
    {[m \in Legs |-> Unrepaired(IF m = SomeLeg THEN ACost ELSE Another, TRUE, FALSE)]}
OneLeg == {[m \in Legs |-> IF m = SomeLeg THEN Unrepaired(c, TRUE, c \in FewCosts)
                           ELSE Unrepaired(ACost, FALSE, FALSE)] : c \in AllCosts}
LegsGiven == TwoLegs \cup OneLeg

FirstMovement == CHOOSE m \in Movements : TRUE
FirstBuy == CHOOSE m \in Buys : TRUE

(* A single leg is about its cost: a run, another or its restore.          *)
Alone == ~legs[CHOOSE m \in Legs : m # SomeLeg].active /\ legEdits = 0

Resting(s, state) == script = s \/ state

Init ==
    /\ script \in {"security", "buys", "legs", "config", "symbols"}
    /\ RepairInit
    /\ Resting("security", config = None /\ ~Exists("to") /\ ledger[FirstMovement] = None)
    /\ BuyInit
    /\ Resting("buys", /\ fresh = {FirstBuy}
                       /\ \A m \in Buys \ {FirstBuy} :
                            buys[m] = Purchase(0, 0, 1, "old", "manual", None, "COMPLETE"))
    /\ LegInit
    /\ Resting("legs", \A m \in Legs : legs[m] = Unrepaired(ACost, TRUE, FALSE))
    /\ MigrationInit
    /\ Resting("config", /\ symbol.exchange = "mic" /\ symbol.sid = None
                         /\ \A i \in DOMAIN listed : listed[i] = "user")
    /\ SymbolInit
    /\ Resting("symbols", \A s \in Securities : named[s] = None)

Next ==
    /\ UNCHANGED script
    /\ \/ script = "security" /\ RepairNext
          /\ UNCHANGED <<buyVars, legVars, configVars, symbolVars>>
       \/ script = "buys" /\ BuyNext
          /\ UNCHANGED <<repairVars, legVars, configVars, symbolVars>>
       \/ script = "legs" /\ LegNext /\ (Alone => legEdits' = 0 /\ legRuns' <= 2)
          /\ UNCHANGED <<repairVars, buyVars, configVars, symbolVars>>
       \/ script = "config" /\ MigrationNext
          /\ UNCHANGED <<repairVars, buyVars, legVars, symbolVars>>
       \/ script = "symbols" /\ SymbolNext
          /\ UNCHANGED <<repairVars, buyVars, legVars, configVars>>

Spec == Init /\ [][Next]_vars

(* What users and other writers wrote to the documents the scripts work on *)
(* stands: movements, purchases corrected, legs, a configuration's note,   *)
(* provider symbols, and the amendments of a security but for those that   *)
(* AmendmentsKept excepts.  The restores of purchases, meant to put a      *)
(* whole document back, are excepted as well (README, Known limits).       *)
EditsOutliveRepairs ==
    /\ EntriesKept /\ AmendmentsKept /\ CorrectionsStand /\ LegWritesStand
    /\ ConfigEditsKept /\ SymbolEditsKept

(* What a repair deletes was referred to by no movement it could have      *)
(* seen, and a migration leaves no configuration that names a security     *)
(* which does not exist, each but for what its formula names: movements    *)
(* recorded after the last check or put back by a restore, references that *)
(* dangled before and securities a restore removed.  References to a       *)
(* target that a restore deleted are not looked at (README, Known limits). *)
ReferencesResolve == SourceOutlivesReferences /\ ConfigResolves

(* What a script repaired is right, whatever ran before, in between and    *)
(* after: the amounts of purchases, in euro and in their own currency if   *)
(* that is the euro, the costs of legs, provider symbols.                  *)
RepairsRight == BuysConsistent /\ RepairedOnce /\ SymbolsConfirmed

(* In whatever order the scripts ran, failed and were restored beside the  *)
(* application: the references a repair deletes under, and what it wrote.  *)
RepairsHold == ReferencesResolve /\ RepairsRight
=============================================================================
