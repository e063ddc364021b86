----------------------------- MODULE BuyRepair -----------------------------
(***************************************************************************)
(* repair_buy_ledger_fields.py: purchases were stored in three shapes over *)
(* time.  With t the trade value and f the fees,                           *)
(*     old       gross t,     net t - f                                    *)
(*     inverted  gross t + f, net t        (what the first repair writes)  *)
(*     final     gross t,     net t + f    (what the second repair writes) *)
(* Two repairs and the restores of their backups run one at a time, in any *)
(* order and while the application goes on correcting and deleting.        *)
(*                                                                         *)
(* Abstracted: amounts are small integers, and a euro is a whole number of *)
(* units of the purchase's own currency; quantities are positive, and the  *)
(* prices zero with the amounts.  The reads of an audit or a backup are    *)
(* one step, and so is a fresh read with the write its ETag guards.  A     *)
(* correction is one step here: MovementLedger has its two.                *)
(***************************************************************************)
EXTENDS Absent, Integers, Sequences, FiniteSets, FiniteSetsExt

CONSTANTS Buys,         \* ids of purchases
          Values, Fees, \* what a trade may be worth, and its fees, in euro
          Rates,        \* units of a purchase's currency to the euro; 1 is the euro
          MaxBuyRuns,   \* bound: repairs and restores
          MaxBuyEdits   \* bound: writes of the application

ASSUME BuyRepairAssumption ==
    Values \cup Fees \cup Rates \subseteq Nat /\ {MaxBuyRuns, MaxBuyEdits} \subseteq Nat

VARIABLES
    buys,       \* id -> document, or None
    fresh,      \* ids that no purchase has had: a deleted one does not come back
    buySaved,   \* backups: [version, docs]
    buyRun,     \* the repair or restore under way, or None
    buyRuns, buyEdits,
    worth,      \* id -> the value of the trade, whatever is stored of it
    reversed,   \* purchases the first repair wrote after the second
    reopened    \* purchases a restore wrote

buyVars == <<buys, fresh, buySaved, buyRun, buyRuns, buyEdits, worth, reversed, reopened>>

Stored(m) == buys[m] # None

Shapes(t, f) == [old      |-> [gross |-> t,     net |-> t - f],
                 inverted |-> [gross |-> t + f, net |-> t],
                 final    |-> [gross |-> t,     net |-> t + f]]
Shape(d) == [gross |-> d.gross, net |-> d.net]

(* A purchase as the import or a user made it.  The value in an imported   *)
(* one's source row is None when the row is absent or cannot be read.      *)
Purchase(t, f, rate, shape, by, source, status) ==
    [gross |-> Shapes(t, f)[shape].gross, net |-> Shapes(t, f)[shape].net, fees |-> f,
     rate |-> rate, nativeGross |-> rate * Shapes(t, f)[shape].gross,
     nativeNet |-> rate * Shapes(t, f)[shape].net, by |-> by, source |-> source, status |-> status,
     active |-> TRUE, v1 |-> FALSE, v2 |-> FALSE, corrects |-> None, supersededBy |-> None]

(* Every purchase but one, whose id is free for a correction.              *)
BuyInit ==
    /\ \E free \in Buys, t \in Values, f \in Fees, rate \in Rates,
          shape \in {"old", "inverted", "final"}, by \in {"csv_import", "manual"},
          known \in BOOLEAN, status \in {"COMPLETE", "INCOMPLETE"} :
         /\ by = "manual" => ~known /\ status = "COMPLETE"
         /\ worth = [m \in Buys |-> t]
         /\ fresh = {free}
         /\ buys = [m \in Buys |->
                      IF m = free THEN None
                      ELSE Purchase(t, f, rate, shape, by, IF known THEN t ELSE None, status)]
    /\ buySaved = <<>> /\ buyRun = None
    /\ buyRuns = 0 /\ buyEdits = 0
    /\ reversed = {} /\ reopened = {}

-----------------------------------------------------------------------------
(* _get_all_buy_candidates, _get_all_manual_buy_candidates and             *)
(* _get_all_buy_candidates_v2: superseded ones are among them.             *)
ImportedBuys == {m \in Buys : Stored(m) /\ buys[m].by = "csv_import"}
ManualBuys == {m \in Buys : Stored(m) /\ buys[m].by = "manual"}
AllBuys == {m \in Buys : Stored(m)}

(* _analyse_record.  The source row decides whether gross holds the trade  *)
(* value; without it only a price of zero can be recognised.               *)
NeedsSwap(d) == d.fees > 0 /\ d.source # None /\ d.gross = d.source
NeedsStatus(d) ==
    d.status = "INCOMPLETE" /\ (IF d.source # None THEN d.source ELSE d.gross) = 0

PlannedV1(d) ==
    ~d.v1 /\ d.by = "csv_import" /\ d.active /\ (NeedsSwap(d) \/ NeedsStatus(d))

(* _analyse_manual_candidate: reported, and repaired only when approved.   *)
Candidate(d) ==
    ~d.v1 /\ d.by = "manual" /\ d.active /\ d.fees > 0 /\ d.net = d.gross - d.fees

(* The fees in euro go to the native amount too, whatever its currency.    *)
Swapped(d) ==
    [d EXCEPT !.gross = @ + d.fees, !.net = d.gross,
              !.nativeGross = @ + d.fees, !.nativeNet = d.nativeGross]

(* _apply_repair, with the plan of a candidate (manual) or of an import.   *)
RepairV1(d, manual) ==
    LET e == IF manual \/ NeedsSwap(d) THEN Swapped(d) ELSE d
    IN  [e EXCEPT !.status = IF ~manual /\ NeedsStatus(d) THEN "ZERO_COST" ELSE @,
                  !.v1 = TRUE]

TradeInferred(d) ==                                                \* mutant
    IF d.source # None THEN d.source ELSE IF d.gross = d.net + d.fees THEN d.net ELSE None

(* _analyse_record_v2: the trade value is the source row's, or else the    *)
(* net of a record that the first repair has written.                      *)
Trade(d) ==
    IF d.source # None THEN d.source
    ELSE IF d.v1 /\ d.gross = d.net + d.fees THEN d.net ELSE None

PlannedV2(d) ==
    /\ ~d.v2 /\ d.active /\ d.fees > 0 /\ Trade(d) # None
    /\ LET s == Shapes(Trade(d), d.fees)
       IN  Shape(d) # s.final /\ (Shape(d) = s.inverted \/ d.gross = s.final.gross)

(* _apply_repair_v2.  The inverted shape has its native amounts exchanged; *)
(* of the others the native net becomes the new net in euro.               *)
RepairV2(d) ==
    LET swap == Shape(d) = Shapes(Trade(d), d.fees).inverted
    IN  [d EXCEPT !.gross = Trade(d), !.net = Trade(d) + d.fees, !.v2 = TRUE,
                  !.nativeGross = IF swap THEN d.nativeNet ELSE @,
                  !.nativeNet = IF swap THEN d.nativeGross ELSE Trade(d) + d.fees]

-----------------------------------------------------------------------------
BuyAt(kind, pc) == buyRun # None /\ buyRun.kind = kind /\ buyRun.pc = pc
BuyRun(kind, pc, auto, todo, from) ==
    buyRun' = [kind |-> kind, pc |-> pc, auto |-> auto, todo |-> todo, from |-> from]
BuyDone(m) == buyRun' = [buyRun EXCEPT !.todo = @ \ {m}]
StartBuyRun ==
    /\ buyRun = None /\ buyRuns < MaxBuyRuns
    /\ buyRuns' = buyRuns + 1
    /\ UNCHANGED <<buys, fresh, buySaved, buyEdits, worth, reversed, reopened>>

(* run_audit for --apply.  The operator approves of the candidates those   *)
(* whose gross is the value of their trade confirmation.                   *)
AuditV1 ==
    /\ StartBuyRun
    /\ LET auto == {m \in ImportedBuys : PlannedV1(buys[m])}
           genuine == {m \in ManualBuys : Candidate(buys[m]) /\ buys[m].gross = worth[m]}
       IN  \E approved \in SUBSET genuine :
             /\ auto \cup approved # {}
             /\ BuyRun("v1", "backup", auto, auto \cup approved, <<>>)

(* run_audit_v2 for --apply-v2.                                            *)
AuditV2 ==
    /\ StartBuyRun
    /\ LET auto == {m \in AllBuys : PlannedV2(buys[m])}
       IN  auto # {} /\ BuyRun("v2", "backup", auto, auto, <<>>)

(* run_backup: the planned records are read again; approved ones are not   *)
(* among them.  One that is gone ends the run.                             *)
BackupV1 ==
    /\ BuyAt("v1", "backup") /\ buyRun.auto \subseteq AllBuys
    /\ buySaved' = IF buyRun.auto = {} THEN buySaved
                   ELSE Append(buySaved, [version |-> "v1", docs |-> [m \in buyRun.auto |-> buys[m]]])
    /\ buyRun' = [buyRun EXCEPT !.pc = "apply"]
    /\ UNCHANGED <<buys, fresh, buyRuns, buyEdits, worth, reversed, reopened>>

(* run_backup_v2.                                                          *)
BackupV2 ==
    /\ BuyAt("v2", "backup") /\ buyRun.auto \subseteq AllBuys
    /\ buySaved' = Append(buySaved, [version |-> "v2", docs |-> [m \in buyRun.auto |-> buys[m]]])
    /\ buyRun' = [buyRun EXCEPT !.pc = "apply"]
    /\ UNCHANGED <<buys, fresh, buyRuns, buyEdits, worth, reversed, reopened>>

(* run_apply: the record as it is now, analysed afresh.                    *)
ApplyV1(m) ==
    /\ BuyAt("v1", "apply") /\ m \in buyRun.todo
    /\ BuyDone(m)
    /\ LET manual == m \notin buyRun.auto
       IN  IF Stored(m) /\ (IF manual THEN Candidate(buys[m]) ELSE PlannedV1(buys[m]))
           THEN /\ buys' = [buys EXCEPT ![m] = RepairV1(@, manual)]
                /\ reversed' = IF buys[m].v2 THEN reversed \cup {m} ELSE reversed
           ELSE UNCHANGED <<buys, reversed>>
    /\ UNCHANGED <<fresh, buySaved, buyRuns, buyEdits, worth, reopened>>

(* run_apply_v2.                                                           *)
ApplyV2(m) ==
    /\ BuyAt("v2", "apply") /\ m \in buyRun.todo
    /\ BuyDone(m)
    /\ buys' = IF Stored(m) /\ PlannedV2(buys[m])
               THEN [buys EXCEPT ![m] = RepairV2(@)] ELSE buys
    /\ UNCHANGED <<fresh, buySaved, buyRuns, buyEdits, worth, reversed, reopened>>

(* Each restore writes the saved body under the ETag of a fresh read,      *)
(* whatever that read found.  run_restore takes any backup.                *)
StartRestoreV1 ==
    /\ StartBuyRun
    /\ \E b \in DOMAIN buySaved :
         BuyRun("v1", "restore", {}, DOMAIN buySaved[b].docs, buySaved[b].docs)

(* run_restore_v2 takes only those of its version.                         *)
StartRestoreV2 ==
    /\ StartBuyRun
    /\ \E b \in DOMAIN buySaved :
         /\ buySaved[b].version = "v2"
         /\ BuyRun("v2", "restore", {}, DOMAIN buySaved[b].docs, buySaved[b].docs)

PutBuyBack(m) ==
    IF Stored(m)
    THEN /\ buys' = [buys EXCEPT ![m] = buyRun.from[m]]
         /\ reopened' = reopened \cup {m}
         /\ reversed' = reversed \ {m}
    ELSE UNCHANGED <<buys, reversed, reopened>>

RestoreV1(m) ==
    /\ BuyAt("v1", "restore") /\ m \in buyRun.todo
    /\ BuyDone(m) /\ PutBuyBack(m)
    /\ UNCHANGED <<fresh, buySaved, buyRuns, buyEdits, worth>>

RestoreV2(m) ==
    /\ BuyAt("v2", "restore") /\ m \in buyRun.todo
    /\ BuyDone(m) /\ PutBuyBack(m)
    /\ UNCHANGED <<fresh, buySaved, buyRuns, buyEdits, worth>>

(* A write that fails or meets another ETag is counted, no more.           *)
SkipBuy(m) ==
    /\ buyRun # None /\ buyRun.pc \in {"apply", "restore"} /\ m \in buyRun.todo
    /\ BuyDone(m)
    /\ UNCHANGED <<buys, fresh, buySaved, buyRuns, buyEdits, worth, reversed, reopened>>

(* The records are done, a backup fails, or the process dies.              *)
EndBuyRun ==
    /\ buyRun # None
    /\ buyRun' = None
    /\ UNCHANGED <<buys, fresh, buySaved, buyRuns, buyEdits, worth, reversed, reopened>>

-----------------------------------------------------------------------------
EditBuy ==
    /\ buyEdits < MaxBuyEdits /\ buyEdits' = buyEdits + 1
    /\ UNCHANGED <<buySaved, buyRun, buyRuns, reopened>>

(* correct_movement: the replacement keeps the source row and the markers. *)
(* Its net is computed anew only when the user gives the gross or the      *)
(* fees, and then the gross is what the user takes for the trade value.    *)
CorrectBuy(m, n, gross, fees) ==
    /\ EditBuy
    /\ Stored(m) /\ buys[m].active
    /\ n \in fresh /\ fresh' = fresh \ {n}
    /\ LET copy == [buys[m] EXCEPT !.by = "manual", !.corrects = m, !.supersededBy = None]
           anew == gross # None \/ fees # None
           g == IF gross # None THEN gross ELSE copy.gross
           f == IF fees # None THEN fees ELSE copy.fees
           native == IF gross # None THEN copy.rate * gross ELSE copy.nativeGross
       IN  /\ buys' = [buys EXCEPT
                  ![m].active = FALSE, ![m].supersededBy = n,
                  ![n] = [copy EXCEPT !.gross = g, !.fees = f, !.net = IF anew THEN g + f ELSE @,
                                      !.nativeGross = native,
                                      !.nativeNet = IF anew THEN native + copy.rate * f ELSE @]]
           /\ worth' = [worth EXCEPT ![n] = IF anew THEN g ELSE worth[m]]
           /\ reversed' = IF m \in reversed /\ ~anew THEN reversed \cup {n} ELSE reversed

(* _collect_movement_chain: both directions, as far as the links lead.     *)
BuyChain(m) ==
    LET Linked(n) == {buys[n].corrects, buys[n].supersededBy} \cap AllBuys
        closed == {c \in SUBSET AllBuys : m \in c /\ \A n \in c : Linked(n) \subseteq c}
    IN  CHOOSE c \in closed : \A d \in closed : c \subseteq d

(* delete_movement: one document, or its chain.                            *)
DeleteBuy(m, chain) ==
    /\ EditBuy
    /\ Stored(m)
    /\ LET out == IF chain THEN BuyChain(m) ELSE {m}
       IN  buys' = [n \in Buys |-> IF n \in out THEN None ELSE buys[n]]
    /\ UNCHANGED <<fresh, worth, reversed>>

BuyNext ==
    \/ AuditV1 \/ AuditV2 \/ BackupV1 \/ BackupV2
    \/ StartRestoreV1 \/ StartRestoreV2 \/ EndBuyRun
    \/ \E m \in Buys :
         \/ ApplyV1(m) \/ ApplyV2(m) \/ RestoreV1(m) \/ RestoreV2(m) \/ SkipBuy(m)
         \/ \E n \in Buys, g \in Values \cup {None}, f \in Fees \cup {None} : CorrectBuy(m, n, g, f)
         \/ \E chain \in BOOLEAN : DeleteBuy(m, chain)

-----------------------------------------------------------------------------
(* No order of repairs, restores and corrections takes the euro amounts of *)
(* a purchase out of the three shapes of its own trade, and one that the   *)
(* second repair has marked is final unless the first repair came after    *)
(* it.  Not so for a purchase of value zero whose source row cannot be     *)
(* read: the first repair marks it for its status only, and the second     *)
(* takes the mark for evidence of its trade value.  The native amounts     *)
(* follow the euro amounts of a purchase in euro, and of no other: there   *)
(* the scripts mix the currencies (README, Known limits).                  *)
Misread(m) == worth[m] = 0 /\ buys[m].source = None /\ buys[m].fees > 0

BuysConsistent ==
    \A m \in AllBuys :
        /\ ~Misread(m) =>
              LET s == Shapes(worth[m], buys[m].fees)
              IN  /\ Shape(buys[m]) \in {s.old, s.inverted, s.final}
                  /\ buys[m].v2 /\ m \notin reversed => Shape(buys[m]) = s.final
        /\ buys[m].rate = 1 =>
              [gross |-> buys[m].nativeGross, net |-> buys[m].nativeNet] = Shape(buys[m])

(* A purchase that was corrected stays out of the ledger, unless the       *)
(* restore of a backup put it back as it was saved.                        *)
CorrectionsStand ==
    \A m \in AllBuys : buys[m].corrects # None =>
        LET old == buys[m].corrects
        IN  Stored(old) /\ buys[old].active => old \in reopened
=============================================================================
