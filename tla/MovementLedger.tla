--------------------------- MODULE MovementLedger ---------------------------
(***************************************************************************)
(* The movements of portfolio/cosmos_portfolio.py.  The one API process    *)
(* runs each handler to its end, so operations do not interleave; but an   *)
(* operation is several Cosmos calls, any of which may fail, with or       *)
(* without effect, and between any two of them the process may die.  Every *)
(* document records one trade; what the ledger is worth is which of a      *)
(* trade's documents are ACTIVE.                                           *)
(***************************************************************************)
EXTENDS Absent, Integers, FiniteSets, Sequences, SequencesExt

CONSTANTS
    Accounts,
    Trades,         \* what really happened, each to be counted once
    Rows,           \* the deterministic ids of CSV rows
    TradeOf,        \* the trade a row records
    AccountOf,      \* and its account
    MaxFresh,       \* bound: uuid4 ids handed out
    MaxOps,         \* bound: operations started
    MaxFaults       \* bound: failing calls and crashes

ASSUME LedgerAssumption ==
    /\ IsFiniteSet(Rows)
    /\ TradeOf \in [Rows -> Trades] /\ AccountOf \in [Rows -> Accounts]
    /\ Rows \cap Nat = {} /\ None \notin Rows \cup Nat \cup Accounts \cup Trades
    /\ MaxFresh \in Nat /\ MaxOps \in Nat /\ MaxFaults \in Nat

Ids == Rows \cup 1..MaxFresh

(* A ledger_txn document; a call, that stores one at an id or deletes it;  *)
(* an operation, with the calls it has made and the trades it records.     *)
Movements ==
    [trade : Trades, account : Accounts, kind : {"BUY", "IN", "OUT"},
     status : {"ACTIVE", "SUPERSEDED", "VOIDED"}, group : (1..MaxFresh) \cup {None},
     superseded_by : Ids \cup {None}, corrects : Ids \cup {None}, from : Ids \cup {None},
     fromAccount : Accounts \cup {None}]
Calls == [id : Ids, doc : Movements \cup {None}]
Operations ==
    [kind : {"import", "create", "correct", "reassign", "batch", "delete", "transfer", "void",
             "group", "undo"},
     calls : Seq(Calls), at : Nat, adds : SUBSET Trades]

ASSUME NoneAssumption == None \notin Movements \cup Operations

VARIABLES
    docs,           \* the ledger_txn document of each id, or None
    next,           \* uuid4 ids handed out
    op,             \* the operation at work: its remaining calls, or None
    recorded,       \* history: trades acknowledged and not removed since
    halfway,        \* history: trades an operation was interrupted on
    broken,         \* history: the same, where the code deletes first
    strayed,        \* history: imported again beside documents its row does not lead to
    ops, faults

history == <<recorded, halfway, broken, strayed>>
ledgerVars == <<docs, next, op, history, ops, faults>>

Movement(t, a, k, g) ==
    [trade |-> t, account |-> a, kind |-> k, status |-> "ACTIVE", group |-> g,
     superseded_by |-> None, corrects |-> None, from |-> None, fromAccount |-> None]

Active(i) == docs[i] # None /\ docs[i].status = "ACTIVE"
ActiveOf(t) == {i \in Ids : Active(i) /\ docs[i].trade = t}
Legs(g) == {i \in Ids : docs[i] # None /\ docs[i].group = g}
(* A trade is entered by hand once, and not if it comes by CSV.            *)
Unused(t) == /\ t \notin recorded \cup {TradeOf[r] : r \in Rows}
             /\ \A i \in Ids : docs[i] # None => docs[i].trade # t

LedgerInit ==
    /\ docs = [i \in Ids |-> None]
    /\ next = 0
    /\ op = None
    /\ recorded = {} /\ halfway = {} /\ broken = {} /\ strayed = {}
    /\ ops = 0 /\ faults = 0

-----------------------------------------------------------------------------
(* A call: the document that is upserted or replaced at an id, None to     *)
(* delete it.                                                              *)
Call(i, d) == [id |-> i, doc |-> d]
Deletes(ids) == [k \in 1..Len(ids) |-> Call(ids[k], None)]

TradesIn(calls) ==
    {IF calls[k].doc # None THEN calls[k].doc.trade ELSE docs[calls[k].id].trade :
        k \in {m \in DOMAIN calls : calls[m].doc # None \/ docs[calls[m].id] # None}}

Begin(kind, calls, fresh, adds, gone) ==
    /\ op = None /\ ops < MaxOps /\ next + fresh <= MaxFresh
    /\ op' = [kind |-> kind, calls |-> calls, at |-> 0, adds |-> adds]
    /\ next' = next + fresh
    /\ ops' = ops + 1
    /\ recorded' = recorded \ gone
    /\ UNCHANGED <<docs, halfway, broken, faults>>

-----------------------------------------------------------------------------
(* _collect_movement_chain: the documents a document's links lead to.  A   *)
(* predecessor is looked for in the account reassigned_from names, if any, *)
(* a successor in the document's own account.                              *)
Links(i) ==
    LET d == docs[i]
        before == IF d.corrects # None THEN d.corrects ELSE d.from
        where == IF d.fromAccount # None THEN d.fromAccount ELSE d.account
    IN  {j \in Ids : docs[j] # None /\ \/ j = before /\ docs[j].account = where
                                       \/ j = d.superseded_by /\ docs[j].account = d.account}

Chain(i) ==
    {j \in Ids : \A S \in SUBSET {k \in Ids : docs[k] # None} :
                    i \in S /\ (\A k \in S : Links(k) \subseteq S) => j \in S}

Grouped(ids) == \E j \in ids : docs[j].group # None
ChainFrom(i) == <<i>> \o SetToSeq(Chain(i) \ {i})

(* write_ledger_txn, of a CSV row: a superseded or voided document at its  *)
(* id is purged with its chain, unless a group leg is in it; then the row  *)
(* is upserted.                                                            *)
Import(r) ==
    LET row == Call(r, Movement(TradeOf[r], AccountOf[r], "BUY", None))
        tombstone == docs[r] # None /\ ~Active(r)
    IN  /\ ~(tombstone /\ Grouped(Chain(r)))
        /\ Begin("import", (IF tombstone THEN Deletes(ChainFrom(r)) ELSE <<>>) \o <<row>>,
                 0, {TradeOf[r]}, {})
        /\ strayed' = IF \E i \in Ids \ ({r} \cup IF tombstone THEN Chain(r) ELSE {}) :
                            docs[i] # None /\ docs[i].trade = TradeOf[r]
                      THEN strayed \cup {TradeOf[r]} ELSE strayed

(* create_manual_movement.                                                 *)
Create(t, a) ==
    /\ Unused(t)
    /\ Begin("create", <<Call(next + 1, Movement(t, a, "BUY", None))>>, 1, {t}, {})
    /\ UNCHANGED strayed

Superseded(i, new) == [docs[i] EXCEPT !.status = "SUPERSEDED", !.superseded_by = new]

SupersedeFirst(i, d) ==                                            \* mutant
    <<Call(i, Superseded(i, next + 1)), Call(next + 1, d)>>

(* A replacement is written first, then its original is superseded.        *)
Replacement(i, d) ==
    <<Call(next + 1, d), Call(i, Superseded(i, next + 1))>>

(* correct_movement: not of a transfer; of a group leg only the fields     *)
(* that are not financial.                                                 *)
Correct(i) ==
    /\ Active(i) /\ docs[i].kind = "BUY"
    /\ Begin("correct",
             Replacement(i, [docs[i] EXCEPT !.corrects = i, !.superseded_by = None]), 1, {}, {})
    /\ UNCHANGED strayed

Moved(i, a) == [docs[i] EXCEPT !.account = a, !.from = i, !.fromAccount = docs[i].account,
                               !.corrects = None, !.superseded_by = None]

(* reassign_movement.                                                      *)
Reassign(i, a) ==
    /\ Active(i) /\ docs[i].account # a
    /\ Begin("reassign", Replacement(i, Moved(i, a)), 1, {}, {})
    /\ UNCHANGED strayed

(* The calls of s and of t in turn.                                        *)
Alternate(s, t) ==
    [m \in 1..(2 * Len(s)) |-> IF m % 2 = 1 THEN s[(m + 1) \div 2] ELSE t[m \div 2]]

(* batch_reassign_movements: the candidates of _fetch_reassign_candidates, *)
(* one reassignment after the other.                                       *)
BatchReassign(a, b) ==
    LET from == SetToSeq({i \in Ids : Active(i) /\ docs[i].account = a})
    IN  /\ a # b /\ from # <<>>
        /\ Begin("batch",
                 Alternate([k \in 1..Len(from) |-> Call(next + k, Moved(from[k], b))],
                           [k \in 1..Len(from) |-> Call(from[k], Superseded(from[k], next + k))]),
                 Len(from), {}, {})
        /\ UNCHANGED strayed

(* delete_movement, of one document or with its chain; group legs only     *)
(* with their group.                                                       *)
Delete(i) ==
    /\ docs[i] # None /\ docs[i].group = None
    /\ \E calls \in {<<i>>} \cup (IF Grouped(Chain(i)) THEN {} ELSE {ChainFrom(i)}) :
          Begin("delete", Deletes(calls), 0, {},
                {docs[calls[k]].trade : k \in {m \in DOMAIN calls : Active(calls[m])}})
    /\ UNCHANGED strayed

(* create_transfer_pair: out of an account that has the shares, into       *)
(* another.                                                                *)
Shares(a) ==
    LET held(kinds) == Cardinality({i \in Ids : Active(i) /\ docs[i].account = a
                                                          /\ docs[i].kind \in kinds})
    IN  held({"BUY", "IN"}) - held({"OUT"})

Transfer(t, u, a, b) ==
    /\ a # b /\ t # u /\ Unused(t) /\ Unused(u) /\ Shares(a) >= 1
    /\ Begin("transfer", <<Call(next + 1, Movement(t, a, "OUT", None)),
                           Call(next + 2, Movement(u, b, "IN", None))>>, 2, {t, u}, {})
    /\ UNCHANGED strayed

-----------------------------------------------------------------------------
(* Corporate actions: groups of legs, named here by their first id.        *)

(* create_corporate_action without a client request id.                    *)
CreateGroup(t, u, a) ==
    /\ t # u /\ Unused(t) /\ Unused(u)
    /\ Begin("create", <<Call(next + 1, Movement(t, a, "BUY", next + 1)),
                         Call(next + 2, Movement(u, a, "BUY", next + 1))>>, 2, {t, u}, {})
    /\ UNCHANGED strayed

ActiveLegs(g, accounts) ==
    SetToSeq({i \in Legs(g) : Active(i) /\ docs[i].account \in accounts})

(* void_corporate_action_group, in the account that was named.             *)
VoidGroup(g, a) ==
    LET legs == ActiveLegs(g, {a})
    IN  /\ legs # <<>>
        /\ Begin("void", [k \in 1..Len(legs) |->
                             Call(legs[k], [docs[legs[k]] EXCEPT !.status = "VOIDED"])],
                 0, {}, {docs[legs[k]].trade : k \in DOMAIN legs})
        /\ UNCHANGED strayed

(* delete_corporate_action_group.                                          *)
DeleteGroup(g) ==
    LET legs == SetToSeq(Legs(g))
    IN  /\ legs # <<>>
        /\ Begin("delete", Deletes(legs), 0, {},
                 {docs[legs[k]].trade : k \in {m \in DOMAIN legs : Active(legs[m])}})
        /\ UNCHANGED strayed

NewLegs(legs) == [k \in 1..Len(legs) |->
    Call(next + k, [Movement(docs[legs[k]].trade, docs[legs[k]].account, "BUY", next + 1)
                        EXCEPT !.kind = docs[legs[k]].kind])]
OldLegs(legs) == [k \in 1..Len(legs) |->
    Call(legs[k], [docs[legs[k]] EXCEPT !.status = "SUPERSEDED"])]
OneAccount(legs) == \A k, m \in DOMAIN legs : docs[legs[k]].account = docs[legs[m]].account

(* correct_corporate_action_group: phase one writes, phase two supersedes. *)
CorrectGroup(g) ==
    LET legs == ActiveLegs(g, Accounts)
    IN  /\ legs # <<>> /\ OneAccount(legs)
        /\ Begin("group", NewLegs(legs) \o OldLegs(legs), Len(legs), {}, {})
        /\ UNCHANGED strayed

(* The same with a client request id: one transactional batch, in which a  *)
(* record makes a repetition of the request a replay of its answer.        *)
CorrectGroupAtomically(g) ==
    LET legs == ActiveLegs(g, Accounts)
        calls == NewLegs(legs) \o OldLegs(legs)
    IN  /\ legs # <<>> /\ OneAccount(legs)
        /\ op = None /\ ops < MaxOps /\ next + Len(legs) <= MaxFresh
        /\ docs' = [i \in Ids |-> IF \E k \in DOMAIN calls : calls[k].id = i
                                  THEN calls[CHOOSE k \in DOMAIN calls : calls[k].id = i].doc
                                  ELSE docs[i]]
        /\ next' = next + Len(legs)
        /\ ops' = ops + 1
        /\ UNCHANGED <<op, history, faults>>

-----------------------------------------------------------------------------
(* The next call of the operation succeeds.                                *)
Step ==
    /\ op # None /\ op.at < Len(op.calls)
    /\ LET c == op.calls[op.at + 1] IN
          /\ docs' = [docs EXCEPT ![c.id] = c.doc]
          /\ IF op.at + 1 = Len(op.calls)
             THEN op' = None /\ recorded' = recorded \cup op.adds
             ELSE op' = [op EXCEPT !.at = @ + 1] /\ UNCHANGED recorded
    /\ UNCHANGED <<next, halfway, broken, strayed, ops, faults>>

DeletesFirst(kind) == kind \in {"import", "undo", "group"}

(* A batch is interrupted on the reassignment at work only.                *)
Interrupted == IF op.kind = "batch" THEN TradesIn(<<op.calls[op.at + 1]>>) ELSE TradesIn(op.calls)

Interrupt == /\ halfway' = halfway \cup Interrupted
             /\ broken' = IF DeletesFirst(op.kind) THEN broken \cup TradesIn(op.calls) ELSE broken
             /\ faults' = faults + 1

(* _rollback_batch_reassign: of the reassignments that were completed, the *)
(* new document is deleted, then the original restored.                    *)
Restored(calls, at) ==
    [k \in 1..(at \div 2) |-> Call(calls[2 * k].id, [docs[calls[2 * k].id] EXCEPT
                                      !.status = "ACTIVE", !.superseded_by = None])]
RollbackRestoring(calls, at) == Restored(calls, at)                \* mutant
Rollback(calls, at) ==
    Alternate([k \in 1..(at \div 2) |-> Call(calls[2 * k - 1].id, None)], Restored(calls, at))

(* The compensation of a group correction: the new legs that were written  *)
(* are deleted.                                                            *)
Compensation(calls, at) ==
    LET new == Len(calls) \div 2
    IN  [k \in 1..(IF at < new THEN at ELSE new) |-> Call(calls[k].id, None)]

Undo(o) == IF o.kind = "batch" THEN Rollback(o.calls, o.at)
           ELSE IF o.kind = "group" THEN Compensation(o.calls, o.at) ELSE <<>>

(* A call fails, having had its effect or not: the operation raises, after *)
(* it has undone what it undoes; a compensation goes on with its next call.*)
Fail ==
    /\ op # None /\ faults < MaxFaults
    /\ LET c == op.calls[op.at + 1] IN docs' \in {docs, [docs EXCEPT ![c.id] = c.doc]}
    /\ Interrupt
    /\ op' = IF op.kind = "undo"
             THEN IF op.at + 1 = Len(op.calls) THEN None ELSE [op EXCEPT !.at = @ + 1]
             ELSE IF Undo(op) = <<>> THEN None
             ELSE [kind |-> "undo", calls |-> Undo(op), at |-> 0, adds |-> {}]
    /\ UNCHANGED <<next, recorded, strayed, ops>>

Crash ==
    /\ op # None /\ faults < MaxFaults
    /\ Interrupt
    /\ op' = None
    /\ UNCHANGED <<docs, next, recorded, strayed, ops>>

Operation ==
    \/ \E t \in Trades, a \in Accounts : Create(t, a)
    \/ \E i \in Ids : Correct(i) \/ Delete(i) \/ \E a \in Accounts : Reassign(i, a)
    \/ \E a, b \in Accounts : BatchReassign(a, b)
    \/ \E t, u \in Trades, a, b \in Accounts : Transfer(t, u, a, b)
    \/ \E t, u \in Trades, a \in Accounts : CreateGroup(t, u, a)
    \/ \E g \in 1..MaxFresh : \/ \E a \in Accounts : VoidGroup(g, a)
                              \/ DeleteGroup(g) \/ CorrectGroup(g) \/ CorrectGroupAtomically(g)

LedgerNext == Operation \/ Step \/ Fail \/ Crash

-----------------------------------------------------------------------------
(* No trade is counted twice: between operations a trade has at most one   *)
(* ACTIVE document, through corrections, reassignments, rollbacks, purges  *)
(* and repeated imports.  (An operation interrupted by a failure, and an   *)
(* import beside documents its row does not lead to, are the exceptions.)  *)
CountedOnce ==
    op = None => \A t \in Trades \ (halfway \cup strayed) : Cardinality(ActiveOf(t)) <= 1

(* "Safe order": no trade that was acknowledged leaves the ledger, not     *)
(* even for a moment or when a call fails or the process dies between two  *)
(* calls, unless it is removed.  The exceptions are where the code deletes *)
(* before it writes: in a purge before an import, in a rollback, and when  *)
(* the compensation of a group correction follows its second phase.        *)
NeverLost ==
    \A t \in recorded \ broken :
        ActiveOf(t) # {} \/ (op # None /\ DeletesFirst(op.kind) /\ t \in TradesIn(op.calls))

(* "Already-superseded" originals and the purge of tombstones together: an *)
(* import never makes a trade count twice.                                 *)
EachTradeOnce ==
    op = None => \A t \in Trades \ halfway : Cardinality(ActiveOf(t)) <= 1
=============================================================================
