------------------------------ MODULE ChargeTx ------------------------------
(***************************************************************************)
(* The SQL transactions behind the credit ledger of one organisation,      *)
(* statement by statement, under PostgreSQL's READ COMMITTED: charges of   *)
(* requests, recharges by administrators and the deletion of the           *)
(* organisation.  A statement that needs a row locked by another           *)
(* transaction waits: it is an action that is not enabled.  What a         *)
(* transaction has written is in tx until its COMMIT.                      *)
(*                                                                         *)
(* Locks follow from where a transaction is: a charge locks its            *)
(* request_logs row (SELECT ... FOR UPDATE) and then the organizations row,*)
(* a recharge and the deletion lock the organizations row.                 *)
(***************************************************************************)
EXTENDS Integers, Sequences, FiniteSets

CONSTANTS Requests,     \* requests, each with a row and a charge of its own
          Recharges,    \* calls of recharge_credit
          Deletion,     \* the call of delete_org
          Amounts,      \* recharge amounts
          Costs,        \* credit costs a request may have
          NULL          \* SQL NULL

ASSUME ChargeTxAssumption ==
  /\ Amounts \subseteq Int \ {0} /\ Costs \subseteq Nat
  /\ Requests \cap Recharges = {} /\ Deletion \notin Requests \cup Recharges
  /\ NULL \notin Requests \cup Int

Procs == Requests \cup Recharges \cup {Deletion}

VARIABLES org,          \* committed organizations row
          ledger,       \* committed credit_logs rows, in commit order
          rows, cost,   \* committed request_logs rows and their credit_cost
          pc, tx        \* per call: its last statement, its uncommitted work

vars == <<org, ledger, rows, cost, pc, tx>>

Phases == {"start", "logged", "begun", "locked", "paid", "posted", "marked",
           "checking", "done"}

(* A credit_logs row. *)
Consume == [kind : {"consume"}, ref : Requests, amount : {-c : c \in Costs \ {0}},
            after : Int]
Refill == [kind : {"recharge"}, ref : {NULL}, amount : Amounts, after : Int]
Entry == Consume \cup Refill

Tx == [amount : Int, after : Int, entries : Seq(Entry)]

NoTx == [amount |-> 0, after |-> 0, entries |-> <<>>]

TypeOK ==
  /\ org \in [exists : BOOLEAN, credit : Int]
  /\ ledger \in Seq(Entry)
  /\ rows \subseteq Requests
  /\ cost \in [Requests -> Costs \cup {NULL}]
  /\ pc \in [Procs -> Phases]
  /\ tx \in [Procs -> Tx]

Init ==
  /\ org = [exists |-> TRUE, credit |-> 0]
  /\ ledger = <<>>
  /\ rows = {} /\ cost = [r \in Requests |-> NULL]
  /\ pc = [p \in Procs |-> "start"]
  /\ tx = [p \in Procs |-> NoTx]

HoldsOrg(p) == pc[p] \in {"paid", "posted", "marked", "checking"}
HoldsRow(r) == pc[r] \in {"locked", "paid", "posted", "marked"}
OrgFree == \A p \in Procs : ~HoldsOrg(p)

Goto(p, phase) == pc' = [pc EXCEPT ![p] = phase]

-----------------------------------------------------------------------------
(* Each of these choices of the code follows the slip it is to be told from.*)

(* A charge of c moves the balance by -c. *)
Debit(c) == -c

OrgOnPool(p) ==
  /\ org' = [org EXCEPT !.credit = @ + tx[p].amount]
  /\ tx' = [tx EXCEPT ![p].after = org.credit + tx[p].amount]

(* UPDATE organizations ... RETURNING credit runs in the transaction.       *)
OrgInTx(p) ==
  /\ tx' = [tx EXCEPT ![p].after = org.credit + tx[p].amount]
  /\ UNCHANGED org

EntryOnPool(p, entry) == ledger' = Append(ledger, entry) /\ UNCHANGED tx

(* INSERT INTO credit_logs runs in the transaction. *)
EntryInTx(p, entry) ==
  tx' = [tx EXCEPT ![p].entries = <<entry>>] /\ UNCHANGED ledger

FromThePool(r) == ~HoldsRow(r)

(* The UPDATE of the request_logs row runs in the transaction that locked   *)
(* it; on another connection it would wait for that lock.                   *)
FromTheTx(r) == HoldsRow(r)

WhateverRefers == TRUE

(* request_logs.org_id refers to the organisation without ON DELETE.        *)
NothingRefers == rows = {}

-----------------------------------------------------------------------------
(* A request's row is inserted, in a transaction of its own; its foreign key*)
(* waits for a deletion under way and fails when the organisation is gone.  *)
InsertLog(r) ==
  /\ pc[r] = "start"
  /\ pc[Deletion] # "checking"
  /\ IF org.exists THEN rows' = rows \cup {r} /\ Goto(r, "logged")
                   ELSE UNCHANGED rows /\ Goto(r, "done")
  /\ UNCHANGED <<org, ledger, cost, tx>>

BeginWith(p, amount) ==
  /\ tx' = [tx EXCEPT ![p].amount = amount]
  /\ Goto(p, "begun")
  /\ UNCHANGED <<org, ledger, rows, cost>>

BeginCharge(r, c) == pc[r] = "logged" /\ BeginWith(r, Debit(c))

BeginRecharge(p, a) == pc[p] = "start" /\ BeginWith(p, a)

(* SELECT credit_cost ... FOR UPDATE; a row that has a cost is not charged. *)
LockLog(r) ==
  /\ pc[r] = "begun"
  /\ cost[r] = NULL
  /\ Goto(r, "locked")
  /\ UNCHANGED <<org, ledger, rows, cost, tx>>

(* UPDATE organizations SET credit = credit + ...: waits for the row, works *)
(* on its latest committed version, and fails when there is none.           *)
UpdateOrg(p) ==
  /\ pc[p] = IF p \in Requests THEN "locked" ELSE "begun"
  /\ OrgFree
  /\ IF org.exists THEN OrgInTx(p) /\ Goto(p, "paid")
                   ELSE UNCHANGED <<org, tx>> /\ Goto(p, "done")
  /\ UNCHANGED <<ledger, rows, cost>>

EntryOf(p) ==
  [kind |-> IF p \in Requests THEN "consume" ELSE "recharge",
   ref |-> IF p \in Requests THEN p ELSE NULL,
   amount |-> tx[p].amount, after |-> tx[p].after]

(* A standard charge of zero writes no credit_logs row. *)
InsertEntry(p) ==
  /\ pc[p] = "paid"
  /\ IF tx[p].amount = 0 THEN UNCHANGED <<ledger, tx>> ELSE EntryInTx(p, EntryOf(p))
  /\ Goto(p, "posted")
  /\ UNCHANGED <<org, rows, cost>>

MarkRow(r) ==
  /\ pc[r] = "posted"
  /\ FromTheTx(r)
  /\ Goto(r, "marked")
  /\ UNCHANGED <<org, ledger, rows, cost, tx>>

(* What the transaction wrote becomes visible, all at once. *)
Commit(p) ==
  /\ pc[p] = IF p \in Requests THEN "marked" ELSE "posted"
  /\ org' = [org EXCEPT !.credit = tx[p].after]
  /\ ledger' = ledger \o tx[p].entries
  /\ cost' = IF p \in Requests THEN [cost EXCEPT ![p] = -tx[p].amount] ELSE cost
  /\ Goto(p, "done")
  /\ UNCHANGED <<rows, tx>>

(* A statement fails, no connection can be had, or the process dies: what   *)
(* the transaction wrote is rolled back and its locks are gone.             *)
Fail(p) ==
  /\ pc[p] # "done"
  /\ Goto(p, "done")
  /\ UNCHANGED <<org, ledger, rows, cost, tx>>

-----------------------------------------------------------------------------
(* DELETE FROM organizations: one statement, but it locks the row first and *)
(* then looks for rows that refer to it.                                    *)
LockOrg ==
  /\ pc[Deletion] = "start"
  /\ OrgFree
  /\ Goto(Deletion, "checking")
  /\ UNCHANGED <<org, ledger, rows, cost, tx>>

(* A request row refers to the organisation; the check waits while a charge *)
(* holds it.                                                                *)
DeleteRefused ==
  /\ pc[Deletion] = "checking"
  /\ \E r \in rows : ~HoldsRow(r)
  /\ Goto(Deletion, "done")
  /\ UNCHANGED <<org, ledger, rows, cost, tx>>

(* The credit_logs go with the organisation (ON DELETE CASCADE). *)
DeleteOrg ==
  /\ pc[Deletion] = "checking"
  /\ NothingRefers
  /\ org' = [exists |-> FALSE, credit |-> 0]
  /\ ledger' = <<>>
  /\ Goto(Deletion, "done")
  /\ UNCHANGED <<rows, cost, tx>>

(* The charge waits for the organisation and the deletion for its row: the  *)
(* database aborts one of the two.                                          *)
BreakDeadlock(r) ==
  /\ pc[Deletion] = "checking" /\ pc[r] = "locked"
  /\ \E victim \in {r, Deletion} : Goto(victim, "done")
  /\ UNCHANGED <<org, ledger, rows, cost, tx>>

Charging(r) ==
  \/ \E c \in Costs : BeginCharge(r, c)
  \/ LockLog(r) \/ UpdateOrg(r) \/ InsertEntry(r) \/ MarkRow(r) \/ Commit(r)

Recharging(p) == UpdateOrg(p) \/ InsertEntry(p) \/ Commit(p)

Deleting == DeleteRefused \/ DeleteOrg

Next ==
  \/ \E r \in Requests : InsertLog(r) \/ Charging(r) \/ BreakDeadlock(r)
  \/ \E p \in Recharges : Recharging(p) \/ \E a \in Amounts : BeginRecharge(p, a)
  \/ LockOrg \/ Deleting
  \/ \E p \in Procs : Fail(p)

Spec == Init /\ [][Next]_vars

(* A call that is under way goes on, and the database finds its deadlocks;  *)
(* nobody has to call, and nothing has to fail.                             *)
FairSpec ==
  /\ Spec
  /\ \A r \in Requests : WF_vars(Charging(r)) /\ WF_vars(BreakDeadlock(r))
  /\ \A p \in Recharges : WF_vars(Recharging(p))
  /\ WF_vars(Deleting)

-----------------------------------------------------------------------------
(***************************************************************************)
(* ChargedWhole: at every statement boundary a request has a cost other    *)
(* than zero in request_logs exactly when credit_logs has exactly one entry*)
(* for it, of that amount ("no partial success", db.rs:358): nothing that a*)
(* transaction did becomes visible without the rest.                       *)
(***************************************************************************)
EntriesOf(r) == {i \in DOMAIN ledger : ledger[i].ref = r}

ChargedWhole ==
  \A r \in Requests :
    /\ cost[r] \in {NULL, 0} => EntriesOf(r) = {}
    /\ cost[r] \notin {NULL, 0} =>
         \E i \in EntriesOf(r) : /\ EntriesOf(r) = {i}
                                 /\ ledger[i].amount = -cost[r]

(***************************************************************************)
(* RowsHaveOrg: the organisation of a logged request is never deleted, in  *)
(* whatever order the deletion, the request and its charge interleave.     *)
(***************************************************************************)
RowsHaveOrg == rows # {} => org.exists

(***************************************************************************)
(* CallsEnd: every transaction that has begun ends: charges, recharges and *)
(* the deletion never wait for each other for good, although a charge and  *)
(* a deletion take the two rows in opposite order.                         *)
(***************************************************************************)
CallsEnd == \A p \in Procs : pc[p] # "start" ~> pc[p] = "done"

(***************************************************************************)
(* LedgerSpec: the committed tables implement the abstract ledger: every   *)
(* commit is one whole movement and no update of the balance is lost.      *)
(***************************************************************************)
L == INSTANCE Ledger WITH open <- org.exists, balance <- org.credit,
                          entries <- ledger, Refs <- Requests, Costs <- Costs \ {0}

LedgerSpec == L!Spec
=============================================================================
