------------------------------ MODULE Metering ------------------------------
(***************************************************************************)
(* The metering path of the LLMeter proxy for one organisation: a request  *)
(* looks its organisation up, passes the credit gate on that snapshot,     *)
(* fails over between upstream configs, is answered, and a background task *)
(* then writes its request_logs row, charges it and, when the charge does  *)
(* not happen, restores the full request body.  Requests of the same       *)
(* organisation run concurrently with each other and with administrators;  *)
(* every database call may fail, a client may go away, and the process may *)
(* be stopped between any two steps.                                       *)
(*                                                                         *)
(* Slots are the requests in flight; a slot is used again by later         *)
(* requests.  Credits are integers (10^-6 credit).  The cost of a charge   *)
(* is any member of Costs, how it is computed from tokens is not a matter  *)
(* of this module.  A transaction of the database is one step here;        *)
(* ChargeTx has its statements and locks.                                  *)
(***************************************************************************)
EXTENDS Integers, Sequences, FiniteSets

CONSTANTS Slots,        \* concurrent requests of the organisation
          Amounts,      \* recharge amounts an administrator posts
          Limits,       \* values of organizations.overdraft_limit
          Costs,        \* credit costs a successful request may have
          MaxCost,      \* an upper bound of Costs
          MaxConfigs,   \* upstream configs that may match a model
          MaxRows,      \* bound: rows of request_logs
          MaxEntries,   \* bound: recharges stop when credit_logs is this long
          NULL          \* SQL NULL

ASSUME MeteringAssumption ==
  /\ IsFiniteSet(Slots) /\ Slots # {}
  /\ Amounts \subseteq Int \ {0}
  /\ Limits \subseteq Int /\ Limits # {}
  /\ MaxCost \in Nat \ {0}
  /\ Costs \subseteq 0..MaxCost
  /\ MaxConfigs \in Nat \ {0} /\ MaxRows \in Nat /\ MaxEntries \in Nat
  /\ NULL \notin Int

VARIABLES org,          \* the organizations row
          ledger,       \* its credit_logs rows, in commit order
          log,          \* its request_logs rows, in insertion order
          pc, job,      \* per slot: where the request is, what it carries
          orphans       \* history: rows whose settlement was cut short, by a
                        \* crash, a failed restore or a lost answer to INSERT

vars == <<org, ledger, log, pc, job, orphans>>

Modes == {"standard", "contract"}

Org == [credit : Int, limit : Limits, mode : Modes]

Entry == [kind : {"recharge", "consume"}, ref : (1..MaxRows) \cup {NULL},
          amount : Int, after : Int]

(* A request_logs row; body is "prefix" when only the first 64 KiB of the   *)
(* request body are kept, cost is credit_cost.                              *)
Row == [status : {"success", "error"}, model : BOOLEAN, mode : Modes,
        body : {"full", "prefix"}, cost : Costs \cup {NULL}]

Phases == {"idle", "body", "attempt", "respond", "insert", "charge", "restore"}

(***************************************************************************)
(* What a request carries across its awaits: whether its snapshot of the   *)
(* organisation had credit left, the snapshot's billing mode, whether the  *)
(* request names a model (a passthrough names none), whether its body is   *)
(* over 64 KiB, the configs it has not tried, whether the attempt streams, *)
(* whether a price version was locked, the outcome, and its log row.       *)
(***************************************************************************)
Job == [funded : BOOLEAN, mode : Modes, model : BOOLEAN, big : BOOLEAN,
        configs : 0..MaxConfigs, stream : BOOLEAN, priced : BOOLEAN,
        ok : BOOLEAN, row : 0..MaxRows]

NoJob == [funded |-> FALSE, mode |-> "standard", model |-> FALSE,
          big |-> FALSE, configs |-> 0, stream |-> FALSE, priced |-> FALSE,
          ok |-> FALSE, row |-> 0]

(* An attempt is always with some config. *)
HasConfig == \A s \in Slots : pc[s] = "attempt" => job[s].configs # 0

TypeOK ==
  /\ org \in Org
  /\ ledger \in Seq(Entry)
  /\ log \in Seq(Row) /\ Len(log) <= MaxRows
  /\ pc \in [Slots -> Phases]
  /\ job \in [Slots -> Job] /\ HasConfig
  /\ orphans \subseteq 1..MaxRows

Init ==
  /\ org \in [credit : {0}, limit : Limits, mode : Modes]
  /\ ledger = <<>> /\ log = <<>>
  /\ pc = [s \in Slots |-> "idle"]
  /\ job = [s \in Slots |-> NoJob]
  /\ orphans = {}

-----------------------------------------------------------------------------
(* The decisions the code takes, each an operator of its own, after the     *)
(* variant a slip would make of it: the runs show that the properties tell  *)
(* the two apart.                                                           *)

PassesAtZero(o) == o.credit + o.limit >= 0

(* The credit gate refuses at credit + overdraft_limit <= 0. *)
HasCredit(o) == o.credit + o.limit > 0

BalanceBefore(entries, ref, amount, after) ==
  Append(entries, [kind |-> IF ref = NULL THEN "recharge" ELSE "consume",
                   ref |-> ref, amount |-> amount, after |-> after - amount])

(* The credit_logs row of a movement, with the balance it RETURNs. *)
Recorded(entries, ref, amount, after) ==
  Append(entries, [kind |-> IF ref = NULL THEN "recharge" ELSE "consume",
                   ref |-> ref, amount |-> amount, after |-> after])

(* A successful request with a model keeps only a prefix of a big body. *)
StoredBody(j) == IF j.ok /\ j.model /\ j.big THEN "prefix" ELSE "full"

RowOf(j) == [status |-> IF j.ok THEN "success" ELSE "error",
             model |-> j.model, mode |-> j.mode, body |-> StoredBody(j),
             cost |-> NULL]

WhateverTheStatus(j) == j.model

(* Only a successful request with a model is charged. *)
Chargeable(j) == j.model /\ j.ok

CurrentMode(j) == org.mode

(* The billing mode the charge goes by is the snapshot's. *)
ChargeMode(j) == j.mode

(* The attempt under way is with the last matching config. *)
LastConfig(j) == j.configs = 1

EndsUnbilled(s) == pc' = [pc EXCEPT ![s] = "idle"]

(* `if !billed`: the task goes on to restore the full body. *)
GoRestore(s) == pc' = [pc EXCEPT ![s] = "restore"]

-----------------------------------------------------------------------------
Goto(s, phase) == pc' = [pc EXCEPT ![s] = phase]

Done(s) == /\ pc' = [pc EXCEPT ![s] = "idle"]
           /\ job' = [job EXCEPT ![s] = NoJob]

CanInsert == Len(log) < MaxRows

(* `let _ = INSERT ... 'error'`: the row is written or the error dropped. *)
MayLogError(s) ==
  \/ UNCHANGED log
  \/ CanInsert /\ log' = Append(log, RowOf([job[s] EXCEPT !.ok = FALSE]))

(***************************************************************************)
(* The key is looked up together with its organisation: from here on the   *)
(* request goes by this copy, whatever administrators or other requests    *)
(* do.  An unknown or inactive key or organisation ends in 401 and changes *)
(* nothing: it is a Lookup that is not taken.                              *)
(***************************************************************************)
Lookup(s) ==
  /\ pc[s] = "idle"
  /\ job' = [job EXCEPT ![s].funded = HasCredit(org), ![s].mode = org.mode]
  /\ Goto(s, "body")
  /\ UNCHANGED <<org, ledger, log, orphans>>

(* The body is read; a request with a model and no credit is refused (402). *)
Refuse(s, big) ==
  /\ pc[s] = "body"
  /\ ~job[s].funded
  /\ LET j == [job[s] EXCEPT !.model = TRUE, !.big = big] IN
       \/ UNCHANGED log
       \/ CanInsert /\ log' = Append(log, RowOf(j))
  /\ Done(s)
  /\ UNCHANGED <<org, ledger, orphans>>

(* n configs match; a passthrough has one and is not gated.  What is not    *)
(* read any more (here: the snapshot's credit and a passthrough's body size)*)
(* is set to one value, so that states differing only in it coincide.       *)
Admit(s, model, big, n) ==
  /\ pc[s] = "body"
  /\ model => job[s].funded
  /\ ~model => n = 1 /\ ~big
  /\ job' = [job EXCEPT ![s].funded = model, ![s].model = model,
                        ![s].big = big, ![s].configs = n]
  /\ Goto(s, "attempt")
  /\ UNCHANGED <<org, ledger, log, orphans>>

(* `continue`: the next config, or the last error when there is none. *)
NextConfig(s) ==
  IF LastConfig(job[s])
  THEN Done(s)
  ELSE /\ job' = [job EXCEPT ![s].configs = @ - 1, ![s].priced = FALSE]
       /\ UNCHANGED pc

Priced(j) == j.mode = "standard" /\ j.model

(* No price version is in force for this config: skip it, log nothing. *)
NoPrice(s) ==
  /\ pc[s] = "attempt"
  /\ Priced(job[s])
  /\ NextConfig(s)
  /\ UNCHANGED <<org, ledger, log, orphans>>

(* The upstream cannot be reached, or answers a non-streaming request with  *)
(* an error while other configs are left: log the failure and go on.        *)
FailOver(s, answered) ==
  /\ pc[s] = "attempt"
  /\ answered => ~LastConfig(job[s])
  /\ MayLogError(s)
  /\ NextConfig(s)
  /\ UNCHANGED <<org, ledger, orphans>>

(* The attempt's answer is the one the client gets. *)
Accept(s, stream, ok) ==
  /\ pc[s] = "attempt"
  /\ stream \/ ok \/ LastConfig(job[s])
  /\ job' = [job EXCEPT ![s].stream = stream, ![s].ok = ok,
                        ![s].configs = 0, ![s].priced = Priced(job[s])]
  /\ Goto(s, "respond")
  /\ UNCHANGED <<org, ledger, log, orphans>>

(***************************************************************************)
(* The handler ends before its background task exists: the body cannot be  *)
(* read, no config matches, the upstream's answer breaks off, or the client*)
(* disconnects and the future is dropped.  No row is written.              *)
(***************************************************************************)
Abandon(s) ==
  /\ \/ pc[s] \in {"body", "attempt"}
     \/ pc[s] = "respond" /\ ~job[s].stream
  /\ Done(s)
  /\ UNCHANGED <<org, ledger, log, orphans>>

(* The stream is dropped before its end: the task logs an error, no charge. *)
Interrupted(s) ==
  /\ pc[s] = "respond" /\ job[s].stream
  /\ MayLogError(s)
  /\ Done(s)
  /\ UNCHANGED <<org, ledger, orphans>>

(* The whole answer is known; a stream with a model and no usage is an error. *)
Answered(s, usage) ==
  /\ pc[s] = "respond"
  /\ job' = [job EXCEPT ![s].stream = FALSE,
                        ![s].ok = @ /\ (job[s].stream /\ job[s].model => usage)]
  /\ Goto(s, "insert")
  /\ UNCHANGED <<org, ledger, log, orphans>>

-----------------------------------------------------------------------------
(* The background task. *)

InsertRow(s) ==
  /\ pc[s] = "insert"
  /\ CanInsert
  /\ log' = Append(log, RowOf(job[s]))
  /\ IF Chargeable(job[s])
     THEN /\ job' = [job EXCEPT ![s].row = Len(log) + 1]
          /\ Goto(s, "charge")
     ELSE Done(s)
  /\ UNCHANGED <<org, ledger, orphans>>

(***************************************************************************)
(* The INSERT is a statement on the pool, committed on its own.  When its  *)
(* answer is lost the row is there all the same, but the task, told of an  *)
(* error, returns: nobody charges that row or restores its body.           *)
(***************************************************************************)
WrittenUnanswered(s) ==
  /\ CanInsert
  /\ log' = Append(log, RowOf(job[s]))
  /\ orphans' = IF Chargeable(job[s]) THEN orphans \cup {Len(log) + 1} ELSE orphans

InsertFails(s) ==
  /\ pc[s] = "insert"
  /\ UNCHANGED <<log, orphans>> \/ WrittenUnanswered(s)
  /\ Done(s)
  /\ UNCHANGED <<org, ledger>>

(***************************************************************************)
(* The charge transaction commits: balance, ledger entry and the row's     *)
(* cost change together.  A zero standard cost marks the row and posts no  *)
(* entry; a zero contract cost is no charge (NotCharged).  When the answer *)
(* to COMMIT is lost, the task believes that nothing was charged.          *)
(***************************************************************************)
Charge(s, c, answerLost) ==
  /\ pc[s] = "charge"
  /\ log[job[s].row].cost = NULL
  /\ ChargeMode(job[s]) = "contract" => c > 0
  /\ ChargeMode(job[s]) = "standard" => job[s].priced
  /\ org' = [org EXCEPT !.credit = @ - c]
  /\ ledger' = IF c = 0 THEN ledger
               ELSE Recorded(ledger, job[s].row, -c, org'.credit)
  /\ log' = [log EXCEPT ![job[s].row].cost = c]
  /\ IF answerLost THEN GoRestore(s) /\ UNCHANGED job ELSE Done(s)
  /\ UNCHANGED orphans

(* Nothing is charged: the rate gives zero, or the transaction fails. *)
NotCharged(s) ==
  /\ pc[s] = "charge"
  /\ GoRestore(s)
  /\ UNCHANGED <<org, ledger, log, job, orphans>>

Restore(s) ==
  /\ pc[s] = "restore"
  /\ log' = [log EXCEPT ![job[s].row].body = "full"]
  /\ Done(s)
  /\ UNCHANGED <<org, ledger, orphans>>

(* The UPDATE fails: the error is traced, the row stays as it is.  (When only*)
(* its answer is lost the row is restored: that is Restore.)                *)
RestoreFails(s) ==
  /\ pc[s] = "restore"
  /\ orphans' = orphans \cup {job[s].row}
  /\ Done(s)
  /\ UNCHANGED <<org, ledger, log>>

-----------------------------------------------------------------------------
(* Administrators, and the process itself. *)

Recharge(a) ==
  /\ Len(ledger) < MaxEntries
  /\ org' = [org EXCEPT !.credit = @ + a]
  /\ ledger' = Recorded(ledger, NULL, a, org'.credit)
  /\ UNCHANGED <<log, pc, job, orphans>>

UpdateOrg(limit, mode) ==
  /\ org' = [org EXCEPT !.limit = limit, !.mode = mode]
  /\ UNCHANGED <<ledger, log, pc, job, orphans>>

(***************************************************************************)
(* The process is killed, or its graceful shutdown ends with background    *)
(* tasks still running; nothing resumes them after a restart.              *)
(***************************************************************************)
Crash ==
  /\ orphans' = orphans \cup
                {job[s].row : s \in {t \in Slots : pc[t] \in {"charge", "restore"}}}
  /\ pc' = [s \in Slots |-> "idle"]
  /\ job' = [s \in Slots |-> NoJob]
  /\ UNCHANGED <<org, ledger, log>>

Request(s) ==
  \/ Lookup(s)
  \/ \E big \in BOOLEAN : Refuse(s, big)
  \/ \E model, big \in BOOLEAN, n \in 1..MaxConfigs : Admit(s, model, big, n)
  \/ NoPrice(s)
  \/ \E answered \in BOOLEAN : FailOver(s, answered)
  \/ \E stream, ok \in BOOLEAN : Accept(s, stream, ok)
  \/ Abandon(s)
  \/ Interrupted(s)
  \/ \E usage \in BOOLEAN : Answered(s, usage)

Task(s) ==
  \/ InsertRow(s)
  \/ InsertFails(s)
  \/ \E c \in Costs, answerLost \in BOOLEAN : Charge(s, c, answerLost)
  \/ NotCharged(s)
  \/ Restore(s)
  \/ RestoreFails(s)

Admin ==
  \/ \E a \in Amounts : Recharge(a)
  \/ \E limit \in Limits, mode \in Modes : UpdateOrg(limit, mode)

Next == (\E s \in Slots : Request(s) \/ Task(s)) \/ Admin \/ Crash

Spec == Init /\ [][Next]_vars

(* Once spawned, a background task runs; clients, upstreams and            *)
(* administrators owe nothing.                                             *)
FairSpec == Spec /\ \A s \in Slots : WF_vars(Task(s))

-----------------------------------------------------------------------------
(***************************************************************************)
(* LedgerMatchesRows: money and request log agree.  Every charge in the    *)
(* ledger is that of a successful request with a model and takes exactly   *)
(* the credit_cost stored in its row; a row with a cost other than zero has*)
(* exactly one charge.  It needs every step of the task, of every request, *)
(* to keep the two tables together across crashes and lost answers.        *)
(***************************************************************************)
Charges(r) == {i \in DOMAIN ledger : ledger[i].ref = r}

LedgerMatchesRows ==
  /\ \A i \in DOMAIN ledger : ledger[i].kind = "consume" =>
       /\ ledger[i].ref \in DOMAIN log
       /\ LET row == log[ledger[i].ref] IN
            /\ row.status = "success" /\ row.model
            /\ row.cost = -ledger[i].amount
  /\ \A r \in DOMAIN log : log[r].cost \notin {NULL, 0} =>
       Cardinality(Charges(r)) = 1

(***************************************************************************)
(* PrefixAccounted: a row that kept only a prefix of its body and has no   *)
(* cost is one that a task is still settling, or one whose settlement was  *)
(* cut short: by a crash, by a failed restore, or because its INSERT was   *)
(* committed and reported as failed.  In every other case the full body of *)
(* an uncharged request is there.                                          *)
(***************************************************************************)
Unsettled(i) ==
  i \in DOMAIN log /\ log[i].body = "prefix" /\ log[i].cost = NULL

Settling(s, i) == pc[s] \in {"charge", "restore"} /\ job[s].row = i

PrefixAccounted ==
  \A i \in DOMAIN log : Unsettled(i) =>
    i \in orphans \/ \E s \in Slots : Settling(s, i)

(***************************************************************************)
(* TermsKept: a charge goes by the billing mode its row was logged with,   *)
(* which is the one the request was admitted under, and a standard charge  *)
(* always finds the price version locked before the upstream was called:   *)
(* the "has no price snapshot" branch of deduct_credits is dead code, even *)
(* when an administrator switches the mode in between.                     *)
(***************************************************************************)
TermsKept ==
  \A s \in Slots : pc[s] = "charge" =>
    /\ ChargeMode(job[s]) = log[job[s].row].mode
    /\ ChargeMode(job[s]) = "standard" => job[s].priced

(***************************************************************************)
(* DebtBounded: the credit gate reads a snapshot, so it does not stop the  *)
(* balance from passing the overdraft limit; but as long as administrators *)
(* only add credit, the debt beyond the limit stays below the cost of one  *)
(* request per slot, however many requests come and go.                    *)
(***************************************************************************)
AdminOnlyAdds ==
  Amounts \subseteq Nat /\ Limits \subseteq Nat /\ \A l, k \in Limits : l = k

DebtBounded ==
  AdminOnlyAdds => org.credit + org.limit > -(MaxCost * Cardinality(Slots))

(***************************************************************************)
(* RowSettles: unless one of these three cuts it short, a row with a prefix*)
(* and no cost does not stay so: it is charged or gets its full body back. *)
(***************************************************************************)
RowSettles ==
  \A i \in 1..MaxRows :
    Unsettled(i) ~> (~Unsettled(i) \/ i \in orphans)

(***************************************************************************)
(* LedgerSpec: the balance and the credit_logs rows behave as the abstract *)
(* ledger: they change together, one entry at a time, and no request is    *)
(* charged twice.                                                          *)
(***************************************************************************)
L == INSTANCE Ledger WITH open <- TRUE, balance <- org.credit, entries <- ledger,
                          Refs <- 1..MaxRows, Costs <- Costs \ {0}

LedgerSpec == L!Spec
=============================================================================
