---------------------------- MODULE ChargeTxProofs ----------------------------
(***************************************************************************)
(* Proofs about ChargeTx, for any number of charges and recharges.  What a *)
(* transaction read of the balance (after) is still right when it commits  *)
(* because no two transactions hold the organizations row (OneHolder), and *)
(* the row of a logged request keeps the organisation there (RowsHaveOrg). *)
(***************************************************************************)
EXTENDS ChargeTx, SequenceTheorems, TLAPS

OneHolder == \A p, q \in Procs : HoldsOrg(p) /\ HoldsOrg(q) => p = q

(* What a transaction has written, by where it is. *)
Written(p) == IF tx[p].amount = 0 THEN <<>> ELSE <<EntryOf(p)>>

TxRight(p) ==
  /\ pc[p] \in {"begun", "locked", "paid", "posted", "marked"} =>
       tx[p].amount \in IF p \in Requests THEN {-c : c \in Costs} ELSE Amounts
  /\ pc[p] \in {"paid", "posted", "marked"} =>
       org.exists /\ tx[p].after = org.credit + tx[p].amount
  /\ pc[p] \in {"start", "logged", "begun", "locked", "paid"} => tx[p].entries = <<>>
  /\ pc[p] \in {"posted", "marked"} => tx[p].entries = Written(p)

Path(p) ==
  pc[p] \in IF p \in Requests
            THEN {"start", "logged", "begun", "locked", "paid", "posted", "marked", "done"}
            ELSE IF p = Deletion THEN {"start", "checking", "done"}
            ELSE {"start", "begun", "paid", "posted", "done"}

(* A request has a row before it is charged, and no cost before it is done. *)
RowRight(r) ==
  /\ pc[r] \notin {"start", "done"} \/ cost[r] # NULL => r \in rows
  /\ pc[r] # "done" => cost[r] = NULL

ChargedOnce(r) ==
  /\ cost[r] \in {NULL, 0} => EntriesOf(r) = {}
  /\ cost[r] \notin {NULL, 0} =>
       \E i \in EntriesOf(r) : EntriesOf(r) = {i} /\ ledger[i].amount = -cost[r]

IInv ==
  /\ TypeOK
  /\ OneHolder
  /\ \A p \in Procs : Path(p) /\ TxRight(p)
  /\ \A r \in Requests : RowRight(r) /\ ChargedOnce(r)
  /\ pc[Deletion] # "done" => org.exists
  /\ RowsHaveOrg

-----------------------------------------------------------------------------
LEMMA ProcsApart ==
  /\ Requests \subseteq Procs /\ Recharges \subseteq Procs /\ Deletion \in Procs
  /\ Deletion \notin Requests /\ Deletion \notin Recharges
  /\ \A p \in Recharges : p \notin Requests
BY ChargeTxAssumption DEF Procs

LEMMA CostsAre ==
  /\ NULL \notin Int /\ NULL \notin Requests
  /\ \A c \in Costs : c \in Int /\ c >= 0
  /\ \A a \in Amounts : a \in Int /\ a # 0
BY ChargeTxAssumption

(* An amount that is not zero makes a row of credit_logs. *)
LEMMA EntryIs ==
  ASSUME TypeOK, NEW p \in Requests \cup Recharges, tx[p].amount # 0,
         tx[p].amount \in IF p \in Requests THEN {-c : c \in Costs} ELSE Amounts
  PROVE  EntryOf(p) \in Entry
<1>1. tx[p].after \in Int
  BY ProcsApart DEF TypeOK, Tx
<1>2. CASE p \in Requests
  <2>1. PICK c \in Costs : tx[p].amount = -c
    BY <1>2
  <2>2. c \in Costs \ {0}
    BY <2>1
  <2>3. EntryOf(p) \in Consume
    BY <1>1, <1>2, <2>1, <2>2 DEF EntryOf, Consume
  <2>4. QED
    BY <2>3 DEF Entry
<1>3. CASE p \notin Requests
  <2>1. EntryOf(p) \in Refill
    BY <1>1, <1>3 DEF EntryOf, Refill
  <2>2. QED
    BY <2>1 DEF Entry
<1>4. QED
  BY <1>2, <1>3

LEMMA InitInv == Init => IInv
<1> SUFFICES ASSUME Init PROVE IInv
  OBVIOUS
<1> USE DEF Init
<1>1. NoTx \in Tx
  BY DEF NoTx, Tx
<1>2. TypeOK
  BY <1>1 DEF TypeOK, Phases
<1>3. \A r \in Requests : RowRight(r) /\ ChargedOnce(r)
  BY ProcsApart DEF RowRight, ChargedOnce, EntriesOf
<1>4. \A p \in Procs : Path(p) /\ TxRight(p)
  BY DEF Path, TxRight, NoTx
<1>5. OneHolder /\ RowsHaveOrg
  BY DEF OneHolder, HoldsOrg, RowsHaveOrg
<1>6. QED
  BY <1>2, <1>3, <1>4, <1>5 DEF IInv

-----------------------------------------------------------------------------
(* A step of p that commits nothing: what it disturbs is what p has.        *)
LEMMA QuietStep ==
  ASSUME IInv, TypeOK', NEW p \in Procs,
         UNCHANGED <<org, ledger, cost>>,
         rows \subseteq rows', rows' # {} => org.exists,
         \A q \in Procs : q # p => pc'[q] = pc[q] /\ tx'[q] = tx[q],
         pc[p] # "done", Path(p)', TxRight(p)',
         HoldsOrg(p)' => HoldsOrg(p) \/ OrgFree,
         p \in Requests /\ pc'[p] \notin {"start", "done"} => p \in rows'
  PROVE  IInv' /\ UNCHANGED L!lvars
<1> USE DEF IInv
<1>1. OneHolder'
  BY DEF OneHolder, HoldsOrg, OrgFree
<1>2. \A q \in Procs : Path(q)' /\ TxRight(q)'
  <2> SUFFICES ASSUME NEW q \in Procs, q # p PROVE Path(q)' /\ TxRight(q)'
    OBVIOUS
  <2>1. Path(q) /\ TxRight(q) /\ pc'[q] = pc[q] /\ tx'[q] = tx[q]
    OBVIOUS
  <2>2. Written(q)' = Written(q)
    BY <2>1 DEF Written, EntryOf
  <2>3. QED
    BY <2>1, <2>2 DEF Path, TxRight
<1>3. \A r \in Requests : RowRight(r)' /\ ChargedOnce(r)'
  <2> SUFFICES ASSUME NEW r \in Requests PROVE RowRight(r)' /\ ChargedOnce(r)'
    OBVIOUS
  <2>1. ChargedOnce(r)'
    BY DEF ChargedOnce, EntriesOf
  <2>2. RowRight(r)'
    BY ProcsApart DEF RowRight
  <2>3. QED
    BY <2>1, <2>2
<1>4. pc'[Deletion] # "done" => org'.exists
  BY ProcsApart
<1>5. RowsHaveOrg'
  BY DEF RowsHaveOrg
<1>6. QED
  BY <1>1, <1>2, <1>3, <1>4, <1>5 DEF L!lvars

(* Most steps move one process on and leave its transaction alone. *)
LEMMA MoveStep ==
  ASSUME IInv, NEW p \in Procs, NEW phase \in Phases, Goto(p, phase),
         UNCHANGED <<org, ledger, rows, cost, tx>>,
         pc[p] # "done",
         Path(p)', TxRight(p)', HoldsOrg(p)' => HoldsOrg(p) \/ OrgFree,
         pc[p] = "start" => p \notin Requests \/ phase = "done"
  PROVE  IInv' /\ UNCHANGED L!lvars
<1>1. pc' = [pc EXCEPT ![p] = phase] /\ pc \in [Procs -> Phases]
  BY DEF Goto, IInv, TypeOK
<1>2. TypeOK'
  BY <1>1 DEF IInv, TypeOK
<1>3. \A q \in Procs : q # p => pc'[q] = pc[q]
  BY <1>1
<1>4. p \in Requests /\ pc'[p] \notin {"start", "done"} => p \in rows'
  BY <1>1 DEF IInv, RowRight
<1>5. QED
  BY <1>2, <1>3, <1>4, QuietStep DEF IInv, RowsHaveOrg

LEMMA PhaseIs ==
  ASSUME TypeOK, NEW p \in Procs, NEW phase, Goto(p, phase)
  PROVE  pc'[p] = phase /\ \A q \in Procs : q # p => pc'[q] = pc[q]
BY DEF TypeOK, Goto

LEMMA FailStep ==
  ASSUME IInv, NEW p \in Procs, Fail(p)
  PROVE  IInv' /\ UNCHANGED L!lvars
<1>1. pc'[p] = "done" /\ pc[p] # "done" /\ Goto(p, "done")
  BY PhaseIs DEF Fail, IInv
<1>2. Path(p)' /\ TxRight(p)' /\ ~HoldsOrg(p)'
  BY <1>1 DEF Path, TxRight, HoldsOrg
<1>3. QED
  BY <1>1, <1>2, MoveStep DEF Fail, Phases

LEMMA InsertLogStep ==
  ASSUME IInv, NEW r \in Requests, InsertLog(r)
  PROVE  IInv' /\ UNCHANGED L!lvars
<1> USE ProcsApart
<1>1. CASE ~org.exists
  <2>1. pc'[r] = "done" /\ pc[r] # "done" /\ Goto(r, "done")
    BY <1>1, PhaseIs DEF InsertLog, IInv
  <2>2. Path(r)' /\ TxRight(r)' /\ ~HoldsOrg(r)'
    BY <2>1 DEF Path, TxRight, HoldsOrg
  <2>3. QED
    BY <1>1, <2>1, <2>2, MoveStep DEF InsertLog, Phases
<1>2. CASE org.exists
  <2>1. /\ pc[r] = "start" /\ pc' = [pc EXCEPT ![r] = "logged"]
        /\ rows' = rows \cup {r} /\ UNCHANGED <<org, ledger, cost, tx>>
    BY <1>2 DEF InsertLog, Goto
  <2>2. pc'[r] = "logged" /\ \A q \in Procs : q # r => pc'[q] = pc[q]
    BY <2>1 DEF IInv, TypeOK
  <2>3. TypeOK'
    BY <2>1 DEF IInv, TypeOK, Phases
  <2>4. tx'[r].entries = <<>>
    BY <2>1 DEF IInv, TxRight
  <2>5. Path(r)' /\ TxRight(r)' /\ ~HoldsOrg(r)'
    BY <2>2, <2>4 DEF Path, TxRight, HoldsOrg
  <2>6. QED
    BY <1>2, <2>1, <2>2, <2>3, <2>5, QuietStep
<1>3. QED
  BY <1>1, <1>2

LEMMA BeginStep ==
  ASSUME IInv, NEW p \in Requests \cup Recharges, NEW amount, BeginWith(p, amount),
         amount \in IF p \in Requests THEN {-c : c \in Costs} ELSE Amounts,
         pc[p] = IF p \in Requests THEN "logged" ELSE "start"
  PROVE  IInv' /\ UNCHANGED L!lvars
<1> USE ProcsApart
<1>1. amount \in Int
  BY CostsAre
<1>2. /\ pc' = [pc EXCEPT ![p] = "begun"] /\ tx' = [tx EXCEPT ![p].amount = amount]
      /\ UNCHANGED <<org, ledger, rows, cost>>
  BY DEF BeginWith, Goto
<1>3. /\ p \in Procs /\ tx[p] \in Tx /\ tx'[p] = [tx[p] EXCEPT !.amount = amount]
      /\ pc'[p] = "begun"
      /\ \A q \in Procs : q # p => pc'[q] = pc[q] /\ tx'[q] = tx[q]
  BY <1>2 DEF IInv, TypeOK
<1>4. tx'[p] \in Tx /\ tx'[p].amount = amount /\ tx'[p].entries = tx[p].entries
  BY <1>1, <1>3 DEF Tx
<1>5. TypeOK'
  <2>1. tx' \in [Procs -> Tx]
    BY <1>2, <1>3, <1>4 DEF IInv, TypeOK
  <2>2. pc' \in [Procs -> Phases]
    BY <1>2 DEF IInv, TypeOK, Phases
  <2>3. QED
    BY <1>2, <2>1, <2>2 DEF IInv, TypeOK
<1>6. Path(p)' /\ ~HoldsOrg(p)'
  BY <1>3 DEF Path, HoldsOrg
<1>7. TxRight(p)'
  <2>1. tx[p].entries = <<>>
    BY <1>3 DEF IInv, TxRight
  <2>2. QED
    BY <1>3, <1>4, <2>1 DEF TxRight
<1>8. p \in Requests => p \in rows
  BY <1>3 DEF IInv, RowRight
<1>9. QED
  BY <1>2, <1>3, <1>5, <1>6, <1>7, <1>8, QuietStep DEF IInv, RowsHaveOrg

LEMMA LockLogStep ==
  ASSUME IInv, NEW r \in Requests, LockLog(r)
  PROVE  IInv' /\ UNCHANGED L!lvars
<1> USE ProcsApart
<1>1. /\ pc[r] = "begun" /\ pc'[r] = "locked" /\ Goto(r, "locked")
      /\ UNCHANGED <<org, ledger, rows, cost, tx>>
  BY PhaseIs DEF LockLog, IInv
<1>2. Path(r)' /\ ~HoldsOrg(r)'
  BY <1>1 DEF Path, HoldsOrg
<1>3. TxRight(r)'
  BY <1>1 DEF IInv, TxRight
<1>4. QED
  BY <1>1, <1>2, <1>3, MoveStep DEF Phases

LEMMA MarkRowStep ==
  ASSUME IInv, NEW r \in Requests, MarkRow(r)
  PROVE  IInv' /\ UNCHANGED L!lvars
<1> USE ProcsApart
<1>1. /\ pc[r] = "posted" /\ pc'[r] = "marked" /\ Goto(r, "marked")
      /\ UNCHANGED <<org, ledger, rows, cost, tx>>
  BY PhaseIs DEF MarkRow, IInv
<1>2. Path(r)' /\ HoldsOrg(r)
  BY <1>1 DEF Path, HoldsOrg
<1>3. TxRight(r)'
  <2>1. Written(r)' = Written(r)
    BY <1>1 DEF Written, EntryOf
  <2>2. TxRight(r)
    BY DEF IInv
  <2>3. QED
    BY <1>1, <2>1, <2>2 DEF TxRight
<1>4. QED
  BY <1>1, <1>2, <1>3, MoveStep DEF Phases

LEMMA LockOrgStep ==
  ASSUME IInv, LockOrg
  PROVE  IInv' /\ UNCHANGED L!lvars
<1> USE ProcsApart
<1>1. /\ pc[Deletion] = "start" /\ pc'[Deletion] = "checking" /\ OrgFree
      /\ Goto(Deletion, "checking") /\ UNCHANGED <<org, ledger, rows, cost, tx>>
  BY PhaseIs DEF LockOrg, IInv
<1>2. Path(Deletion)' /\ TxRight(Deletion)'
  BY <1>1 DEF Path, TxRight
<1>3. QED
  BY <1>1, <1>2, MoveStep DEF Phases

LEMMA EndStep ==
  ASSUME IInv, NEW p \in Procs, Goto(p, "done"), pc[p] # "done",
         UNCHANGED <<org, ledger, rows, cost, tx>>
  PROVE  IInv' /\ UNCHANGED L!lvars
BY FailStep DEF Fail

(* The balance is read and written under the lock of the organizations row. *)
LEMMA UpdateOrgStep ==
  ASSUME IInv, NEW p \in Requests \cup Recharges, UpdateOrg(p)
  PROVE  IInv' /\ UNCHANGED L!lvars
<1> USE ProcsApart
<1>1. CASE ~org.exists
  BY <1>1, EndStep DEF UpdateOrg
<1>2. CASE org.exists
  <2>1. /\ pc[p] \in {"begun", "locked"} /\ pc' = [pc EXCEPT ![p] = "paid"]
        /\ tx' = [tx EXCEPT ![p].after = org.credit + tx[p].amount]
        /\ UNCHANGED <<org, ledger, rows, cost>> /\ OrgFree
    BY <1>2 DEF UpdateOrg, OrgInTx, Goto
  <2>2. /\ p \in Procs /\ tx[p] \in Tx /\ org.credit \in Int
        /\ tx'[p] = [tx[p] EXCEPT !.after = org.credit + tx[p].amount]
        /\ pc'[p] = "paid"
        /\ \A q \in Procs : q # p => pc'[q] = pc[q] /\ tx'[q] = tx[q]
    BY <2>1 DEF IInv, TypeOK
  <2>3. /\ tx'[p] \in Tx /\ tx'[p].after = org.credit + tx[p].amount
        /\ tx'[p].amount = tx[p].amount /\ tx'[p].entries = tx[p].entries
    BY <2>2 DEF Tx
  <2>4. TypeOK'
    <3>1. tx' \in [Procs -> Tx]
      BY <2>1, <2>2, <2>3 DEF IInv, TypeOK
    <3>2. pc' \in [Procs -> Phases]
      BY <2>1 DEF IInv, TypeOK, Phases
    <3>3. QED
      BY <2>1, <3>1, <3>2 DEF IInv, TypeOK
  <2>5. Path(p)'
    BY <2>2 DEF Path
  <2>6. TxRight(p)'
    <3>1. TxRight(p)
      BY <2>2 DEF IInv
    <3>2. QED
      BY <1>2, <2>1, <2>2, <2>3, <3>1 DEF TxRight
  <2>7. p \in Requests => p \in rows
    BY <2>1 DEF IInv, RowRight
  <2>8. QED
    BY <1>2, <2>1, <2>2, <2>4, <2>5, <2>6, <2>7, QuietStep
<1>3. QED
  BY <1>1, <1>2

LEMMA InsertEntryStep ==
  ASSUME IInv, NEW p \in Requests \cup Recharges, InsertEntry(p)
  PROVE  IInv' /\ UNCHANGED L!lvars
<1> USE ProcsApart
<1>1. /\ p \in Procs /\ pc[p] = "paid" /\ pc'[p] = "posted"
      /\ pc' = [pc EXCEPT ![p] = "posted"]
      /\ UNCHANGED <<org, ledger, rows, cost>>
  BY DEF InsertEntry, EntryInTx, Goto, IInv, TypeOK
<1>2. TxRight(p) /\ tx[p] \in Tx
  BY <1>1 DEF IInv, TypeOK
<1>3. /\ tx'[p].amount = tx[p].amount /\ tx'[p].after = tx[p].after
      /\ tx'[p].entries = Written(p)
      /\ tx' \in [Procs -> Tx]
      /\ \A q \in Procs : q # p => tx'[q] = tx[q]
  <2>1. CASE tx[p].amount = 0
    BY <1>1, <1>2, <2>1 DEF InsertEntry, Written, TxRight, IInv, TypeOK
  <2>2. CASE tx[p].amount # 0
    <3>1. EntryOf(p) \in Entry
      BY <1>1, <1>2, <2>2, EntryIs DEF TxRight, IInv
    <3>2. <<EntryOf(p)>> \in Seq(Entry)
      BY <3>1
    <3>3. tx' = [tx EXCEPT ![p].entries = Written(p)] /\ Written(p) \in Seq(Entry)
      BY <2>2, <3>2 DEF InsertEntry, EntryInTx, Written
    <3> HIDE DEF Written
    <3>4. tx'[p] = [tx[p] EXCEPT !.entries = Written(p)]
      BY <1>1, <3>3 DEF IInv, TypeOK
    <3>5. tx'[p] \in Tx
      BY <1>2, <3>3, <3>4 DEF Tx
    <3>6. QED
      BY <1>1, <1>2, <3>3, <3>4, <3>5 DEF Tx, IInv, TypeOK
  <2>3. QED
    BY <2>1, <2>2
<1>4. TypeOK'
  <2>1. pc' \in [Procs -> Phases]
    BY <1>1 DEF IInv, TypeOK, Phases
  <2>2. QED
    BY <1>1, <1>3, <2>1 DEF IInv, TypeOK
<1>5. Path(p)' /\ HoldsOrg(p)
  BY <1>1 DEF Path, HoldsOrg
<1>6. TxRight(p)'
  <2>1. Written(p)' = Written(p)
    BY <1>3 DEF Written, EntryOf
  <2>2. QED
    BY <1>1, <1>2, <1>3, <2>1 DEF TxRight
<1>7. \A q \in Procs : q # p => pc'[q] = pc[q]
  BY <1>1 DEF IInv, TypeOK
<1>8. p \in Requests => p \in rows
  BY <1>1 DEF IInv, RowRight
<1>9. QED
  BY <1>1, <1>3, <1>4, <1>5, <1>6, <1>7, <1>8, QuietStep DEF IInv, RowsHaveOrg

(* A commit of an amount that is not zero adds its row.                     *)
LEMMA Appended ==
  ASSUME IInv, NEW p \in Requests \cup Recharges, Commit(p), tx[p].amount # 0
  PROVE  /\ EntryOf(p) \in Entry /\ ledger' = Append(ledger, EntryOf(p))
         /\ ledger' \in Seq(Entry) /\ Len(ledger') = Len(ledger) + 1
         /\ DOMAIN ledger = 1..Len(ledger) /\ DOMAIN ledger' = 1..(Len(ledger) + 1)
         /\ \A i \in 1..Len(ledger) : ledger'[i] = ledger[i]
         /\ ledger'[Len(ledger) + 1] = EntryOf(p)
<1>1. p \in Procs /\ pc[p] \in {"posted", "marked"} /\ TxRight(p)
  BY ProcsApart DEF Commit, IInv
<1>2. EntryOf(p) \in Entry
  BY <1>1, EntryIs DEF TxRight, IInv
<1>3. ledger' = ledger \o <<EntryOf(p)>>
  BY <1>1 DEF TxRight, Written, Commit
<1>4. ledger' = Append(ledger, EntryOf(p))
  BY <1>2, <1>3, AppendIsConcat DEF IInv, TypeOK
<1> HIDE DEF EntryOf
<1>5. QED
  BY <1>2, <1>4, AppendProperties, LenProperties DEF IInv, TypeOK

LEMMA CommitIs ==
  ASSUME IInv, NEW p \in Requests \cup Recharges, Commit(p)
  PROVE  /\ p \in Procs /\ TxRight(p) /\ tx[p].amount \in Int /\ HoldsOrg(p)
         /\ org.exists /\ org'.exists = org.exists
         /\ org'.credit = org.credit + tx[p].amount
         /\ org' \in [exists : BOOLEAN, credit : Int]
         /\ pc'[p] = "done" /\ \A q \in Procs : q # p => pc'[q] = pc[q]
         /\ UNCHANGED <<rows, tx>>
<1>1. p \in Procs /\ pc[p] \in {"posted", "marked"} /\ TxRight(p)
  BY ProcsApart DEF Commit, IInv
<1>2. /\ tx[p].after \in Int /\ org' = [org EXCEPT !.credit = tx[p].after]
      /\ org \in [exists : BOOLEAN, credit : Int] /\ tx[p].amount \in Int
  BY <1>1 DEF Commit, IInv, TypeOK, Tx
<1>3. org'.exists = org.exists /\ org'.credit = tx[p].after
      /\ org' \in [exists : BOOLEAN, credit : Int]
  BY <1>2
<1>4. org.exists /\ tx[p].after = org.credit + tx[p].amount
  BY <1>1 DEF TxRight
<1>5. pc'[p] = "done" /\ \A q \in Procs : q # p => pc'[q] = pc[q]
  BY <1>1, PhaseIs DEF Commit, IInv
<1>6. HoldsOrg(p)
  BY <1>1 DEF HoldsOrg
<1>7. QED
  BY <1>1, <1>2, <1>3, <1>4, <1>5, <1>6 DEF Commit

(* The abstract ledger moves by the same amount, or not at all.             *)
LEMMA CommitPosts ==
  ASSUME IInv, NEW p \in Requests \cup Recharges, Commit(p)
  PROVE  [L!Next]_(L!lvars)
<1>1. CASE tx[p].amount = 0
  <2>1. p \in Requests /\ tx[p].entries = <<>>
    <3>1. TxRight(p) /\ pc[p] \in {"posted", "marked"}
      BY CommitIs DEF Commit
    <3>2. QED
      BY <1>1, <3>1, CostsAre DEF TxRight, Written
  <2>2. ledger' = ledger
    BY <2>1, ConcatEmptySeq DEF Commit, IInv, TypeOK
  <2>3. org'.credit = org.credit
    BY <1>1, CommitIs DEF IInv, TypeOK
  <2>4. QED
    BY <2>2, <2>3, CommitIs DEF L!lvars
<1>2. CASE tx[p].amount # 0
  <2> DEFINE a == tx[p].amount
  <2>1. /\ ledger' = Append(ledger, EntryOf(p)) /\ org'.credit = org.credit + a
        /\ org.exists /\ org'.exists = org.exists /\ a \in Int
        /\ EntryOf(p).after = org'.credit /\ EntryOf(p).amount = a
    <3>1. TxRight(p) /\ pc[p] \in {"posted", "marked"}
      BY CommitIs DEF Commit
    <3>2. tx[p].after = org.credit + a
      BY <3>1 DEF TxRight
    <3>3. QED
      BY <1>2, <3>2, Appended, CommitIs DEF EntryOf
  <2>2. CASE p \in Requests
    <3>1. PICK c \in Costs : a = -c
      BY <2>2, CommitIs DEF TxRight, Commit
    <3>2. c \in Costs \ {0} /\ a = -c
      BY <1>2, <3>1, CostsAre
    <3>3. cost[p] = NULL /\ EntriesOf(p) = {}
      BY <2>2 DEF IInv, RowRight, ChargedOnce, Commit
    <3>4. ~L!Charged(p)
      BY <3>3 DEF L!Charged, EntriesOf
    <3>5. EntryOf(p) = [kind |-> "consume", ref |-> p, amount |-> -c,
                        after |-> org'.credit]
      BY <2>1, <2>2, <3>2 DEF EntryOf
    <3>6. L!Post("consume", p, -c)
      BY <2>1, <3>2, <3>5 DEF L!Post
    <3>7. L!Consume(p, c)
      BY <2>1, <3>2, <3>4, <3>6 DEF L!Consume
    <3>8. QED
      BY <2>2, <3>2, <3>7 DEF L!Next
  <2>3. CASE p \notin Requests
    <3>1. a \in Amounts
      BY <2>3, CommitIs DEF TxRight, Commit
    <3>2. EntryOf(p) = [kind |-> "recharge", ref |-> NULL, amount |-> a,
                        after |-> org'.credit]
      BY <2>1, <2>3 DEF EntryOf
    <3>3. L!Post("recharge", NULL, a)
      BY <2>1, <3>2 DEF L!Post
    <3>4. L!Recharge(a)
      BY <2>1, <3>1, <3>3 DEF L!Recharge
    <3>5. QED
      BY <3>1, <3>4 DEF L!Next
  <2>4. QED
    BY <2>2, <2>3
<1>3. QED
  BY <1>1, <1>2

(* What a request was charged is in its row and in one entry, of the others *)
(* nothing has changed.                                                     *)
LEMMA CommitCharges ==
  ASSUME IInv, NEW p \in Requests \cup Recharges, Commit(p),
         NEW r \in Requests
  PROVE  ChargedOnce(r)'
<1> USE ProcsApart, CostsAre
<1>1. ChargedOnce(r) /\ p \in Procs /\ cost \in [Requests -> Costs \cup {NULL}]
  BY DEF IInv, TypeOK
<1>2. CASE tx[p].amount = 0
  <2>1. p \in Requests /\ tx[p].entries = <<>>
    <3>1. TxRight(p) /\ pc[p] \in {"posted", "marked"}
      BY CommitIs DEF Commit
    <3>2. QED
      BY <1>2, <3>1 DEF TxRight, Written
  <2>2. ledger' = ledger
    BY <2>1, ConcatEmptySeq DEF Commit, IInv, TypeOK
  <2>3. cost' = [cost EXCEPT ![p] = 0] /\ cost[p] = NULL
    <3>1. tx[p].amount \in Int /\ tx[p].amount <= 0 /\ tx[p].amount >= 0
      BY <1>2, CommitIs
    <3>2. 0 = -tx[p].amount
      BY <3>1
    <3>3. cost' = [cost EXCEPT ![p] = 0]
      BY <2>1, <3>2 DEF Commit
    <3>4. QED
      BY <2>1, <3>3 DEF Commit, IInv, RowRight
  <2>4. EntriesOf(r)' = EntriesOf(r)
    BY <2>2 DEF EntriesOf
  <2>5. QED
    BY <1>1, <2>2, <2>3, <2>4 DEF ChargedOnce
<1>3. CASE tx[p].amount # 0
  <2> DEFINE n == Len(ledger) + 1
  <2>1. /\ n \in Nat /\ n \notin DOMAIN ledger
        /\ DOMAIN ledger' = DOMAIN ledger \cup {n}
        /\ \A i \in DOMAIN ledger : ledger'[i] = ledger[i]
        /\ ledger'[n] = EntryOf(p)
    <3>1. Len(ledger) \in Nat
      BY LenProperties DEF IInv, TypeOK
    <3>2. /\ DOMAIN ledger = 1..Len(ledger) /\ DOMAIN ledger' = 1..n
          /\ \A i \in 1..Len(ledger) : ledger'[i] = ledger[i]
          /\ ledger'[n] = EntryOf(p)
      BY <1>3, Appended
    <3>3. 1..n = 1..Len(ledger) \cup {n} /\ n \notin 1..Len(ledger) /\ n \in Nat
      BY <3>1
    <3>4. QED
      BY <3>2, <3>3
  <2> HIDE DEF n
  <2>2. EntryOf(p).ref = (IF p \in Requests THEN p ELSE NULL)
        /\ EntryOf(p).amount = tx[p].amount
    BY DEF EntryOf
  <2>3. EntriesOf(r)' = IF r = p THEN EntriesOf(r) \cup {n} ELSE EntriesOf(r)
    BY <2>1, <2>2 DEF EntriesOf
  <2>4. CASE r = p
    <3>1. cost[r] = NULL /\ cost'[r] = -tx[p].amount
      BY <1>1, <2>4 DEF Commit, IInv, RowRight
    <3>2. EntriesOf(r)' = {n}
      BY <1>1, <2>3, <2>4, <3>1 DEF ChargedOnce
    <3>3. tx[p].amount \in Int /\ -(-tx[p].amount) = tx[p].amount /\ -tx[p].amount # 0
      BY <1>3, CommitIs
    <3>4. cost'[r] \notin {NULL, 0} /\ ledger'[n].amount = -cost'[r]
      BY <2>1, <2>2, <3>1, <3>3
    <3>5. QED
      BY <3>2, <3>4 DEF ChargedOnce
  <2>5. CASE r # p
    <3>1. cost'[r] = cost[r]
      BY <1>1, <2>5 DEF Commit
    <3>2. EntriesOf(r)' = EntriesOf(r) /\ \A i \in EntriesOf(r) : ledger'[i] = ledger[i]
      BY <2>1, <2>3, <2>5 DEF EntriesOf
    <3>3. QED
      BY <1>1, <3>1, <3>2 DEF ChargedOnce
  <2>6. QED
    BY <2>4, <2>5
<1>4. QED
  BY <1>2, <1>3

LEMMA CommitStep ==
  ASSUME IInv, NEW p \in Requests \cup Recharges, Commit(p)
  PROVE  IInv' /\ [L!Next]_(L!lvars)
<1> USE ProcsApart
<1>1. /\ p \in Procs /\ TxRight(p) /\ HoldsOrg(p) /\ org.exists /\ org'.exists
      /\ org' \in [exists : BOOLEAN, credit : Int]
      /\ pc'[p] = "done" /\ \A q \in Procs : q # p => pc'[q] = pc[q]
      /\ UNCHANGED <<rows, tx>>
  BY CommitIs
<1>2. TypeOK'
  <2>1. ledger' \in Seq(Entry)
    <3>1. tx[p].entries \in Seq(Entry)
      BY <1>1 DEF IInv, TypeOK, Tx
    <3>2. QED
      BY <3>1, ConcatProperties DEF Commit, IInv, TypeOK
  <2>2. cost' \in [Requests -> Costs \cup {NULL}]
    <3>1. ASSUME p \in Requests PROVE -tx[p].amount \in Costs
      <4>1. PICK c \in Costs : tx[p].amount = -c
        BY <1>1, <3>1 DEF TxRight, Commit
      <4>2. QED
        BY <4>1, CostsAre
    <3>2. QED
      BY <3>1 DEF Commit, IInv, TypeOK
  <2>3. pc' \in [Procs -> Phases]
    BY DEF Commit, Goto, IInv, TypeOK, Phases
  <2>4. QED
    BY <1>1, <2>1, <2>2, <2>3 DEF IInv, TypeOK
<1>3. OneHolder'
  BY <1>1 DEF IInv, OneHolder, HoldsOrg
<1>4. \A q \in Procs : Path(q)' /\ TxRight(q)'
  <2> SUFFICES ASSUME NEW q \in Procs PROVE Path(q)' /\ TxRight(q)'
    OBVIOUS
  <2>1. CASE q = p
    BY <1>1, <2>1 DEF Path, TxRight
  <2>2. CASE q # p
    <3>1. Path(q) /\ TxRight(q) /\ pc'[q] = pc[q] /\ tx'[q] = tx[q] /\ ~HoldsOrg(q)
      BY <1>1, <2>2 DEF IInv, OneHolder
    <3>2. Written(q)' = Written(q)
      BY <1>1 DEF Written, EntryOf
    <3>3. QED
      BY <3>1, <3>2 DEF Path, TxRight, HoldsOrg
  <2>3. QED
    BY <2>1, <2>2
<1>5. \A r \in Requests : RowRight(r)'
  <2> SUFFICES ASSUME NEW r \in Requests PROVE RowRight(r)'
    OBVIOUS
  <2>1. RowRight(r) /\ r \in Procs
    BY DEF IInv
  <2>2. CASE r = p
    BY <1>1, <2>1, <2>2 DEF RowRight, Commit
  <2>3. CASE r # p
    <3>1. cost'[r] = cost[r]
      BY <2>3 DEF Commit, IInv, TypeOK
    <3>2. QED
      BY <1>1, <2>1, <2>3, <3>1 DEF RowRight
  <2>4. QED
    BY <2>2, <2>3
<1>6. pc'[Deletion] # "done" => org'.exists
  BY <1>1
<1>7. RowsHaveOrg'
  BY <1>1 DEF RowsHaveOrg
<1>8. QED
  BY <1>2, <1>3, <1>4, <1>5, <1>6, <1>7, CommitCharges, CommitPosts DEF IInv

(* No row refers to the organisation, so no charge does either.             *)
LEMMA DeleteOrgStep ==
  ASSUME IInv, DeleteOrg
  PROVE  IInv' /\ L!Next
<1> USE ProcsApart
<1>1. /\ rows = {} /\ pc[Deletion] = "checking" /\ org.exists
      /\ org' = [exists |-> FALSE, credit |-> 0] /\ ledger' = <<>>
      /\ UNCHANGED <<rows, cost, tx>>
      /\ pc'[Deletion] = "done" /\ \A q \in Procs : q # Deletion => pc'[q] = pc[q]
  BY PhaseIs DEF DeleteOrg, NothingRefers, IInv
<1>2. TypeOK'
  <2>1. pc' \in [Procs -> Phases]
    BY DEF DeleteOrg, Goto, IInv, TypeOK, Phases
  <2>2. <<>> \in Seq(Entry) /\ org' \in [exists : BOOLEAN, credit : Int]
    BY <1>1
  <2>3. QED
    BY <1>1, <2>1, <2>2 DEF IInv, TypeOK
<1>3. \A q \in Procs : ~HoldsOrg(q)'
  BY <1>1 DEF IInv, OneHolder, HoldsOrg
<1>4. \A q \in Procs : Path(q)' /\ TxRight(q)'
  <2> SUFFICES ASSUME NEW q \in Procs PROVE Path(q)' /\ TxRight(q)'
    OBVIOUS
  <2>1. CASE q = Deletion
    BY <1>1, <2>1 DEF Path, TxRight
  <2>2. CASE q # Deletion
    BY <1>1, <1>3, <2>2 DEF IInv, Path, TxRight, HoldsOrg
  <2>3. QED
    BY <2>1, <2>2
<1>5. \A r \in Requests : cost[r] = NULL /\ EntriesOf(r) = {}
  BY <1>1 DEF IInv, RowRight, ChargedOnce
<1>6. \A r \in Requests : RowRight(r)' /\ ChargedOnce(r)'
  BY <1>1, <1>5 DEF IInv, RowRight, ChargedOnce, EntriesOf
<1>7. OneHolder' /\ RowsHaveOrg'
  BY <1>1, <1>3 DEF OneHolder, RowsHaveOrg
<1>8. L!Close
  <2>1. \A r \in Requests : ~L!Charged(r)
    BY <1>5 DEF L!Charged, EntriesOf
  <2>2. QED
    BY <1>1, <2>1 DEF L!Close
<1>9. QED
  BY <1>1, <1>2, <1>4, <1>6, <1>7, <1>8 DEF IInv, L!Next

LEMMA BreakDeadlockStep ==
  ASSUME IInv, NEW r \in Requests, BreakDeadlock(r)
  PROVE  IInv' /\ UNCHANGED L!lvars
<1>1. PICK victim \in {r, Deletion} : Goto(victim, "done")
  BY DEF BreakDeadlock
<1>2. victim \in Procs /\ pc[victim] # "done"
  BY ProcsApart DEF BreakDeadlock
<1>3. QED
  BY <1>1, <1>2, EndStep DEF BreakDeadlock

LEMMA Step == IInv /\ [Next]_vars => IInv' /\ [L!Next]_(L!lvars)
<1> SUFFICES ASSUME IInv, [Next]_vars PROVE IInv' /\ [L!Next]_(L!lvars)
  OBVIOUS
<1>1. ASSUME NEW r \in Requests, InsertLog(r) \/ Charging(r) \/ BreakDeadlock(r)
      PROVE  IInv' /\ [L!Next]_(L!lvars)
  <2>1. ASSUME NEW c \in Costs, BeginCharge(r, c) PROVE IInv' /\ UNCHANGED L!lvars
    BY <2>1, BeginStep DEF BeginCharge, Debit
  <2>2. QED
    BY <1>1, <2>1, InsertLogStep, LockLogStep, UpdateOrgStep, InsertEntryStep,
       MarkRowStep, CommitStep, BreakDeadlockStep DEF Charging
<1>2. ASSUME NEW p \in Recharges, Recharging(p) PROVE IInv' /\ [L!Next]_(L!lvars)
  BY <1>2, UpdateOrgStep, InsertEntryStep, CommitStep DEF Recharging
<1>3. ASSUME NEW p \in Recharges, NEW a \in Amounts, BeginRecharge(p, a)
      PROVE  IInv' /\ UNCHANGED L!lvars
  BY <1>3, BeginStep, ProcsApart DEF BeginRecharge
<1>4. CASE DeleteRefused
  BY <1>4, EndStep, ProcsApart DEF DeleteRefused
<1>5. CASE UNCHANGED vars
  <2>1. /\ UNCHANGED <<org, ledger, rows, cost, pc, tx>>
        /\ UNCHANGED L!lvars
    BY <1>5 DEF vars, L!lvars
  <2>2. TypeOK' /\ OneHolder' /\ RowsHaveOrg'
    BY <2>1 DEF IInv, TypeOK, OneHolder, HoldsOrg, RowsHaveOrg
  <2>3. ASSUME NEW p \in Procs PROVE Path(p)' /\ TxRight(p)'
    <3>1. Written(p)' = Written(p)
      BY <2>1 DEF Written, EntryOf
    <3>2. QED
      BY <2>1, <3>1 DEF IInv, Path, TxRight
  <2>4. ASSUME NEW r \in Requests PROVE RowRight(r)' /\ ChargedOnce(r)'
    BY <2>1 DEF IInv, RowRight, ChargedOnce, EntriesOf
  <2>5. QED
    BY <2>1, <2>2, <2>3, <2>4 DEF IInv
<1>6. QED
  BY <1>1, <1>2, <1>3, <1>4, <1>5, LockOrgStep, DeleteOrgStep, FailStep
     DEF Next, Deleting

LEMMA ChargeTxInvariant == Spec => []IInv
BY InitInv, Step, PTL DEF Spec

-----------------------------------------------------------------------------
(* TypeOK: the variables hold what they are said to hold.                   *)
THEOREM ChargeTxTypeCorrect == Spec => []TypeOK
BY ChargeTxInvariant, PTL DEF IInv

(* ChargedWhole: at every statement boundary the cost in request_logs and   *)
(* the one entry in credit_logs are both there or both missing.             *)
THEOREM ChargeTxWhole == Spec => []ChargedWhole
<1>1. IInv => ChargedWhole
  BY DEF IInv, ChargedOnce, ChargedWhole
<1>2. QED
  BY <1>1, ChargeTxInvariant, PTL

(* RowsHaveOrg: an organisation with logged requests is never deleted.      *)
THEOREM ChargeTxRowsHaveOrg == Spec => []RowsHaveOrg
BY ChargeTxInvariant, PTL DEF IInv

(* LedgerSpec: the SQL transactions of any number of charges and recharges, *)
(* and a deletion, implement the abstract ledger.                           *)
THEOREM ChargeTxImplementsLedger == Spec => LedgerSpec
<1>1. Init => L!Init
  BY DEF Init, L!Init
<1>2. QED
  BY <1>1, ChargeTxInvariant, Step, PTL DEF Spec, LedgerSpec, L!Spec

-----------------------------------------------------------------------------
(* What the abstract ledger promises, carried over to the transactions.     *)

LEMMA LedgerConstantsHold == L!LedgerConstants
BY CostsAre DEF L!LedgerConstants

LEMMA PostTypeOK ==
  ASSUME L!TypeOK, NEW kind \in L!Kinds, NEW ref \in Requests \cup {NULL},
         NEW amount \in Int, L!Post(kind, ref, amount), UNCHANGED org.exists
  PROVE  L!TypeOK'
<1>1. org.credit' \in Int
  BY DEF L!TypeOK, L!Post
<1>2. [kind |-> kind, ref |-> ref, amount |-> amount, after |-> org.credit'] \in L!Entry
  BY <1>1 DEF L!Entry
<1>3. ledger' \in Seq(L!Entry)
  BY <1>2 DEF L!TypeOK, L!Post
<1>4. QED
  BY <1>1, <1>3 DEF L!TypeOK

(* The balance stays an integer and the entries a sequence of entries. *)
LEMMA LedgerTypeCorrect == LedgerSpec => []L!TypeOK
<1>1. L!Init => L!TypeOK
  <2>1. L!Init => org.exists \in BOOLEAN
    BY Zenon DEF L!Init
  <2>2. L!Init => org.credit \in Int /\ ledger \in Seq(L!Entry)
    BY DEF L!Init
  <2>3. QED
    BY <2>1, <2>2 DEF L!TypeOK
<1>2. L!TypeOK /\ [L!Next]_(L!lvars) => L!TypeOK'
  <2> SUFFICES ASSUME L!TypeOK, [L!Next]_(L!lvars) PROVE L!TypeOK'
    OBVIOUS
  <2>1. ASSUME NEW a \in Amounts, L!Recharge(a) PROVE L!TypeOK'
    BY <2>1, PostTypeOK, LedgerConstantsHold
       DEF L!Recharge, L!Kinds, L!LedgerConstants
  <2>2. ASSUME NEW ref \in Requests, NEW c \in Costs \ {0}, L!Consume(ref, c)
        PROVE  L!TypeOK'
    <3>1. -c \in Int
      BY CostsAre
    <3>2. QED
      BY <2>2, <3>1, PostTypeOK DEF L!Consume, L!Kinds
  <2>3. CASE L!Close
    <3>1. org.exists' \in BOOLEAN
      BY <2>3, Zenon DEF L!Close
    <3>2. org.credit' \in Int /\ ledger' \in Seq(L!Entry)
      BY <2>3 DEF L!Close
    <3>3. QED
      BY <3>1, <3>2 DEF L!TypeOK
  <2>4. CASE UNCHANGED L!lvars
    BY <2>4 DEF L!lvars, L!TypeOK
  <2>5. QED
    BY <2>1, <2>2, <2>3, <2>4 DEF L!Next
<1>3. QED
  BY <1>1, <1>2, PTL DEF LedgerSpec, L!Spec

(* Appending an entry that carries the new balance continues the chain. *)
LEMMA PostChain ==
  ASSUME L!TypeOK, L!Chain, NEW kind \in L!Kinds, NEW ref \in Requests \cup {NULL},
         NEW amount \in Int, L!Post(kind, ref, amount)
  PROVE  L!Chain'
<1> DEFINE e == [kind |-> kind, ref |-> ref, amount |-> amount, after |-> org.credit']
           n == Len(ledger)
<1>1. /\ n \in Nat
      /\ ledger' = Append(ledger, e)
      /\ DOMAIN ledger = 1..n
      /\ e.amount = amount /\ e.after = org.credit + amount
      /\ org.credit' = org.credit + amount
  BY DEF L!TypeOK, L!Post
<1>2. /\ Len(ledger') = n + 1
      /\ DOMAIN ledger' = 1..(n + 1)
      /\ \A i \in 1..n : ledger'[i] = ledger[i]
      /\ ledger'[n + 1] = e
  BY <1>1 DEF L!TypeOK
<1> HIDE DEF e, n
<1>3. org.credit = L!Before(n + 1)
  BY DEF L!Chain, n
<1>4. \A i \in 1..(n + 1) : L!Before(i)' = L!Before(i)
  <2> SUFFICES ASSUME NEW i \in 1..(n + 1) PROVE L!Before(i)' = L!Before(i)
    OBVIOUS
  <2>1. i # 1 => i - 1 \in 1..n
    BY <1>1
  <2>2. QED
    BY <1>2, <2>1 DEF L!Before
<1>5. \A i \in 1..(n + 1) : ledger'[i].after = L!Before(i)' + ledger'[i].amount
  <2> SUFFICES ASSUME NEW i \in 1..(n + 1)
               PROVE  ledger'[i].after = L!Before(i)' + ledger'[i].amount
    OBVIOUS
  <2>1. CASE i = n + 1
    BY <2>1, <1>1, <1>2, <1>3, <1>4
  <2>2. CASE i \in 1..n
    BY <2>2, <1>1, <1>2, <1>4 DEF L!Chain
  <2>3. QED
    BY <2>1, <2>2, <1>1
<1>6. org.credit' = (L!Before(Len(ledger) + 1))'
  BY <1>1, <1>2 DEF L!Before
<1>7. QED
  BY <1>2, <1>5, <1>6 DEF L!Chain, L!Before

(* Chain: the stored balance is what replaying the entries from zero gives, *)
(* entry by entry, at every statement of the SQL transactions: no movement  *)
(* of the balance goes unrecorded (db.rs, credit_handlers.rs).              *)
THEOREM ChargeTxChain == Spec => []L!Chain
<1>1. L!Init => L!Chain
  BY DEF L!Init, L!Chain, L!Before
<1>2. L!TypeOK /\ L!Chain /\ [L!Next]_(L!lvars) => L!Chain'
  <2> SUFFICES ASSUME L!TypeOK, L!Chain, [L!Next]_(L!lvars) PROVE L!Chain'
    OBVIOUS
  <2>1. ASSUME NEW a \in Amounts, L!Recharge(a) PROVE L!Chain'
    BY <2>1, PostChain, LedgerConstantsHold
       DEF L!Recharge, L!Kinds, L!LedgerConstants
  <2>2. ASSUME NEW ref \in Requests, NEW c \in Costs \ {0}, L!Consume(ref, c)
        PROVE  L!Chain'
    <3>1. -c \in Int
      BY CostsAre
    <3>2. QED
      BY <2>2, <3>1, PostChain DEF L!Consume, L!Kinds
  <2>3. CASE L!Close
    BY <2>3 DEF L!Close, L!Chain, L!Before
  <2>4. CASE UNCHANGED L!lvars
    BY <2>4 DEF L!lvars, L!Chain, L!Before
  <2>5. QED
    BY <2>1, <2>2, <2>3, <2>4 DEF L!Next
<1>3. QED
  BY <1>1, <1>2, LedgerTypeCorrect, ChargeTxImplementsLedger, PTL
     DEF LedgerSpec, L!Spec

(* OncePerRef: no two entries of the ledger refer to the same request,      *)
(* however often the calls fail, deadlock and overlap (db.rs).              *)
THEOREM ChargeTxOncePerRef == Spec => []L!OncePerRef
<1>1. L!Init => L!OncePerRef
  BY DEF L!Init, L!OncePerRef
<1>2. L!TypeOK /\ L!OncePerRef /\ [L!Next]_(L!lvars) => L!OncePerRef'
  <2> SUFFICES ASSUME L!TypeOK, L!OncePerRef, [L!Next]_(L!lvars) PROVE L!OncePerRef'
    OBVIOUS
  <2>1. ASSUME NEW a \in Amounts, L!Recharge(a) PROVE L!OncePerRef'
    BY <2>1 DEF L!Recharge, L!Post, L!OncePerRef, L!TypeOK
  <2>2. ASSUME NEW ref \in Requests, NEW c \in Costs \ {0}, L!Consume(ref, c)
        PROVE  L!OncePerRef'
    BY <2>2 DEF L!Consume, L!Charged, L!Post, L!OncePerRef, L!TypeOK
  <2>3. CASE L!Close
    BY <2>3 DEF L!Close, L!OncePerRef
  <2>4. CASE UNCHANGED L!lvars
    BY <2>4 DEF L!lvars, L!OncePerRef
  <2>5. QED
    BY <2>1, <2>2, <2>3, <2>4 DEF L!Next
<1>3. QED
  BY <1>1, <1>2, LedgerTypeCorrect, ChargeTxImplementsLedger, PTL
     DEF LedgerSpec, L!Spec
===============================================================================
