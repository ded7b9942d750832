--------------------------- MODULE MeteringProofs ---------------------------
(* Proofs about Metering: type correctness, the invariants and the          *)
(* implementation of the abstract ledger.                                   *)
EXTENDS Metering, FiniteSetTheorems, TLAPS

LEMMA NoJobType == NoJob \in Job
  BY MeteringAssumption DEF NoJob, Job, Modes

LEMMA RowOfType == ASSUME NEW j \in Job PROVE RowOf(j) \in Row
  BY DEF RowOf, StoredBody, Row, Job

LEMMA JobConfigs ==
  ASSUME NEW j \in Job, NEW n \in 0..MaxConfigs
  PROVE  [j EXCEPT !.configs = n] \in Job
  BY DEF Job

(* A row appended to the log, a log with one row changed. *)
LEMMA AppendRow ==
  ASSUME log \in Seq(Row), NEW row \in Row, log' = Append(log, row)
  PROVE  /\ log' \in Seq(Row)
         /\ Len(log') = Len(log) + 1
         /\ DOMAIN log' = 1..(Len(log) + 1)
         /\ DOMAIN log = 1..Len(log)
         /\ Len(log) \in Nat
         /\ \A i \in DOMAIN log : log'[i] = log[i]
         /\ log'[Len(log) + 1] = row
  OBVIOUS

LEMMA ChangeRow ==
  ASSUME log \in Seq(Row), NEW r \in DOMAIN log, NEW row \in Row,
         log' = [log EXCEPT ![r] = row]
  PROVE  /\ log' \in Seq(Row)
         /\ Len(log') = Len(log)
         /\ DOMAIN log' = DOMAIN log
         /\ \A i \in DOMAIN log : i # r => log'[i] = log[i]
         /\ log'[r] = row
<1>1. log \in [1..Len(log) -> Row] /\ Len(log) \in Nat /\ DOMAIN log = 1..Len(log)
  OBVIOUS
<1>2. log' \in [1..Len(log) -> Row]
  BY <1>1
<1>3. log' \in Seq(Row) /\ Len(log') = Len(log)
  BY <1>1, <1>2
<1>4. QED
  BY <1>1, <1>2, <1>3

-----------------------------------------------------------------------------
(* A task that settles a row has a successful, still uncharged row of the   *)
(* log.                                                                 *)
TaskRow ==
  \A s \in Slots : pc[s] \in {"charge", "restore"} =>
    /\ job[s].row \in DOMAIN log
    /\ log[job[s].row].status = "success" /\ log[job[s].row].model
    /\ log[job[s].row].mode = job[s].mode
    /\ pc[s] = "charge" => log[job[s].row].cost = NULL

DistinctRows ==
  \A s, t \in Slots :
    /\ s # t
    /\ pc[s] \in {"charge", "restore"} /\ pc[t] \in {"charge", "restore"}
    => job[s].row # job[t].row

(* What a request carries in each phase: no outcome before its attempts, a  *)
(* locked price once a priced attempt is answered, and only successful      *)
(* requests with a model go on to be charged.                               *)
Locked(j) == Priced(j) => j.priced

JobOK(phase, j) ==
  /\ phase \in {"idle", "body"} => ~j.ok
  /\ phase \in {"respond", "insert", "charge"} => Locked(j)
  /\ phase = "charge" => j.model

JobInv == \A s \in Slots : JobOK(pc[s], job[s])

TypeInv == TypeOK /\ TaskRow /\ DistinctRows /\ JobInv

(* A row that no charge will ever be due for. *)
FreeRow(row) == row.status = "error" \/ ~row.model

LogsFreeRow ==
  \/ UNCHANGED log
  \/ CanInsert /\ \E row \in Row :
       /\ log' = Append(log, row)
       /\ FreeRow(row) /\ row.body = "full" /\ row.cost = NULL

(* What a step of slot s leaves alone. *)
Frame(s) ==
  /\ pc' \in [Slots -> Phases] /\ job' \in [Slots -> Job]
  /\ \A t \in Slots : t # s => pc'[t] = pc[t] /\ job'[t] = job[t]

LEMMA InitTypeInv == Init => TypeInv
<1> SUFFICES ASSUME Init PROVE TypeInv
  OBVIOUS
<1>1. TypeOK
  BY MeteringAssumption, NoJobType
  DEF Init, TypeOK, HasConfig, Org, Modes, Phases, Entry
<1>2. TaskRow /\ DistinctRows
  BY DEF Init, TaskRow, DistinctRows
<1>3. JobInv
  BY DEF Init, JobInv, JobOK, NoJob
<1>4. QED
  BY <1>1, <1>2, <1>3 DEF TypeInv

LEMMA DoneFrame ==
  ASSUME TypeOK, NEW s \in Slots, Done(s)
  PROVE  Frame(s) /\ pc'[s] = "idle" /\ job'[s] = NoJob /\ JobOK(pc'[s], job'[s])
<1>1. Frame(s) /\ pc'[s] = "idle" /\ job'[s] = NoJob
  BY NoJobType DEF TypeOK, Done, Phases, Frame
<1>2. QED
  BY <1>1 DEF JobOK, NoJob

LEMMA NextConfigFrame ==
  ASSUME TypeOK, NEW s \in Slots, NextConfig(s), pc[s] = "attempt"
  PROVE  /\ Frame(s) /\ JobOK(pc'[s], job'[s])
         /\ \/ pc'[s] = "idle"
            \/ pc'[s] = "attempt" /\ job'[s].configs # 0
<1>1. CASE LastConfig(job[s])
  BY <1>1, DoneFrame DEF NextConfig
<1>2. CASE ~LastConfig(job[s])
  <2>1. job[s].configs \in 2..MaxConfigs /\ job[s] \in Job
    BY <1>2 DEF LastConfig, TypeOK, Job, HasConfig
  <2>2. PICK n \in 1..MaxConfigs : n = job[s].configs - 1
    BY <2>1, MeteringAssumption
  <2>3. job' = [job EXCEPT ![s].configs = n, ![s].priced = FALSE] /\ pc' = pc
    BY <1>2, <2>2 DEF NextConfig
  <2>4. \A j \in Job : [j EXCEPT !.configs = n, !.priced = FALSE] \in Job
    <3> SUFFICES ASSUME NEW j \in Job
                 PROVE  [j EXCEPT !.configs = n, !.priced = FALSE] \in Job
      OBVIOUS
    <3>1. n \in 0..MaxConfigs
      BY MeteringAssumption
    <3>2. [j EXCEPT !.configs = n] \in Job
      BY <3>1, JobConfigs
    <3>3. \A k \in Job : [k EXCEPT !.priced = FALSE] \in Job
      BY DEF Job
    <3>4. QED
      BY <3>2, <3>3
  <2>5. job' \in [Slots -> Job] /\ job'[s].configs = n
    BY <2>3, <2>4 DEF TypeOK, Job
  <2>6. QED
    BY <2>1, <2>2, <2>3, <2>5 DEF Frame, TypeOK, JobOK
<1>3. QED
  BY <1>1, <1>2

(* A step of one slot that is not settling a row afterwards and changes the *)
(* log at most by appending a row that is not to be charged.                *)
Passes(s) ==
  /\ Frame(s) /\ JobOK(pc'[s], job'[s])
  /\ pc[s] \notin {"charge", "restore"} /\ pc'[s] \notin {"charge", "restore"}
  /\ pc'[s] = "attempt" => job'[s].configs # 0
  /\ LogsFreeRow
  /\ UNCHANGED <<org, ledger, orphans>>

LEMMA FreeRowLogged ==
  ASSUME TypeOK, LogsFreeRow
  PROVE  /\ log' \in Seq(Row) /\ Len(log') <= MaxRows
         /\ \A i \in DOMAIN log : i \in DOMAIN log' /\ log'[i] = log[i]
         /\ \A i \in DOMAIN log' \ DOMAIN log :
              FreeRow(log'[i]) /\ log'[i].body = "full" /\ log'[i].cost = NULL
<1>1. CASE UNCHANGED log
  BY <1>1 DEF TypeOK
<1>2. CASE CanInsert /\ \E row \in Row :
             /\ log' = Append(log, row)
             /\ FreeRow(row) /\ row.body = "full" /\ row.cost = NULL
  BY <1>2, AppendRow, MeteringAssumption DEF TypeOK, CanInsert
<1>3. QED
  BY <1>1, <1>2 DEF LogsFreeRow

LEMMA PassingStep ==
  ASSUME TypeInv, NEW s \in Slots, Passes(s)
  PROVE  TypeInv'
<1>1. /\ log' \in Seq(Row) /\ Len(log') <= MaxRows
      /\ \A i \in DOMAIN log : i \in DOMAIN log' /\ log'[i] = log[i]
  BY FreeRowLogged DEF TypeInv, Passes
<1>2. HasConfig' /\ DistinctRows' /\ JobInv'
  BY DEF TypeInv, TypeOK, HasConfig, DistinctRows, JobInv, Frame, Passes
<1>3. TypeOK'
  BY <1>1, <1>2 DEF TypeInv, TypeOK, Frame, Passes
<1>4. TaskRow'
  BY <1>1 DEF TypeInv, TaskRow, Frame, Passes
<1>5. QED
  BY <1>2, <1>3, <1>4 DEF TypeInv

(* The row of a job without a successful answer. *)
LEMMA FreeRowOf ==
  ASSUME NEW j \in Job, ~Chargeable(j)
  PROVE  /\ RowOf(j) \in Row /\ FreeRow(RowOf(j))
         /\ RowOf(j).body = "full" /\ RowOf(j).cost = NULL
  BY RowOfType DEF RowOf, FreeRow, StoredBody, Chargeable, Job

LEMMA MayLogErrorAppends ==
  ASSUME TypeOK, NEW s \in Slots, MayLogError(s)
  PROVE  LogsFreeRow
<1>1. job[s] \in Job
  BY DEF TypeOK
<1>2. [job[s] EXCEPT !.ok = FALSE] \in Job /\ ~Chargeable([job[s] EXCEPT !.ok = FALSE])
  BY <1>1 DEF Job, Chargeable
<1>3. QED
  BY <1>2, FreeRowOf DEF MayLogError, LogsFreeRow

(* Every step of a request before its background task passes. *)
LEMMA RequestPasses ==
  ASSUME TypeInv, NEW s \in Slots, Request(s)
  PROVE  Passes(s)
<1>0. job[s] \in Job /\ TypeOK /\ JobOK(pc[s], job[s])
  BY DEF TypeInv, TypeOK, JobInv
<1>1. CASE Lookup(s)
  <2>1. HasCredit(org) \in BOOLEAN /\ org.mode \in Modes
    BY <1>0 DEF TypeOK, Org, HasCredit
  <2> DEFINE j == [job[s] EXCEPT !.funded = HasCredit(org), !.mode = org.mode]
  <2>2. j \in Job /\ j.ok = job[s].ok
    BY <1>0, <2>1 DEF Job
  <2>3. job' = [job EXCEPT ![s] = j]
    BY <1>1 DEF Lookup
  <2> HIDE DEF j
  <2>4. Frame(s) /\ pc'[s] = "body" /\ job'[s] = j /\ pc[s] = "idle"
    BY <1>0, <1>1, <2>2, <2>3 DEF Lookup, Goto, Frame, TypeOK, Phases
  <2>5. JobOK(pc'[s], job'[s])
    BY <1>0, <2>2, <2>4 DEF JobOK
  <2>6. QED
    BY <1>1, <2>4, <2>5 DEF Lookup, Passes, LogsFreeRow
<1>2. ASSUME NEW big \in BOOLEAN, Refuse(s, big) PROVE Passes(s)
  <2> DEFINE j == [job[s] EXCEPT !.model = TRUE, !.big = big]
  <2>1. j \in Job /\ ~Chargeable(j)
    BY <1>0, <1>2 DEF Job, Refuse, JobOK, Chargeable
  <2>2. \/ UNCHANGED log
        \/ CanInsert /\ log' = Append(log, RowOf(j))
    BY <1>2 DEF Refuse
  <2> HIDE DEF j
  <2>3. LogsFreeRow
    BY <2>1, <2>2, FreeRowOf DEF LogsFreeRow
  <2>4. QED
    BY <1>0, <1>2, <2>3, DoneFrame DEF Refuse, Passes
<1>3. ASSUME NEW model \in BOOLEAN, NEW big \in BOOLEAN, NEW n \in 1..MaxConfigs,
             Admit(s, model, big, n)
      PROVE  Passes(s)
  <2>1. n \in 0..MaxConfigs /\ n # 0
    BY MeteringAssumption
  <2> DEFINE j == [job[s] EXCEPT !.funded = model, !.model = model, !.big = big]
  <2>2. j \in Job
    BY <1>0 DEF Job
  <2>3. [j EXCEPT !.configs = n] \in Job /\ job' = [job EXCEPT ![s] = [j EXCEPT !.configs = n]]
    BY <1>3, <2>1, <2>2, JobConfigs DEF Admit
  <2>4. Frame(s) /\ pc'[s] = "attempt" /\ job'[s].configs = n
    BY <1>3, <1>0, <2>2, <2>3 DEF Admit, Goto, Frame, TypeOK, Phases, Job
  <2>5. JobOK(pc'[s], job'[s])
    BY <2>4 DEF JobOK
  <2>6. QED
    BY <1>3, <2>1, <2>4, <2>5 DEF Admit, Passes, LogsFreeRow
<1>4. CASE NoPrice(s)
  BY <1>4, <1>0, NextConfigFrame DEF NoPrice, Passes, LogsFreeRow
<1>5. ASSUME NEW answered \in BOOLEAN, FailOver(s, answered) PROVE Passes(s)
  BY <1>5, <1>0, NextConfigFrame, MayLogErrorAppends DEF FailOver, Passes
<1>6. ASSUME NEW stream \in BOOLEAN, NEW ok \in BOOLEAN, Accept(s, stream, ok)
      PROVE  Passes(s)
  <2>1. Priced(job[s]) \in BOOLEAN
    BY <1>0 DEF Priced, Job
  <2> DEFINE j == [job[s] EXCEPT !.stream = stream, !.ok = ok]
             k == [[j EXCEPT !.configs = 0] EXCEPT !.priced = Priced(job[s])]
  <2>2. j \in Job
    BY <1>0 DEF Job
  <2>3. [j EXCEPT !.configs = 0] \in Job
    <3>1. 0 \in 0..MaxConfigs
      BY MeteringAssumption
    <3>2. QED
      BY <2>2, <3>1, JobConfigs
  <2>4. /\ k \in Job /\ k.mode = job[s].mode /\ k.model = job[s].model
        /\ k.priced = Priced(job[s])
    BY <1>0, <2>1, <2>3 DEF Job
  <2>5. /\ job' = [job EXCEPT ![s] = k]
        /\ pc[s] = "attempt" /\ pc' = [pc EXCEPT ![s] = "respond"]
    BY <1>6, <2>4 DEF Accept, Goto
  <2> HIDE DEF k, j
  <2>6. Frame(s) /\ pc'[s] = "respond" /\ pc[s] = "attempt" /\ job'[s] = k
    BY <1>0, <2>4, <2>5 DEF Frame, TypeOK, Phases
  <2>7. JobOK(pc'[s], job'[s])
    BY <2>4, <2>6 DEF JobOK, Locked, Priced
  <2>8. QED
    BY <1>6, <2>6, <2>7 DEF Accept, Passes, LogsFreeRow
<1>7. CASE Abandon(s)
  BY <1>7, <1>0, DoneFrame DEF Abandon, Passes, LogsFreeRow
<1>8. CASE Interrupted(s)
  BY <1>8, <1>0, DoneFrame, MayLogErrorAppends DEF Interrupted, Passes
<1>9. ASSUME NEW usage \in BOOLEAN, Answered(s, usage) PROVE Passes(s)
  <2> DEFINE ok == job[s].ok /\ (job[s].stream /\ job[s].model => usage)
             j == [job[s] EXCEPT !.stream = FALSE, !.ok = ok]
  <2>1. ok \in BOOLEAN
    BY <1>0 DEF Job
  <2>2. job' = [job EXCEPT ![s] = j]
    BY <1>9 DEF Answered
  <2> HIDE DEF ok
  <2>3. /\ j \in Job /\ j.mode = job[s].mode /\ j.model = job[s].model
        /\ j.priced = job[s].priced
    BY <1>0, <2>1 DEF Job
  <2> HIDE DEF j
  <2>4. Frame(s) /\ pc'[s] = "insert" /\ pc[s] = "respond" /\ job'[s] = j
    BY <1>0, <1>9, <2>2, <2>3 DEF Answered, Goto, Frame, TypeOK, Phases
  <2>5. JobOK(pc'[s], job'[s])
    BY <1>0, <2>3, <2>4 DEF JobOK, Locked, Priced
  <2>6. QED
    BY <1>9, <2>4, <2>5 DEF Answered, Passes, LogsFreeRow
<1>10. QED
  BY <1>1, <1>2, <1>3, <1>4, <1>5, <1>6, <1>7, <1>8, <1>9 DEF Request

(* A change of the one row that slot s settles, keeping what the row says   *)
(* of the request, and after which s settles at most that row's body.       *)
LEMMA SettlingStep ==
  ASSUME TypeInv, NEW s \in Slots, pc[s] \in {"charge", "restore"}, Frame(s),
         JobOK(pc'[s], job'[s]),
         \/ pc'[s] = "idle"
         \/ pc'[s] = "restore" /\ job'[s] = job[s],
         \/ UNCHANGED log
         \/ \E row \in Row : /\ log' = [log EXCEPT ![job[s].row] = row]
                             /\ row.status = log[job[s].row].status
                             /\ row.model = log[job[s].row].model
                             /\ row.mode = log[job[s].row].mode,
         org' \in Org, ledger' \in Seq(Entry), orphans' \subseteq 1..MaxRows
  PROVE  TypeInv'
<1>0. job[s].row \in DOMAIN log
  BY DEF TypeInv, TaskRow
<1>1. /\ log' \in Seq(Row) /\ Len(log') <= MaxRows /\ DOMAIN log' = DOMAIN log
      /\ \A i \in DOMAIN log : i # job[s].row => log'[i] = log[i]
      /\ log'[job[s].row].status = log[job[s].row].status
      /\ log'[job[s].row].model = log[job[s].row].model
      /\ log'[job[s].row].mode = log[job[s].row].mode
  <2>1. CASE UNCHANGED log
    BY <2>1 DEF TypeInv, TypeOK
  <2>2. CASE ~UNCHANGED log
    <3>1. PICK row \in Row : /\ log' = [log EXCEPT ![job[s].row] = row]
                             /\ row.status = log[job[s].row].status
                             /\ row.model = log[job[s].row].model
                             /\ row.mode = log[job[s].row].mode
      BY <2>2
    <3>2. QED
      BY <1>0, <3>1, ChangeRow DEF TypeInv, TypeOK
  <2>3. QED
    BY <2>1, <2>2
<1>2. HasConfig' /\ DistinctRows'
  <2>1. \A t \in Slots : pc'[t] = "attempt" => pc[t] = "attempt" /\ job'[t] = job[t]
    BY DEF Frame
  <2>2. \A t \in Slots : pc'[t] \in {"charge", "restore"} =>
          pc[t] \in {"charge", "restore"} /\ job'[t] = job[t]
    BY DEF Frame
  <2>3. QED
    BY <2>1, <2>2 DEF TypeInv, TypeOK, HasConfig, DistinctRows
<1>3. TypeOK'
  BY <1>1, <1>2 DEF TypeInv, TypeOK, Frame
<1>4. TaskRow'
  <2> SUFFICES ASSUME NEW t \in Slots, pc'[t] \in {"charge", "restore"}
               PROVE  /\ job'[t].row \in DOMAIN log'
                      /\ log'[job'[t].row].status = "success"
                      /\ log'[job'[t].row].model
                      /\ log'[job'[t].row].mode = job'[t].mode
                      /\ pc'[t] = "charge" => log'[job'[t].row].cost = NULL
    BY DEF TaskRow
  <2>1. CASE t = s
    BY <2>1, <1>1 DEF TypeInv, TaskRow
  <2>2. CASE t # s
    <3>1. pc[t] = pc'[t] /\ job[t] = job'[t] /\ job[t].row # job[s].row
      BY <2>2 DEF Frame, TypeInv, DistinctRows
    <3>2. QED
      BY <3>1, <1>1 DEF TypeInv, TaskRow
  <2>3. QED
    BY <2>1, <2>2
<1>5. JobInv'
  BY DEF TypeInv, JobInv, Frame
<1>6. QED
  BY <1>2, <1>3, <1>4, <1>5 DEF TypeInv

LEMMA GoRestoreFrame ==
  ASSUME TypeOK, NEW s \in Slots, GoRestore(s), UNCHANGED job
  PROVE  /\ Frame(s) /\ pc'[s] = "restore" /\ job'[s] = job[s]
         /\ JobOK(pc'[s], job'[s])
  BY DEF TypeOK, GoRestore, Phases, Frame, JobOK

LEMMA RecordedType ==
  ASSUME ledger \in Seq(Entry), NEW ref \in (1..MaxRows) \cup {NULL},
         NEW amount \in Int, NEW after \in Int
  PROVE  Recorded(ledger, ref, amount, after) \in Seq(Entry)
  BY DEF Recorded, Entry

LEMMA CreditedOrg ==
  ASSUME NEW o \in Org, NEW n \in Int
  PROVE  /\ [o EXCEPT !.credit = n] \in Org /\ [o EXCEPT !.credit = n].credit = n
         /\ [o EXCEPT !.credit = n].limit = o.limit
         /\ [o EXCEPT !.credit = n].mode = o.mode
  BY DEF Org

(* A row that cost is written to, a row whose body is restored. *)
LEMMA CostedRow ==
  ASSUME NEW row \in Row, NEW c \in Costs
  PROVE  /\ [row EXCEPT !.cost = c] \in Row
         /\ [row EXCEPT !.cost = c].status = row.status
         /\ [row EXCEPT !.cost = c].model = row.model
         /\ [row EXCEPT !.cost = c].mode = row.mode
         /\ [row EXCEPT !.cost = c].body = row.body
         /\ [row EXCEPT !.cost = c].cost = c
  BY DEF Row

LEMMA FullRow ==
  ASSUME NEW row \in Row
  PROVE  /\ [row EXCEPT !.body = "full"] \in Row
         /\ [row EXCEPT !.body = "full"].status = row.status
         /\ [row EXCEPT !.body = "full"].model = row.model
         /\ [row EXCEPT !.body = "full"].mode = row.mode
         /\ [row EXCEPT !.body = "full"].body = "full"
         /\ [row EXCEPT !.body = "full"].cost = row.cost
  BY DEF Row

LEMMA InsertRowTypeInv ==
  ASSUME TypeInv, NEW s \in Slots, InsertRow(s)
  PROVE  TypeInv'
<1>1. job[s] \in Job /\ log \in Seq(Row) /\ RowOf(job[s]) \in Row
  BY RowOfType DEF TypeInv, TypeOK
<1>2. CASE ~Chargeable(job[s])
  <2>1. Passes(s)
    BY <1>1, <1>2, DoneFrame, FreeRowOf DEF InsertRow, TypeInv, Passes, LogsFreeRow
  <2>2. QED
    BY <2>1, PassingStep
<1>3. CASE Chargeable(job[s])
  <2>1. /\ log' = Append(log, RowOf(job[s])) /\ CanInsert
        /\ job' = [job EXCEPT ![s].row = Len(log) + 1] /\ Goto(s, "charge")
        /\ UNCHANGED <<org, ledger, orphans>>
    BY <1>3 DEF InsertRow
  <2>2. PICK n \in 1..MaxRows : n = Len(log) + 1
    BY <1>1, <2>1, MeteringAssumption DEF CanInsert
  <2>3. [job[s] EXCEPT !.row = n] \in Job /\ [job[s] EXCEPT !.row = n].row = n
        /\ \A f \in {"mode", "model", "priced", "ok"} :
             [job[s] EXCEPT !.row = n][f] = job[s][f]
    <3>1. n \in 0..MaxRows
      BY MeteringAssumption
    <3>2. QED
      BY <1>1, <3>1 DEF Job
  <2>4. /\ Frame(s) /\ pc'[s] = "charge"
        /\ job'[s].row = n /\ job'[s].mode = job[s].mode
        /\ job'[s].model = job[s].model /\ job'[s].priced = job[s].priced
    BY <2>1, <2>2, <2>3 DEF Goto, Frame, TypeInv, TypeOK, Phases
  <2>5. /\ log' \in Seq(Row) /\ Len(log') <= MaxRows /\ DOMAIN log' = 1..n
        /\ \A i \in DOMAIN log : log'[i] = log[i] /\ i \in DOMAIN log' /\ i # n
        /\ log'[n] = RowOf(job[s])
    BY <1>1, <2>1, <2>2, AppendRow, MeteringAssumption DEF CanInsert
  <2>6. HasConfig' /\ DistinctRows'
    <3>1. \A t \in Slots : pc'[t] = "attempt" => pc[t] = "attempt" /\ job'[t] = job[t]
      BY <2>4 DEF Frame
    <3>2. \A t \in Slots : pc'[t] \in {"charge", "restore"} /\ t # s =>
            /\ pc[t] \in {"charge", "restore"} /\ job'[t] = job[t]
            /\ job'[t].row \in DOMAIN log
      BY <2>4 DEF Frame, TypeInv, TaskRow
    <3>3. QED
      BY <2>4, <2>5, <3>1, <3>2 DEF TypeInv, TypeOK, HasConfig, DistinctRows
  <2>7. TypeOK'
    BY <2>1, <2>4, <2>5, <2>6 DEF TypeInv, TypeOK, Frame
  <2>8. TaskRow'
    <3>1. /\ log'[n].status = "success" /\ log'[n].model
          /\ log'[n].mode = job[s].mode /\ log'[n].cost = NULL
      BY <1>3, <2>5 DEF RowOf, Chargeable
    <3>2. n \in DOMAIN log'
      BY <2>5
    <3>3. QED
      BY <2>4, <2>5, <3>1, <3>2 DEF TypeInv, TaskRow, Frame
  <2>9. JobInv'
    <3>1. JobOK(pc[s], job[s]) /\ pc[s] = "insert"
      BY DEF TypeInv, JobInv, InsertRow
    <3>2. JobOK(pc'[s], job'[s])
      BY <1>3, <2>4, <3>1 DEF JobOK, Locked, Priced, Chargeable
    <3>3. QED
      BY <2>4, <3>2 DEF TypeInv, JobInv, Frame
  <2>10. QED
    BY <2>6, <2>7, <2>8, <2>9 DEF TypeInv
<1>4. QED
  BY <1>2, <1>3

LEMMA ChargeTypeInv ==
  ASSUME TypeInv, NEW s \in Slots, NEW c \in Costs, NEW answerLost \in BOOLEAN,
         Charge(s, c, answerLost)
  PROVE  TypeInv'
<1>1. /\ job[s].row \in DOMAIN log /\ pc[s] = "charge" /\ log \in Seq(Row)
      /\ log[job[s].row] \in Row /\ job[s].row \in 1..MaxRows
  <2>1. job[s].row \in DOMAIN log /\ log \in Seq(Row) /\ pc[s] = "charge"
    BY DEF TypeInv, TaskRow, TypeOK, Charge
  <2>2. DOMAIN log = 1..Len(log) /\ log[job[s].row] \in Row
    BY <2>1
  <2>3. QED
    BY <2>1, <2>2, MeteringAssumption DEF TypeInv, TypeOK
<1>2. c \in Int /\ -c \in Int
  BY MeteringAssumption
<1>3. org' \in Org /\ org'.credit \in Int
  <2>1. org \in Org /\ org.credit - c \in Int
    BY <1>2 DEF TypeInv, TypeOK, Org
  <2>2. org' = [org EXCEPT !.credit = org.credit - c]
    BY DEF Charge
  <2>3. QED
    BY <2>1, <2>2, CreditedOrg
<1>4. ledger' \in Seq(Entry)
  BY <1>1, <1>2, <1>3, RecordedType DEF Charge, TypeInv, TypeOK
<1>5. \E row \in Row : /\ log' = [log EXCEPT ![job[s].row] = row]
                       /\ row.status = log[job[s].row].status
                       /\ row.model = log[job[s].row].model
                       /\ row.mode = log[job[s].row].mode
  <2> DEFINE row == [log[job[s].row] EXCEPT !.cost = c]
  <2>1. log' = [log EXCEPT ![job[s].row] = row]
    BY DEF Charge
  <2>2. /\ row \in Row
        /\ row.status = log[job[s].row].status
        /\ row.model = log[job[s].row].model
        /\ row.mode = log[job[s].row].mode
    BY <1>1, CostedRow
  <2>3. QED
    BY <2>1, <2>2
<1>6. /\ Frame(s) /\ JobOK(pc'[s], job'[s])
      /\ \/ pc'[s] = "idle"
         \/ pc'[s] = "restore" /\ job'[s] = job[s]
  BY DoneFrame, GoRestoreFrame DEF TypeInv, Charge
<1>7. QED
  BY <1>1, <1>3, <1>4, <1>5, <1>6, SettlingStep DEF Charge, TypeInv, TypeOK

LEMMA RestoreTypeInv ==
  ASSUME TypeInv, NEW s \in Slots, Restore(s)
  PROVE  TypeInv'
<1>1. /\ pc[s] = "restore" /\ log[job[s].row] \in Row
      /\ UNCHANGED <<org, ledger, orphans>>
  BY DEF Restore, TypeInv, TypeOK, TaskRow
<1>2. \E row \in Row : /\ log' = [log EXCEPT ![job[s].row] = row]
                       /\ row.status = log[job[s].row].status
                       /\ row.model = log[job[s].row].model
                       /\ row.mode = log[job[s].row].mode
  <2> DEFINE row == [log[job[s].row] EXCEPT !.body = "full"]
  <2>1. log' = [log EXCEPT ![job[s].row] = row]
    BY DEF Restore
  <2>2. /\ row \in Row
        /\ row.status = log[job[s].row].status
        /\ row.model = log[job[s].row].model
        /\ row.mode = log[job[s].row].mode
    BY <1>1, FullRow
  <2>3. QED
    BY <2>1, <2>2
<1>3. Frame(s) /\ pc'[s] = "idle" /\ JobOK(pc'[s], job'[s])
  BY DoneFrame DEF TypeInv, Restore
<1>4. QED
  BY <1>1, <1>2, <1>3, SettlingStep DEF TypeInv, TypeOK

LEMMA SettlingRow ==
  ASSUME TypeInv, NEW s \in Slots, pc[s] \in {"charge", "restore"}
  PROVE  /\ job[s].row \in 1..MaxRows /\ job[s].row \in DOMAIN log
         /\ log[job[s].row] \in Row
<1>1. job[s].row \in DOMAIN log /\ log \in Seq(Row) /\ Len(log) <= MaxRows
  BY DEF TypeInv, TypeOK, TaskRow
<1>2. QED
  BY <1>1, MeteringAssumption

(* A failed INSERT, whose row may be there all the same.                    *)
LEMMA InsertFailsTypeInv ==
  ASSUME TypeInv, NEW s \in Slots, InsertFails(s)
  PROVE  TypeInv'
<1>1. /\ job[s] \in Job /\ log \in Seq(Row) /\ RowOf(job[s]) \in Row
      /\ orphans \subseteq 1..MaxRows /\ TypeOK
      /\ Done(s) /\ pc[s] = "insert" /\ UNCHANGED <<org, ledger>>
  BY RowOfType DEF TypeInv, TypeOK, InsertFails
<1>2. Frame(s) /\ pc'[s] = "idle" /\ JobOK(pc'[s], job'[s])
  BY <1>1, DoneFrame
<1>3. /\ log' \in Seq(Row) /\ Len(log') <= MaxRows /\ orphans' \subseteq 1..MaxRows
      /\ \A i \in DOMAIN log : i \in DOMAIN log' /\ log'[i] = log[i]
  <2>1. CASE UNCHANGED <<log, orphans>>
    BY <1>1, <2>1 DEF TypeOK
  <2>2. CASE WrittenUnanswered(s)
    <3>1. log' = Append(log, RowOf(job[s])) /\ Len(log) < MaxRows
      BY <2>2 DEF WrittenUnanswered, CanInsert
    <3>2. /\ log' \in Seq(Row) /\ Len(log') <= MaxRows
          /\ \A i \in DOMAIN log : i \in DOMAIN log' /\ log'[i] = log[i]
      BY <1>1, <3>1, AppendRow, MeteringAssumption
    <3>3. Len(log) + 1 \in 1..MaxRows
      BY <1>1, <3>1, MeteringAssumption
    <3>4. orphans' \subseteq 1..MaxRows
      BY <1>1, <2>2, <3>3 DEF WrittenUnanswered
    <3>5. QED
      BY <3>2, <3>4
  <2>3. QED
    BY <2>1, <2>2 DEF InsertFails
<1>4. HasConfig' /\ DistinctRows' /\ JobInv'
  BY <1>2 DEF TypeInv, TypeOK, HasConfig, DistinctRows, JobInv, Frame
<1>5. TypeOK'
  BY <1>1, <1>2, <1>3, <1>4 DEF TypeOK, Frame
<1>6. TaskRow'
  BY <1>2, <1>3 DEF TypeInv, TaskRow, Frame
<1>7. QED
  BY <1>4, <1>5, <1>6 DEF TypeInv

(* The steps of the background task. *)
LEMMA TaskTypeInv ==
  ASSUME TypeInv, NEW s \in Slots, Task(s)
  PROVE  TypeInv'
<1>1. CASE InsertFails(s)
  BY <1>1, InsertFailsTypeInv
<1>2. CASE NotCharged(s)
  BY <1>2, GoRestoreFrame, SettlingStep DEF NotCharged, TypeInv, TypeOK
<1>3. CASE RestoreFails(s)
  <2>1. orphans' \subseteq 1..MaxRows
    BY <1>3, SettlingRow DEF RestoreFails, TypeInv, TypeOK
  <2>2. QED
    BY <1>3, <2>1, DoneFrame, SettlingStep DEF RestoreFails, TypeInv, TypeOK
<1>4. QED
  BY <1>1, <1>2, <1>3, InsertRowTypeInv, ChargeTypeInv, RestoreTypeInv DEF Task

LEMMA AdminTypeInv ==
  ASSUME TypeInv, Admin
  PROVE  TypeInv'
<1>1. org' \in Org /\ ledger' \in Seq(Entry)
  <2>1. ASSUME NEW a \in Amounts, Recharge(a)
        PROVE  org' \in Org /\ ledger' \in Seq(Entry)
    <3>1. a \in Int /\ org \in Org /\ org.credit + a \in Int /\ ledger \in Seq(Entry)
      BY MeteringAssumption DEF TypeInv, TypeOK, Org
    <3>2. org' = [org EXCEPT !.credit = org.credit + a]
      BY <2>1 DEF Recharge
    <3>3. org' \in Org /\ org'.credit \in Int
      BY <3>1, <3>2, CreditedOrg
    <3>4. QED
      BY <2>1, <3>1, <3>3, RecordedType DEF Recharge
  <2>2. ASSUME NEW limit \in Limits, NEW mode \in Modes, UpdateOrg(limit, mode)
        PROVE  org' \in Org /\ ledger' \in Seq(Entry)
    BY <2>2 DEF UpdateOrg, TypeInv, TypeOK, Org
  <2>3. QED
    BY <2>1, <2>2 DEF Admin
<1>2. UNCHANGED <<log, pc, job, orphans>>
  BY DEF Admin, Recharge, UpdateOrg
<1>3. QED
  BY <1>1, <1>2 DEF TypeInv, TypeOK, TaskRow, DistinctRows, HasConfig, JobInv

LEMMA CrashTypeInv ==
  ASSUME TypeInv, Crash
  PROVE  TypeInv'
<1>1. \A s \in Slots : pc'[s] = "idle" /\ ~job'[s].ok
  BY DEF Crash, NoJob
<1>2. HasConfig' /\ TaskRow' /\ DistinctRows' /\ JobInv'
  BY <1>1 DEF HasConfig, TaskRow, DistinctRows, JobInv, JobOK
<1>3. orphans' \subseteq 1..MaxRows
  <2>1. \A s \in Slots : pc[s] \in {"charge", "restore"} => job[s].row \in 1..MaxRows
    BY SettlingRow
  <2>2. QED
    BY <2>1 DEF Crash, TypeInv, TypeOK
<1>4. TypeOK'
  BY <1>2, <1>3, NoJobType DEF Crash, TypeInv, TypeOK, Phases
<1>5. QED
  BY <1>2, <1>4 DEF TypeInv

LEMMA StepTypeInv == TypeInv /\ [Next]_vars => TypeInv'
<1> SUFFICES ASSUME TypeInv, [Next]_vars PROVE TypeInv'
  OBVIOUS
<1>1. ASSUME NEW s \in Slots, Request(s) PROVE TypeInv'
  BY <1>1, RequestPasses, PassingStep
<1>2. ASSUME NEW s \in Slots, Task(s) PROVE TypeInv'
  BY <1>2, TaskTypeInv
<1>3. CASE UNCHANGED vars
  BY <1>3 DEF vars, TypeInv, TypeOK, TaskRow, DistinctRows, HasConfig, JobInv
<1>4. QED
  BY <1>1, <1>2, <1>3, AdminTypeInv, CrashTypeInv DEF Next

LEMMA MeteringInvariant == Spec => []TypeInv
  BY InitTypeInv, StepTypeInv, PTL DEF Spec

(* Type correctness, an attempt always having a config left to try.         *)
THEOREM MeteringTypeCorrect == Spec => []TypeOK
<1>1. TypeInv => TypeOK
  BY DEF TypeInv
<1>2. QED
  BY <1>1, MeteringInvariant, PTL

(* A charge goes by the terms the request was admitted under, and the price *)
(* it needs has been locked before the upstream was called.                 *)
THEOREM MeteringTermsKept == Spec => []TermsKept
<1>1. TypeInv => TermsKept
  BY DEF TypeInv, TaskRow, JobInv, JobOK, Locked, Priced, TermsKept, ChargeMode
<1>2. QED
  BY <1>1, MeteringInvariant, PTL

-----------------------------------------------------------------------------
(* The task that settles a row stays with it, gives the row its body or its *)
(* cost, or leaves it to the orphans.                                       *)
LEMMA TaskPrefix ==
  ASSUME TypeInv, TypeInv', PrefixAccounted, NEW s \in Slots, Task(s)
  PROVE  PrefixAccounted'
<1> SUFFICES ASSUME NEW i \in DOMAIN log', Unsettled(i)'
             PROVE  i \in orphans' \/ \E t \in Slots : Settling(t, i)'
  BY DEF PrefixAccounted
<1>0. TypeOK /\ job[s] \in Job /\ log \in Seq(Row)
  BY DEF TypeInv, TypeOK
(* A row that was unsettled and is still someone's, or an orphan, is so.    *)
<1>1. ASSUME Frame(s), orphans \subseteq orphans', Unsettled(i),
             Settling(s, i) => Settling(s, i)' \/ i \in orphans'
      PROVE  i \in orphans' \/ \E t \in Slots : Settling(t, i)'
  <2>1. CASE i \in orphans
    BY <1>1, <2>1
  <2>2. CASE \E t \in Slots : Settling(t, i)
    BY <1>1, <2>2 DEF Settling, Frame
  <2>3. QED
    BY <1>1, <2>1, <2>2 DEF PrefixAccounted, Unsettled
<1>2. CASE InsertRow(s)
  <2>1. log' = Append(log, RowOf(job[s])) /\ CanInsert /\ orphans' = orphans
        /\ pc[s] = "insert"
    BY <1>2 DEF InsertRow
  <2>2. RowOf(job[s]) \in Row
    BY <1>0, RowOfType
  <2>3. CASE i = Len(log) + 1
    <3>1. log'[i] = RowOf(job[s])
      BY <1>0, <2>1, <2>2, <2>3, AppendRow
    <3>2. Chargeable(job[s])
      BY <1>0, <3>1, FreeRowOf DEF Unsettled
    <3>3. pc'[s] = "charge" /\ job'[s].row = i
      BY <1>0, <1>2, <2>3, <3>2 DEF InsertRow, Goto, TypeOK, Job
    <3>4. QED
      BY <3>3 DEF Settling
  <2>4. CASE i # Len(log) + 1
    <3>1. Unsettled(i)
      BY <1>0, <2>1, <2>2, <2>4, AppendRow DEF Unsettled
    <3>2. Frame(s)
      <4>1. CASE ~Chargeable(job[s])
        BY <1>0, <1>2, <4>1, DoneFrame DEF InsertRow
      <4>2. CASE Chargeable(job[s])
        BY <1>2, <4>2 DEF InsertRow, Goto, Frame, TypeInv, TypeOK
      <4>3. QED
        BY <4>1, <4>2
    <3>3. ~Settling(s, i)
      BY <2>1 DEF Settling
    <3>4. QED
      BY <1>1, <2>1, <3>1, <3>2, <3>3
  <2>5. QED
    BY <2>3, <2>4
<1>3. CASE InsertFails(s)
  <2>1. Frame(s) /\ ~Settling(s, i)
    BY <1>0, <1>3, DoneFrame DEF InsertFails, Settling
  <2>2. CASE UNCHANGED <<log, orphans>>
    <3>1. Unsettled(i)
      BY <2>2 DEF Unsettled
    <3>2. QED
      BY <1>1, <2>1, <2>2, <3>1
  <2>3. CASE WrittenUnanswered(s)
    <3>1. log' = Append(log, RowOf(job[s])) /\ RowOf(job[s]) \in Row
      BY <1>0, <2>3, RowOfType DEF WrittenUnanswered
    <3>2. orphans \subseteq orphans'
      BY <2>3 DEF WrittenUnanswered
    <3>3. CASE i = Len(log) + 1
      <4>1. log'[i] = RowOf(job[s])
        BY <1>0, <3>1, <3>3, AppendRow
      <4>2. Chargeable(job[s])
        BY <1>0, <4>1, FreeRowOf DEF Unsettled
      <4>3. QED
        BY <2>3, <3>3, <4>2 DEF WrittenUnanswered
    <3>4. CASE i # Len(log) + 1
      <4>1. Unsettled(i)
        BY <1>0, <3>1, <3>4, AppendRow DEF Unsettled
      <4>2. QED
        BY <1>1, <2>1, <3>2, <4>1
    <3>5. QED
      BY <3>3, <3>4
  <2>4. QED
    BY <1>3, <2>2, <2>3 DEF InsertFails
<1>4. ASSUME NEW c \in Costs, NEW answerLost \in BOOLEAN, Charge(s, c, answerLost)
      PROVE  i \in orphans' \/ \E t \in Slots : Settling(t, i)'
  <2> DEFINE row == [log[job[s].row] EXCEPT !.cost = c]
  <2>1. pc[s] = "charge" /\ orphans' = orphans
        /\ log' = [log EXCEPT ![job[s].row] = row]
    BY <1>4 DEF Charge
  <2>2. job[s].row \in DOMAIN log /\ log[job[s].row] \in Row
    BY <2>1, SettlingRow
  <2>3. row \in Row /\ row.cost = c /\ c # NULL
    BY <2>2, CostedRow, MeteringAssumption
  <2> HIDE DEF row
  <2>4. i # job[s].row
    BY <1>0, <2>1, <2>2, <2>3, ChangeRow DEF Unsettled
  <2>5. Unsettled(i)
    BY <1>0, <2>1, <2>2, <2>3, <2>4, ChangeRow DEF Unsettled
  <2>6. Frame(s)
    BY <1>0, <1>4, DoneFrame, GoRestoreFrame DEF Charge
  <2>7. QED
    BY <1>1, <2>1, <2>4, <2>5, <2>6 DEF Settling
<1>5. CASE NotCharged(s)
  <2>1. Frame(s) /\ pc'[s] = "restore" /\ job'[s] = job[s]
    BY <1>0, <1>5, GoRestoreFrame DEF NotCharged
  <2>2. Unsettled(i) /\ orphans' = orphans
    BY <1>5 DEF NotCharged, Unsettled
  <2>3. QED
    BY <1>1, <2>1, <2>2 DEF Settling
<1>6. CASE Restore(s)
  <2> DEFINE row == [log[job[s].row] EXCEPT !.body = "full"]
  <2>1. pc[s] = "restore" /\ orphans' = orphans
        /\ log' = [log EXCEPT ![job[s].row] = row]
    BY <1>6 DEF Restore
  <2>2. job[s].row \in DOMAIN log /\ log[job[s].row] \in Row
    BY <2>1, SettlingRow
  <2>3. row \in Row /\ row.body = "full"
    BY <2>2, FullRow
  <2> HIDE DEF row
  <2>4. i # job[s].row
    BY <1>0, <2>1, <2>2, <2>3, ChangeRow DEF Unsettled
  <2>5. Unsettled(i)
    BY <1>0, <2>1, <2>2, <2>3, <2>4, ChangeRow DEF Unsettled
  <2>6. Frame(s)
    BY <1>0, <1>6, DoneFrame DEF Restore
  <2>7. QED
    BY <1>1, <2>1, <2>4, <2>5, <2>6 DEF Settling
<1>7. CASE RestoreFails(s)
  <2>1. Frame(s) /\ Unsettled(i) /\ orphans' = orphans \cup {job[s].row}
    BY <1>0, <1>7, DoneFrame DEF RestoreFails, Unsettled
  <2>2. QED
    BY <1>1, <2>1 DEF Settling
<1>8. QED
  BY <1>2, <1>3, <1>4, <1>5, <1>6, <1>7 DEF Task

(* A row left with a prefix of its body and no cost is being settled, or a  *)
(* crash, a failed restore or a lost answer to its INSERT left it so.       *)
THEOREM MeteringPrefixAccounted == Spec => []PrefixAccounted
<1>1. Init => PrefixAccounted
  BY DEF Init, PrefixAccounted
<1>2. TypeInv /\ TypeInv' /\ PrefixAccounted /\ [Next]_vars => PrefixAccounted'
  <2> SUFFICES ASSUME TypeInv, TypeInv', PrefixAccounted, [Next]_vars
               PROVE  PrefixAccounted'
    OBVIOUS
  <2>1. ASSUME NEW s \in Slots, Request(s) PROVE PrefixAccounted'
    <3>1. Passes(s)
      BY <2>1, RequestPasses
    <3>2. \A i \in DOMAIN log' : Unsettled(i)' => Unsettled(i)
      BY <3>1, FreeRowLogged DEF Passes, TypeInv, Unsettled
    <3>3. \A t \in Slots, i \in DOMAIN log : Settling(t, i) => Settling(t, i)'
      BY <3>1 DEF Passes, Frame, Settling
    <3>4. QED
      BY <3>1, <3>2, <3>3 DEF Passes, PrefixAccounted, Unsettled
  <2>2. ASSUME NEW s \in Slots, Task(s) PROVE PrefixAccounted'
    BY <2>2, TaskPrefix
  <2>3. CASE Admin
    BY <2>3 DEF Admin, Recharge, UpdateOrg, PrefixAccounted, Unsettled, Settling
  <2>4. CASE Crash
    BY <2>4 DEF Crash, PrefixAccounted, Unsettled, Settling
  <2>5. CASE UNCHANGED vars
    BY <2>5 DEF vars, PrefixAccounted, Unsettled, Settling
  <2>6. QED
    BY <2>1, <2>2, <2>3, <2>4, <2>5 DEF Next
<1>3. QED
  BY <1>1, <1>2, MeteringInvariant, PTL DEF Spec

-----------------------------------------------------------------------------
(* Ledger and rows: an entry with a reference is the one charge of a        *)
(* successful row, for the cost stored there; a row with a cost has it.     *)
ChargeOfRow ==
  \A i \in DOMAIN ledger : ledger[i].ref # NULL =>
    /\ ledger[i].ref \in DOMAIN log
    /\ log[ledger[i].ref].status = "success" /\ log[ledger[i].ref].model
    /\ log[ledger[i].ref].cost = -ledger[i].amount

KindOfRef ==
  \A i \in DOMAIN ledger : ledger[i].kind = "consume" <=> ledger[i].ref # NULL

OncePerRow ==
  \A i, j \in DOMAIN ledger :
    ledger[i].ref # NULL /\ ledger[i].ref = ledger[j].ref => i = j

CostHasCharge ==
  \A r \in DOMAIN log : log[r].cost \notin {NULL, 0} =>
    \E i \in DOMAIN ledger : ledger[i].ref = r

LedgerInv == ChargeOfRow /\ KindOfRef /\ OncePerRow /\ CostHasCharge

(* A step that leaves every row's status, model and cost alone.             *)
RowsKept ==
  /\ \A i \in DOMAIN log :
       /\ i \in DOMAIN log'
       /\ log'[i].status = log[i].status /\ log'[i].model = log[i].model
       /\ log'[i].cost = log[i].cost
  /\ \A i \in DOMAIN log' \ DOMAIN log : log'[i].cost = NULL

LEMMA RowsKeptStep ==
  ASSUME LedgerInv, RowsKept, UNCHANGED ledger
  PROVE  LedgerInv'
<1>1. ChargeOfRow'
  BY DEF LedgerInv, ChargeOfRow, RowsKept
<1>2. KindOfRef' /\ OncePerRow'
  BY DEF LedgerInv, KindOfRef, OncePerRow
<1>3. CostHasCharge'
  BY DEF LedgerInv, CostHasCharge, RowsKept
<1>4. QED
  BY <1>1, <1>2, <1>3 DEF LedgerInv

LEMMA NullRef == \A r \in 1..MaxRows : r # NULL
  BY MeteringAssumption

(* The last entry n has been appended to the ledger.                        *)
Posted(n, ref, amount) ==
  /\ n \in Nat /\ n \notin DOMAIN ledger /\ DOMAIN ledger' = DOMAIN ledger \cup {n}
  /\ \A i \in DOMAIN ledger : ledger'[i] = ledger[i]
  /\ ledger'[n].ref = ref /\ ledger'[n].amount = amount
  /\ ref = NULL => ledger'[n].kind = "recharge"
  /\ ref # NULL => ledger'[n].kind = "consume"

LEMMA AppendEntry ==
  ASSUME ledger \in Seq(Entry), NEW ref \in (1..MaxRows) \cup {NULL},
         NEW amount \in Int, NEW after \in Int,
         ledger' = Recorded(ledger, ref, amount, after)
  PROVE  \E n : Posted(n, ref, amount)
<1> DEFINE e == [kind |-> IF ref = NULL THEN "recharge" ELSE "consume",
                 ref |-> ref, amount |-> amount, after |-> after]
           n == Len(ledger) + 1
<1>1. ledger' = Append(ledger, e)
  BY DEF Recorded
<1>2. /\ e.ref = ref /\ e.amount = amount
      /\ e.kind = IF ref = NULL THEN "recharge" ELSE "consume"
  OBVIOUS
<1> HIDE DEF e
<1>3. /\ n \in Nat /\ n \notin DOMAIN ledger /\ DOMAIN ledger' = DOMAIN ledger \cup {n}
      /\ \A i \in DOMAIN ledger : ledger'[i] = ledger[i]
      /\ ledger'[n] = e
  BY <1>1
<1>4. QED
  BY <1>2, <1>3 DEF Posted

LEMMA ChargeLedgerInv ==
  ASSUME TypeInv, LedgerInv, NEW s \in Slots, NEW c \in Costs,
         NEW answerLost \in BOOLEAN, Charge(s, c, answerLost)
  PROVE  LedgerInv'
<1> DEFINE r == job[s].row
           row == [log[r] EXCEPT !.cost = c]
<1>1. /\ pc[s] = "charge" /\ log' = [log EXCEPT ![r] = row]
      /\ log[r].cost = NULL
  BY DEF Charge
<1>2. /\ r \in DOMAIN log /\ log[r] \in Row /\ r \in 1..MaxRows /\ r # NULL
      /\ log \in Seq(Row) /\ ledger \in Seq(Entry)
      /\ log[r].status = "success" /\ log[r].model
  BY <1>1, SettlingRow, NullRef DEF TypeInv, TypeOK, TaskRow
<1>3. /\ row \in Row /\ row.cost = c
      /\ row.status = log[r].status /\ row.model = log[r].model
  BY <1>2, CostedRow
<1>c. c \in Int /\ -c \in Int /\ c = -(-c) /\ c # NULL
  BY MeteringAssumption
<1> HIDE DEF row
<1>4. /\ DOMAIN log' = DOMAIN log /\ log'[r] = row
      /\ \A i \in DOMAIN log : i # r => log'[i] = log[i]
  BY <1>1, <1>2, <1>3, ChangeRow
<1>5. \A i \in DOMAIN ledger : ledger[i].ref # r
  <2> SUFFICES ASSUME NEW i \in DOMAIN ledger, ledger[i].ref = r PROVE FALSE
    OBVIOUS
  <2>1. ledger[i] \in Entry /\ log[r].cost = -ledger[i].amount
    BY <1>2 DEF LedgerInv, ChargeOfRow
  <2>2. -ledger[i].amount \in Int
    BY <2>1 DEF Entry
  <2>3. QED
    BY <1>1, <2>1, <2>2, MeteringAssumption
<1>6. CASE c = 0
  <2>1. ledger' = ledger
    BY <1>6 DEF Charge
  <2>2. ChargeOfRow'
    BY <1>4, <1>5, <2>1 DEF LedgerInv, ChargeOfRow
  <2>3. KindOfRef' /\ OncePerRow'
    BY <2>1 DEF LedgerInv, KindOfRef, OncePerRow
  <2>4. CostHasCharge'
    BY <1>3, <1>4, <1>6, <2>1 DEF LedgerInv, CostHasCharge
  <2>5. QED
    BY <2>2, <2>3, <2>4 DEF LedgerInv
<1>7. CASE c # 0
  <2>1. ledger' = Recorded(ledger, r, -c, org'.credit) /\ org'.credit \in Int
    <3>1. org'.credit \in Int
      BY ChargeTypeInv DEF TypeInv, TypeOK, Org
    <3>2. QED
      BY <1>7, <3>1 DEF Charge
  <2>2. PICK n : Posted(n, r, -c)
    <3>1. r \in (1..MaxRows) \cup {NULL} /\ ledger \in Seq(Entry)
      BY <1>2
    <3> HIDE DEF r
    <3>2. QED
      BY <1>c, <2>1, <3>1, AppendEntry
  <2>3. log'[r].cost = -ledger'[n].amount
    BY <1>3, <1>c, <1>4, <2>2 DEF Posted
  <2> HIDE DEF r
  <2>4. ChargeOfRow'
    <3> SUFFICES ASSUME NEW i \in DOMAIN ledger', ledger'[i].ref # NULL
                 PROVE  /\ ledger'[i].ref \in DOMAIN log'
                        /\ log'[ledger'[i].ref].status = "success"
                        /\ log'[ledger'[i].ref].model
                        /\ log'[ledger'[i].ref].cost = -ledger'[i].amount
      BY DEF ChargeOfRow
    <3>1. CASE i = n
      BY <1>2, <1>3, <1>4, <2>2, <2>3, <3>1 DEF Posted
    <3>2. CASE i \in DOMAIN ledger
      BY <1>4, <1>5, <2>2, <3>2 DEF Posted, LedgerInv, ChargeOfRow
    <3>3. QED
      BY <2>2, <3>1, <3>2 DEF Posted
  <2>5. KindOfRef'
    BY <1>2, <2>2 DEF Posted, LedgerInv, KindOfRef
  <2>6. OncePerRow'
    BY <1>5, <2>2 DEF Posted, LedgerInv, OncePerRow
  <2>7. CostHasCharge'
    BY <1>4, <2>2 DEF Posted, LedgerInv, CostHasCharge
  <2>8. QED
    BY <2>4, <2>5, <2>6, <2>7 DEF LedgerInv
<1>8. QED
  BY <1>6, <1>7

LEMMA RechargeLedgerInv ==
  ASSUME TypeInv, LedgerInv, NEW a \in Amounts, Recharge(a)
  PROVE  LedgerInv'
<1>1. /\ ledger \in Seq(Entry) /\ a \in Int /\ log' = log
      /\ ledger' = Recorded(ledger, NULL, a, org'.credit)
  BY MeteringAssumption DEF TypeInv, TypeOK, Recharge
<1>2. org'.credit \in Int
  BY AdminTypeInv DEF Admin, TypeInv, TypeOK, Org
<1>3. PICK n : Posted(n, NULL, a)
  <2>1. NULL \in (1..MaxRows) \cup {NULL}
    OBVIOUS
  <2>2. QED
    BY <1>1, <1>2, <2>1, AppendEntry
<1>4. ChargeOfRow' /\ KindOfRef' /\ OncePerRow' /\ CostHasCharge'
  BY <1>1, <1>3
  DEF Posted, LedgerInv, ChargeOfRow, KindOfRef, OncePerRow, CostHasCharge
<1>5. QED
  BY <1>4 DEF LedgerInv

(* Every step but a charge and a recharge keeps rows and ledger.            *)
LEMMA OtherTaskRowsKept ==
  ASSUME TypeInv, NEW s \in Slots,
         InsertRow(s) \/ InsertFails(s) \/ NotCharged(s) \/ Restore(s) \/ RestoreFails(s)
  PROVE  RowsKept /\ UNCHANGED <<org, ledger>>
<1>1. log \in Seq(Row) /\ job[s] \in Job
  BY DEF TypeInv, TypeOK
<1>2. CASE InsertRow(s)
  <2>1. log' = Append(log, RowOf(job[s])) /\ UNCHANGED <<org, ledger>>
    BY <1>2 DEF InsertRow
  <2>2. RowOf(job[s]) \in Row /\ RowOf(job[s]).cost = NULL
    BY <1>1, RowOfType DEF RowOf
  <2>3. QED
    BY <1>1, <2>1, <2>2, AppendRow DEF RowsKept
<1>3. CASE Restore(s)
  <2> DEFINE row == [log[job[s].row] EXCEPT !.body = "full"]
  <2>1. pc[s] = "restore" /\ log' = [log EXCEPT ![job[s].row] = row]
        /\ UNCHANGED <<org, ledger>>
    BY <1>3 DEF Restore
  <2>2. job[s].row \in DOMAIN log /\ log[job[s].row] \in Row
    BY <2>1, SettlingRow
  <2>3. /\ row \in Row /\ row.status = log[job[s].row].status
        /\ row.model = log[job[s].row].model /\ row.cost = log[job[s].row].cost
    BY <2>2, FullRow
  <2> HIDE DEF row
  <2>4. QED
    BY <1>1, <2>1, <2>2, <2>3, ChangeRow DEF RowsKept
<1>4. CASE NotCharged(s) \/ RestoreFails(s)
  BY <1>4 DEF NotCharged, RestoreFails, RowsKept
<1>5. CASE InsertFails(s)
  <2>1. UNCHANGED log \/ log' = Append(log, RowOf(job[s]))
    BY <1>5 DEF InsertFails, WrittenUnanswered
  <2>2. RowOf(job[s]) \in Row /\ RowOf(job[s]).cost = NULL
    BY <1>1, RowOfType DEF RowOf
  <2>3. RowsKept
    BY <1>1, <2>1, <2>2, AppendRow DEF RowsKept
  <2>4. QED
    BY <1>5, <2>3 DEF InsertFails
<1>6. QED
  BY <1>2, <1>3, <1>4, <1>5

LEMMA PassesRowsKept ==
  ASSUME TypeInv, NEW s \in Slots, Passes(s)
  PROVE  RowsKept
  BY FreeRowLogged DEF TypeInv, Passes, RowsKept

LEMMA InitLedgerInv == Init => LedgerInv
  BY DEF Init, LedgerInv, ChargeOfRow, KindOfRef, OncePerRow, CostHasCharge

LEMMA StepLedgerInv == TypeInv /\ LedgerInv /\ [Next]_vars => LedgerInv'
<1> SUFFICES ASSUME TypeInv, LedgerInv, [Next]_vars PROVE LedgerInv'
  OBVIOUS
<1>1. ASSUME NEW s \in Slots, Request(s) PROVE LedgerInv'
  BY <1>1, RequestPasses, PassesRowsKept, RowsKeptStep DEF Passes
<1>2. ASSUME NEW s \in Slots, Task(s) PROVE LedgerInv'
  BY <1>2, ChargeLedgerInv, OtherTaskRowsKept, RowsKeptStep DEF Task
<1>3. CASE Admin
  <2>1. ASSUME NEW limit \in Limits, NEW mode \in Modes, UpdateOrg(limit, mode)
        PROVE  LedgerInv'
    BY <2>1, RowsKeptStep DEF UpdateOrg, RowsKept
  <2>2. QED
    BY <1>3, <2>1, RechargeLedgerInv DEF Admin
<1>4. CASE Crash \/ UNCHANGED vars
  BY <1>4, RowsKeptStep DEF Crash, vars, RowsKept
<1>5. QED
  BY <1>1, <1>2, <1>3, <1>4 DEF Next

LEMMA MeteringLedgerInvariant == Spec => []LedgerInv
  BY InitLedgerInv, StepLedgerInv, MeteringInvariant, PTL DEF Spec

(* Money and request log agree, for any number of requests, costs and       *)
(* recharges: charges are those of successful rows, for the cost stored     *)
(* there, and exactly one for every row with a cost.                        *)
THEOREM MeteringLedgerMatchesRows == Spec => []LedgerMatchesRows
<1>1. TypeInv /\ LedgerInv => LedgerMatchesRows
  <2> SUFFICES ASSUME TypeInv, LedgerInv PROVE LedgerMatchesRows
    OBVIOUS
  <2>1. \A i \in DOMAIN ledger : ledger[i].kind = "consume" =>
          /\ ledger[i].ref \in DOMAIN log
          /\ log[ledger[i].ref].status = "success" /\ log[ledger[i].ref].model
          /\ log[ledger[i].ref].cost = -ledger[i].amount
    BY DEF LedgerInv, ChargeOfRow, KindOfRef
  <2>2. ASSUME NEW r \in DOMAIN log, log[r].cost \notin {NULL, 0}
        PROVE  Cardinality(Charges(r)) = 1
    <3>1. PICK i \in DOMAIN ledger : ledger[i].ref = r
      BY <2>2 DEF LedgerInv, CostHasCharge
    <3>2. r # NULL
      BY <2>2, MeteringAssumption DEF TypeInv, TypeOK
    <3>3. Charges(r) = {i}
      BY <3>1, <3>2 DEF Charges, LedgerInv, OncePerRow
    <3>4. QED
      BY <3>3, FS_Singleton
  <2>3. QED
    BY <2>1, <2>2 DEF LedgerMatchesRows
<1>2. QED
  BY <1>1, MeteringInvariant, MeteringLedgerInvariant, PTL

-----------------------------------------------------------------------------
(* A charge is one step of the abstract ledger, or none when it costs       *)
(* nothing; a recharge is one; everything else stutters.                    *)
LEMMA ChargeConsumes ==
  ASSUME TypeInv, LedgerInv, NEW s \in Slots, NEW c \in Costs,
         NEW answerLost \in BOOLEAN, Charge(s, c, answerLost)
  PROVE  [L!Next]_(L!lvars)
<1> DEFINE r == job[s].row
<1>1. pc[s] = "charge" /\ log[r].cost = NULL /\ org' = [org EXCEPT !.credit = org.credit - c]
  BY DEF Charge
<1>2. r \in 1..MaxRows /\ r # NULL
  BY <1>1, SettlingRow, NullRef
<1>3. c \in Int /\ -c \in Int /\ org \in Org /\ org.credit \in Int /\ org.credit - c \in Int
  BY MeteringAssumption DEF TypeInv, TypeOK, Org
<1>4. org'.credit = org.credit - c
  BY <1>1, <1>3, CreditedOrg
<1>5. CASE c = 0
  BY <1>3, <1>4, <1>5 DEF Charge, L!lvars
<1>6. CASE c # 0
  <2>1. ledger' = Recorded(ledger, r, -c, org'.credit)
    BY <1>6 DEF Charge
  <2>2. ~L!Charged(r)
    <3> SUFFICES ASSUME NEW i \in DOMAIN ledger, ledger[i].ref = r PROVE FALSE
      BY DEF L!Charged
    <3>1. ledger[i] \in Entry /\ log[r].cost = -ledger[i].amount
      BY <1>2 DEF TypeInv, TypeOK, LedgerInv, ChargeOfRow
    <3>2. -ledger[i].amount \in Int
      BY <3>1 DEF Entry
    <3>3. QED
      BY <1>1, <3>1, <3>2, MeteringAssumption
  <2>3. org'.credit = org.credit + (-c)
    BY <1>3, <1>4
  <2> HIDE DEF r
  <2>4. L!Post("consume", r, -c)
    BY <1>2, <2>1, <2>3 DEF L!Post, Recorded
  <2>5. L!Consume(r, c)
    BY <1>6, <2>2, <2>4 DEF L!Consume
  <2>6. QED
    BY <1>2, <1>6, <2>5 DEF L!Next
<1>7. QED
  BY <1>5, <1>6

LEMMA RechargePosts ==
  ASSUME TypeInv, NEW a \in Amounts, Recharge(a)
  PROVE  L!Next
<1>1. /\ a \in Int /\ org \in Org /\ org.credit + a \in Int
      /\ org' = [org EXCEPT !.credit = org.credit + a]
  BY MeteringAssumption DEF TypeInv, TypeOK, Org, Recharge
<1>2. org'.credit = org.credit + a
  BY <1>1, CreditedOrg
<1>3. L!Recharge(a)
  BY <1>2 DEF Recharge, Recorded, L!Recharge, L!Post
<1>4. QED
  BY <1>3 DEF L!Next

(* The balance and the credit_logs rows of the whole request path implement *)
(* the abstract ledger.                                                     *)
THEOREM MeteringImplementsLedger == Spec => LedgerSpec
<1>1. Init => L!Init
  BY DEF Init, L!Init
<1>2. TypeInv /\ LedgerInv /\ [Next]_vars => [L!Next]_(L!lvars)
  <2> SUFFICES ASSUME TypeInv, LedgerInv, [Next]_vars PROVE [L!Next]_(L!lvars)
    OBVIOUS
  <2>1. ASSUME NEW s \in Slots, Request(s) PROVE [L!Next]_(L!lvars)
    BY <2>1, RequestPasses DEF Passes, L!lvars
  <2>2. ASSUME NEW s \in Slots, Task(s) PROVE [L!Next]_(L!lvars)
    BY <2>2, ChargeConsumes, OtherTaskRowsKept DEF Task, L!lvars
  <2>3. CASE Admin
    <3>1. ASSUME NEW limit \in Limits, NEW mode \in Modes, UpdateOrg(limit, mode)
          PROVE  UNCHANGED L!lvars
      BY <3>1 DEF UpdateOrg, L!lvars, TypeInv, TypeOK, Org
    <3>2. QED
      BY <2>3, <3>1, RechargePosts DEF Admin
  <2>4. CASE Crash \/ UNCHANGED vars
    BY <2>4 DEF Crash, vars, L!lvars
  <2>5. QED
    BY <2>1, <2>2, <2>3, <2>4 DEF Next
<1>3. QED
  BY <1>1, <1>2, MeteringInvariant, MeteringLedgerInvariant, PTL
  DEF Spec, LedgerSpec, L!Spec

-----------------------------------------------------------------------------
(* The slots that owe no charge any more, whose number bounds the debt: a   *)
(* funded request leaves the set when the balance is above the limit, and   *)
(* comes back to it with at most one charge.                                *)
Exposed(s) ==
  \/ pc[s] = "body" /\ job[s].funded
  \/ pc[s] \in {"attempt", "respond", "insert", "charge"} /\ job[s].model

Closed == {s \in Slots : ~Exposed(s)}

Margin == org.credit + org.limit

DebtInv == AdminOnlyAdds => Margin > -(MaxCost * Cardinality(Closed))

LEMMA Monotone ==
  ASSUME NEW m \in Nat, NEW a \in Nat, NEW b \in Nat, a <= b
  PROVE  m * a \in Nat /\ m * b \in Nat /\ m * a <= m * b /\ m * (a + 1) = m * a + m
<1>1. PICK d \in Nat : b = a + d
  <2>1. b - a \in Nat /\ b = a + (b - a)
    OBVIOUS
  <2>2. QED
    BY <2>1
<1>2. m * d \in Nat /\ m * (a + d) = m * a + m * d
  OBVIOUS
<1>3. m * a \in Nat /\ m * (a + 1) = m * a + m
  OBVIOUS
<1>4. QED
  BY <1>1, <1>2, <1>3

LEMMA ClosedSize ==
  /\ IsFiniteSet(Closed) /\ Cardinality(Closed) \in Nat
  /\ Cardinality(Slots) \in Nat /\ Cardinality(Closed) <= Cardinality(Slots)
  BY MeteringAssumption, FS_Subset, FS_CardinalityType DEF Closed

LEMMA OrgMargin == \A o \in Org : o.credit \in Int /\ o.limit \in Int /\ o.credit + o.limit \in Int
<1> SUFFICES ASSUME NEW o \in Org
             PROVE  o.credit \in Int /\ o.limit \in Int /\ o.credit + o.limit \in Int
  OBVIOUS
<1>1. o.credit \in Int /\ o.limit \in Limits
  BY DEF Org
<1>2. o.limit \in Int
  BY <1>1, MeteringAssumption
<1>3. QED
  BY <1>1, <1>2

(* More closed slots and no less margin.                                      *)
LEMMA DebtGrows ==
  ASSUME TypeOK, TypeOK', DebtInv, Closed \subseteq Closed',
         AdminOnlyAdds => Margin' >= Margin
  PROVE  DebtInv'
<1> SUFFICES ASSUME AdminOnlyAdds PROVE Margin' > -(MaxCost * Cardinality(Closed'))
  BY DEF DebtInv, AdminOnlyAdds
<1>1. /\ IsFiniteSet(Closed') /\ Cardinality(Closed') \in Nat
      /\ IsFiniteSet(Closed) /\ Cardinality(Closed) \in Nat
  BY MeteringAssumption, FS_Subset, FS_CardinalityType DEF Closed
<1>2. Cardinality(Closed) <= Cardinality(Closed')
  BY <1>1, FS_Subset
<1> DEFINE a == MaxCost * Cardinality(Closed)
           b == MaxCost * Cardinality(Closed')
<1>3. a \in Nat /\ b \in Nat /\ a <= b
  BY <1>1, <1>2, Monotone, MeteringAssumption
<1>4. Margin \in Int /\ Margin' \in Int
  BY OrgMargin DEF Margin, TypeOK
<1>5. Margin > -a /\ Margin' >= Margin
  BY DEF DebtInv
<1> HIDE DEF a, b
<1>6. Margin' > -b
  BY <1>3, <1>4, <1>5
<1>7. QED
  BY <1>6 DEF b

(* A step of slot s after which it is closed, or exposed as before.         *)
LEMMA ClosedGrows ==
  ASSUME TypeOK, NEW s \in Slots, Frame(s), Exposed(s)' => Exposed(s)
  PROVE  Closed \subseteq Closed'
  BY DEF Closed, Exposed, Frame

LEMMA LookupDebt ==
  ASSUME TypeInv, TypeInv', DebtInv, NEW s \in Slots, Lookup(s)
  PROVE  DebtInv'
<1>0. TypeOK /\ TypeOK' /\ Frame(s) /\ UNCHANGED org
  BY RequestPasses DEF Request, Passes, TypeInv
<1>1. /\ pc[s] = "idle" /\ pc'[s] = "body"
      /\ job'[s] = [job[s] EXCEPT !.funded = HasCredit(org), !.mode = org.mode]
      /\ job[s] \in Job
  BY <1>0 DEF Lookup, Goto, TypeOK
<1>2. job'[s].funded = HasCredit(org)
  BY <1>1 DEF Job
<1>3. CASE HasCredit(org)
  <2>1. Cardinality(Closed') \in Nat
    BY MeteringAssumption, FS_Subset, FS_CardinalityType DEF Closed
  <2>2. MaxCost * Cardinality(Closed') \in Nat
    BY <2>1, Monotone, MeteringAssumption
  <2>3. Margin' > 0 /\ Margin' \in Int
    BY <1>0, <1>3, OrgMargin DEF HasCredit, Margin, TypeOK
  <2> DEFINE b == MaxCost * Cardinality(Closed')
  <2> HIDE DEF b
  <2>4. b \in Nat
    BY <2>2 DEF b
  <2>5. Margin' > -b
    BY <2>3, <2>4
  <2>6. QED
    BY <2>5 DEF b, DebtInv
<1>4. CASE ~HasCredit(org)
  <2>1. Closed \subseteq Closed'
    BY <1>0, <1>1, <1>2, <1>4, ClosedGrows DEF Exposed
  <2>2. Margin \in Int /\ Margin' = Margin
    BY <1>0, OrgMargin DEF Margin, TypeOK
  <2>3. QED
    BY <1>0, <2>1, <2>2, DebtGrows
<1>5. QED
  BY <1>3, <1>4

(* The other steps of a request expose no slot that was closed.             *)
LEMMA RequestDebt ==
  ASSUME TypeInv, TypeInv', DebtInv, NEW s \in Slots, Request(s), ~Lookup(s)
  PROVE  DebtInv'
<1>0. TypeOK /\ TypeOK' /\ Frame(s) /\ UNCHANGED org /\ job[s] \in Job
  BY RequestPasses DEF Passes, TypeInv, TypeOK
<1>1. Exposed(s)' => Exposed(s)
  <2>1. ASSUME Done(s) PROVE ~Exposed(s)'
    BY <1>0, <2>1, DoneFrame DEF Exposed
  <2>2. ASSUME NEW model \in BOOLEAN, NEW big \in BOOLEAN, NEW n \in 1..MaxConfigs,
               Admit(s, model, big, n)
        PROVE  Exposed(s)' => Exposed(s)
    <3>1. job'[s].model = model /\ pc'[s] = "attempt" /\ pc[s] = "body"
      BY <1>0, <2>2 DEF Admit, Goto, TypeOK, Job
    <3>2. QED
      BY <2>2, <3>1 DEF Admit, Exposed
  <2>3. ASSUME pc[s] = "attempt", NextConfig(s) PROVE Exposed(s)' => Exposed(s)
    <3>1. CASE ~LastConfig(job[s])
      <4>1. job'[s].model = job[s].model
        BY <1>0, <2>3, <3>1 DEF NextConfig, TypeOK, Job
      <4>2. QED
        BY <2>3, <3>1, <4>1 DEF NextConfig, Exposed
    <3>2. QED
      BY <2>1, <2>3, <3>1 DEF NextConfig
  <2>4. ASSUME NEW stream \in BOOLEAN, NEW ok \in BOOLEAN, Accept(s, stream, ok)
        PROVE  Exposed(s)' => Exposed(s)
    <3>1. job'[s].model = job[s].model /\ pc'[s] = "respond" /\ pc[s] = "attempt"
      BY <1>0, <2>4 DEF Accept, Goto, TypeOK, Job
    <3>2. QED
      BY <3>1 DEF Exposed
  <2>5. ASSUME NEW usage \in BOOLEAN, Answered(s, usage)
        PROVE  Exposed(s)' => Exposed(s)
    <3>1. job'[s].model = job[s].model /\ pc'[s] = "insert" /\ pc[s] = "respond"
      BY <1>0, <2>5 DEF Answered, Goto, TypeOK, Job
    <3>2. QED
      BY <3>1 DEF Exposed
  <2>6. QED
    BY <2>1, <2>2, <2>3, <2>4, <2>5
    DEF Request, Refuse, NoPrice, FailOver, Abandon, Interrupted
<1>2. Closed \subseteq Closed'
  BY <1>0, <1>1, ClosedGrows
<1>3. Margin \in Int /\ Margin' = Margin
  BY <1>0, OrgMargin DEF Margin, TypeOK
<1>4. QED
  BY <1>0, <1>2, <1>3, DebtGrows

LEMMA ChargeDebt ==
  ASSUME TypeInv, TypeInv', DebtInv, NEW s \in Slots, NEW c \in Costs,
         NEW answerLost \in BOOLEAN, Charge(s, c, answerLost)
  PROVE  DebtInv'
<1> SUFFICES ASSUME AdminOnlyAdds PROVE Margin' > -(MaxCost * Cardinality(Closed'))
  BY DEF DebtInv, AdminOnlyAdds
<1>0. /\ TypeOK /\ TypeOK' /\ pc[s] = "charge" /\ c \in 0..MaxCost
      /\ org' = [org EXCEPT !.credit = org.credit - c]
  BY MeteringAssumption DEF Charge, TypeInv
<1>1. Frame(s) /\ pc'[s] \in {"idle", "restore"}
  BY <1>0, DoneFrame, GoRestoreFrame DEF Charge
<1>2. s \notin Closed /\ Closed' = Closed \cup {s}
  BY <1>0, <1>1 DEF Closed, Exposed, Frame, TypeInv, JobInv, JobOK
<1>3. Cardinality(Closed') = Cardinality(Closed) + 1
  BY <1>2, ClosedSize, FS_AddElement
<1>4. /\ MaxCost * Cardinality(Closed) \in Nat
      /\ MaxCost * Cardinality(Closed') = MaxCost * Cardinality(Closed) + MaxCost
  <2> DEFINE k == Cardinality(Closed)
  <2>1. k \in Nat /\ Cardinality(Closed') = k + 1
    BY <1>3, ClosedSize
  <2> HIDE DEF k
  <2>2. MaxCost * k \in Nat /\ MaxCost * (k + 1) = MaxCost * k + MaxCost
    BY <2>1, Monotone, MeteringAssumption
  <2>3. QED
    BY <2>1, <2>2 DEF k
<1>5. Margin \in Int /\ Margin' = Margin - c
  <2>1. org.credit - c \in Int /\ org \in Org /\ org.credit \in Int /\ org.limit \in Int
    BY <1>0, OrgMargin DEF TypeOK
  <2>2. org'.credit = org.credit - c /\ org'.limit = org.limit
    BY <1>0, <2>1, CreditedOrg
  <2>3. QED
    BY <1>0, <2>1, <2>2 DEF Margin
<1> DEFINE a == MaxCost * Cardinality(Closed)
           b == MaxCost * Cardinality(Closed')
<1>6. a \in Nat /\ b = a + MaxCost /\ Margin > -a
  BY <1>4 DEF DebtInv
<1> HIDE DEF a, b
<1>7. Margin' > -b
  BY <1>0, <1>5, <1>6, MeteringAssumption
<1>8. QED
  BY <1>7 DEF b

LEMMA TaskDebt ==
  ASSUME TypeInv, TypeInv', DebtInv, NEW s \in Slots,
         InsertRow(s) \/ InsertFails(s) \/ NotCharged(s) \/ Restore(s) \/ RestoreFails(s)
  PROVE  DebtInv'
<1>0. TypeOK /\ TypeOK' /\ UNCHANGED org /\ job[s] \in Job
  BY OtherTaskRowsKept DEF TypeInv, TypeOK
<1>1. Frame(s) /\ (Exposed(s)' => Exposed(s))
  <2>1. ASSUME Done(s) PROVE Frame(s) /\ ~Exposed(s)'
    BY <1>0, <2>1, DoneFrame DEF Exposed
  <2>2. CASE InsertRow(s) /\ Chargeable(job[s])
    <3>1. /\ job' = [job EXCEPT ![s].row = Len(log) + 1]
          /\ pc' = [pc EXCEPT ![s] = "charge"] /\ pc[s] = "insert"
      BY <2>2 DEF InsertRow, Goto
    <3>2. QED
      BY <1>0, <2>2, <3>1 DEF Frame, TypeOK, Exposed, Chargeable
  <2>3. CASE NotCharged(s)
    BY <1>0, <2>3, GoRestoreFrame DEF NotCharged, Exposed
  <2>4. QED
    BY <2>1, <2>2, <2>3 DEF InsertRow, InsertFails, Restore, RestoreFails
<1>2. Closed \subseteq Closed'
  BY <1>0, <1>1, ClosedGrows
<1>3. Margin \in Int /\ Margin' = Margin
  BY <1>0, OrgMargin DEF Margin, TypeOK
<1>4. QED
  BY <1>0, <1>2, <1>3, DebtGrows

LEMMA AdminDebt ==
  ASSUME TypeInv, TypeInv', DebtInv, Admin
  PROVE  DebtInv'
<1>0. TypeOK /\ TypeOK' /\ org \in Org /\ UNCHANGED <<pc, job>>
  BY DEF Admin, Recharge, UpdateOrg, TypeInv, TypeOK
<1>1. Closed \subseteq Closed'
  BY <1>0 DEF Closed, Exposed
<1>2. ASSUME AdminOnlyAdds PROVE Margin' >= Margin
  <2>1. ASSUME NEW a \in Amounts, Recharge(a) PROVE Margin' >= Margin
    <3>1. /\ a \in Nat /\ org.credit \in Int /\ org.limit \in Int /\ org.credit + a \in Int
          /\ org' = [org EXCEPT !.credit = org.credit + a]
      BY <1>0, <1>2, <2>1, OrgMargin DEF AdminOnlyAdds, Recharge
    <3>2. org'.credit = org.credit + a /\ org'.limit = org.limit
      BY <1>0, <3>1, CreditedOrg
    <3>3. QED
      BY <3>1, <3>2 DEF Margin
  <2>2. ASSUME NEW limit \in Limits, NEW mode \in Modes, UpdateOrg(limit, mode)
        PROVE  Margin' >= Margin
    <3>1. org'.credit = org.credit /\ org'.limit = limit /\ org.limit \in Limits
      BY <1>0, <2>2 DEF UpdateOrg, Org
    <3>2. limit = org.limit
      BY <1>2, <3>1 DEF AdminOnlyAdds
    <3>3. QED
      BY <1>0, <3>1, <3>2, OrgMargin DEF Margin
  <2>3. QED
    BY <2>1, <2>2 DEF Admin
<1>3. QED
  BY <1>0, <1>1, <1>2, DebtGrows

LEMMA StillDebt ==
  ASSUME TypeInv, TypeInv', DebtInv, Crash \/ UNCHANGED vars
  PROVE  DebtInv'
<1>1. TypeOK /\ TypeOK' /\ UNCHANGED org
  BY DEF Crash, vars, TypeInv
<1>2. Closed \subseteq Closed'
  BY DEF Crash, vars, Closed, Exposed
<1>3. Margin \in Int /\ Margin' = Margin
  BY <1>1, OrgMargin DEF Margin, TypeOK
<1>4. QED
  BY <1>1, <1>2, <1>3, DebtGrows

LEMMA InitDebt == Init => DebtInv
<1> SUFFICES ASSUME Init, AdminOnlyAdds
             PROVE  Margin > -(MaxCost * Cardinality(Closed))
  BY DEF DebtInv
<1>1. org.credit = 0 /\ org.limit \in Nat
  BY DEF Init, AdminOnlyAdds
<1>2. Closed = Slots
  BY DEF Init, Closed, Exposed
<1>3. Cardinality(Slots) \in Nat /\ Cardinality(Slots) # 0
  BY MeteringAssumption, FS_CardinalityType, FS_EmptySet
<1> DEFINE k == Cardinality(Slots)
<1>4. PICK n \in Nat : k = n + 1
  <2>1. k - 1 \in Nat /\ k = (k - 1) + 1
    BY <1>3
  <2>2. QED
    BY <2>1
<1>5. MaxCost * n \in Nat /\ MaxCost * (n + 1) = MaxCost * n + MaxCost
  BY Monotone, MeteringAssumption
<1> HIDE DEF k
<1>6. Margin > -(MaxCost * k)
  BY <1>1, <1>4, <1>5, MeteringAssumption DEF Margin
<1>7. QED
  BY <1>2, <1>6 DEF k

(* The debt beyond the overdraft limit stays below one request's cost per   *)
(* slot, for any number of slots, requests and recharges.                   *)
THEOREM MeteringDebtBounded == Spec => []DebtBounded
<1>1. TypeInv /\ TypeInv' /\ DebtInv /\ [Next]_vars => DebtInv'
  BY LookupDebt, RequestDebt, ChargeDebt, TaskDebt, AdminDebt, StillDebt DEF Next, Task
<1>2. TypeInv /\ DebtInv => DebtBounded
  <2> SUFFICES ASSUME TypeInv, DebtInv, AdminOnlyAdds
               PROVE  Margin > -(MaxCost * Cardinality(Slots))
    BY DEF DebtBounded, Margin
  <2> DEFINE a == MaxCost * Cardinality(Closed)
             b == MaxCost * Cardinality(Slots)
  <2>1. a \in Nat /\ b \in Nat /\ a <= b
    BY ClosedSize, Monotone, MeteringAssumption
  <2>2. Margin \in Int /\ Margin > -a
    BY OrgMargin DEF DebtInv, Margin, TypeInv, TypeOK
  <2> HIDE DEF a, b
  <2>3. Margin > -b
    BY <2>1, <2>2
  <2>4. QED
    BY <2>3 DEF b
<1>3. QED
  BY <1>1, <1>2, InitDebt, MeteringInvariant, PTL DEF Spec
=============================================================================
