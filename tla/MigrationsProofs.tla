-------------------------- MODULE MigrationsProofs --------------------------
(***************************************************************************)
(* Proofs about Migrations, for any number of processes, organisations,    *)
(* keys and projects, and of faults and edits.  That a mode stays what it  *)
(* was meant to be rests on whose mode is still missing: only one from     *)
(* before the upgrade (OldModes), and none once 013 has made the column    *)
(* NOT NULL (Required).  That the seed is added once, with the next number,*)
(* rests on the numbers being taken up to the count (Counted): a number    *)
(* read earlier is the next one only if nothing came between (Fresh).      *)
(***************************************************************************)
EXTENDS Migrations, FiniteSetTheorems, TLAPS

Count == Cardinality(versions)

OldModes ==
  \A o \in Orgs : mode[o] = NULL /\ meant[o] # NULL => meant[o] = "contract_ratio"

MeantModes == \A o \in Orgs : mode[o] \in {NULL, meant[o]}

(* Nobody is past the check of 013 while a mode is missing. *)
Checked == \A p \in Procs : proc[p].file = 6 /\ proc[p].at >= 4 => Modeless = {}

Required ==
  /\ "013" \in applied => Modeless = {}
  /\ Checked

Counted ==
  /\ IsFiniteSet(versions)
  /\ \A v \in versions : v.number <= Count
  /\ \A n \in 1..Count : \E v \in versions : v.number = n

Unseeded == \A v \in versions : v.price # "seed"

Fresh ==
  \A p \in Procs : proc[p].number # 0 =>
    proc[p].number <= Count \/ (proc[p].number = Count + 1 /\ Unseeded)

ModeInv == OldModes /\ MeantModes /\ Required
BookInv == Counted /\ Fresh /\ SeededOnce

Inv == TypeOK /\ ModeInv /\ BookInv /\ RatesKept

ProcType == proc \in [Procs -> [file : 0..Serving, at : 0..5, hasRead : BOOLEAN,
                                orgs : SUBSET Orgs, number : 0..MaxVersions]]

(* What a step may make of proc, but for a number that is read. *)
Kept ==
  /\ ProcType'
  /\ Checked'
  /\ \A q \in Procs : proc'[q].number \in {0, proc[q].number}

KeyStep ==
  \A k \in Keys : key[k].org # NULL /\ key'[k] # key[k] =>
    /\ key[k].project = NULL
    /\ project[key'[k].project] = [org |-> key[k].org, default |-> TRUE]

Good == Inv' /\ [B!Next]_versions /\ KeyStep

-----------------------------------------------------------------------------
(* The list of files. *)
LEMMA Names ==
  /\ Len(Files) = 7 /\ DOMAIN Files = 1..7 /\ Serving = 8
  /\ Files[1] = "006" /\ Files[2] = "007" /\ Files[3] = "010" /\ Files[4] = "011"
  /\ Files[5] = "012" /\ Files[6] = "013" /\ Files[7] = "014"
BY DEF Files, Serving

LEMMA ScriptOf ==
  /\ Script["006"] = <<"projects">>
  /\ Script["007"] = <<"make_defaults", "assign_keys">>
  /\ Script["010"] = <<"rates", "default_rate">>
  /\ Script["011"] = <<"write_rate", "fill_rates", "require_rates">>
  /\ Script["012"] = <<"relax_rates">>
  /\ Script["013"] = <<"billing_mode", "fill_modes", "require_modes", "prices">>
  /\ Script["014"] = <<"seed">>
<1>1. {Files[n] : n \in DOMAIN Files} = {"006", "007", "010", "011", "012", "013", "014"}
  <2>1. \A n \in 1..7 : n \in {1, 2, 3, 4, 5, 6, 7}
    OBVIOUS
  <2>2. \A n \in DOMAIN Files : Files[n] \in {"006", "007", "010", "011", "012", "013", "014"}
    BY <2>1, Names
  <2>3. QED
    BY <2>2, Names
<1>2. Script = [f \in {"006", "007", "010", "011", "012", "013", "014"} |->
  CASE f = "006" -> <<"projects">>
    [] f = "007" -> <<"make_defaults", "assign_keys">>
    [] f = "010" -> <<"rates", "default_rate">>
    [] f = "011" -> <<"write_rate", "fill_rates", "require_rates">>
    [] f = "012" -> <<"relax_rates">>
    [] f = "013" -> <<"billing_mode", "fill_modes", "require_modes", "prices">>
    [] f = "014" -> <<"seed">>]
  BY <1>1 DEF Script
<1>3. QED
  BY <1>2

(* A running process is at one of at most four statements of its file. *)
LEMMA Places ==
  ASSUME NEW p \in Procs, TypeOK, Running(p)
  PROVE  /\ proc[p].file \in 1..7
         /\ FileOf(p) \in {"006", "007", "010", "011", "012", "013", "014"}
         /\ FileOf(p) = "013" <=> proc[p].file = 6
         /\ Len(Script[FileOf(p)]) \in 1..4
         /\ DOMAIN Script[FileOf(p)] = 1..Len(Script[FileOf(p)])
         /\ proc[p].file = 6 => Len(Script[FileOf(p)]) = 4
<1>1. proc[p].file \in 1..7
  BY Names DEF Running
<1>2. proc[p].file \in {1, 2, 3, 4, 5, 6, 7}
  BY <1>1
<1>3. /\ FileOf(p) \in {"006", "007", "010", "011", "012", "013", "014"}
      /\ FileOf(p) = "013" <=> proc[p].file = 6
  BY <1>2, Names DEF FileOf
<1>4. \A f \in {"006", "007", "010", "011", "012", "013", "014"} :
        /\ Len(Script[f]) \in 1..4
        /\ DOMAIN Script[f] = 1..Len(Script[f])
  <2>1. Len(Script["006"]) = 1 /\ DOMAIN Script["006"] = 1..1
    BY ScriptOf
  <2>2. Len(Script["007"]) = 2 /\ DOMAIN Script["007"] = 1..2
    BY ScriptOf
  <2>3. Len(Script["010"]) = 2 /\ DOMAIN Script["010"] = 1..2
    BY ScriptOf
  <2>4. Len(Script["011"]) = 3 /\ DOMAIN Script["011"] = 1..3
    BY ScriptOf
  <2>5. Len(Script["012"]) = 1 /\ DOMAIN Script["012"] = 1..1
    BY ScriptOf
  <2>6. Len(Script["013"]) = 4 /\ DOMAIN Script["013"] = 1..4
    BY ScriptOf
  <2>7. Len(Script["014"]) = 1 /\ DOMAIN Script["014"] = 1..1
    BY ScriptOf
  <2>8. QED
    BY <2>1, <2>2, <2>3, <2>4, <2>5, <2>6, <2>7
<1>5. Len(Script["013"]) = 4
  BY ScriptOf
<1>6. QED
  BY <1>1, <1>3, <1>4, <1>5

LEMMA NullApart ==
  /\ NULL \notin Orgs /\ NULL \notin Keys /\ NULL \notin Projects /\ NULL \notin Modes
  /\ NULL # "unset" /\ NULL # "own" /\ "contract_ratio" \in Modes
BY MigrationsAssumption DEF Modes

(* Only the check of 013 is the third statement of that file. *)
LEMMA NotTheCheck ==
  ASSUME NEW p \in Procs, NEW s, At(p, s), s # "require_modes"
  PROVE  ~(proc[p].file = 6 /\ proc[p].at = 3)
BY Names, ScriptOf DEF At, FileOf

LEMMA AtPlaces ==
  ASSUME NEW p \in Procs, NEW s, TypeOK, At(p, s)
  PROVE  Running(p) /\ proc[p].at \in 1..4
BY Places DEF At

-----------------------------------------------------------------------------
LEMMA PlaceType ==
  ASSUME NEW file \in 0..Serving, NEW at \in 0..5
  PROVE  /\ Place(file, at) \in [file : 0..Serving, at : 0..5, hasRead : BOOLEAN,
                                 orgs : SUBSET Orgs, number : 0..MaxVersions]
         /\ Place(file, at).file = file /\ Place(file, at).at = at
         /\ Place(file, at).number = 0 /\ ~Place(file, at).hasRead
<1>1. 0 \in 0..MaxVersions
  BY MigrationsAssumption
<1>2. QED
  BY <1>1 DEF Place

(* A process comes to stand at another place, with nothing read. *)
LEMMA Stands ==
  ASSUME ProcType, Checked, NEW p \in Procs, Modeless' \subseteq Modeless,
         NEW file \in 0..Serving, NEW at \in 0..5,
         proc' = [proc EXCEPT ![p] = Place(file, at)],
         file = 6 /\ at >= 4 => Modeless' = {}
  PROVE  Kept
<1> DEFINE next == Place(file, at)
<1>1. /\ next \in [file : 0..Serving, at : 0..5, hasRead : BOOLEAN,
                   orgs : SUBSET Orgs, number : 0..MaxVersions]
      /\ next.file = file /\ next.at = at /\ next.number = 0
  BY PlaceType
<1>2. proc' = [proc EXCEPT ![p] = next]
  OBVIOUS
<1> HIDE DEF next
<1>3. ProcType' /\ \A q \in Procs : proc'[q].number \in {0, proc[q].number}
  BY <1>1, <1>2 DEF ProcType
<1>4. ASSUME NEW q \in Procs, proc'[q].file = 6, proc'[q].at >= 4
      PROVE  Modeless' = {}
  BY <1>1, <1>2, <1>4 DEF ProcType, Checked
<1>5. QED
  BY <1>3, <1>4 DEF Kept, Checked

(* It moves on, to the next file or the next statement. *)
LEMMA Moves ==
  ASSUME TypeOK, Checked, NEW p \in Procs, Running(p), Modeless' \subseteq Modeless,
         \/ NextFile(p)
         \/ /\ NextStatement(p) /\ proc[p].at \in 0..4
            /\ proc[p].file = 6 /\ proc[p].at = 3 => Modeless' = {}
  PROVE  Kept
<1>1. ProcType /\ proc[p].file \in 1..7 /\ Serving = 8
  BY Places, Names DEF TypeOK, ProcType
<1>2. CASE NextFile(p)
  <2>1. proc[p].file + 1 \in 0..Serving /\ 0 \in 0..5
    BY <1>1
  <2>2. proc' = [proc EXCEPT ![p] = Place(proc[p].file + 1, 0)]
    BY <1>2 DEF NextFile
  <2>3. ~(0 >= 4)
    OBVIOUS
  <2>4. QED
    BY <1>1, <2>1, <2>2, <2>3, Stands
<1>3. CASE /\ NextStatement(p) /\ proc[p].at \in 0..4
           /\ proc[p].file = 6 /\ proc[p].at = 3 => Modeless' = {}
  <2>1. proc[p].file \in 0..Serving /\ proc[p].at + 1 \in 0..5
    BY <1>1, <1>3
  <2>2. proc[p].file = 6 /\ proc[p].at + 1 >= 4 => Modeless' = {}
    BY <1>3 DEF Checked
  <2>3. QED
    BY <1>1, <1>3, <2>1, <2>2, Stands DEF NextStatement
<1>4. QED
  BY <1>2, <1>3

(* The price book stays as it is, or gets its next version. *)
LEMMA SameBook ==
  ASSUME BookInv, UNCHANGED versions,
         \A q \in Procs : proc'[q].number \in {0, proc[q].number}
  PROVE  BookInv'
<1>1. Count' = Count
  BY DEF Count
<1>2. QED
  BY <1>1 DEF BookInv, Counted, Fresh, Unseeded, SeededOnce

LEMMA NextInBook ==
  ASSUME TypeOK, BookInv, NEW v,
         v \in [id : {1}, number : 1..MaxVersions, price : {"seed", "own"}, from : {0}],
         v.number = Count + 1,
         v.price = "seed" => Unseeded, versions' = versions \cup {v},
         ProcType,
         \A q \in Procs : proc'[q].number \in {0, proc[q].number}
  PROVE  BookInv' /\ B!Next
<1>1. IsFiniteSet(versions) /\ Count \in Nat
  BY FS_CardinalityType DEF BookInv, Counted, Count
<1>2. v \notin versions
  BY <1>1 DEF BookInv, Counted
<1>3. IsFiniteSet(versions') /\ Count' = Count + 1
  BY <1>1, <1>2, FS_AddElement DEF Count
<1>4. \A w \in versions' : w.number <= Count'
  BY <1>1, <1>3 DEF BookInv, Counted, TypeOK
<1>5. \A n \in 1..Count' : \E w \in versions' : w.number = n
  <2>1. ASSUME NEW n \in 1..Count' PROVE \E w \in versions' : w.number = n
    <3>1. CASE n = Count + 1
      BY <3>1
    <3>2. CASE n # Count + 1
      BY <3>2, <2>1, <1>1, <1>3 DEF BookInv, Counted
    <3>3. QED
      BY <3>1, <3>2
  <2>2. QED
    BY <2>1
<1>6. Fresh'
  BY <1>1, <1>3 DEF BookInv, Fresh, ProcType
<1>7. SeededOnce'
  BY DEF BookInv, SeededOnce, Unseeded
<1>8. B!Next
  <2>1. B!Of(1) = versions
    BY DEF TypeOK, B!Of
  <2>2. v = [id |-> 1, number |-> v.number, price |-> v.price, from |-> 0]
    OBVIOUS
  <2>3. \A w \in versions : w.number < v.number
    BY <1>1 DEF BookInv, Counted, TypeOK
  <2>4. v.number = 1 \/ \E w \in versions : v.number = w.number + 1
    <3>1. CASE Count = 0
      BY <3>1
    <3>2. CASE Count # 0
      <4>1. Count \in 1..Count
        BY <3>2, <1>1
      <4>2. PICK w \in versions : w.number = Count
        BY <4>1 DEF BookInv, Counted
      <4>3. QED
        BY <4>2
    <3>3. QED
      BY <3>1, <3>2
  <2>5. B!IsNext(1, v.number)
    BY <2>1, <2>3, <2>4 DEF B!IsNext
  <2>6. v.number \in {1} \cup {w.number + 1 : w \in B!Of(1)}
    BY <2>1, <2>4
  <2>7. B!Save(1, v.price, 0)
    BY <2>2, <2>5, <2>6 DEF B!Save
  <2>8. QED
    BY <2>7 DEF B!Next
<1>9. QED
  BY <1>3, <1>4, <1>5, <1>6, <1>7, <1>8 DEF BookInv, Counted

-----------------------------------------------------------------------------
(* A step that changes no mode, no key and no version. *)
LEMMA Gentle ==
  ASSUME Inv, TypeOK', Kept, RatesKept', UNCHANGED <<mode, meant, key, versions>>,
         "013" \in applied' => "013" \in applied \/ Modeless = {}
  PROVE  Good
<1>1. Modeless' = Modeless
  BY DEF Modeless
<1>2. ModeInv'
  BY <1>1 DEF Inv, ModeInv, OldModes, MeantModes, Required, Kept
<1>3. BookInv'
  BY SameBook DEF Inv, Kept
<1>4. QED
  BY <1>2, <1>3 DEF Inv, Good, KeyStep

(* A step that moves a process on and leaves the data as they are. *)
LEMMA Quiet ==
  ASSUME Inv, Kept, UNCHANGED <<data, edits>>,
         applied' \subseteq {Files[n] : n \in DOMAIN Files}, faults' \in 0..MaxFaults,
         "013" \in applied' => "013" \in applied \/ Modeless = {}
  PROVE  Good
<1>1. TypeOK'
  BY DEF Inv, TypeOK, Kept, ProcType, data
<1>2. RatesKept'
  BY DEF Inv, RatesKept, data
<1>3. QED
  BY <1>1, <1>2, Gentle DEF data

LEMMA FaultBounded ==
  ASSUME TypeOK, Fault
  PROVE  faults' \in 0..MaxFaults
BY MigrationsAssumption DEF TypeOK, Fault

LEMMA StartGood ==
  ASSUME Inv, NEW p \in Procs, Start(p), UNCHANGED edits
  PROVE  Good
<1>1. 1 \in 0..Serving /\ 0 \in 0..5
  BY Names
<1>2. ProcType /\ Checked /\ Modeless' = Modeless /\ ~(0 >= 4)
  BY DEF Inv, TypeOK, ProcType, ModeInv, Required, Start, data, Modeless
<1>3. proc' = [proc EXCEPT ![p] = Place(1, 0)]
  BY DEF Start
<1>4. Kept
  BY <1>1, <1>2, <1>3, Stands
<1>5. QED
  BY <1>4, Quiet DEF Inv, TypeOK, Start

LEMMA CrashGood ==
  ASSUME Inv, NEW p \in Procs, Crash(p), UNCHANGED edits
  PROVE  Good
<1>1. 0 \in 0..Serving /\ 0 \in 0..5
  BY Names
<1>2. ProcType /\ Checked /\ Modeless' = Modeless /\ ~(0 >= 4)
  BY DEF Inv, TypeOK, ProcType, ModeInv, Required, Crash, data, Modeless
<1>3. proc' = [proc EXCEPT ![p] = Place(0, 0)]
  BY DEF Crash, Down
<1>4. Kept
  BY <1>1, <1>2, <1>3, Stands
<1>5. QED
  BY <1>4, Quiet, FaultBounded DEF Inv, TypeOK, Crash

(* The look-up, the failures and the record. *)
LEMMA BookkeepingGood ==
  ASSUME Inv, NEW p \in Procs, UNCHANGED edits,
         LookUp(p) \/ LookUpFails(p) \/ StatementFails(p) \/ Record(p) \/ MissesTable(p)
  PROVE  Good
<1>1. TypeOK /\ Checked
  BY DEF Inv, ModeInv, Required
<1>2. Running(p) /\ UNCHANGED data
  BY DEF LookUp, LookUpFails, StatementFails, Record, MissesTable, At
<1>3. Modeless' = Modeless
  BY <1>2 DEF data, Modeless
<1>4. proc[p].at = 0 => proc[p].at \in 0..4 /\ ~(proc[p].file = 6 /\ proc[p].at = 3)
  OBVIOUS
<1>5. Kept
  BY <1>1, <1>2, <1>3, <1>4, Moves
     DEF LookUp, LookUpFails, StatementFails, Record, MissesTable
<1>6. faults' \in 0..MaxFaults
  BY <1>1, FaultBounded
     DEF TypeOK, LookUp, LookUpFails, StatementFails, Record, MissesTable
<1>7. CASE UNCHANGED applied
  BY <1>2, <1>5, <1>6, <1>7, Quiet DEF Inv, TypeOK
<1>8. CASE Record(p) /\ applied' = applied \cup {FileOf(p)}
  <2>1. FileOf(p) \in {Files[n] : n \in DOMAIN Files}
    BY <1>2 DEF Running, FileOf
  <2>2. ASSUME FileOf(p) = "013"
        PROVE  Modeless = {}
    BY <1>1, <1>2, <1>8, <2>2, Places DEF Record, Checked
  <2>3. QED
    BY <1>1, <1>2, <1>5, <1>6, <1>8, <2>1, <2>2, Quiet DEF TypeOK
<1>9. QED
  BY <1>7, <1>8 DEF LookUp, LookUpFails, StatementFails, Record, MissesTable

-----------------------------------------------------------------------------
(* Statements, but for the check of 013. *)
LEMMA Statement ==
  ASSUME Inv, NEW p \in Procs, NEW s, s # "require_modes", Modeless' \subseteq Modeless,
         \/ Run(p, s)
         \/ At(p, s) /\ (NextFile(p) \/ NextStatement(p))
  PROVE  Kept
<1>1. TypeOK /\ Checked
  BY DEF Inv, ModeInv, Required
<1>2. At(p, s) /\ (NextFile(p) \/ NextStatement(p))
  BY DEF Run
<1>3. Running(p) /\ proc[p].at \in 0..4
  BY <1>1, <1>2, AtPlaces
<1>4. ~(proc[p].file = 6 /\ proc[p].at = 3)
  BY <1>2, NotTheCheck
<1>5. QED
  BY <1>1, <1>2, <1>3, <1>4, Moves

LEMMA MakeGood ==
  ASSUME Inv, NEW p \in Procs, Make(p), UNCHANGED edits
  PROVE  Good
<1>1. PICK t \in {"projects", "rates", "write_rate", "billing_mode", "prices"} :
        Run(p, t) /\ schema' = schema \cup {t}
  BY DEF Make
<1>2. Modeless' = Modeless /\ UNCHANGED <<mode, meant, project, key, rate, given, versions>>
  BY DEF Make, Modeless
<1>3. Kept
  BY <1>1, <1>2, Statement
<1>4. TypeOK'
  BY <1>1, <1>2, <1>3 DEF Inv, TypeOK, Kept, ProcType, Run, Tables
<1>5. QED
  BY <1>1, <1>2, <1>3, <1>4, Gentle DEF Inv, RatesKept, Run

LEMMA MakeDefaultsGood ==
  ASSUME Inv, NEW p \in Procs, MakeDefaults(p), UNCHANGED edits
  PROVE  Good
<1>1. /\ Run(p, "make_defaults") /\ Modeless' = Modeless
      /\ UNCHANGED <<schema, mode, meant, key, rate, given, versions>>
  BY DEF MakeDefaults, Modeless
<1>2. Kept
  BY <1>1, Statement
<1>3. project' \in [Projects -> [org : Orgs \cup {NULL}, default : BOOLEAN]]
  <2>1. PICK id \in [proc[p].orgs -> {j \in Projects : project[j].org = NULL}] :
          project' = [j \in Projects |->
            IF \E o \in proc[p].orgs : id[o] = j
            THEN [org |-> CHOOSE o \in proc[p].orgs : id[o] = j, default |-> TRUE]
            ELSE project[j]]
    BY DEF MakeDefaults
  <2>2. proc[p].orgs \subseteq Orgs
    BY DEF Inv, TypeOK
  <2>3. ASSUME NEW j \in Projects, \E o \in proc[p].orgs : id[o] = j
        PROVE  (CHOOSE o \in proc[p].orgs : id[o] = j) \in Orgs
    BY <2>2, <2>3
  <2>4. QED
    BY <2>1, <2>3 DEF Inv, TypeOK
<1>4. TypeOK'
  BY <1>1, <1>2, <1>3 DEF Inv, TypeOK, Kept, ProcType, Run
<1>5. QED
  BY <1>1, <1>2, <1>4, Gentle DEF Inv, RatesKept, Run

LEMMA AssignKeysGood ==
  ASSUME Inv, NEW p \in Procs, AssignKeys(p), UNCHANGED edits
  PROVE  Good
<1>1. /\ Run(p, "assign_keys") /\ Modeless' = Modeless
      /\ UNCHANGED <<schema, mode, meant, project, rate, given, versions>>
  BY DEF AssignKeys, Modeless
<1>2. Kept
  BY <1>1, Statement
<1>3. TypeOK'
  BY <1>1, <1>2 DEF Inv, TypeOK, Kept, ProcType, Run, AssignKeys
<1>4. ModeInv' /\ BookInv'
  BY <1>1, <1>2, SameBook
     DEF Inv, ModeInv, OldModes, MeantModes, Required, Kept, Run
<1>5. ASSUME NEW k \in Keys, key[k].org # NULL, key'[k] # key[k]
      PROVE  /\ key[k].project = NULL
             /\ project[key'[k].project] = [org |-> key[k].org, default |-> TRUE]
  <2>1. /\ key[k] \in [org : Orgs \cup {NULL}, project : Projects \cup {NULL}]
        /\ key'[k] \in [org : Orgs \cup {NULL}, project : Projects \cup {NULL}]
        /\ key'[k].org = key[k].org
    BY DEF Inv, TypeOK, AssignKeys
  <2>2. key'[k].project # key[k].project
    BY <2>1, <1>5
  <2>3. k \in Unassigned
    BY <2>2 DEF AssignKeys
  <2>4. key[k].project = NULL /\ key'[k].project \in DefaultsOf(key[k].org)
    BY <2>2, <2>3 DEF AssignKeys, Unassigned
  <2>5. QED
    BY <2>4 DEF DefaultsOf
<1>6. QED
  BY <1>1, <1>3, <1>4, <1>5 DEF Inv, RatesKept, Good, KeyStep

LEMMA DefaultRateGood ==
  ASSUME Inv, NEW p \in Procs, DefaultRate(p) \/ FillRates(p), UNCHANGED edits
  PROVE  Good
<1>1. PICK s \in {"default_rate", "fill_rates"} : Run(p, s)
  BY DEF DefaultRate, FillRates
<1>2. Modeless' = Modeless /\ UNCHANGED <<schema, mode, meant, project, key, given, versions>>
  BY DEF DefaultRate, FillRates, Modeless
<1>3. Kept
  BY <1>1, <1>2, Statement
<1>4. rate' \in {"none", "unset", "input", "own"} /\ (rate = "own" => rate' = "own")
  BY DEF Inv, TypeOK, DefaultRate, FillRates, Unfilled
<1>5. TypeOK'
  BY <1>1, <1>2, <1>3, <1>4 DEF Inv, TypeOK, Kept, ProcType, Run
<1>6. QED
  BY <1>1, <1>2, <1>3, <1>4, <1>5, Gentle DEF Inv, RatesKept, Run

LEMMA RequireRatesGood ==
  ASSUME Inv, NEW p \in Procs, RequireRates(p) \/ RelaxRates(p), UNCHANGED edits
  PROVE  Good
<1>1. UNCHANGED <<applied, faults, mode, meant, project, key, rate, given, versions>>
  BY DEF RequireRates, RelaxRates, Run
<1>2. Modeless' = Modeless /\ schema' \subseteq Tables
  BY <1>1 DEF Inv, TypeOK, RequireRates, RelaxRates, Modeless, Tables
<1>3. PICK s \in {"require_rates", "relax_rates"} :
        Run(p, s) \/ (At(p, s) /\ NextFile(p))
  BY DEF RequireRates, RelaxRates
<1>4. Kept
  BY <1>2, <1>3, Statement
<1>5. TypeOK'
  BY <1>1, <1>2, <1>4 DEF Inv, TypeOK, Kept, ProcType
<1>6. QED
  BY <1>1, <1>4, <1>5, Gentle DEF Inv, RatesKept

(* The backfill of 013 reaches organisations from before only. *)
LEMMA FillModesGood ==
  ASSUME Inv, NEW p \in Procs, FillModes(p), UNCHANGED edits
  PROVE  Good
<1>1. /\ Run(p, "fill_modes")
      /\ mode' = [o \in Orgs |-> IF o \in Modeless THEN "contract_ratio" ELSE mode[o]]
      /\ UNCHANGED <<schema, meant, project, key, rate, given, versions>>
  BY DEF FillModes
<1>2. \A o \in Orgs : o \in Modeless => meant[o] = "contract_ratio"
  BY DEF Inv, ModeInv, OldModes, Modeless
<1>3. Modeless' = {}
  BY <1>1, NullApart DEF Modeless, Inv, TypeOK
<1>4. Kept
  BY <1>1, <1>3, Statement
<1>5. TypeOK'
  BY <1>1, <1>4, NullApart DEF Inv, TypeOK, Kept, ProcType, Run
<1>6. ModeInv'
  BY <1>1, <1>2, <1>3, <1>4
     DEF Inv, TypeOK, ModeInv, OldModes, MeantModes, Required, Kept, Modeless
<1>7. BookInv'
  BY <1>1, <1>4, SameBook DEF Inv, Kept
<1>8. QED
  BY <1>1, <1>5, <1>6, <1>7 DEF Inv, RatesKept, Good, KeyStep

(* Its check is passed when every organisation has one. *)
LEMMA RequireModesGood ==
  ASSUME Inv, NEW p \in Procs, RequireModes(p), UNCHANGED edits
  PROVE  Good
<1>1. /\ At(p, "require_modes") /\ UNCHANGED <<applied, faults, data>>
      /\ NextFile(p) \/ (NextStatement(p) /\ Modeless = {})
  BY DEF RequireModes, Run
<1>2. TypeOK /\ Checked /\ Modeless' = Modeless
  BY <1>1 DEF Inv, ModeInv, Required, data, Modeless
<1>3. Running(p) /\ proc[p].at \in 0..4
  BY <1>1, <1>2, AtPlaces
<1>4. Kept
  BY <1>1, <1>2, <1>3, Moves
<1>5. QED
  BY <1>1, <1>4, Quiet DEF Inv, TypeOK

-----------------------------------------------------------------------------
(* The seed.  What is read is its number: none, or the next one. *)
LEMMA ReadGood ==
  ASSUME Inv, NEW p \in Procs, Read(p), UNCHANGED edits
  PROVE  Good
<1>1. /\ UNCHANGED <<applied, data, faults>>
      /\ UNCHANGED <<schema, mode, meant, project, key, rate, given, versions>>
      /\ Modeless' = Modeless /\ Count' = Count /\ IsFiniteSet(versions) /\ Count \in Nat
  BY FS_CardinalityType DEF Inv, BookInv, Counted, Read, data, Modeless, Count
<1>2. /\ ProcType
      /\ \A q \in Procs : proc'[q].file = proc[q].file /\ proc'[q].at = proc[q].at
      /\ ProcType'
      /\ \A q \in Procs : proc'[q].number # proc[q].number => proc'[q].number = NewNumber
  <2>1. ProcType
    BY DEF Inv, TypeOK, ProcType
  <2>2. NewNumber \in Nat
    BY <1>1 DEF NewNumber, Count
  <2>3. CASE At(p, "seed")
    <3>1. /\ NewNumber <= MaxVersions
          /\ proc' = [proc EXCEPT ![p].hasRead = TRUE, ![p].number = NewNumber]
      BY <2>3 DEF Read
    <3>2. NewNumber \in 0..MaxVersions
      BY <2>2, <3>1, MigrationsAssumption
    <3>3. QED
      BY <2>1, <3>1, <3>2 DEF ProcType
  <2>4. CASE ~At(p, "seed")
    <3>1. proc' = [proc EXCEPT ![p].hasRead = TRUE,
            ![p].orgs = {o \in Orgs : meant[o] # NULL /\ ~HasDefault(o)}]
      BY <2>4 DEF Read
    <3>2. QED
      BY <2>1, <3>1 DEF ProcType
  <2>5. QED
    BY <2>1, <2>3, <2>4
<1>3. TypeOK'
  BY <1>1, <1>2 DEF Inv, TypeOK, ProcType
<1>4. ModeInv'
  BY <1>1, <1>2 DEF Inv, ModeInv, OldModes, MeantModes, Required, Checked
<1>5. Fresh'
  <2>1. NewNumber = 0 \/ (NewNumber = Count + 1 /\ Unseeded)
    BY DEF NewNumber, Unseeded, Count
  <2>2. ASSUME NEW q \in Procs, proc'[q].number # 0
        PROVE  proc'[q].number <= Count \/ (proc'[q].number = Count + 1 /\ Unseeded)
    BY <1>2, <2>1, <2>2 DEF Inv, BookInv, Fresh
  <2>3. QED
    BY <1>1, <2>2 DEF Fresh, Unseeded
<1>6. BookInv'
  BY <1>1, <1>5 DEF Inv, BookInv, Counted, SeededOnce
<1>7. QED
  BY <1>1, <1>3, <1>4, <1>6 DEF Inv, RatesKept, Good, KeyStep

LEMMA SeedGood ==
  ASSUME Inv, NEW p \in Procs, Seed(p), UNCHANGED edits
  PROVE  Good
<1>1. /\ At(p, "seed") /\ Modeless' = Modeless
      /\ UNCHANGED <<applied, schema, mode, meant, project, key, rate, given, faults>>
      /\ NextFile(p) \/ NextStatement(p)
  BY DEF Seed, Modeless
<1>2. Kept
  BY <1>1, Statement
<1>3. CASE UNCHANGED versions
  <2>1. UNCHANGED data
    BY <1>1, <1>3 DEF data
  <2>2. QED
    BY <1>1, <1>2, <2>1, Quiet DEF Inv, TypeOK
<1>4. CASE versions' # versions
  <2> DEFINE v == [id |-> 1, number |-> proc[p].number, price |-> "seed", from |-> 0]
  <2>1. /\ proc[p].number # 0 /\ versions' = versions \cup {v}
        /\ ~\E w \in versions : w.number = proc[p].number
    BY <1>4 DEF Seed
  <2>2. proc[p].number \in 1..MaxVersions
    BY <2>1 DEF Inv, TypeOK
  <2>3. Count \in Nat
    BY FS_CardinalityType DEF Inv, BookInv, Counted, Count
  <2>4. ~(proc[p].number <= Count)
    BY <2>1, <2>2, <2>3 DEF Inv, BookInv, Counted
  <2>5. v.number = Count + 1 /\ Unseeded
    BY <2>1, <2>4 DEF Inv, BookInv, Fresh
  <2>6. /\ v \in [id : {1}, number : 1..MaxVersions, price : {"seed", "own"}, from : {0}]
        /\ versions' \subseteq [id : {1}, number : 1..MaxVersions,
                               price : {"seed", "own"}, from : {0}]
    BY <2>1, <2>2 DEF Inv, TypeOK
  <2> HIDE DEF v
  <2>7. BookInv' /\ B!Next
    BY <1>2, <2>1, <2>5, <2>6, NextInBook DEF Inv, TypeOK, ProcType, Kept
  <2>8. TypeOK'
    BY <1>1, <1>2, <2>6 DEF Inv, TypeOK, Kept, ProcType
  <2>9. ModeInv'
    BY <1>1, <1>2 DEF Inv, ModeInv, OldModes, MeantModes, Required, Kept
  <2>10. QED
    BY <1>1, <2>7, <2>8, <2>9 DEF Inv, RatesKept, Good, KeyStep
<1>5. QED
  BY <1>3, <1>4

-----------------------------------------------------------------------------
(* Administrators. *)
LEMMA Unmoved ==
  ASSUME Inv, Edit, Modeless' \subseteq Modeless
  PROVE  Kept /\ edits' \in 0..MaxEdits /\ UNCHANGED <<applied, faults>>
BY MigrationsAssumption
   DEF Inv, TypeOK, ModeInv, Required, Checked, Edit, Kept, ProcType

LEMMA ModeEditGood ==
  ASSUME Inv, NEW o \in Orgs, NEW m \in Modes, CreateOrg(o, m) \/ SetMode(o, m)
  PROVE  Good
<1>1. /\ Edit /\ UNCHANGED <<schema, key, rate, given, versions>>
      /\ mode' = [mode EXCEPT ![o] = m] /\ meant' = [meant EXCEPT ![o] = m]
  BY DEF CreateOrg, SetMode
<1>2. Modeless' \subseteq Modeless
  BY <1>1, NullApart DEF Inv, TypeOK, Modeless
<1>3. Kept /\ edits' \in 0..MaxEdits /\ UNCHANGED <<applied, faults>>
  BY <1>1, <1>2, Unmoved
<1>4. project' \in [Projects -> [org : Orgs \cup {NULL}, default : BOOLEAN]]
  <2>1. project \in [Projects -> [org : Orgs \cup {NULL}, default : BOOLEAN]]
    BY DEF Inv, TypeOK
  <2>2. CASE SetMode(o, m)
    BY <2>1, <2>2 DEF SetMode
  <2>3. CASE CreateOrg(o, m)
    <3>1. PICK j \in Projects :
            project' = [project EXCEPT ![j] = [org |-> o, default |-> TRUE]]
      BY <2>3 DEF CreateOrg
    <3>2. QED
      BY <2>1, <3>1
  <2>4. QED
    BY <2>2, <2>3
<1>5. TypeOK'
  BY <1>1, <1>3, <1>4 DEF Inv, TypeOK, Kept, ProcType
<1>6. ModeInv'
  BY <1>1, <1>2, <1>3, NullApart
     DEF Inv, TypeOK, ModeInv, OldModes, MeantModes, Required, Kept
<1>7. BookInv'
  BY <1>1, <1>3, SameBook DEF Inv, Kept
<1>8. QED
  BY <1>1, <1>5, <1>6, <1>7 DEF Inv, RatesKept, Good, KeyStep

LEMMA EditProjectGood ==
  ASSUME Inv, NEW j \in Projects, EditProject(j)
  PROVE  Good
<1>1. Edit /\ Modeless' = Modeless /\ UNCHANGED <<schema, mode, meant, key, rate, given, versions>>
  BY DEF EditProject, Modeless
<1>2. Kept /\ edits' \in 0..MaxEdits /\ UNCHANGED <<applied, faults>>
  BY <1>1, Unmoved
<1>3. project' \in [Projects -> [org : Orgs \cup {NULL}, default : BOOLEAN]]
  <2>1. project \in [Projects -> [org : Orgs \cup {NULL}, default : BOOLEAN]]
    BY DEF Inv, TypeOK
  <2>2. CASE project[j].org # NULL
    <3> DEFINE new == ~project[j].default
    <3>1. project' = [project EXCEPT ![j].default = new]
      BY <2>2 DEF EditProject
    <3>2. new \in BOOLEAN
      OBVIOUS
    <3> HIDE DEF new
    <3>3. QED
      BY <2>1, <3>1, <3>2
  <2>3. CASE project[j].org = NULL
    <3>1. PICK o \in Orgs, d \in BOOLEAN :
            project' = [project EXCEPT ![j] = [org |-> o, default |-> d]]
      BY <2>3 DEF EditProject
    <3>2. QED
      BY <2>1, <3>1
  <2>4. QED
    BY <2>2, <2>3
<1>4. TypeOK'
  BY <1>1, <1>2, <1>3 DEF Inv, TypeOK, Kept, ProcType
<1>5. QED
  BY <1>1, <1>2, <1>4, Gentle DEF Inv, RatesKept

LEMMA CreateKeyGood ==
  ASSUME Inv, NEW k \in Keys, NEW j \in Projects, CreateKey(k, j)
  PROVE  Good
<1>1. /\ Edit /\ Modeless' = Modeless
      /\ UNCHANGED <<schema, mode, meant, project, rate, given, versions>>
      /\ key[k].org = NULL /\ key' = [key EXCEPT ![k] = [org |-> project[j].org, project |-> j]]
  BY DEF CreateKey, Modeless
<1>2. Kept /\ edits' \in 0..MaxEdits /\ UNCHANGED <<applied, faults>>
  BY <1>1, Unmoved
<1>3. TypeOK'
  <2>1. project[j].org \in Orgs \cup {NULL}
    BY DEF Inv, TypeOK
  <2>2. key' \in [Keys -> [org : Orgs \cup {NULL}, project : Projects \cup {NULL}]]
    BY <1>1, <2>1 DEF Inv, TypeOK
  <2>3. QED
    BY <1>1, <1>2, <2>2 DEF Inv, TypeOK, Kept, ProcType
<1>4. ModeInv' /\ BookInv'
  BY <1>1, <1>2, SameBook
     DEF Inv, ModeInv, OldModes, MeantModes, Required, Kept
<1>5. KeyStep
  BY <1>1 DEF Inv, TypeOK, KeyStep
<1>6. QED
  BY <1>1, <1>3, <1>4, <1>5 DEF Inv, RatesKept, Good

LEMMA SetRateGood ==
  ASSUME Inv, NEW new \in {"unset", "own"}, SetRate(new)
  PROVE  Good
<1>1. /\ Edit /\ Modeless' = Modeless /\ rate' = new /\ given' = new
      /\ UNCHANGED <<schema, mode, meant, project, key, versions>>
  BY DEF SetRate, Modeless
<1>2. Kept /\ edits' \in 0..MaxEdits /\ UNCHANGED <<applied, faults>>
  BY <1>1, Unmoved
<1>3. TypeOK'
  BY <1>1, <1>2 DEF Inv, TypeOK, Kept, ProcType
<1>4. QED
  BY <1>1, <1>2, <1>3, Gentle DEF RatesKept

LEMMA SavePriceGood ==
  ASSUME Inv, SavePrice
  PROVE  Good
<1> DEFINE v == [id |-> 1, number |-> Count + 1, price |-> "own", from |-> 0]
<1>1. /\ Edit /\ Modeless' = Modeless /\ Count < MaxVersions /\ versions' = versions \cup {v}
      /\ UNCHANGED <<schema, mode, meant, project, key, rate, given>>
  BY DEF SavePrice, Modeless, Count
<1>2. Kept /\ edits' \in 0..MaxEdits /\ UNCHANGED <<applied, faults>>
  BY <1>1, Unmoved
<1>3. Count \in Nat
  BY FS_CardinalityType DEF Inv, BookInv, Counted, Count
<1>4. /\ v \in [id : {1}, number : 1..MaxVersions, price : {"seed", "own"}, from : {0}]
      /\ versions' \subseteq [id : {1}, number : 1..MaxVersions,
                             price : {"seed", "own"}, from : {0}]
      /\ v.number = Count + 1 /\ v.price # "seed"
  BY <1>1, <1>3, MigrationsAssumption DEF Inv, TypeOK
<1> HIDE DEF v
<1>5. BookInv' /\ B!Next
  BY <1>1, <1>2, <1>4, NextInBook DEF Inv, TypeOK, ProcType, Kept
<1>6. TypeOK'
  BY <1>1, <1>2, <1>4 DEF Inv, TypeOK, Kept, ProcType
<1>7. ModeInv'
  BY <1>1, <1>2 DEF Inv, ModeInv, OldModes, MeantModes, Required, Kept
<1>8. QED
  BY <1>1, <1>5, <1>6, <1>7 DEF Inv, RatesKept, Good, KeyStep

-----------------------------------------------------------------------------
LEMMA InitInv ==
  ASSUME Init
  PROVE  Inv
<1>1. TypeOK
  <2>1. 0 \in 0..Serving /\ 0 \in 0..5
    BY Names
  <2>2. Down \in [file : 0..Serving, at : 0..5, hasRead : BOOLEAN,
                 orgs : SUBSET Orgs, number : 0..MaxVersions]
    BY <2>1, PlaceType DEF Down
  <2> HIDE DEF Down
  <2>3. proc \in [Procs -> [file : 0..Serving, at : 0..5, hasRead : BOOLEAN,
                           orgs : SUBSET Orgs, number : 0..MaxVersions]]
    BY <2>2 DEF Init
  <2>4. /\ project \in [Projects -> [org : Orgs \cup {NULL}, default : BOOLEAN]]
        /\ key \in [Keys -> [org : Orgs \cup {NULL}, project : Projects \cup {NULL}]]
    BY MigrationsAssumption DEF Init
  <2>5. /\ mode \in [Orgs -> Modes \cup {NULL}] /\ meant \in [Orgs -> Modes \cup {NULL}]
        /\ faults \in 0..MaxFaults /\ edits \in 0..MaxEdits
    BY MigrationsAssumption, NullApart DEF Init
  <2>6. QED
    BY <2>3, <2>4, <2>5 DEF Init, TypeOK
<1>2. \A p \in Procs : proc[p].file = 0 /\ proc[p].number = 0
  <2>1. 0 \in 0..Serving /\ 0 \in 0..5
    BY Names
  <2>2. Down.file = 0 /\ Down.number = 0
    BY <2>1, PlaceType DEF Down
  <2>3. QED
    BY <2>2 DEF Init
<1>3. ModeInv
  BY <1>2 DEF Init, ModeInv, OldModes, MeantModes, Required, Checked
<1>4. IsFiniteSet(versions) /\ Count = 0
  BY FS_EmptySet DEF Init, Count
<1>5. BookInv
  BY <1>2, <1>4 DEF Init, BookInv, Counted, Fresh, SeededOnce
<1>6. QED
  BY <1>1, <1>3, <1>5, NullApart DEF Init, Inv, RatesKept

LEMMA Step ==
  ASSUME Inv, Next
  PROVE  Good
<1>1. CASE \E p \in Procs : Migrating(p) /\ UNCHANGED edits
  <2>1. PICK p \in Procs : Migrating(p) /\ UNCHANGED edits
    BY <1>1
  <2>2. CASE Start(p) \/ Crash(p)
    BY <2>1, <2>2, StartGood, CrashGood
  <2>3. CASE \/ LookUp(p) \/ LookUpFails(p) \/ StatementFails(p) \/ Record(p)
             \/ MissesTable(p)
    BY <2>1, <2>3, BookkeepingGood
  <2>4. CASE Make(p) \/ MakeDefaults(p) \/ AssignKeys(p)
    BY <2>1, <2>4, MakeGood, MakeDefaultsGood, AssignKeysGood
  <2>5. CASE DefaultRate(p) \/ FillRates(p) \/ RequireRates(p) \/ RelaxRates(p)
    BY <2>1, <2>5, DefaultRateGood, RequireRatesGood
  <2>6. CASE FillModes(p) \/ RequireModes(p)
    BY <2>1, <2>6, FillModesGood, RequireModesGood
  <2>7. CASE Read(p) \/ Seed(p)
    BY <2>1, <2>7, ReadGood, SeedGood
  <2>8. QED
    BY <2>1, <2>2, <2>3, <2>4, <2>5, <2>6, <2>7 DEF Migrating
<1>2. CASE Administering
  BY <1>2, ModeEditGood, EditProjectGood, CreateKeyGood, SetRateGood, SavePriceGood
     DEF Administering
<1>3. QED
  BY <1>1, <1>2 DEF Next

LEMMA Stutter ==
  ASSUME Inv, UNCHANGED vars
  PROVE  Good
<1>1. UNCHANGED <<proc, applied, schema, mode, meant, project, key, rate, given,
                  versions, faults, edits>>
  BY DEF vars, data
<1>2. TypeOK'
  BY <1>1 DEF Inv, TypeOK
<1>3. Kept
  BY <1>1 DEF Inv, TypeOK, ModeInv, Required, Checked, Kept, ProcType, Modeless
<1>4. QED
  BY <1>1, <1>2, <1>3, Gentle DEF Inv, RatesKept

LEMMA Invariant == Spec => []Inv
<1>1. Inv /\ [Next]_vars => Inv'
  BY Step, Stutter DEF Good
<1>2. QED
  BY <1>1, InitInv, PTL DEF Spec

-----------------------------------------------------------------------------
(***************************************************************************)
(* Every variable keeps its type: a process stands at a statement that its *)
(* file has, and no number beyond the bound is read.                       *)
(***************************************************************************)
THEOREM MigrationsTypeCorrect == Spec => []TypeOK
<1>1. Inv => TypeOK
  BY DEF Inv
<1>2. QED
  BY <1>1, Invariant, PTL

(***************************************************************************)
(* ModesKept: however often 013 is run, by however many processes, every   *)
(* organisation stays with the billing mode it was meant to have.          *)
(***************************************************************************)
THEOREM MigrationsModesKept == Spec => []ModesKept
<1>1. Inv => ModesKept
  BY DEF Inv, TypeOK, ModeInv, MeantModes, Required, Modeless, ModesKept
<1>2. QED
  BY <1>1, Invariant, PTL

(***************************************************************************)
(* SeededOnce and RatesKept: 014 adds its version once, and 011 fills in   *)
(* no rate that an administrator has set.                                  *)
(***************************************************************************)
THEOREM MigrationsSeededOnce == Spec => []SeededOnce
<1>1. Inv => SeededOnce
  BY DEF Inv, BookInv
<1>2. QED
  BY <1>1, Invariant, PTL

(* RatesKept, likewise. *)
THEOREM MigrationsRatesKept == Spec => []RatesKept
<1>1. Inv => RatesKept
  BY DEF Inv
<1>2. QED
  BY <1>1, Invariant, PTL

(***************************************************************************)
(* KeysStay: no step takes a key from its project, and the backfill of 007 *)
(* gives a key without one a default project of its own organisation.      *)
(***************************************************************************)
THEOREM MigrationsKeysStay == Spec => KeysStay
<1>1. Inv /\ [Next]_vars => [KeyStep]_vars
  BY Step DEF Good
<1>2. QED
  BY <1>1, Invariant, PTL DEF Spec, KeysStay, KeyStep

(***************************************************************************)
(* Starting processes and administrators together implement the price book *)
(* of PriceBook: a price only ever gets its one next version.              *)
(***************************************************************************)
THEOREM MigrationsImplementsBook == Spec => SeedsAppend
<1>1. Init => B!Init
  BY DEF Init, B!Init
<1>2. Inv /\ [Next]_vars => [B!Next]_versions
  BY Step, Stutter DEF Good
<1>3. QED
  BY <1>1, <1>2, Invariant, PTL DEF Spec, SeedsAppend, B!Spec
=============================================================================
