------------------------------ MODULE Migrations ------------------------------
(***************************************************************************)
(* Starting LLMeter: run_migrations (db.rs) at the head of every process,  *)
(* beside processes that are starting too or that serve administrators     *)
(* already.  A file is looked up in _migrations, its statements are        *)
(* committed one by one, and it is recorded; after an error the next file  *)
(* follows, and the process serves whatever came of it.  Any statement may *)
(* fail and a process may end at any moment.                               *)
(*                                                                         *)
(* Of the sixteen files those seven are modelled whose effect depends on   *)
(* what is there already.  016 is another 014; the rest makes tables,      *)
(* columns and settings that are missing, and 015 switches prices off.     *)
(***************************************************************************)
EXTENDS Integers, Sequences, FiniteSets

CONSTANTS Procs,        \* processes of this release
          Orgs, Old,      \* organisations, those from before the upgrade
          Keys, OldKeys,  \* API keys, those from before the upgrade
          Projects,
          MaxFaults,    \* a bound on failed statements and crashes
          MaxEdits,     \* a bound on what administrators do
          MaxVersions,  \* a bound on the versions of a price
          NULL

Modes == {"contract_ratio", "standard_pricing"}

ASSUME MigrationsAssumption ==
  /\ Old \subseteq Orgs /\ OldKeys \subseteq Keys
  /\ MaxFaults \in Nat /\ MaxEdits \in Nat /\ MaxVersions \in Nat
  /\ NULL \notin Orgs \cup Keys \cup Projects \cup Modes \cup {"unset", "own"}

(* The files in their order, and the statements of each.  A statement that *)
(* makes tables or columns is named for what it makes.                     *)
Files == <<"006", "007", "010", "011", "012", "013", "014">>

Script == [f \in {Files[n] : n \in DOMAIN Files} |->
  CASE f = "006" -> <<"projects">>
    [] f = "007" -> <<"make_defaults", "assign_keys">>
    [] f = "010" -> <<"rates", "default_rate">>
    [] f = "011" -> <<"write_rate", "fill_rates", "require_rates">>
    [] f = "012" -> <<"relax_rates">>
    [] f = "013" -> <<"billing_mode", "fill_modes", "require_modes", "prices">>
    [] f = "014" -> <<"seed">>]

VARIABLES
  proc,       \* per process: file (0: down, the last + 1: serving), statement
              \* (0: look-up), and what an INSERT ... SELECT has read
  applied,    \* _migrations
  schema,     \* the tables and columns there are; "rate_required" is NOT NULL
  mode,       \* billing_mode of an organisation, NULL when it has none
  meant,      \* the mode it was created with or given; NULL: not created
  project,    \* the organisation of a project, and whether it is 'Default'
  key,        \* the organisation and the project of a key
  rate,       \* cache_write_rate of the default row: "none" for no row,
              \* "unset" for NULL
  given,      \* what an administrator last made it, NULL: nothing
  versions,   \* model_price_versions of a seeded price, as in PriceBook
  faults, edits

data == <<schema, mode, meant, project, key, rate, given, versions>>
vars == <<proc, applied, data, faults, edits>>

Serving == Len(Files) + 1
Place(file, at) ==
  [file |-> file, at |-> at, hasRead |-> FALSE, orgs |-> {}, number |-> 0]
Down == Place(0, 0)

Tables == {"projects", "rates", "write_rate", "rate_required", "billing_mode", "prices"}

TypeOK ==
  /\ proc \in [Procs -> [file : 0..Serving, at : 0..5, hasRead : BOOLEAN,
                         orgs : SUBSET Orgs, number : 0..MaxVersions]]
  /\ applied \subseteq {Files[n] : n \in DOMAIN Files}
  /\ schema \subseteq Tables
  /\ mode \in [Orgs -> Modes \cup {NULL}] /\ meant \in [Orgs -> Modes \cup {NULL}]
  /\ project \in [Projects -> [org : Orgs \cup {NULL}, default : BOOLEAN]]
  /\ key \in [Keys -> [org : Orgs \cup {NULL}, project : Projects \cup {NULL}]]
  /\ rate \in {"none", "unset", "input", "own"} /\ given \in {NULL, "unset", "own"}
  /\ versions \subseteq [id : {1}, number : 1..MaxVersions,
                         price : {"seed", "own"}, from : {0}]
  /\ faults \in 0..MaxFaults /\ edits \in 0..MaxEdits

(* A database of an older release: organisations on the contract they have,*)
(* with keys of their own, and nothing of what is new.                     *)
Init ==
  /\ proc = [p \in Procs |-> Down]
  /\ applied = {} /\ schema = {}
  /\ mode = [o \in Orgs |-> NULL]
  /\ meant = [o \in Orgs |-> IF o \in Old THEN "contract_ratio" ELSE NULL]
  /\ project = [j \in Projects |-> [org |-> NULL, default |-> FALSE]]
  /\ key \in [Keys -> [org : Old \cup {NULL}, project : {NULL}]]
  /\ \A k \in Keys : key[k].org # NULL <=> k \in OldKeys
  /\ rate = "none" /\ given = NULL /\ versions = {} /\ faults = 0 /\ edits = 0

-----------------------------------------------------------------------------
FileOf(p) == Files[proc[p].file]
Running(p) == proc[p].file \in DOMAIN Files
At(p, s) == /\ Running(p) /\ proc[p].at \in DOMAIN Script[FileOf(p)]
            /\ Script[FileOf(p)][proc[p].at] = s

NextFile(p) == proc' = [proc EXCEPT ![p] = Place(proc[p].file + 1, 0)]
NextStatement(p) ==
  proc' = [proc EXCEPT ![p] = Place(proc[p].file, proc[p].at + 1)]
Fault == faults < MaxFaults /\ faults' = faults + 1

Start(p) ==
  /\ proc[p].file = 0
  /\ proc' = [proc EXCEPT ![p] = Place(1, 0)]
  /\ UNCHANGED <<applied, data, faults>>

(* Everything that was committed stays, and nothing else. *)
Crash(p) ==
  /\ proc[p].file # 0 /\ Fault
  /\ proc' = [proc EXCEPT ![p] = Down]
  /\ UNCHANGED <<applied, data>>

(* SELECT EXISTS ... unwrap_or(false): a failed look-up runs the file. *)
LookUp(p) ==
  /\ Running(p) /\ proc[p].at = 0
  /\ IF FileOf(p) \in applied THEN NextFile(p) ELSE NextStatement(p)
  /\ UNCHANGED <<applied, data, faults>>

LookUpFails(p) ==
  /\ Running(p) /\ proc[p].at = 0
  /\ NextStatement(p) /\ Fault
  /\ UNCHANGED <<applied, data>>

(* An error ends the file, not the run. *)
StatementFails(p) ==
  /\ Running(p) /\ proc[p].at \in DOMAIN Script[FileOf(p)]
  /\ NextFile(p) /\ Fault
  /\ UNCHANGED <<applied, data>>

(* The record comes last; whether its INSERT succeeds is not looked at. *)
Record(p) ==
  /\ Running(p) /\ proc[p].at = Len(Script[FileOf(p)]) + 1
  /\ NextFile(p)
  /\ \/ applied' = applied \cup {FileOf(p)} /\ UNCHANGED faults
     \/ Fault /\ UNCHANGED applied
  /\ UNCHANGED data

-----------------------------------------------------------------------------
(* The statements.  One that refers to a table or column that an earlier   *)
(* file failed to make fails for good, and so does its file.               *)
Needs(s) ==
  CASE s \in {"make_defaults", "assign_keys"} -> {"projects"}
    [] s \in {"default_rate", "write_rate"} -> {"rates"}
    [] s \in {"fill_rates", "require_rates", "relax_rates"} -> {"write_rate"}
    [] s \in {"fill_modes", "require_modes"} -> {"billing_mode"}
    [] s = "seed" -> {"prices"}
    [] OTHER -> {}

MissesTable(p) ==
  /\ \E s \in {"make_defaults", "assign_keys", "default_rate", "write_rate",
               "fill_rates", "require_rates", "relax_rates", "fill_modes",
               "require_modes", "seed"} :
       At(p, s) /\ ~(Needs(s) \subseteq schema)
  /\ NextFile(p)
  /\ UNCHANGED <<applied, data, faults>>

Run(p, s) == At(p, s) /\ Needs(s) \subseteq schema /\ NextStatement(p)
               /\ UNCHANGED <<applied, faults>>

(* CREATE TABLE IF NOT EXISTS, ALTER TABLE ADD COLUMN IF NOT EXISTS. *)
Make(p) ==
  /\ \E t \in {"projects", "rates", "write_rate", "billing_mode", "prices"} :
       Run(p, t) /\ schema' = schema \cup {t}
  /\ UNCHANGED <<mode, meant, project, key, rate, given, versions>>

(* An INSERT ... SELECT reads at its beginning what it later inserts. *)
HasDefault(o) == \E j \in Projects : project[j] = [org |-> o, default |-> TRUE]

(* A faulty NewNumber: without the WHERE NOT EXISTS. *)
AlwaysNext == Cardinality(versions) + 1

(* A faulty NewNumber: it is counted one too many. *)
AfterNext == IF \E v \in versions : v.price = "seed" THEN 0
             ELSE Cardinality(versions) + 2

(* The number of the seeded version, 0 when the same one is there. *)
NewNumber == IF \E v \in versions : v.price = "seed" THEN 0
             ELSE Cardinality(versions) + 1

Read(p) ==
  /\ \E s \in {"make_defaults", "seed"} : At(p, s) /\ Needs(s) \subseteq schema
  /\ ~proc[p].hasRead
  /\ IF At(p, "seed")
     THEN /\ NewNumber <= MaxVersions
          /\ proc' = [proc EXCEPT ![p].hasRead = TRUE, ![p].number = NewNumber]
     ELSE proc' = [proc EXCEPT ![p].hasRead = TRUE,
            ![p].orgs = {o \in Orgs : meant[o] # NULL /\ ~HasDefault(o)}]
  /\ UNCHANGED <<applied, data, faults>>

(* 007, 1: a default project for every organisation without one.  Nothing  *)
(* keeps two from being made, there is no constraint to conflict with.     *)
MakeDefaults(p) ==
  /\ Run(p, "make_defaults") /\ proc[p].hasRead
  /\ \E id \in [proc[p].orgs -> {j \in Projects : project[j].org = NULL}] :
       /\ \A o, q \in proc[p].orgs : id[o] = id[q] => o = q
       /\ project' = [j \in Projects |->
            IF \E o \in proc[p].orgs : id[o] = j
            THEN [org |-> CHOOSE o \in proc[p].orgs : id[o] = j, default |-> TRUE]
            ELSE project[j]]
  /\ UNCHANGED <<schema, mode, meant, key, rate, given, versions>>

DefaultsOf(o) == {j \in Projects : project[j] = [org |-> o, default |-> TRUE]}

(* A faulty Unassigned: without the WHERE. *)
Created == {k \in Keys : key[k].org # NULL}

(* WHERE project_id IS NULL *)
Unassigned == {k \in Keys : key[k].org # NULL /\ key[k].project = NULL}

(* 007, 2: keys without a project go to the default one. *)
AssignKeys(p) ==
  /\ Run(p, "assign_keys")
  /\ key' \in [Keys -> [org : Orgs \cup {NULL}, project : Projects \cup {NULL}]]
  /\ \A k \in Keys :
       /\ key'[k].org = key[k].org
       /\ IF k \in Unassigned
          THEN key'[k].project \in IF DefaultsOf(key[k].org) = {} THEN {NULL}
                                   ELSE DefaultsOf(key[k].org)
          ELSE key'[k].project = key[k].project
  /\ UNCHANGED <<schema, mode, meant, project, rate, given, versions>>

(* 010: the default row, ON CONFLICT DO NOTHING. *)
DefaultRate(p) ==
  /\ Run(p, "default_rate")
  /\ rate' = IF rate = "none" THEN "unset" ELSE rate
  /\ UNCHANGED <<schema, mode, meant, project, key, given, versions>>

(* A faulty Unfilled: without the WHERE. *)
AnyRate == rate # "none"

(* WHERE cache_write_rate IS NULL *)
Unfilled == rate = "unset"

(* 011: rates that are NULL become those of the input. *)
FillRates(p) ==
  /\ Run(p, "fill_rates")
  /\ rate' = IF Unfilled THEN "input" ELSE rate
  /\ UNCHANGED <<schema, mode, meant, project, key, given, versions>>

(* 011: SET NOT NULL, which fails on a NULL.  012: DROP NOT NULL. *)
RequireRates(p) ==
  /\ IF rate # "unset"
     THEN Run(p, "require_rates") /\ schema' = schema \cup {"rate_required"}
     ELSE /\ At(p, "require_rates") /\ NextFile(p)
          /\ UNCHANGED <<applied, faults, schema>>
  /\ UNCHANGED <<mode, meant, project, key, rate, given, versions>>

RelaxRates(p) ==
  /\ Run(p, "relax_rates") /\ schema' = schema \ {"rate_required"}
  /\ UNCHANGED <<mode, meant, project, key, rate, given, versions>>

(* A faulty Modeless: without the WHERE. *)
AllOrgs == {o \in Orgs : meant[o] # NULL}

(* WHERE billing_mode IS NULL *)
Modeless == {o \in Orgs : meant[o] # NULL /\ mode[o] = NULL}

(* 013: organisations without a mode are from before, and keep theirs. *)
FillModes(p) ==
  /\ Run(p, "fill_modes")
  /\ mode' = [o \in Orgs |-> IF o \in Modeless THEN "contract_ratio" ELSE mode[o]]
  /\ UNCHANGED <<schema, meant, project, key, rate, given, versions>>

(* 013: SET NOT NULL, which fails on a NULL as well. *)
RequireModes(p) ==
  /\ IF Modeless = {} THEN Run(p, "require_modes")
     ELSE At(p, "require_modes") /\ NextFile(p) /\ UNCHANGED <<applied, faults>>
  /\ UNCHANGED data

(* 014: the version is inserted, or UNIQUE (pricing_id, version) refuses it *)
(* because another one came between.                                       *)
Seed(p) ==
  /\ At(p, "seed") /\ proc[p].hasRead
  /\ IF \E v \in versions : v.number = proc[p].number
     THEN NextFile(p) /\ UNCHANGED versions
     ELSE /\ NextStatement(p)
          /\ versions' = versions \cup IF proc[p].number = 0 THEN {}
               ELSE {[id |-> 1, number |-> proc[p].number, price |-> "seed", from |-> 0]}
  /\ UNCHANGED <<applied, schema, mode, meant, project, key, rate, given, faults>>

-----------------------------------------------------------------------------
(* Administrators, by a process that serves.                                *)
Edit ==
  /\ \E p \in Procs : proc[p].file = Serving
  /\ edits < MaxEdits /\ edits' = edits + 1
  /\ UNCHANGED <<proc, applied, faults>>

(* create_org binds the mode and makes the default project: one transaction.*)
CreateOrg(o, m) ==
  /\ Edit /\ {"projects", "billing_mode"} \subseteq schema
  /\ meant[o] = NULL
  /\ mode' = [mode EXCEPT ![o] = m] /\ meant' = [meant EXCEPT ![o] = m]
  /\ \E j \in Projects :
       /\ project[j].org = NULL
       /\ project' = [project EXCEPT ![j] = [org |-> o, default |-> TRUE]]
  /\ UNCHANGED <<schema, key, rate, given, versions>>

SetMode(o, m) ==
  /\ Edit /\ "billing_mode" \in schema
  /\ meant[o] # NULL
  /\ mode' = [mode EXCEPT ![o] = m] /\ meant' = [meant EXCEPT ![o] = m]
  /\ UNCHANGED <<schema, project, key, rate, given, versions>>

(* create_project, and update_project with a new name. *)
EditProject(j) ==
  /\ Edit /\ "projects" \in schema
  /\ \/ /\ project[j].org = NULL
        /\ \E o \in Orgs, d \in BOOLEAN :
             /\ meant[o] # NULL
             /\ project' = [project EXCEPT ![j] = [org |-> o, default |-> d]]
     \/ /\ project[j].org # NULL
        /\ project' = [project EXCEPT ![j].default = ~@]
  /\ UNCHANGED <<schema, mode, meant, key, rate, given, versions>>

CreateKey(k, j) ==
  /\ Edit /\ "projects" \in schema
  /\ key[k].org = NULL /\ project[j].org # NULL
  /\ key' = [key EXCEPT ![k] = [org |-> project[j].org, project |-> j]]
  /\ UNCHANGED <<schema, mode, meant, project, rate, given, versions>>

(* update_model_credit_rate: a cache write rate, or none. *)
SetRate(new) ==
  /\ Edit /\ "write_rate" \in schema
  /\ rate # "none"
  /\ new = "unset" => "rate_required" \notin schema
  /\ rate' = new /\ given' = new
  /\ UNCHANGED <<schema, mode, meant, project, key, versions>>

(* A price of their own: Pricing has its steps. *)
SavePrice ==
  /\ Edit /\ "prices" \in schema
  /\ Cardinality(versions) < MaxVersions
  /\ versions' = versions \cup
       {[id |-> 1, number |-> Cardinality(versions) + 1, price |-> "own", from |-> 0]}
  /\ UNCHANGED <<schema, mode, meant, project, key, rate, given>>

Migrating(p) ==
  \/ Start(p) \/ Crash(p) \/ LookUp(p) \/ LookUpFails(p) \/ StatementFails(p)
  \/ Record(p) \/ MissesTable(p) \/ Make(p) \/ Read(p) \/ MakeDefaults(p)
  \/ AssignKeys(p) \/ DefaultRate(p) \/ FillRates(p) \/ RequireRates(p)
  \/ RelaxRates(p) \/ FillModes(p) \/ RequireModes(p) \/ Seed(p)

Administering ==
  \/ \E o \in Orgs, m \in Modes : CreateOrg(o, m) \/ SetMode(o, m)
  \/ \E j \in Projects : EditProject(j) \/ \E k \in Keys : CreateKey(k, j)
  \/ \E new \in {"unset", "own"} : SetRate(new)
  \/ SavePrice

Next == \/ (\E p \in Procs : Migrating(p)) /\ UNCHANGED edits
        \/ Administering

Spec == Init /\ [][Next]_vars

-----------------------------------------------------------------------------
(***************************************************************************)
(* ModesKept: an organisation from before the upgrade stays on its         *)
(* contract, and one that was given a mode keeps it, however often 013 is  *)
(* run again; with 013 recorded each has one ("existing organisations must *)
(* keep the old billing", migrations/013).                                 *)
(***************************************************************************)
ModesKept ==
  \A o \in Orgs :
    /\ mode[o] \in {NULL, meant[o]}
    /\ "013" \in applied => mode[o] = meant[o]

(***************************************************************************)
(* KeysStay: the start of a process moves no key from a project that it    *)
(* has, and gives one that has none to a default project of its own        *)
(* organisation (migrations/007), whatever is run again or at once.        *)
(***************************************************************************)
KeysStay ==
  [][\A k \in Keys : key[k].org # NULL /\ key'[k] # key[k] =>
       /\ key[k].project = NULL
       /\ project[key'[k].project] = [org |-> key[k].org, default |-> TRUE]]_vars

(***************************************************************************)
(* SeededOnce: 014 adds its version to a price at most once, though two    *)
(* processes may both find it missing and administrators save in between:  *)
(* the number it takes, MAX(version) + 1, is unique.                       *)
(***************************************************************************)
SeededOnce == \A v, w \in versions : v.price = "seed" /\ w.price = "seed" => v = w

B == INSTANCE PriceBook WITH Ids <- {1}, Prices <- {"seed", "own"}, Times <- {0},
                             book <- versions

(***************************************************************************)
(* SeedsAppend: seeding implements the price book: like administrators it  *)
(* adds the one next version of a price and changes none.                  *)
(***************************************************************************)
SeedsAppend == B!Spec

(***************************************************************************)
(* RatesKept: a rate that an administrator has set is never filled in by a *)
(* start of a process, though 011 may run beside the administrator's save  *)
(* or once more after it.  (One that is set to NULL may be: 011, run again *)
(* after 012, takes it for one from before.)                               *)
(***************************************************************************)
RatesKept == given = "own" => rate = "own"
===============================================================================
