------------------------------- MODULE Pricing -------------------------------
(***************************************************************************)
(* The standard price book: administrators who create, update and delete   *)
(* model prices (settings_handlers.rs), each save a transaction of several *)
(* statements under READ COMMITTED, and requests that lock the price in    *)
(* force before every attempt at an upstream (db.rs                        *)
(* find_standard_model_price, proxy.rs).  What a save has written is in tx *)
(* until its COMMIT, and its row lock follows from where it is.            *)
(***************************************************************************)
EXTENDS Integers, FiniteSets

CONSTANTS Ids,          \* model_pricings rows
          Models,       \* model names
          Providers,    \* model configs, by the name that is their provider
          ANY,          \* the empty provider, for all of them
          Saves,        \* calls of create_model_pricing, update_model_pricing
          Requests,     \* requests of organisations on standard pricing
          Seed,         \* the pricing that migration 014 seeds
          MaxTime,      \* a bound on the clock
          NULL

Names == [provider : Providers \cup {ANY}, model : Models]

(* Every save brings a price of its own, which has the name of the save. *)
Prices == Saves \cup {Seed}

Times == 0..MaxTime

ASSUME PricingAssumption ==
  /\ MaxTime \in Nat
  /\ Seed \in Ids
  /\ ANY \notin Providers
  /\ NULL \notin Ids \cup Names \cup Times

Version == [id : Ids, number : Nat \ {0}, price : Prices, from : Times]

VARIABLES pricing,      \* committed model_pricings; name is NULL for no row
          versions,     \* committed model_price_versions
          pc, tx,       \* per save: its last statement, its uncommitted work
          request,      \* per request: what its handler carries
          clock         \* the time, of the program and of the database

vars == <<pricing, versions, pc, tx, request, clock>>

Phases == {"start", "begun", "locked", "numbered", "inserted", "done", "clash"}

Tx == [id : Ids \cup {NULL}, name : Names \cup {NULL}, from : Times,
       number : Nat]

NoTx == [id |-> NULL, name |-> NULL, from |-> 0, number |-> 0]

(* A request's model, and the price versions that its handler holds: none, *)
(* or the one locked for the attempt under way, with the time.             *)
Request == [phase : {"idle", "trying", "called", "logged", "refused"},
            model : Models \cup {NULL}, lockedAt : Times,
            locked : SUBSET Version]

TypeOK ==
  /\ pricing \in [Ids -> [name : Names \cup {NULL}, active : BOOLEAN]]
  /\ versions \subseteq Version
  /\ pc \in [Saves -> Phases]
  /\ tx \in [Saves -> Tx]
  /\ request \in [Requests -> Request]
  /\ clock \in Times

(* Migration 014 has been run: one price for any provider, from time 0. *)
Init ==
  /\ \E m \in Models :
       pricing = [i \in Ids |->
         [name |-> IF i = Seed THEN [provider |-> ANY, model |-> m] ELSE NULL,
          active |-> i = Seed]]
  /\ versions = {[id |-> Seed, number |-> 1, price |-> Seed, from |-> 0]}
  /\ pc = [a \in Saves |-> "start"]
  /\ tx = [a \in Saves |-> NoTx]
  /\ request = [r \in Requests |->
       [phase |-> "idle", model |-> NULL, lockedAt |-> 0,
        locked |-> {}]]
  /\ clock = 0

Goto(a, phase) == pc' = [pc EXCEPT ![a] = phase]

Exists(i) == pricing[i].name # NULL
Of(i) == {v \in versions : v.id = i}

Holds(a) == pc[a] \in {"locked", "numbered", "inserted"}

(* A faulty RowFree: the row is read without a lock. *)
NeverWaits(a, i) == TRUE

(* No other save holds the row of i. *)
RowFree(a, i) == \A b \in Saves \ {a} : Holds(b) => tx[b].id # i

(* No save has an uncommitted row of that name, or is renaming the one that *)
(* bears it: the unique index on (provider, model_name) makes others wait.  *)
NameFree(a, name) ==
  \A b \in Saves \ {a} : Holds(b) =>
    tx[b].name # name /\ pricing[tx[b].id].name # name

IdsOf(name) == {i \in Ids : pricing[i].name = name}

-----------------------------------------------------------------------------
(* A save.  A body without effective_at takes effect now, and now is read   *)
(* before the transaction begins.                                           *)
Begin(a, i, name, from) ==
  /\ pc[a] = "start"
  /\ tx' = [tx EXCEPT ![a] = [id |-> i, name |-> name, from |-> from, number |-> 0]]
  /\ Goto(a, "begun")
  /\ UNCHANGED <<pricing, versions, request, clock>>

(* An update names the row; a creation finds or makes it by its name.       *)
BeginSave(a) ==
  \E name \in Names, from \in Times :
    \/ Begin(a, NULL, name, from)
    \/ \E i \in Ids : Begin(a, i, name, from)

(* INSERT ... ON CONFLICT (provider, model_name) DO UPDATE ... RETURNING id *)
Upsert(a) ==
  /\ pc[a] = "begun" /\ tx[a].id = NULL
  /\ NameFree(a, tx[a].name)
  /\ \E i \in IF IdsOf(tx[a].name) = {} THEN {j \in Ids : ~Exists(j)}
                                        ELSE IdsOf(tx[a].name) :
       /\ RowFree(a, i)
       /\ tx' = [tx EXCEPT ![a].id = i]
  /\ Goto(a, "locked")
  /\ UNCHANGED <<pricing, versions, request, clock>>

(* UPDATE ... WHERE id, and the row is then locked FOR UPDATE: 404 when     *)
(* there is none, a unique violation when another row has the name.         *)
UpdateRow(a) ==
  /\ pc[a] = "begun" /\ tx[a].id # NULL
  /\ RowFree(a, tx[a].id) /\ NameFree(a, tx[a].name)
  /\ IF Exists(tx[a].id) /\ IdsOf(tx[a].name) \subseteq {tx[a].id}
     THEN Goto(a, "locked") ELSE Goto(a, "done")
  /\ UNCHANGED <<pricing, versions, tx, request, clock>>

(* COALESCE(MAX(version), 0) + 1, of the committed versions. *)
NextNumber(i) == {n \in {1} \cup {v.number + 1 : v \in Of(i)} :
                    \A v \in Of(i) : v.number < n}

ReadNumber(a) ==
  /\ pc[a] = "locked"
  /\ \E n \in NextNumber(tx[a].id) : tx' = [tx EXCEPT ![a].number = n]
  /\ Goto(a, "numbered")
  /\ UNCHANGED <<pricing, versions, request, clock>>

(* UNIQUE (pricing_id, version): waits for an uncommitted row of that       *)
(* number and is refused when there is a committed one.                     *)
SameNumber(a, b) ==
  pc[b] = "inserted" /\ tx[b].id = tx[a].id /\ tx[b].number = tx[a].number

InsertVersion(a) ==
  /\ pc[a] = "numbered"
  /\ \A b \in Saves \ {a} : ~SameNumber(a, b)
  /\ IF \E v \in Of(tx[a].id) : v.number = tx[a].number
     THEN Goto(a, "clash") ELSE Goto(a, "inserted")
  /\ UNCHANGED <<pricing, versions, tx, request, clock>>

NewVersion(a) == [id |-> tx[a].id, number |-> tx[a].number, price |-> a,
                  from |-> tx[a].from]

(* A faulty Stored: the save changes the version that is there. *)
Overwritten(a) ==
  {v \in versions : v.id # tx[a].id}
    \cup {[v EXCEPT !.price = a, !.from = tx[a].from] : v \in Of(tx[a].id)}

(* insert_price_version: a version more, the others as they are. *)
Stored(a) == versions \cup {NewVersion(a)}

Commit(a) ==
  /\ pc[a] = "inserted"
  /\ pricing' = [pricing EXCEPT ![tx[a].id] = [name |-> tx[a].name, active |-> TRUE]]
  /\ versions' = Stored(a)
  /\ Goto(a, "done")
  /\ UNCHANGED <<tx, request, clock>>

(* A statement fails or the process ends: the transaction is rolled back. *)
Fail(a) ==
  /\ pc[a] = "begun" \/ Holds(a)
  /\ Goto(a, "done")
  /\ UNCHANGED <<pricing, versions, tx, request, clock>>

(* UPDATE model_pricings SET is_active = false: the row stays. *)
Withdrawn(i) ==
  pricing' = [pricing EXCEPT ![i].active = FALSE] /\ UNCHANGED versions

(* delete_model_pricing, a statement of its own. *)
Delete(i) ==
  /\ Exists(i) /\ pricing[i].active
  /\ \A a \in Saves : Holds(a) => tx[a].id # i
  /\ Withdrawn(i)
  /\ UNCHANGED <<pc, tx, request, clock>>

-----------------------------------------------------------------------------
(* The price in force: the latest by effective_at, then by number.          *)
Latest(vs) ==
  {v \in vs : \A w \in vs :
     v.from > w.from \/ (v.from = w.from /\ v.number >= w.number)}

(* A faulty Effective: the newest version, and only then whether it is in   *)
(* force.                                                                   *)
NewestIfEffective(i, at) ==
  {v \in Of(i) : v.from <= at /\ \A w \in Of(i) : w.number <= v.number}

Effective(i, at) == Latest({v \in Of(i) : v.from <= at})

Offers(provider, model, at) ==
  {i \in Ids : /\ pricing[i].active
               /\ pricing[i].name = [provider |-> provider, model |-> model]
               /\ Effective(i, at) # {}}

(* find_standard_model_price: the provider's own price, else that for any.  *)
InForce(provider, model, at) ==
  LET own == Offers(provider, model, at)
  IN UNION {Effective(i, at) : i \in
       IF own # {} THEN own ELSE Offers(ANY, model, at)}

SetRequest(r, new) ==
  request' = [request EXCEPT ![r] = new]
  /\ UNCHANGED <<pricing, versions, pc, tx, clock>>

Arrive(r, m) ==
  /\ request[r].phase = "idle"
  /\ SetRequest(r, [request[r] EXCEPT !.phase = "trying", !.model = m])

(* One config: without a price it is skipped, otherwise it is called with   *)
(* the version locked.                                                      *)
Attempt(r, p) ==
  /\ request[r].phase = "trying"
  /\ LET found == InForce(p, request[r].model, clock)
     IN /\ found # {}
        /\ SetRequest(r, [request[r] EXCEPT !.phase = "called", !.locked = found,
                                            !.lockedAt = clock])

(* The upstream fails, and the handler goes on to the next config. *)
FailOver(r) ==
  /\ request[r].phase = "called"
  /\ SetRequest(r, [request[r] EXCEPT !.phase = "trying", !.locked = {}])

(* No config is left: 412 or the last error. *)
Refuse(r) ==
  /\ request[r].phase = "trying"
  /\ SetRequest(r, [request[r] EXCEPT !.phase = "refused"])

(* The request is logged and charged by the version it locked, and the row  *)
(* refers to it (price_version_id ... ON DELETE RESTRICT).                  *)
Log(r) ==
  /\ request[r].phase = "called"
  /\ SetRequest(r, [request[r] EXCEPT !.phase = "logged"])

Tick == /\ clock < MaxTime
        /\ clock' = clock + 1
        /\ UNCHANGED <<pricing, versions, pc, tx, request>>

Saving(a) ==
  \/ BeginSave(a) \/ Upsert(a) \/ UpdateRow(a) \/ ReadNumber(a)
  \/ InsertVersion(a) \/ Commit(a) \/ Fail(a)

Serving(r) ==
  \/ \E m \in Models : Arrive(r, m)
  \/ \E p \in Providers : Attempt(r, p)
  \/ FailOver(r) \/ Refuse(r) \/ Log(r)

Next ==
  \/ \E a \in Saves : Saving(a)
  \/ \E i \in Ids : Delete(i)
  \/ \E r \in Requests : Serving(r)
  \/ Tick

Spec == Init /\ [][Next]_vars

-----------------------------------------------------------------------------
B == INSTANCE PriceBook WITH book <- versions

(***************************************************************************)
(* BookSpec: however the saves of administrators overlap, fail and are     *)
(* withdrawn, the committed versions are an append-only book: each commit  *)
(* adds the one next version of one pricing.                               *)
(***************************************************************************)
BookSpec == B!Spec

(***************************************************************************)
(* SavesNumbered: versions are numbered 1, 2, ... per pricing, and no save *)
(* is refused because another took its number: the row lock that the       *)
(* UPDATE or the upsert takes is held from before MAX(version) is read     *)
(* until the commit (settings_handlers.rs 337-393).                        *)
(***************************************************************************)
SavesNumbered == B!Numbered /\ \A a \in Saves : pc[a] # "clash"

(***************************************************************************)
(* Reviewable: of a logged request it can be checked for good that it was  *)
(* charged by the price in force ("historical requests can be reviewed",   *)
(* migrations/013): its version is still there, unchanged, had taken       *)
(* effect when it was locked, and no version saved before it had taken     *)
(* effect later.                                                           *)
(***************************************************************************)
Reviewable ==
  \A r \in Requests : request[r].phase = "logged" =>
    \E v \in versions :
      /\ request[r].locked = {v}
      /\ v.from <= request[r].lockedAt
      /\ \A w \in Of(v.id) :
           w.number < v.number => w.from <= v.from \/ w.from > request[r].lockedAt

(***************************************************************************)
(* SaveKeepsPriced: saving a price, for whatever time, never leaves a model*)
(* that has one without (a request would be refused with 412): only a      *)
(* deletion or the renaming of a pricing does.                             *)
(***************************************************************************)
Renamed == \E i \in Ids : Exists(i) /\ pricing'[i].name # pricing[i].name
Withdrew == \E i \in Ids : pricing[i].active /\ ~pricing'[i].active

SaveKeepsPriced ==
  [][\A p \in Providers, m \in Models :
       InForce(p, m, clock) # {} /\ InForce(p, m, clock)' = {}
         => Renamed \/ Withdrew]_vars
=============================================================================
