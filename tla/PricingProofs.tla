---------------------------- MODULE PricingProofs ----------------------------
(***************************************************************************)
(* Proofs about Pricing, for any number of pricings, administrators and    *)
(* requests.  That a save's number is still the next one when it is        *)
(* inserted rests on the row lock (Apart): no other save can commit a      *)
(* version of the pricing.  That a request locks one version rests on the  *)
(* names (NamesOnce, NameKept): no two pricings bear the same one.         *)
(***************************************************************************)
EXTENDS Pricing, WellFoundedInduction, TLAPS

NamesOnce ==
  \A i, j \in Ids : Exists(i) /\ pricing[i].name = pricing[j].name => i = j

(* The row locks exclude one another, by id and by name. *)
Apart ==
  \A a, b \in Saves : a # b /\ Holds(a) /\ Holds(b) =>
    tx[a].id # tx[b].id /\ tx[a].name # tx[b].name

(* The row that a save holds may bear the name that it is given. *)
NameKept ==
  \A a \in Saves : Holds(a) =>
    /\ tx[a].id \in Ids /\ tx[a].name \in Names
    /\ \A i \in Ids : pricing[i].name = tx[a].name => i = tx[a].id

Named == \A a \in Saves : pc[a] = "begun" => tx[a].name \in Names

(* The number that was read is still the next one. *)
StillNext ==
  \A a \in Saves : pc[a] \in {"numbered", "inserted"} =>
    tx[a].number \in NextNumber(tx[a].id)

NoClash == \A a \in Saves : pc[a] # "clash"

Numbered == B!Numbered

(* What Reviewable says, from the moment of the lock on. *)
LockedRight(r) ==
  \E v \in versions :
    /\ request[r].locked = {v}
    /\ v.from <= request[r].lockedAt
    /\ \A w \in Of(v.id) :
         w.number < v.number => w.from <= v.from \/ w.from > request[r].lockedAt

LockInv ==
  \A r \in Requests : request[r].phase \in {"called", "logged"} => LockedRight(r)

(* A request that is being served has a model. *)
HasModel ==
  \A r \in Requests :
    request[r].phase \in {"trying", "called"} => request[r].model \in Models

BookInv == /\ TypeOK /\ NamesOnce /\ Apart /\ NameKept /\ Named /\ StillNext /\ NoClash
           /\ Numbered

Inv == BookInv /\ LockInv /\ HasModel

-----------------------------------------------------------------------------
LEMMA NumberedIs ==
  Numbered <=>
    /\ \A v, w \in versions : v.id = w.id /\ v.number = w.number => v = w
    /\ \A v \in versions : v.number > 1 =>
         \E w \in versions : w.id = v.id /\ w.number = v.number - 1
BY DEF Numbered, B!Numbered

LEMMA NullApart == NULL \notin Ids /\ NULL \notin Names /\ NULL \notin Times
BY PricingAssumption

LEMMA NextNumbers ==
  ASSUME TypeOK, NEW i \in Ids, NEW n \in NextNumber(i)
  PROVE  /\ n \in Nat \ {0}
         /\ \A v \in Of(i) : v.number < n
         /\ n = 1 \/ \E v \in Of(i) : n = v.number + 1
<1>1. \A v \in Of(i) : v.number \in Nat \ {0}
  BY DEF TypeOK, Of, Version
<1>2. QED
  BY <1>1 DEF NextNumber

-----------------------------------------------------------------------------
LEMMA InitInv == Init => Inv
<1> SUFFICES ASSUME Init PROVE Inv
  OBVIOUS
<1> USE PricingAssumption, NullApart
<1>1. PICK m \in Models :
        pricing = [i \in Ids |->
          [name |-> IF i = Seed THEN [provider |-> ANY, model |-> m] ELSE NULL,
           active |-> i = Seed]]
  BY DEF Init
<1>2. [provider |-> ANY, model |-> m] \in Names
  BY DEF Names
<1>3. 0 \in Times /\ 1 \in Nat \ {0}
  BY DEF Times
<1>4. versions = {[id |-> Seed, number |-> 1, price |-> Seed, from |-> 0]}
  BY DEF Init
<1>5. TypeOK
  <2>1. pricing \in [Ids -> [name : Names \cup {NULL}, active : BOOLEAN]]
    BY <1>1, <1>2
  <2>2. versions \subseteq Version
    BY <1>3, <1>4 DEF Version, Prices
  <2>3. pc \in [Saves -> Phases] /\ tx \in [Saves -> Tx]
    BY <1>3 DEF Init, Phases, Tx, NoTx
  <2>4. request \in [Requests -> Request]
    BY <1>3 DEF Init, Request
  <2>5. clock \in Times
    BY <1>3 DEF Init
  <2>6. QED
    BY <2>1, <2>2, <2>3, <2>4, <2>5 DEF TypeOK
<1>6. NamesOnce
  BY <1>1, <1>2 DEF NamesOnce, Exists
<1>7. Apart /\ NameKept /\ Named /\ StillNext /\ NoClash
  BY DEF Init, Apart, NameKept, Named, StillNext, NoClash, Holds
<1>8. Numbered
  BY <1>4, NumberedIs
<1>9. LockInv /\ HasModel
  BY DEF Init, LockInv, HasModel
<1>10. QED
  BY <1>5, <1>6, <1>7, <1>8, <1>9 DEF Inv, BookInv

-----------------------------------------------------------------------------
(* The steps of a save.                                                     *)

LEMMA BeginStep ==
  ASSUME BookInv, NEW a \in Saves, BeginSave(a)
  PROVE  BookInv' /\ UNCHANGED <<versions, request, clock>>
<1>1. PICK i \in Ids \cup {NULL}, name \in Names, from \in Times :
        Begin(a, i, name, from)
  BY DEF BeginSave
<1> USE <1>1 DEF Begin, Goto, BookInv
<1>2. \A b \in Saves : b # a => tx'[b] = tx[b] /\ pc'[b] = pc[b]
  BY DEF TypeOK
<1>3. pc'[a] = "begun"
  BY DEF TypeOK
<1>4. TypeOK'
  <2>1. tx' \in [Saves -> Tx]
    BY DEF TypeOK, Tx
  <2>2. pc' \in [Saves -> Phases]
    BY DEF TypeOK, Phases
  <2>3. QED
    BY <2>1, <2>2 DEF TypeOK
<1>5. NamesOnce'
  BY DEF NamesOnce, Exists
<1>6. Apart' /\ NameKept' /\ Named'
  <2>1. tx'[a].name \in Names
    BY DEF TypeOK, Tx
  <2>2. QED
    BY <1>2, <1>3, <2>1 DEF Apart, NameKept, Named, Holds
<1>7. StillNext' /\ NoClash'
  BY <1>2, <1>3 DEF StillNext, NoClash, NextNumber, Of
<1>8. Numbered'
  BY DEF Numbered, B!Numbered
<1>9. QED
  BY <1>4, <1>5, <1>6, <1>7, <1>8

(* A save locks a row that nobody holds, and whose name nobody bears.       *)
LEMMA LockStep ==
  ASSUME BookInv, NEW a \in Saves, Upsert(a) \/ UpdateRow(a)
  PROVE  BookInv' /\ UNCHANGED <<versions, request, clock>>
<1> USE DEF BookInv, Goto
<1>1. /\ UNCHANGED <<pricing, versions, request, clock>>
      /\ pc[a] = "begun" /\ NameFree(a, tx[a].name)
      /\ tx[a].name \in Names
  <2>1. pc[a] = "begun" /\ tx[a] \in Tx /\ NameFree(a, tx[a].name)
        /\ UNCHANGED <<pricing, versions, request, clock>>
    BY DEF Upsert, UpdateRow, TypeOK
  <2>2. QED
    BY <2>1 DEF Named
<1>2. \A b \in Saves : b # a => tx'[b] = tx[b] /\ pc'[b] = pc[b]
  BY DEF TypeOK, Upsert, UpdateRow
<1>3. \/ pc'[a] = "done"
      \/ /\ pc'[a] = "locked"
         /\ tx'[a].id \in Ids /\ RowFree(a, tx'[a].id)
         /\ tx'[a].name = tx[a].name
         /\ \A i \in Ids : pricing[i].name = tx[a].name => i = tx'[a].id
  <2>1. CASE Upsert(a)
    <3>1. PICK i \in IF IdsOf(tx[a].name) = {} THEN {j \in Ids : ~Exists(j)}
                                              ELSE IdsOf(tx[a].name) :
            RowFree(a, i) /\ tx' = [tx EXCEPT ![a].id = i]
      BY <2>1 DEF Upsert
    <3>2. i \in Ids
      BY <3>1 DEF IdsOf
    <3>3. \A j \in Ids : pricing[j].name = tx[a].name => j = i
      BY <1>1, <3>1, NullApart DEF IdsOf, NamesOnce, Exists
    <3>4. tx'[a].id = i /\ tx'[a].name = tx[a].name /\ pc'[a] = "locked"
      BY <2>1, <3>1 DEF Upsert, TypeOK, Tx
    <3>5. QED
      BY <3>1, <3>2, <3>3, <3>4
  <2>2. CASE UpdateRow(a)
    <3>1. tx' = tx /\ tx[a].id \in Ids /\ RowFree(a, tx[a].id)
      BY <2>2 DEF UpdateRow, TypeOK, Tx
    <3>2. \/ pc'[a] = "done"
          \/ pc'[a] = "locked" /\ IdsOf(tx[a].name) \subseteq {tx[a].id}
      BY <2>2 DEF UpdateRow, TypeOK
    <3>3. QED
      BY <3>1, <3>2 DEF IdsOf
  <2>3. QED
    BY <2>1, <2>2
<1>4. TypeOK'
  <2>1. pc' \in [Saves -> Phases]
    BY DEF TypeOK, Phases, Upsert, UpdateRow
  <2>2. tx' \in [Saves -> Tx]
    BY DEF TypeOK, Tx, Upsert, UpdateRow, IdsOf
  <2>3. QED
    BY <1>1, <2>1, <2>2 DEF TypeOK
<1>5. NamesOnce' /\ Numbered'
  BY <1>1 DEF NamesOnce, Exists, Numbered, B!Numbered
<1>6. Apart'
  BY <1>1, <1>2, <1>3 DEF Apart, Holds, NameFree, RowFree
<1>7. NameKept'
  BY <1>1, <1>2, <1>3 DEF NameKept, Holds
<1>8. Named' /\ StillNext' /\ NoClash'
  BY <1>1, <1>2, <1>3 DEF Named, StillNext, NoClash, NextNumber, Of
<1>9. QED
  BY <1>1, <1>4, <1>5, <1>6, <1>7, <1>8

LEMMA NumberStep ==
  ASSUME BookInv, NEW a \in Saves, ReadNumber(a)
  PROVE  BookInv' /\ UNCHANGED <<versions, request, clock>>
<1> USE DEF BookInv, Goto
<1>1. UNCHANGED <<pricing, versions, request, clock>> /\ pc[a] = "locked"
  BY DEF ReadNumber
<1>2. PICK n \in NextNumber(tx[a].id) : tx' = [tx EXCEPT ![a].number = n]
  BY DEF ReadNumber
<1>3. tx[a].id \in Ids /\ n \in Nat
  BY <1>1, <1>2, NextNumbers DEF NameKept, Holds
<1>4. \A b \in Saves : b # a => tx'[b] = tx[b] /\ pc'[b] = pc[b]
  BY <1>2 DEF TypeOK, ReadNumber
<1>5. /\ pc'[a] = "numbered" /\ tx'[a].number = n
      /\ tx'[a].id = tx[a].id /\ tx'[a].name = tx[a].name
  BY <1>2 DEF TypeOK, Tx, ReadNumber
<1>6. TypeOK'
  <2>1. pc' \in [Saves -> Phases] /\ tx' \in [Saves -> Tx]
    BY <1>2, <1>3 DEF TypeOK, Phases, Tx, ReadNumber
  <2>2. QED
    BY <1>1, <2>1 DEF TypeOK
<1>7. NamesOnce' /\ Numbered'
  BY <1>1 DEF NamesOnce, Exists, Numbered, B!Numbered
<1>8. \A b \in Saves : /\ Holds(b)' <=> Holds(b)
                       /\ tx'[b].id = tx[b].id /\ tx'[b].name = tx[b].name
  BY <1>1, <1>4, <1>5 DEF Holds
<1>9. Apart' /\ NameKept'
  BY <1>1, <1>8 DEF Apart, NameKept
<1>10. Named' /\ StillNext' /\ NoClash'
  BY <1>1, <1>2, <1>4, <1>5 DEF Named, StillNext, NoClash, NextNumber, Of
<1>11. QED
  BY <1>1, <1>6, <1>7, <1>9, <1>10

(* The number is still free when the version is inserted. *)
LEMMA InsertStep ==
  ASSUME BookInv, NEW a \in Saves, InsertVersion(a)
  PROVE  BookInv' /\ UNCHANGED <<versions, request, clock>>
<1> USE DEF BookInv, Goto
<1>1. UNCHANGED <<pricing, versions, tx, request, clock>> /\ pc[a] = "numbered"
  BY DEF InsertVersion
<1>2. tx[a].id \in Ids /\ tx[a].number \in NextNumber(tx[a].id)
  BY <1>1 DEF NameKept, Holds, StillNext
<1>3. \A v \in Of(tx[a].id) : v.number \in Nat /\ v.number < tx[a].number
  BY <1>2, NextNumbers DEF TypeOK, Of, Version
<1>4. pc' = [pc EXCEPT ![a] = "inserted"]
  BY <1>3 DEF InsertVersion
<1>5. TypeOK'
  BY <1>1, <1>4 DEF TypeOK, Phases
<1>6. \A b \in Saves : (Holds(b)' <=> Holds(b)) /\ (b # a => pc'[b] = pc[b])
  BY <1>1, <1>4 DEF TypeOK, Holds
<1>7. NamesOnce' /\ Numbered' /\ Apart' /\ NameKept'
  BY <1>1, <1>6 DEF NamesOnce, Exists, Numbered, B!Numbered, Apart, NameKept
<1>8. Named' /\ StillNext' /\ NoClash'
  BY <1>1, <1>2, <1>4 DEF Named, StillNext, NoClash, NextNumber, Of, TypeOK
<1>9. QED
  BY <1>1, <1>5, <1>7, <1>8

LEMMA FailStep ==
  ASSUME BookInv, NEW a \in Saves, Fail(a)
  PROVE  BookInv' /\ UNCHANGED <<versions, request, clock>>
<1> USE DEF BookInv, Goto
<1>1. UNCHANGED <<pricing, versions, tx, request, clock>>
  BY DEF Fail
<1>2. pc' = [pc EXCEPT ![a] = "done"]
  BY DEF Fail
<1>3. TypeOK'
  BY <1>1, <1>2 DEF TypeOK, Phases
<1>4. pc'[a] = "done" /\ \A b \in Saves : b # a => pc'[b] = pc[b]
  BY <1>2 DEF TypeOK
<1>5. \A b \in Saves : Holds(b)' => Holds(b)
  BY <1>4 DEF Holds
<1>6. NamesOnce' /\ Numbered' /\ Apart' /\ NameKept'
  BY <1>1, <1>5 DEF NamesOnce, Exists, Numbered, B!Numbered, Apart, NameKept
<1>7. Named' /\ StillNext' /\ NoClash'
  BY <1>1, <1>4 DEF Named, StillNext, NoClash, NextNumber, Of
<1>8. QED
  BY <1>1, <1>3, <1>6, <1>7

(* A version more, the next of a pricing that nobody else holds. *)
LEMMA CommitStep ==
  ASSUME BookInv, NEW a \in Saves, Commit(a)
  PROVE  /\ BookInv' /\ B!Next
         /\ versions \subseteq versions'
         /\ \A w \in versions' \ versions :
              \A v \in versions : v.id = w.id => v.number < w.number
         /\ UNCHANGED <<request, clock>>
<1> USE DEF BookInv, Goto
<1> DEFINE i == tx[a].id
           n == tx[a].number
<1>1. /\ pc[a] = "inserted" /\ tx' = tx /\ request' = request /\ clock' = clock
      /\ versions' = versions \cup {NewVersion(a)}
      /\ pricing' = [pricing EXCEPT ![i] = [name |-> tx[a].name, active |-> TRUE]]
  BY DEF Commit, Stored
<1>2. i \in Ids /\ tx[a].name \in Names /\ tx[a].from \in Times
  BY <1>1 DEF NameKept, Holds, TypeOK, Tx
<1>3. n \in NextNumber(i)
  BY <1>1 DEF StillNext
<1>4. /\ n \in Nat \ {0}
      /\ \A v \in Of(i) : v.number \in Nat /\ v.number < n
      /\ n = 1 \/ \E v \in Of(i) : n = v.number + 1
  BY <1>2, <1>3, NextNumbers DEF TypeOK, Of, Version
<1>5. /\ NewVersion(a) \in Version
      /\ NewVersion(a).id = i /\ NewVersion(a).number = n
  BY <1>2, <1>4 DEF NewVersion, Version, Prices
<1>6. pc'[a] = "done" /\ \A b \in Saves : b # a => pc'[b] = pc[b]
  BY DEF Commit, TypeOK
<1>7. \A b \in Saves : Holds(b)' => /\ Holds(b) /\ b # a
                                    /\ tx[b].id # i /\ tx[b].name # tx[a].name
  BY <1>1, <1>6 DEF Holds, Apart
<1>8. /\ pricing'[i].name = tx[a].name
      /\ \A j \in Ids : j # i => pricing'[j] = pricing[j]
  BY <1>1, <1>2 DEF TypeOK
<1>9. TypeOK'
  <2>1. pricing' \in [Ids -> [name : Names \cup {NULL}, active : BOOLEAN]]
    BY <1>1, <1>2 DEF TypeOK
  <2>2. versions' \subseteq Version
    BY <1>1, <1>5 DEF TypeOK
  <2>3. pc' \in [Saves -> Phases]
    BY DEF Commit, TypeOK, Phases
  <2>4. QED
    BY <1>1, <2>1, <2>2, <2>3 DEF TypeOK
<1>10. NamesOnce'
  <2>1. \A j \in Ids : pricing[j].name = tx[a].name => j = i
    BY <1>1 DEF NameKept, Holds
  <2>2. QED
    BY <1>8, <2>1 DEF NamesOnce, Exists
<1>11. Apart' /\ Named'
  BY <1>1, <1>6, <1>7 DEF Apart, Named
<1>12. NameKept'
  <2> SUFFICES ASSUME NEW b \in Saves, Holds(b)'
               PROVE  /\ tx[b].id \in Ids /\ tx[b].name \in Names
                      /\ \A j \in Ids : pricing'[j].name = tx[b].name => j = tx[b].id
    BY <1>1 DEF NameKept
  <2>1. Holds(b) /\ tx[b].name # tx[a].name
    BY <1>7
  <2>2. QED
    BY <1>8, <2>1 DEF NameKept
<1>13. StillNext'
  <2> SUFFICES ASSUME NEW b \in Saves, pc'[b] \in {"numbered", "inserted"}
               PROVE  tx[b].number \in NextNumber(tx[b].id)'
    BY <1>1 DEF StillNext
  <2>1. Holds(b)'
    BY DEF Holds
  <2>2. b # a /\ pc[b] = pc'[b] /\ tx[b].id # i
    BY <1>6, <1>7, <2>1
  <2>3. Of(tx[b].id)' = Of(tx[b].id)
    BY <1>1, <1>5, <2>2 DEF Of
  <2>4. tx[b].number \in NextNumber(tx[b].id)
    BY <2>2 DEF StillNext
  <2>5. QED
    BY <1>1, <2>3, <2>4 DEF NextNumber
<1>14. NoClash'
  BY <1>6 DEF NoClash
<1>15. Numbered'
  <2>1. \A v, w \in versions' : v.id = w.id /\ v.number = w.number => v = w
    BY <1>1, <1>4, <1>5, NumberedIs DEF Of
  <2>2. \A v \in versions' : v.number > 1 =>
          \E w \in versions' : w.id = v.id /\ w.number = v.number - 1
    <3> SUFFICES ASSUME NEW v \in versions', v.number > 1
                 PROVE  \E w \in versions' : w.id = v.id /\ w.number = v.number - 1
      OBVIOUS
    <3>1. CASE v \in versions
      BY <1>1, <3>1, NumberedIs
    <3>2. CASE v = NewVersion(a)
      <4>1. PICK w \in Of(i) : n = w.number + 1
        BY <1>4, <1>5, <3>2
      <4>2. w \in versions' /\ w.id = v.id /\ w.number = v.number - 1
        BY <1>1, <1>4, <1>5, <3>2, <4>1 DEF Of
      <4>3. QED
        BY <4>2
    <3>3. QED
      BY <1>1, <3>1, <3>2
  <2>3. QED
    BY <2>1, <2>2 DEF Numbered, B!Numbered
<1>16. B!Next
  <2>1. B!IsNext(i, n)
    BY <1>4 DEF B!IsNext, B!Of, Of
  <2>2. n \in {1} \cup {v.number + 1 : v \in B!Of(i)}
    BY <1>4 DEF B!Of, Of
  <2>3. versions' = versions \cup {[id |-> i, number |-> n, price |-> a,
                                    from |-> tx[a].from]}
    BY <1>1 DEF NewVersion
  <2>4. B!Save(i, a, tx[a].from)
    BY <2>1, <2>2, <2>3 DEF B!Save
  <2>5. QED
    BY <1>2, <2>4 DEF B!Next, Prices
<1>17. \A w \in versions' \ versions :
         \A v \in versions : v.id = w.id => v.number < w.number
  BY <1>1, <1>4, <1>5 DEF Of
<1>18. QED
  BY <1>1, <1>9, <1>10, <1>11, <1>12, <1>13, <1>14, <1>15, <1>16, <1>17

LEMMA DeleteStep ==
  ASSUME BookInv, NEW i \in Ids, Delete(i)
  PROVE  BookInv' /\ UNCHANGED <<versions, request, clock>>
<1> USE DEF BookInv, Delete, Withdrawn
<1>1. \A j \in Ids : pricing'[j].name = pricing[j].name
  BY DEF TypeOK
<1>2. TypeOK'
  BY DEF TypeOK
<1>3. NamesOnce' /\ Numbered' /\ Apart' /\ NameKept' /\ Named'
  BY <1>1 DEF NamesOnce, Exists, Numbered, B!Numbered, Apart, NameKept, Named, Holds
<1>4. StillNext' /\ NoClash'
  BY DEF StillNext, NoClash, NextNumber, Of
<1>5. QED
  BY <1>2, <1>3, <1>4

-----------------------------------------------------------------------------
(* The steps of a request.                                                  *)

(* What is in force is one version, and no earlier one displaced it.        *)
LEMMA OneInForce ==
  ASSUME BookInv, NEW p \in Providers, NEW m \in Models, NEW at \in Times,
         InForce(p, m, at) # {}
  PROVE  \E v \in versions :
           /\ InForce(p, m, at) = {v}
           /\ v.from <= at
           /\ \A w \in Of(v.id) : w.number < v.number => w.from <= v.from \/ w.from > at
<1> USE DEF BookInv
<1>1. PICK q \in Providers \cup {ANY} :
        InForce(p, m, at) = UNION {Effective(i, at) : i \in Offers(q, m, at)}
  <2>1. CASE Offers(p, m, at) # {}
    BY <2>1 DEF InForce
  <2>2. CASE Offers(p, m, at) = {}
    BY <2>2 DEF InForce
  <2>3. QED
    BY <2>1, <2>2
<1>2. PICK i \in Offers(q, m, at) : Effective(i, at) # {}
  BY <1>1
<1>3. i \in Ids /\ pricing[i].name = [provider |-> q, model |-> m]
  BY DEF Offers
<1>4. pricing[i].name # NULL
  BY <1>3, NullApart DEF Names
<1>5. \A j \in Offers(q, m, at) : j = i
  BY <1>3, <1>4 DEF Offers, NamesOnce, Exists
<1>6. InForce(p, m, at) = Effective(i, at)
  BY <1>1, <1>5
<1>7. PICK v \in Effective(i, at) : TRUE
  BY <1>2
<1>8. /\ v \in versions /\ v.id = i /\ v.from <= at
      /\ \A w \in Of(i) : w.from <= at =>
           v.from > w.from \/ (v.from = w.from /\ v.number >= w.number)
  BY <1>7 DEF Effective, Latest, Of
<1>9. \A w \in Of(i) : /\ w \in versions /\ w.id = i
                       /\ w.from \in Int /\ w.number \in Int
  BY DEF TypeOK, Of, Version, Times
<1>10. v \in Of(i) /\ at \in Int
  BY <1>8 DEF Of, Times
<1>11. \A w \in Effective(i, at) : w = v
  <2> SUFFICES ASSUME NEW w \in Effective(i, at) PROVE w = v
    OBVIOUS
  <2>1. /\ w \in Of(i) /\ w.from <= at
        /\ w.from > v.from \/ (w.from = v.from /\ w.number >= v.number)
    BY <1>8, <1>10 DEF Effective, Latest
  <2>2. w.number = v.number
    BY <1>8, <1>9, <1>10, <2>1
  <2>3. QED
    BY <1>9, <1>10, <2>1, <2>2, NumberedIs
<1>12. \A w \in Of(i) : w.from <= v.from \/ w.from > at
  BY <1>8, <1>9, <1>10
<1>13. QED
  BY <1>6, <1>7, <1>8, <1>11, <1>12

LEMMA RequestStep ==
  ASSUME Inv, NEW r \in Requests, Serving(r)
  PROVE  Inv' /\ UNCHANGED versions
<1> USE DEF Inv, BookInv
<1> DEFINE old == request[r]
           new == request'[r]
<1>1. PICK x : request' = [request EXCEPT ![r] = x]
  BY DEF Serving, Arrive, Attempt, FailOver, Refuse, Log, SetRequest
<1>2. UNCHANGED <<pricing, versions, pc, tx, clock>>
  BY DEF Serving, Arrive, Attempt, FailOver, Refuse, Log, SetRequest
<1>3. old \in Request /\ clock \in Times /\ versions \subseteq Version
  BY DEF TypeOK
<1>4. /\ new \in Request
      /\ new.phase \in {"trying", "called"} => new.model \in Models
      /\ new.phase \in {"called", "logged"} => LockedRight(r)'
  <2>1. CASE \E m \in Models : Arrive(r, m)
    <3>1. PICK m \in Models : Arrive(r, m)
      BY <2>1
    <3>2. new = [old EXCEPT !.phase = "trying", !.model = m]
      BY <3>1 DEF Arrive, SetRequest, TypeOK
    <3>3. QED
      BY <1>3, <3>2 DEF Request
  <2>2. CASE \E p \in Providers : Attempt(r, p)
    <3>1. PICK p \in Providers : Attempt(r, p)
      BY <2>2
    <3> DEFINE found == InForce(p, old.model, clock)
    <3>2. /\ old.phase = "trying" /\ found # {}
          /\ new = [old EXCEPT !.phase = "called", !.locked = found, !.lockedAt = clock]
      BY <3>1 DEF Attempt, SetRequest, TypeOK
    <3>3. old.model \in Models
      BY <3>2 DEF HasModel
    <3>4. PICK v \in versions :
            /\ found = {v}
            /\ v.from <= clock
            /\ \A w \in Of(v.id) :
                 w.number < v.number => w.from <= v.from \/ w.from > clock
      BY <1>3, <3>2, <3>3, OneInForce
    <3>5. found \in SUBSET Version
      BY <1>3, <3>4
    <3> HIDE DEF found
    <3>6. /\ new.phase = "called" /\ new.model = old.model
          /\ new.locked = found /\ new.lockedAt = clock
          /\ new \in Request
      BY <1>3, <3>2, <3>5 DEF Request
    <3>7. LockedRight(r)'
      BY <1>2, <3>4, <3>6 DEF LockedRight, Of
    <3>8. QED
      BY <3>3, <3>6, <3>7
  <2>3. CASE FailOver(r)
    <3>1. old.phase = "called" /\ new = [old EXCEPT !.phase = "trying", !.locked = {}]
      BY <2>3 DEF FailOver, SetRequest, TypeOK
    <3>2. old.model \in Models /\ {} \in SUBSET Version
      BY <3>1 DEF HasModel
    <3>3. QED
      BY <1>3, <3>1, <3>2 DEF Request
  <2>4. CASE Refuse(r)
    <3>1. new = [old EXCEPT !.phase = "refused"]
      BY <2>4 DEF Refuse, SetRequest, TypeOK
    <3>2. QED
      BY <1>3, <3>1 DEF Request
  <2>5. CASE Log(r)
    <3>1. old.phase = "called" /\ new = [old EXCEPT !.phase = "logged"]
      BY <2>5 DEF Log, SetRequest, TypeOK
    <3>2. /\ new.phase = "logged" /\ new.locked = old.locked
          /\ new.lockedAt = old.lockedAt /\ new \in Request
      BY <1>3, <3>1 DEF Request
    <3>3. LockedRight(r)
      BY <3>1 DEF LockInv
    <3>4. LockedRight(r)'
      BY <1>2, <3>2, <3>3 DEF LockedRight, Of
    <3>5. QED
      BY <3>2, <3>4
  <2>6. QED
    BY <2>1, <2>2, <2>3, <2>4, <2>5 DEF Serving
<1>5. \A q \in Requests : q # r => request'[q] = request[q]
  BY <1>1 DEF TypeOK
<1>6. TypeOK'
  <2>1. new = x
    BY <1>1 DEF TypeOK
  <2>2. request' \in [Requests -> Request]
    BY <1>1, <1>4, <2>1 DEF TypeOK
  <2>3. QED
    BY <1>2, <2>2 DEF TypeOK
<1>7. /\ NamesOnce' /\ Apart' /\ NameKept' /\ Named' /\ StillNext' /\ NoClash'
      /\ Numbered'
  BY <1>2 DEF NamesOnce, Exists, Apart, NameKept, Named, Holds, StillNext, NextNumber,
              Of, NoClash, Numbered, B!Numbered
<1>8. LockInv'
  <2> SUFFICES ASSUME NEW q \in Requests, request'[q].phase \in {"called", "logged"}
               PROVE  LockedRight(q)'
    BY DEF LockInv
  <2>1. CASE q = r
    BY <1>4, <2>1
  <2>2. CASE q # r
    <3>1. LockedRight(q) /\ request'[q] = request[q]
      BY <1>5, <2>2 DEF LockInv
    <3>2. QED
      BY <1>2, <3>1 DEF LockedRight, Of
  <2>3. QED
    BY <2>1, <2>2
<1>9. HasModel'
  BY <1>4, <1>5 DEF HasModel
<1>10. QED
  BY <1>2, <1>6, <1>7, <1>8, <1>9

LEMMA TickStep ==
  ASSUME Inv, Tick \/ UNCHANGED vars
  PROVE  Inv' /\ UNCHANGED versions
<1> USE DEF Inv, BookInv
<1>1. UNCHANGED <<pricing, versions, pc, tx, request>>
  BY DEF Tick, vars
<1>2. clock' \in Times
  BY PricingAssumption DEF Tick, vars, TypeOK, Times
<1>3. TypeOK'
  BY <1>1, <1>2 DEF TypeOK
<1>4. /\ NamesOnce' /\ Apart' /\ NameKept' /\ Named' /\ StillNext' /\ NoClash'
      /\ Numbered'
  BY <1>1 DEF NamesOnce, Exists, Apart, NameKept, Named, Holds, StillNext, NextNumber,
              Of, NoClash, Numbered, B!Numbered
<1>5. LockInv' /\ HasModel'
  BY <1>1 DEF LockInv, LockedRight, Of, HasModel
<1>6. QED
  BY <1>1, <1>3, <1>4, <1>5

-----------------------------------------------------------------------------
(* A version that is added later has a higher number, so what a request     *)
(* has locked stays the right one.                                          *)
LEMMA LocksKept ==
  ASSUME Inv, BookInv', versions \subseteq versions', UNCHANGED request,
         \A w \in versions' \ versions :
           \A v \in versions : v.id = w.id => v.number < w.number
  PROVE  LockInv' /\ HasModel'
<1> SUFFICES ASSUME NEW r \in Requests, request[r].phase \in {"called", "logged"}
             PROVE  LockedRight(r)'
  BY DEF LockInv, HasModel, Inv
<1>1. PICK v \in versions :
        /\ request[r].locked = {v}
        /\ v.from <= request[r].lockedAt
        /\ \A w \in Of(v.id) :
             w.number < v.number => w.from <= v.from \/ w.from > request[r].lockedAt
  BY DEF Inv, LockInv, LockedRight
<1>2. \A w \in Of(v.id)' : w.number < v.number => w \in Of(v.id)
  <2> SUFFICES ASSUME NEW w \in versions', w.id = v.id, w.number < v.number,
                      w \notin versions
               PROVE  FALSE
    BY DEF Of
  <2>1. v.number < w.number
    BY <1>1
  <2>2. v.number \in Int /\ w.number \in Int
    BY DEF BookInv, TypeOK, Version
  <2>3. QED
    BY <2>1, <2>2
<1>3. v \in versions' /\ request'[r] = request[r]
  BY <1>1
<1>4. QED
  BY <1>1, <1>2, <1>3 DEF LockedRight

LEMMA SaveStep ==
  ASSUME Inv, NEW a \in Saves, Saving(a)
  PROVE  Inv' /\ (B!Next \/ UNCHANGED versions)
<1>1. CASE Commit(a)
  BY <1>1, CommitStep, LocksKept DEF Inv
<1>2. CASE ~Commit(a)
  <2>1. BookInv' /\ UNCHANGED <<versions, request, clock>>
    BY <1>2, BeginStep, LockStep, NumberStep, InsertStep, FailStep DEF Inv, Saving
  <2>2. QED
    BY <2>1, LocksKept DEF Inv
<1>3. QED
  BY <1>1, <1>2

LEMMA Step == Inv /\ [Next]_vars => Inv' /\ [B!Next]_versions
<1> SUFFICES ASSUME Inv, [Next]_vars PROVE Inv' /\ [B!Next]_versions
  OBVIOUS
<1>1. CASE \E a \in Saves : Saving(a)
  BY <1>1, SaveStep
<1>2. CASE \E i \in Ids : Delete(i)
  BY <1>2, DeleteStep, LocksKept DEF Inv
<1>3. CASE \E r \in Requests : Serving(r)
  BY <1>3, RequestStep
<1>4. CASE Tick \/ UNCHANGED vars
  BY <1>4, TickStep
<1>5. QED
  BY <1>1, <1>2, <1>3, <1>4 DEF Next

LEMMA PricingInvariant == Spec => []Inv
BY InitInv, Step, PTL DEF Spec

LEMMA InitBook == Init => B!Init
<1> SUFFICES ASSUME Init PROVE B!Init
  OBVIOUS
<1>1. versions = {[id |-> Seed, number |-> 1, price |-> Seed, from |-> 0]}
  BY DEF Init
<1>2. versions \subseteq B!Version
  BY <1>1, InitInv DEF Inv, BookInv, TypeOK, Version, B!Version
<1>3. QED
  BY <1>1, <1>2 DEF B!Init

-----------------------------------------------------------------------------
(* TypeOK: the variables hold what they are said to hold.                   *)
THEOREM PricingTypeCorrect == Spec => []TypeOK
BY PricingInvariant, PTL DEF Inv, BookInv

(* SavesNumbered: the versions of every pricing are numbered 1, 2, ..., and *)
(* no save is refused because another took its number.                      *)
THEOREM PricingSavesNumbered == Spec => []SavesNumbered
<1>1. Inv => SavesNumbered
  BY DEF Inv, BookInv, NoClash, Numbered, SavesNumbered
<1>2. QED
  BY <1>1, PricingInvariant, PTL

(* Reviewable: every logged request was charged by the price that was in    *)
(* force when its call was made, and that price is still there to see.      *)
THEOREM PricingReviewable == Spec => []Reviewable
<1>1. Inv => Reviewable
  BY DEF Inv, LockInv, LockedRight, Reviewable
<1>2. QED
  BY <1>1, PricingInvariant, PTL

(* BookSpec: the SQL transactions of any number of administrators implement *)
(* the append-only price book.                                              *)
THEOREM PricingImplementsBook == Spec => BookSpec
BY PricingInvariant, InitBook, Step, PTL DEF Spec, BookSpec, B!Spec

-----------------------------------------------------------------------------
(* There is a latest version wherever there is one: the numbers of the      *)
(* committed versions are bounded.                                          *)
Bounded == \E n \in Nat : \A v \in versions : v.number <= n

LEMMA BoundedInit == Init => Bounded
<1> SUFFICES ASSUME Init PROVE Bounded
  OBVIOUS
<1>1. \A v \in versions : v.number <= 1
  BY DEF Init
<1>2. QED
  BY <1>1 DEF Bounded

LEMMA BoundedStep == TypeOK /\ Bounded /\ [B!Next]_versions => Bounded'
<1> SUFFICES ASSUME TypeOK, Bounded, [B!Next]_versions PROVE Bounded'
  OBVIOUS
<1>1. PICK n \in Nat : \A v \in versions : v.number <= n
  BY DEF Bounded
<1>2. CASE UNCHANGED versions
  BY <1>1, <1>2 DEF Bounded
<1>3. CASE B!Next
  <2>1. PICK id \in Ids, price \in Prices, from \in Times : B!Save(id, price, from)
    BY <1>3 DEF B!Next
  <2>2. PICK m \in {1} \cup {v.number + 1 : v \in B!Of(id)} :
          versions' = versions \cup
            {[id |-> id, number |-> m, price |-> price, from |-> from]}
    BY <2>1 DEF B!Save
  <2>3. m \in Nat /\ m <= n + 1
    BY <1>1, <2>2 DEF B!Of, TypeOK, Version
  <2>4. \A v \in versions' : v.number <= n + 1
    BY <1>1, <2>2, <2>3 DEF TypeOK, Version
  <2>5. QED
    BY <2>4 DEF Bounded
<1>4. QED
  BY <1>2, <1>3

LEMMA GreatestOf ==
  ASSUME NEW T, T \subseteq Nat, T # {}, NEW b \in Nat, \A t \in T : t <= b
  PROVE  \E n \in T : \A m \in T : m <= n
<1> DEFINE U == {b - t : t \in T}
<1>1. U \subseteq Nat /\ U # {}
  <2>1. \A t \in T : b - t \in Nat
    OBVIOUS
  <2>2. QED
    BY <2>1
<1>2. PICK u \in U : \A w \in U : ~(<<w, u>> \in OpToRel(<, Nat))
  <2> HIDE DEF U
  <2>1. IsWellFoundedOn(OpToRel(<, Nat), Nat)
    BY NatLessThanWellFounded
  <2>2. QED
    BY <1>1, <2>1, WFMin, Zenon
<1>3. \A w \in U : ~(w < u)
  BY <1>1, <1>2 DEF OpToRel
<1>4. PICK n \in T : u = b - n
  OBVIOUS
<1>5. ASSUME NEW m \in T PROVE m <= n
  <2>1. ~(b - m < b - n)
    BY <1>3, <1>4
  <2>2. m \in Nat /\ n \in Nat
    OBVIOUS
  <2>3. QED
    BY <2>1, <2>2
<1>6. QED
  BY <1>5

LEMMA LatestExists ==
  ASSUME NEW vs, vs \subseteq Version, vs # {},
         NEW n \in Nat, \A v \in vs : v.number <= n
  PROVE  Latest(vs) # {}
<1>2. \A v \in vs : v.from \in Nat /\ v.from <= MaxTime /\ v.number \in Nat
  BY DEF Version, Times
<1>3. PICK t \in {v.from : v \in vs} : \A s \in {v.from : v \in vs} : s <= t
  <2> DEFINE T == {v.from : v \in vs}
  <2>1. T \subseteq Nat /\ T # {} /\ \A s \in T : s <= MaxTime
    BY <1>2
  <2> HIDE DEF T
  <2>2. \E s \in T : \A m \in T : m <= s
    BY <2>1, GreatestOf, PricingAssumption
  <2>3. QED
    BY <2>2 DEF T
<1> DEFINE then == {v \in vs : v.from = t}
<1>4. PICK k \in {v.number : v \in then} : \A m \in {v.number : v \in then} : m <= k
  <2> DEFINE T == {v.number : v \in then}
  <2>1. T \subseteq Nat /\ T # {} /\ \A s \in T : s <= n
    BY <1>2, <1>3
  <2> HIDE DEF T
  <2>2. \E s \in T : \A m \in T : m <= s
    BY <2>1, GreatestOf
  <2>3. QED
    BY <2>2 DEF T
<1>5. PICK v \in then : v.number = k
  BY <1>4
<1>6. ASSUME NEW w \in vs
      PROVE  v.from > w.from \/ (v.from = w.from /\ v.number >= w.number)
  <2>1. w.from <= v.from
    BY <1>3, <1>5
  <2>2. w.from = v.from => w.number <= v.number
    BY <1>4, <1>5
  <2>3. QED
    BY <1>2, <1>5, <2>1, <2>2
<1>7. v \in Latest(vs)
  BY <1>5, <1>6 DEF Latest
<1>8. QED
  BY <1>7

(* A pricing that offers a price offers one for as long as it bears its name*)
(* and is not withdrawn.                                                    *)
LEMMA OfferKept ==
  ASSUME Inv, Inv', Bounded', versions \subseteq versions', clock <= clock',
         NEW id \in Ids, NEW p, NEW m, id \in Offers(p, m, clock),
         pricing'[id].name = pricing[id].name, pricing'[id].active
  PROVE  id \in Offers(p, m, clock)'
<1>1. PICK v \in Of(id) : v.from <= clock
  BY DEF Offers, Effective, Latest
<1>2. v \in Of(id)' /\ v.from <= clock'
  <2>1. v.from \in Nat /\ clock \in Nat /\ clock' \in Nat
    BY DEF Inv, BookInv, TypeOK, Version, Times, Of
  <2>2. QED
    BY <1>1, <2>1 DEF Of
<1> DEFINE vs == {w \in Of(id)' : w.from <= clock'}
<1>3. vs \subseteq Version /\ vs # {}
  BY <1>2 DEF Of, Inv, BookInv, TypeOK
<1>4. PICK n \in Nat : \A w \in vs : w.number <= n
  BY DEF Bounded, Of
<1>5. Latest(vs) # {}
  <2> HIDE DEF vs
  <2>1. QED
    BY <1>3, <1>4, LatestExists
<1>6. QED
  BY <1>5 DEF Offers, Effective

LEMMA KeepsPriced ==
  ASSUME Inv, Inv', Bounded', [Next]_vars, [B!Next]_versions, ~Renamed, ~Withdrew,
         NEW p \in Providers, NEW m \in Models, InForce(p, m, clock) # {}
  PROVE  InForce(p, m, clock)' # {}
<1>1. versions \subseteq versions'
  BY DEF B!Next, B!Save
<1>2. clock <= clock'
  <2>1. clock \in Nat
    BY DEF Inv, BookInv, TypeOK, Times
  <2>2. clock' = clock \/ clock' = clock + 1
    BY DEF Next, Saving, Serving, BeginSave, Begin, Upsert, UpdateRow, ReadNumber,
           InsertVersion, Commit, Fail, Delete, Arrive, Attempt, FailOver, Refuse, Log,
           SetRequest, Tick, vars
  <2>3. QED
    BY <2>1, <2>2
<1>3. ASSUME NEW q, NEW id \in Offers(q, m, clock), q \in Providers \cup {ANY}
      PROVE  id \in Offers(q, m, clock)'
  <2>1. id \in Ids /\ pricing[id].active /\ pricing[id].name \in Names
    BY <1>3 DEF Offers, Names
  <2>2. Exists(id)
    BY <2>1, NullApart DEF Exists
  <2>3. pricing'[id].name = pricing[id].name /\ pricing'[id].active
    BY <2>1, <2>2 DEF Renamed, Withdrew
  <2>4. QED
    BY <1>1, <1>2, <2>1, <2>3, OfferKept
<1>4. ASSUME NEW q, NEW id \in Offers(q, m, clock)' PROVE Effective(id, clock)' # {}
  BY DEF Offers
<1>5. CASE Offers(p, m, clock) # {}
  <2>1. PICK id : id \in Offers(p, m, clock)'
    BY <1>3, <1>5
  <2>2. QED
    BY <1>4, <2>1 DEF InForce
<1>6. CASE Offers(p, m, clock) = {}
  <2>1. PICK id : id \in Offers(ANY, m, clock)
    BY <1>6 DEF InForce
  <2>2. id \in Offers(ANY, m, clock)'
    BY <1>3, <2>1
  <2>3. QED
    BY <1>4, <2>2 DEF InForce
<1>7. QED
  BY <1>5, <1>6

(* SaveKeepsPriced: a model that has a price in force keeps one, whatever   *)
(* is saved and for whatever time, unless a pricing is renamed or withdrawn.*)
THEOREM PricingSaveKeepsPriced == Spec => SaveKeepsPriced
<1> DEFINE Kept == \A p \in Providers, m \in Models :
                     InForce(p, m, clock) # {} /\ InForce(p, m, clock)' = {}
                       => Renamed \/ Withdrew
<1>1. Inv /\ Bounded /\ [Next]_vars => Bounded'
  BY Step, BoundedStep DEF Inv, BookInv
<1>2. Spec => []Bounded
  BY <1>1, BoundedInit, PricingInvariant, PTL DEF Spec
<1>3. Inv /\ Inv' /\ Bounded' /\ [Next]_vars => [Kept]_vars
  BY Step, KeepsPriced
<1>4. QED
  BY <1>2, <1>3, PricingInvariant, PTL DEF Spec, SaveKeepsPriced
=============================================================================
