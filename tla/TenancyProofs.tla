--------------------------- MODULE TenancyProofs ----------------------------
(***************************************************************************)
(* Proofs about Tenancy, for any number of organisations, projects, keys   *)
(* and requests.  LogsAttributed is not inductive: it rests on what keys   *)
(* and projects refer to (KeysOwned, ProjectsOwned) and on what create_key *)
(* and a request still know of rows that may be gone (CreatingInv,         *)
(* RequestInv), which in turn need that no id is used twice.               *)
(***************************************************************************)
EXTENDS Tenancy, TLAPS

ProjectsOwned ==
  \A p \in rows : p.id \in Projects => \E o \in rows : o.id = p.org

(* What create_key has read of the project is still so if the project is    *)
(* still there, and its new id is its own: no request holds it yet.         *)
CreatingInv ==
  \A k \in Keys : creating[k] # NULL =>
    /\ k \in used \ Ids
    /\ \A l \in Logs : request[l] # NULL => request[l].id # k
    /\ creating[k].project \in used
    /\ \A r \in rows : r.id = creating[k].project => r.org = creating[k].org

(* A request's copy of its key is the key's row, if it is still there.      *)
RequestInv ==
  \A l \in Logs : request[l] # NULL =>
    /\ l \in used \ Ids
    /\ request[l].id \in used
    /\ \A r \in rows : r.id = request[l].id => r = request[l]

Inv ==
  /\ TypeOK /\ ProjectsOwned /\ KeysOwned /\ LogsAttributed
  /\ CreatingInv /\ RequestInv

-----------------------------------------------------------------------------
(* What a row's id says of the row. *)

LEMMA Tables ==
  ASSUME NEW r \in Row
  PROVE  /\ r.id \in Orgs => r \in OrgRow
         /\ r.id \in Projects => r \in ProjectRow
         /\ r.id \in Keys => r \in KeyRow
         /\ r.id \in Logs => r \in LogRow
         /\ r.id \in Orgs \cup Projects \cup Keys \cup Logs
BY TenancyAssumption DEF Row, OrgRow, ProjectRow, KeyRow, LogRow

\* Only projects and keys go with another row, and what they refer to.
LEMMA CascadeCases ==
  ASSUME NEW r \in Row, NEW id \in Orgs \cup Projects \cup Keys \cup Logs,
         Cascades(r, id)
  PROVE  \/ r \in ProjectRow /\ id \in Orgs /\ r.org = id
         \/ r \in KeyRow /\ id \in Orgs /\ r.org = id
         \/ r \in KeyRow /\ id \in Projects /\ r.project = id
<1>1. r.id \notin Logs /\ (r.org = id \/ r.project = id)
  BY DEF Cascades
<1>2. id # NULL
  BY TenancyAssumption
<1>3. r \in OrgRow \/ r \in ProjectRow \/ r \in KeyRow \/ r \in LogRow
  BY DEF Row
<1>4. CASE r \in OrgRow
  BY <1>1, <1>2, <1>4 DEF OrgRow
<1>5. CASE r \in ProjectRow
  BY <1>1, <1>2, <1>5 DEF ProjectRow
<1>6. CASE r \in KeyRow
  BY <1>1, <1>6 DEF KeyRow
<1>7. CASE r \in LogRow
  BY <1>1, <1>7 DEF LogRow
<1>8. QED
  BY <1>3, <1>4, <1>5, <1>6, <1>7

-----------------------------------------------------------------------------
(* What a DELETE takes. *)

\* Two rounds are enough: what refers to a row that goes, by a cascading
\* foreign key, goes too.
LEMMA GoneClosed ==
  ASSUME rows \subseteq Row, NEW id, NEW x \in Gone(id), NEW y \in rows,
         Cascades(y, x.id)
  PROVE  y \in Gone(id)
<1> DEFINE T0 == {r \in rows : r.id = id}
           T1 == TakenWith(T0)
<1>1. Gone(id) = TakenWith(T1)
  BY DEF Gone
<1>2. T1 = T0 \cup {r \in rows : \E s \in T0 : Cascades(r, s.id)}
  BY DEF TakenWith
<1>3. Gone(id) = T1 \cup {r \in rows : \E s \in T1 : Cascades(r, s.id)}
  BY <1>1 DEF TakenWith
<1>4. T0 \subseteq rows /\ T1 \subseteq rows
  BY <1>2
<1> HIDE DEF T0, T1
<1>5. CASE x \in T1
  BY <1>3, <1>5
<1>6. CASE x \notin T1
  <2>1. PICK s \in T1 : Cascades(x, s.id)
    BY <1>3, <1>6
  <2>2. x \in rows /\ s \in rows /\ x \in Row /\ s \in Row /\ y \in Row
    BY <1>3, <1>4
  <2>3. s \notin T0
    BY <1>2, <1>6, <2>1, <2>2
  <2>4. PICK t \in T0 : Cascades(s, t.id)
    BY <1>2, <2>3
  <2>5. t \in Row
    BY <1>4
  <2>6. s \in ProjectRow \/ s \in KeyRow
    BY <2>2, <2>4, <2>5, CascadeCases, Tables
  <2>7. s.id \notin Orgs
    BY <2>6, TenancyAssumption DEF ProjectRow, KeyRow
  <2>8. x \in KeyRow
    BY <2>1, <2>2, <2>7, CascadeCases, Tables
  <2>9. x.id \notin Orgs \cup Projects
    BY <2>8, TenancyAssumption DEF KeyRow
  <2>10. QED
    BY <2>2, <2>9, CascadeCases, Tables
<1>7. QED
  BY <1>5, <1>6

\* A DELETE takes no log row, unless it is the one named.
LEMMA GoneNoLogs ==
  ASSUME rows \subseteq Row, NEW id, id \notin Logs, NEW x \in Gone(id)
  PROVE  x.id \notin Logs
<1>1. x.id = id \/ \E s : Cascades(x, s)
  BY DEF Gone, TakenWith
<1>2. QED
  BY <1>1 DEF Cascades

LEMMA GoneRows == ASSUME NEW id PROVE Gone(id) \subseteq rows
BY DEF Gone, TakenWith

-----------------------------------------------------------------------------
(* The invariant. *)

LEMMA InvInit == Init => Inv
BY DEF Init, Inv, TypeOK, ProjectsOwned, KeysOwned, LogsAttributed,
       CreatingInv, RequestInv, Ids

\* Rows that are only taken away disturb nothing that speaks of every row.
LEMMA FewerRows ==
  ASSUME TypeOK, CreatingInv, RequestInv, rows' \subseteq rows,
         UNCHANGED <<used, creating, request>>
  PROVE  TypeOK' /\ CreatingInv' /\ RequestInv'
<1>1. Ids' \subseteq Ids
  BY DEF Ids
<1>2. TypeOK'
  BY DEF TypeOK
<1>3. CreatingInv'
  BY <1>1 DEF CreatingInv
<1>4. RequestInv'
  BY <1>1 DEF RequestInv
<1>5. QED
  BY <1>2, <1>3, <1>4

LEMMA DeleteKeepsInv ==
  ASSUME Inv, NEW id, Delete(id)
  PROVE  Inv'
<1> rows \subseteq Row /\ \A a, b \in rows : a.id = b.id => a = b
  BY DEF Inv, TypeOK
<1>1. rows' = rows \/ (~Refused(id) /\ rows' = rows \ Gone(id))
  BY DEF Delete
<1>2. TypeOK' /\ CreatingInv' /\ RequestInv'
  BY <1>1, FewerRows DEF Inv, Delete
<1>3. CASE rows' = rows
  BY <1>2, <1>3 DEF Inv, ProjectsOwned, KeysOwned, LogsAttributed
<1>4. CASE ~Refused(id) /\ rows' = rows \ Gone(id)
  <2>1. ProjectsOwned'
    <3> SUFFICES ASSUME NEW p \in rows', p.id \in Projects
                 PROVE  \E o \in rows' : o.id = p.org
      BY DEF ProjectsOwned
    <3>1. p \in rows /\ p \notin Gone(id)
      BY <1>4
    <3>2. PICK o \in rows : o.id = p.org
      BY <3>1 DEF Inv, ProjectsOwned
    <3>3. Cascades(p, o.id)
      BY <3>2, TenancyAssumption DEF Cascades
    <3>4. o \notin Gone(id)
      BY <3>1, <3>3, GoneClosed
    <3>5. QED
      BY <1>4, <3>2, <3>4
  <2>2. KeysOwned'
    <3> SUFFICES ASSUME NEW k \in rows', k.id \in Keys
                 PROVE  \E p, o \in rows' :
                          p.id = k.project /\ o.id = k.org /\ p.org = o.id
      BY DEF KeysOwned
    <3>1. k \in rows /\ k \notin Gone(id)
      BY <1>4
    <3>2. PICK p \in rows, o \in rows :
                 p.id = k.project /\ o.id = k.org /\ p.org = o.id
      BY <3>1 DEF Inv, KeysOwned
    <3>3. Cascades(k, o.id) /\ Cascades(k, p.id)
      BY <3>2, TenancyAssumption DEF Cascades
    <3>4. o \notin Gone(id) /\ p \notin Gone(id)
      BY <3>1, <3>3, GoneClosed
    <3>5. QED
      BY <1>4, <3>2, <3>4
  <2>3. LogsAttributed'
    <3> SUFFICES ASSUME NEW l \in rows', l.id \in Logs
                 PROVE  \E k, p, o \in rows' :
                          /\ k.id = l.key /\ p.id = l.project /\ o.id = l.org
                          /\ k.project = p.id /\ k.org = o.id /\ p.org = o.id
      BY DEF LogsAttributed
    <3>1. l \in rows \ Gone(id)
      BY <1>4
    <3>2. PICK k \in rows, p \in rows, o \in rows :
                 /\ k.id = l.key /\ p.id = l.project /\ o.id = l.org
                 /\ k.project = p.id /\ k.org = o.id /\ p.org = o.id
      BY <3>1 DEF Inv, LogsAttributed
    <3>3. k \notin Gone(id) /\ o \notin Gone(id)
      <4>1. Restricts(l, k.id) /\ Restricts(l, o.id)
        BY <3>2 DEF Restricts
      <4>2. QED
        BY <1>4, <3>1, <4>1 DEF Refused
    <3>4. k.id \notin Logs
      <4>1. l \in LogRow
        BY <3>1, Tables
      <4>2. QED
        BY <3>2, <4>1, TenancyAssumption DEF LogRow
    <3>5. Cascades(k, p.id)
      BY <3>2, <3>4 DEF Cascades
    <3>6. p \notin Gone(id)
      BY <3>3, <3>5, GoneClosed
    <3>7. QED
      BY <1>4, <3>2, <3>3, <3>6
  <2>4. QED
    BY <1>2, <2>1, <2>2, <2>3 DEF Inv
<1>5. QED
  BY <1>1, <1>3, <1>4

LEMMA CreateOrgKeepsInv ==
  ASSUME Inv, NEW o \in Orgs, NEW p \in Projects, CreateOrg(o, p)
  PROVE  Inv'
<1> DEFINE a == OfOrg(o, TRUE)
           b == OfProject(p, o, TRUE)
<1>1. /\ a \in OrgRow /\ a.id = o
      /\ b \in ProjectRow /\ b.id = p /\ b.org = o
  BY DEF OfOrg, OfProject, OrgRow, ProjectRow
<1>2. /\ rows' = rows \cup {a, b} /\ used' = used \cup {o, p}
      /\ o \notin used /\ p \notin used /\ UNCHANGED <<creating, request>>
  BY DEF CreateOrg, Fresh, Use
<1>3. o # p /\ a \in Row /\ b \in Row
  BY <1>1, TenancyAssumption DEF Row
<1> HIDE DEF a, b
<1>4. TypeOK'
  BY <1>1, <1>2, <1>3 DEF Inv, TypeOK
<1>5. ProjectsOwned'
  BY <1>1, <1>2, TenancyAssumption DEF Inv, ProjectsOwned
<1>6. KeysOwned'
  BY <1>1, <1>2, TenancyAssumption DEF Inv, KeysOwned
<1>7. LogsAttributed'
  BY <1>1, <1>2, TenancyAssumption DEF Inv, LogsAttributed
<1>8. Ids' = Ids \cup {o, p}
  BY <1>1, <1>2 DEF Ids
<1>9. CreatingInv'
  BY <1>1, <1>2, <1>8 DEF Inv, CreatingInv
<1>10. RequestInv'
  BY <1>1, <1>2, <1>8 DEF Inv, RequestInv
<1>11. QED
  BY <1>4, <1>5, <1>6, <1>7, <1>9, <1>10 DEF Inv

LEMMA CreateProjectKeepsInv ==
  ASSUME Inv, NEW o \in Orgs, NEW p \in Projects, CreateProject(o, p)
  PROVE  Inv'
<1> DEFINE b == OfProject(p, o, TRUE)
<1>1. b \in ProjectRow /\ b.id = p /\ b.org = o
  BY DEF OfProject, ProjectRow
<1>2. /\ rows' = rows \cup {b} /\ used' = used \cup {p}
      /\ p \notin used /\ o \in Ids /\ UNCHANGED <<creating, request>>
  BY DEF CreateProject, Fresh, Use
<1>3. b \in Row
  BY <1>1 DEF Row
<1> HIDE DEF b
<1>4. TypeOK'
  BY <1>1, <1>2, <1>3 DEF Inv, TypeOK
<1>5. ProjectsOwned'
  BY <1>1, <1>2 DEF Inv, ProjectsOwned, Ids
<1>6. KeysOwned'
  BY <1>1, <1>2, TenancyAssumption DEF Inv, KeysOwned
<1>7. LogsAttributed'
  BY <1>1, <1>2, TenancyAssumption DEF Inv, LogsAttributed
<1>8. Ids' = Ids \cup {p}
  BY <1>1, <1>2 DEF Ids
<1>9. CreatingInv'
  BY <1>1, <1>2, <1>8 DEF Inv, CreatingInv
<1>10. RequestInv'
  BY <1>1, <1>2, <1>8 DEF Inv, RequestInv
<1>11. QED
  BY <1>4, <1>5, <1>6, <1>7, <1>9, <1>10 DEF Inv

\* is_active is no reference: rows keep their ids and what they refer to.
LEMMA UpdateKeepsInv ==
  ASSUME Inv, NEW id \in Orgs \cup Projects, NEW active \in BOOLEAN, Update(id, active)
  PROVE  Inv'
<1> DEFINE up(r) == IF r.id = id THEN [r EXCEPT !.active = active] ELSE r
<1>1. rows' = {up(r) : r \in rows} /\ UNCHANGED <<used, creating, request>>
  BY DEF Update
<1>2. ASSUME NEW r \in rows
      PROVE  /\ up(r) \in Row
             /\ up(r).id = r.id /\ up(r).org = r.org
             /\ up(r).project = r.project /\ up(r).key = r.key
             /\ r.id # id => up(r) = r
  <2>1. r \in Row
    BY DEF Inv, TypeOK
  <2>2. CASE r.id # id
    BY <2>1, <2>2
  <2>3. CASE r.id = id /\ id \in Orgs
    <3>1. r \in OrgRow
      BY <2>1, <2>3, Tables
    <3>2. QED
      BY <2>3, <3>1 DEF Row, OrgRow
  <2>4. CASE r.id = id /\ id \in Projects
    <3>1. r \in ProjectRow
      BY <2>1, <2>4, Tables
    <3>2. QED
      BY <2>4, <3>1 DEF Row, ProjectRow
  <2>5. QED
    BY <2>2, <2>3, <2>4
<1> HIDE DEF up
<1>3. Ids' = Ids
  BY <1>1, <1>2 DEF Ids
<1>4. TypeOK'
  <2>1. rows' \subseteq Row
    BY <1>1, <1>2
  <2>2. \A a, b \in rows' : a.id = b.id => a = b
    BY <1>1, <1>2 DEF Inv, TypeOK
  <2>3. {r.id : r \in rows'} \subseteq used'
    BY <1>1, <1>3 DEF Inv, TypeOK, Ids
  <2>4. QED
    BY <1>1, <2>1, <2>2, <2>3 DEF Inv, TypeOK
<1>5. ProjectsOwned'
  BY <1>1, <1>2 DEF Inv, ProjectsOwned
<1>6. KeysOwned'
  <2> SUFFICES ASSUME NEW k \in rows, k.id \in Keys
               PROVE  \E p, o \in rows' :
                        p.id = k.project /\ o.id = k.org /\ p.org = o.id
    BY <1>1, <1>2 DEF KeysOwned
  <2>1. PICK p \in rows, o \in rows : p.id = k.project /\ o.id = k.org /\ p.org = o.id
    BY DEF Inv, KeysOwned
  <2>2. up(p) \in rows' /\ up(o) \in rows'
    BY <1>1
  <2>3. QED
    BY <1>2, <2>1, <2>2
<1>7. LogsAttributed'
  <2> SUFFICES ASSUME NEW l \in rows, l.id \in Logs
               PROVE  \E k, p, o \in rows' :
                        /\ k.id = l.key /\ p.id = l.project /\ o.id = l.org
                        /\ k.project = p.id /\ k.org = o.id /\ p.org = o.id
    BY <1>1, <1>2 DEF LogsAttributed
  <2>1. PICK k \in rows, p \in rows, o \in rows :
               /\ k.id = l.key /\ p.id = l.project /\ o.id = l.org
               /\ k.project = p.id /\ k.org = o.id /\ p.org = o.id
    BY DEF Inv, LogsAttributed
  <2>2. up(k) \in rows' /\ up(p) \in rows' /\ up(o) \in rows'
    BY <1>1
  <2>3. QED
    BY <1>2, <2>1, <2>2
<1>8. CreatingInv'
  BY <1>1, <1>2, <1>3 DEF Inv, CreatingInv
<1>9. RequestInv'
  <2> SUFFICES ASSUME NEW l \in Logs, request[l] # NULL
               PROVE  /\ l \in used \ Ids /\ request[l].id \in used
                      /\ \A r \in rows' : r.id = request[l].id => r = request[l]
    BY <1>1, <1>3 DEF RequestInv
  <2>1. request[l] \in KeyRow
    BY DEF Inv, TypeOK
  <2>2. request[l].id # id
    BY <2>1, TenancyAssumption DEF KeyRow
  <2>3. QED
    BY <1>1, <1>2, <2>2 DEF Inv, RequestInv
<1>10. QED
  BY <1>4, <1>5, <1>6, <1>7, <1>8, <1>9 DEF Inv

LEMMA BeginKeyKeepsInv ==
  ASSUME Inv, NEW k \in Keys, NEW p \in Projects, BeginKey(k, p)
  PROVE  Inv'
<1>1. PICK r \in rows : r.id = p /\ creating' = [creating EXCEPT ![k] =
                                               [org |-> r.org, project |-> p]]
  BY DEF BeginKey
<1>2. /\ k \notin used /\ used' = used \cup {k} /\ UNCHANGED <<rows, request>>
  BY DEF BeginKey, Fresh, Use
<1>3. r.org \in Orgs
  <2>1. r \in ProjectRow
    BY <1>1, Tables DEF Inv, TypeOK
  <2>2. QED
    BY <2>1 DEF ProjectRow
<1>4. TypeOK'
  BY <1>1, <1>2, <1>3 DEF Inv, TypeOK
<1>5. ProjectsOwned' /\ KeysOwned' /\ LogsAttributed'
  BY <1>2 DEF Inv, ProjectsOwned, KeysOwned, LogsAttributed
<1>6. Ids' = Ids /\ Ids \subseteq used
  BY <1>2 DEF Ids, Inv, TypeOK
<1>7. CreatingInv'
  <2> SUFFICES ASSUME NEW j \in Keys, creating'[j] # NULL
               PROVE  /\ j \in used' \ Ids
                      /\ \A l \in Logs : request[l] # NULL => request[l].id # j
                      /\ creating'[j].project \in used'
                      /\ \A s \in rows : s.id = creating'[j].project =>
                                        s.org = creating'[j].org
    BY <1>2, <1>6 DEF CreatingInv
  <2>1. CASE j # k
    BY <1>1, <1>2, <2>1 DEF Inv, CreatingInv, TypeOK
  <2>2. CASE j = k
    <3>1. creating'[k] = [org |-> r.org, project |-> p]
      BY <1>1 DEF Inv, TypeOK
    <3>2. \A s \in rows : s.id = p => s = r
      BY <1>1 DEF Inv, TypeOK
    <3>3. p \in used
      BY <1>1, <1>6 DEF Ids
    <3>4. \A l \in Logs : request[l] # NULL => request[l].id # k
      BY <1>2 DEF Inv, RequestInv
    <3>5. QED
      BY <1>2, <1>6, <2>2, <3>1, <3>2, <3>3, <3>4
  <2>3. QED
    BY <2>1, <2>2
<1>8. RequestInv'
  BY <1>2, <1>6 DEF Inv, RequestInv
<1>9. QED
  BY <1>4, <1>5, <1>7, <1>8 DEF Inv

\* The foreign keys see to it that the project is still there, and then its
\* organisation is the one that was read.
LEMMA InsertKeyKeepsInv ==
  ASSUME Inv, NEW k \in Keys, InsertKey(k)
  PROVE  Inv'
<1> DEFINE c == creating[k]
           new == OfKey(k, c.org, c.project)
<1>1. /\ c # NULL /\ creating' = [creating EXCEPT ![k] = NULL]
      /\ UNCHANGED <<used, request>>
      /\ rows' = IF KeyRefsExist(c) THEN rows \cup {new} ELSE rows
  BY DEF InsertKey
<1>2. c \in [org : Orgs, project : Projects]
  BY <1>1 DEF Inv, TypeOK
<1>3. /\ new \in KeyRow /\ new.id = k
      /\ new.org = c.org /\ new.project = c.project
  BY <1>2 DEF OfKey, KeyRow
<1>4. /\ k \in used \ Ids
      /\ \A l \in Logs : request[l] # NULL => request[l].id # k
      /\ \A r \in rows : r.id = c.project => r.org = c.org
  BY <1>1 DEF Inv, CreatingInv
<1>5. \A j \in Keys : creating'[j] # NULL => j # k /\ creating'[j] = creating[j]
  BY <1>1 DEF Inv, TypeOK
<1>6. creating' \in [Keys -> [org : Orgs, project : Projects] \cup {NULL}]
  BY <1>1 DEF Inv, TypeOK
<1> HIDE DEF c, new
<1>7. CASE ~KeyRefsExist(c)
  <2>1. rows' = rows /\ Ids' = Ids
    BY <1>1, <1>7 DEF Ids
  <2>2. TypeOK' /\ ProjectsOwned' /\ KeysOwned' /\ LogsAttributed' /\ RequestInv'
    BY <1>1, <1>6, <2>1
       DEF Inv, TypeOK, ProjectsOwned, KeysOwned, LogsAttributed, RequestInv
  <2>3. CreatingInv'
    BY <1>1, <1>5, <2>1 DEF Inv, CreatingInv
  <2>4. QED
    BY <2>2, <2>3 DEF Inv
<1>8. CASE KeyRefsExist(c)
  <2>1. rows' = rows \cup {new} /\ Ids' = Ids \cup {k}
    BY <1>1, <1>3, <1>8 DEF Ids
  <2>2. TypeOK'
    BY <1>1, <1>3, <1>4, <1>6, <2>1 DEF Inv, TypeOK, Row, Ids
  <2>3. ProjectsOwned'
    BY <1>3, <2>1, TenancyAssumption DEF Inv, ProjectsOwned
  <2>4. \E p, o \in rows : p.id = c.project /\ o.id = c.org /\ p.org = o.id
    BY <1>4, <1>8 DEF KeyRefsExist, Ids
  <2>5. KeysOwned'
    BY <1>3, <2>1, <2>4 DEF Inv, KeysOwned
  <2>6. LogsAttributed'
    BY <1>3, <2>1, TenancyAssumption DEF Inv, LogsAttributed
  <2>7. CreatingInv'
    <3> SUFFICES ASSUME NEW j \in Keys, creating'[j] # NULL
                 PROVE  /\ j \in used' \ Ids'
                        /\ \A l \in Logs : request'[l] # NULL => request'[l].id # j
                        /\ creating'[j].project \in used'
                        /\ \A r \in rows' : r.id = creating'[j].project =>
                                          r.org = creating'[j].org
      BY DEF CreatingInv
    <3>1. j # k /\ creating'[j] = creating[j] /\ creating'[j].project \in Projects
      BY <1>5, <1>6
    <3>2. k # creating'[j].project
      BY <3>1, TenancyAssumption
    <3>3. QED
      BY <1>1, <1>3, <2>1, <3>1, <3>2 DEF Inv, CreatingInv
  <2>8. RequestInv'
    <3> SUFFICES ASSUME NEW l \in Logs, request[l] # NULL
                 PROVE  /\ l \in used \ Ids' /\ request[l].id \in used
                        /\ \A r \in rows' : r.id = request[l].id => r = request[l]
      BY <1>1 DEF RequestInv
    <3>1. k # l /\ request[l].id # k
      BY <1>4, TenancyAssumption
    <3>2. QED
      BY <1>3, <2>1, <3>1 DEF Inv, RequestInv
  <2>9. QED
    BY <2>2, <2>3, <2>5, <2>6, <2>7, <2>8 DEF Inv
<1>9. QED
  BY <1>7, <1>8

LEMMA LookUpKeepsInv ==
  ASSUME Inv, NEW l \in Logs, LookUp(l)
  PROVE  Inv'
<1>1. PICK k \in rows : k.id \in Keys /\ request' = [request EXCEPT ![l] = k]
  BY DEF LookUp
<1>2. l \notin used /\ used' = used \cup {l} /\ UNCHANGED <<rows, creating>>
  BY DEF LookUp, Fresh, Use
<1>3. k \in KeyRow
  BY <1>1, Tables DEF Inv, TypeOK
<1>4. Ids' = Ids /\ Ids \subseteq used /\ k.id \in Ids
  BY <1>1, <1>2 DEF Ids, Inv, TypeOK
<1>5. TypeOK'
  BY <1>1, <1>2, <1>3 DEF Inv, TypeOK
<1>6. ProjectsOwned' /\ KeysOwned' /\ LogsAttributed'
  BY <1>2 DEF Inv, ProjectsOwned, KeysOwned, LogsAttributed
<1>7. \A m \in Logs : request'[m] = IF m = l THEN k ELSE request[m]
  BY <1>1 DEF Inv, TypeOK
<1>8. CreatingInv'
  BY <1>2, <1>4, <1>7 DEF Inv, CreatingInv
<1>9. RequestInv'
  <2> SUFFICES ASSUME NEW m \in Logs, request'[m] # NULL
               PROVE  /\ m \in used' \ Ids /\ request'[m].id \in used'
                      /\ \A r \in rows : r.id = request'[m].id => r = request'[m]
    BY <1>2, <1>4 DEF RequestInv
  <2>1. CASE m = l
    BY <1>2, <1>4, <1>7, <2>1 DEF Inv, TypeOK
  <2>2. CASE m # l
    BY <1>2, <1>4, <1>7, <2>2 DEF Inv, RequestInv
  <2>3. QED
    BY <2>1, <2>2
<1>10. QED
  BY <1>5, <1>6, <1>8, <1>9 DEF Inv

\* The key is still there, so the copy is its row: what holds of keys holds
\* of the new log row.
LEMMA InsertLogKeepsInv ==
  ASSUME Inv, NEW l \in Logs, InsertLog(l)
  PROVE  Inv'
<1> DEFINE k == request[l]
           new == OfLog(l, k)
<1>1. /\ k # NULL /\ request' = [request EXCEPT ![l] = NULL]
      /\ UNCHANGED <<used, creating>>
      /\ rows' = IF LogRefsExist(k) THEN rows \cup {new} ELSE rows
  BY DEF InsertLog
<1>2. k \in KeyRow
  BY <1>1 DEF Inv, TypeOK
<1>3. /\ new \in LogRow /\ new.id = l
      /\ new.org = k.org /\ new.project = k.project /\ new.key = k.id
  BY <1>2 DEF OfLog, LogRow, KeyRow
<1>4. l \in used \ Ids /\ \A r \in rows : r.id = k.id => r = k
  BY <1>1 DEF Inv, RequestInv
<1>5. \A m \in Logs : request'[m] # NULL => m # l /\ request'[m] = request[m]
  BY <1>1 DEF Inv, TypeOK
<1>6. request' \in [Logs -> KeyRow \cup {NULL}]
  BY <1>1 DEF Inv, TypeOK
<1> HIDE DEF k, new
<1>7. CASE ~LogRefsExist(k)
  <2>1. rows' = rows /\ Ids' = Ids
    BY <1>1, <1>7 DEF Ids
  <2>2. TypeOK' /\ ProjectsOwned' /\ KeysOwned' /\ LogsAttributed'
    BY <1>1, <1>6, <2>1 DEF Inv, TypeOK, ProjectsOwned, KeysOwned, LogsAttributed
  <2>3. CreatingInv' /\ RequestInv'
    BY <1>1, <1>5, <2>1 DEF Inv, CreatingInv, RequestInv
  <2>4. QED
    BY <2>2, <2>3 DEF Inv
<1>8. CASE LogRefsExist(k)
  <2>1. rows' = rows \cup {new} /\ Ids' = Ids \cup {l}
    BY <1>1, <1>3, <1>8 DEF Ids
  <2>2. TypeOK'
    BY <1>1, <1>3, <1>4, <1>6, <2>1 DEF Inv, TypeOK, Row, Ids
  <2>3. ProjectsOwned'
    BY <1>3, <2>1, TenancyAssumption DEF Inv, ProjectsOwned
  <2>4. KeysOwned'
    BY <1>3, <2>1, TenancyAssumption DEF Inv, KeysOwned
  <2>5. k \in rows /\ k.id \in Keys
    BY <1>2, <1>4, <1>8 DEF LogRefsExist, Ids, KeyRow
  <2>6. PICK p \in rows, o \in rows : p.id = k.project /\ o.id = k.org /\ p.org = o.id
    BY <2>5 DEF Inv, KeysOwned
  <2>7. LogsAttributed'
    <3> SUFFICES ASSUME NEW m \in rows', m.id \in Logs
                 PROVE  \E j, p1, o1 \in rows' :
                          /\ j.id = m.key /\ p1.id = m.project /\ o1.id = m.org
                          /\ j.project = p1.id /\ j.org = o1.id /\ p1.org = o1.id
      BY DEF LogsAttributed
    <3>1. CASE m \in rows
      BY <2>1, <3>1 DEF Inv, LogsAttributed
    <3>2. CASE m = new
      BY <1>3, <2>1, <2>5, <2>6, <3>2
    <3>3. QED
      BY <2>1, <3>1, <3>2
  <2>8. CreatingInv'
    <3> SUFFICES ASSUME NEW j \in Keys, creating[j] # NULL
                 PROVE  /\ j \in used \ Ids'
                        /\ \A m \in Logs : request'[m] # NULL => request'[m].id # j
                        /\ creating[j].project \in used
                        /\ \A r \in rows' : r.id = creating[j].project =>
                                          r.org = creating[j].org
      BY <1>1 DEF CreatingInv
    <3>1. j # l /\ creating[j].project # l
      BY TenancyAssumption DEF Inv, TypeOK
    <3>2. QED
      BY <1>3, <1>5, <2>1, <3>1 DEF Inv, CreatingInv
  <2>9. RequestInv'
    <3> SUFFICES ASSUME NEW m \in Logs, request'[m] # NULL
                 PROVE  /\ m \in used \ Ids' /\ request'[m].id \in used
                        /\ \A r \in rows' : r.id = request'[m].id => r = request'[m]
      BY <1>1 DEF RequestInv
    <3>1. m # l /\ request'[m] = request[m]
      BY <1>5
    <3>2. request[m].id # l
      BY <3>1, TenancyAssumption DEF Inv, TypeOK, KeyRow
    <3>3. QED
      BY <1>3, <2>1, <3>1, <3>2 DEF Inv, RequestInv
  <2>10. QED
    BY <2>2, <2>3, <2>4, <2>7, <2>8, <2>9 DEF Inv
<1>9. QED
  BY <1>7, <1>8

LEMMA DropKeepsInv ==
  ASSUME Inv, NEW l \in Logs, Drop(l)
  PROVE  Inv'
<1>1. /\ request' = [request EXCEPT ![l] = NULL]
      /\ UNCHANGED <<rows, used, creating>>
  BY DEF Drop
<1>2. \A m \in Logs : request'[m] # NULL => m # l /\ request'[m] = request[m]
  BY <1>1 DEF Inv, TypeOK
<1>3. Ids' = Ids
  BY <1>1 DEF Ids
<1>4. TypeOK' /\ ProjectsOwned' /\ KeysOwned' /\ LogsAttributed'
  BY <1>1 DEF Inv, TypeOK, ProjectsOwned, KeysOwned, LogsAttributed
<1>5. CreatingInv' /\ RequestInv'
  BY <1>1, <1>2, <1>3 DEF Inv, CreatingInv, RequestInv
<1>6. QED
  BY <1>4, <1>5 DEF Inv

LEMMA InvNext == Inv /\ [Next]_vars => Inv'
<1> SUFFICES ASSUME Inv, [Next]_vars PROVE Inv'
  OBVIOUS
<1>1. CASE UNCHANGED vars
  BY <1>1 DEF vars, Inv, TypeOK, ProjectsOwned, KeysOwned, LogsAttributed,
              CreatingInv, RequestInv, Ids
<1>2. ASSUME NEW o \in Orgs, NEW p \in Projects, CreateOrg(o, p) \/ CreateProject(o, p)
      PROVE  Inv'
  BY <1>2, CreateOrgKeepsInv, CreateProjectKeepsInv
<1>3. ASSUME NEW id \in Orgs \cup Projects, NEW active \in BOOLEAN,
             UpdateOrg(id, active) \/ UpdateProject(id, active)
      PROVE  Inv'
  BY <1>3, UpdateKeepsInv DEF UpdateOrg, UpdateProject
<1>4. ASSUME NEW id, DeleteOrg(id) \/ DeleteProject(id) \/ DeleteKey(id)
      PROVE  Inv'
  BY <1>4, DeleteKeepsInv DEF DeleteOrg, DeleteProject, DeleteKey
<1>5. ASSUME NEW k \in Keys, (\E p \in Projects : BeginKey(k, p)) \/ InsertKey(k)
      PROVE  Inv'
  BY <1>5, BeginKeyKeepsInv, InsertKeyKeepsInv
<1>6. ASSUME NEW l \in Logs, LookUp(l) \/ InsertLog(l) \/ Drop(l)
      PROVE  Inv'
  BY <1>6, LookUpKeepsInv, InsertLogKeepsInv, DropKeepsInv
<1>7. QED
  BY <1>1, <1>2, <1>3, <1>4, <1>5, <1>6 DEF Next, Admin

LEMMA TenancyInvariant == Spec => []Inv
BY InvInit, InvNext, PTL DEF Spec

-----------------------------------------------------------------------------
(* Every variable keeps its type, whatever is created and deleted. *)
THEOREM TenancyTypeCorrect == Spec => []TypeOK
<1>1. Inv => TypeOK
  BY DEF Inv
<1>2. QED
  BY <1>1, TenancyInvariant, PTL

(* A key bills the organisation its project belongs to, although create_key *)
(* reads the project and inserts the key in two statements.                 *)
THEOREM TenancyKeysOwned == Spec => []KeysOwned
<1>1. Inv => KeysOwned
  BY DEF Inv
<1>2. QED
  BY <1>1, TenancyInvariant, PTL

(* A logged request's project exists and is its organisation's, although   *)
(* request_logs.project_id is no foreign key.                               *)
THEOREM TenancyLogsAttributed == Spec => []LogsAttributed
<1>1. Inv => LogsAttributed
  BY DEF Inv
<1>2. QED
  BY <1>1, TenancyInvariant, PTL

(* No step takes a logged request away, however far a deletion cascades.    *)
THEOREM TenancyHistoryKept == Spec => HistoryKept
<1>1. ASSUME Inv, [Next]_vars, NEW l \in rows, l.id \in Logs
      PROVE  l \in rows'
  <2>1. rows \subseteq Row
    BY <1>1 DEF Inv, TypeOK
  <2>2. CASE rows \subseteq rows'
    BY <1>1, <2>2
  <2>3. ASSUME NEW id \in Orgs \cup Projects \cup Keys, Delete(id)
        PROVE  l \in rows'
    <3>1. id \notin Logs
      BY TenancyAssumption
    <3>2. l \notin Gone(id)
      BY <1>1, <2>1, <3>1, GoneNoLogs
    <3>3. QED
      BY <1>1, <2>3, <3>2 DEF Delete
  <2>4. ASSUME NEW id \in Orgs \cup Projects, NEW active, Update(id, active)
        PROVE  l \in rows'
    <3>1. l.id # id
      BY <1>1, TenancyAssumption
    <3>2. QED
      BY <1>1, <2>4, <3>1 DEF Update
  <2>5. CASE UNCHANGED vars
    BY <1>1, <2>5 DEF vars
  <2>6. CASE Next
    <3>1. \/ rows \subseteq rows'
          \/ \E id \in Orgs \cup Projects \cup Keys : Delete(id)
          \/ \E id \in Orgs \cup Projects, active \in BOOLEAN : Update(id, active)
      BY <2>6 DEF Next, Admin, CreateOrg, CreateProject, UpdateOrg, UpdateProject,
                  DeleteOrg, DeleteProject, DeleteKey, BeginKey, InsertKey,
                  LookUp, InsertLog, Drop
    <3>2. QED
      BY <2>2, <2>3, <2>4, <3>1
  <2>7. QED
    BY <1>1, <2>5, <2>6
<1>2. Inv /\ [Next]_vars => [\A l \in rows : l.id \in Logs => l \in rows']_vars
  BY <1>1
<1>3. QED
  BY <1>2, TenancyInvariant, PTL DEF Spec, HistoryKept
=============================================================================
