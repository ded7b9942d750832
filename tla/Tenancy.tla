------------------------------ MODULE Tenancy -------------------------------
(***************************************************************************)
(* Organisations, their projects and the projects' API keys, created,      *)
(* edited and deleted by administrators while requests are under way.  The *)
(* tables are held together by foreign keys: what a DELETE takes with it   *)
(* and what it is refused for follows from them.  A request holds a copy of*)
(* its key from the look-up on until its request_logs row is inserted, and *)
(* create_key reads the project's organisation in one statement and inserts*)
(* the key in another; everything else is one statement or one transaction.*)
(*                                                                         *)
(* Ids are UUIDs: none is used twice.  Balances are in Metering and        *)
(* ChargeTx; names and slugs are left out.                                 *)
(***************************************************************************)
EXTENDS Integers, FiniteSets

CONSTANTS Orgs, Projects, Keys,   \* ids, one set per table
          Logs,                   \* requests, by the id of their log row
          NULL

ASSUME TenancyAssumption ==
  /\ Orgs \cap Projects = {} /\ (Orgs \cup Projects) \cap Keys = {}
  /\ (Orgs \cup Projects \cup Keys) \cap Logs = {}
  /\ NULL \notin Orgs \cup Projects \cup Keys \cup Logs

VARIABLES rows,         \* the rows of the four tables, see Row
          used,         \* ids that are or were in use
          creating,     \* create_key between its two statements
          request       \* what each request has read of its key

vars == <<rows, used, creating, request>>

(* A row and what it refers to; active is is_active.                        *)
OrgRow == [id : Orgs, org : {NULL}, project : {NULL}, key : {NULL}, active : BOOLEAN]
ProjectRow == [id : Projects, org : Orgs, project : {NULL}, key : {NULL},
               active : BOOLEAN]
KeyRow == [id : Keys, org : Orgs, project : Projects, key : {NULL}, active : {TRUE}]
LogRow == [id : Logs, org : Orgs, project : Projects, key : Keys, active : {TRUE}]
Row == OrgRow \cup ProjectRow \cup KeyRow \cup LogRow

TypeOK ==
  /\ rows \subseteq Row
  /\ \A a, b \in rows : a.id = b.id => a = b
  /\ used \subseteq Orgs \cup Projects \cup Keys \cup Logs
  /\ {r.id : r \in rows} \subseteq used
  /\ creating \in [Keys -> [org : Orgs, project : Projects] \cup {NULL}]
  /\ request \in [Logs -> KeyRow \cup {NULL}]

Init ==
  /\ rows = {} /\ used = {}
  /\ creating = [k \in Keys |-> NULL]
  /\ request = [l \in Logs |-> NULL]

-----------------------------------------------------------------------------
Ids == {r.id : r \in rows}
Fresh(id) == id \notin used
Use(ids) == used' = used \cup ids

OfOrg(id, active) ==
  [id |-> id, org |-> NULL, project |-> NULL, key |-> NULL, active |-> active]
OfProject(id, o, active) ==
  [id |-> id, org |-> o, project |-> NULL, key |-> NULL, active |-> active]
OfKey(id, o, p) ==
  [id |-> id, org |-> o, project |-> p, key |-> NULL, active |-> TRUE]

OfLog(id, k) ==
  [id |-> id, org |-> k.org, project |-> k.project, key |-> k.id, active |-> TRUE]

CascadesToLogs(child, id) == id \in {child.org, child.project, child.key}

(* Projects and keys go with what they belong to (ON DELETE CASCADE).       *)
Cascades(child, id) ==
  child.id \notin Logs /\ (child.org = id \/ child.project = id)

(* request_logs.org_id and api_key_id have no ON DELETE; project_id is no   *)
(* foreign key at all.                                                      *)
Restricts(child, id) == child.id \in Logs /\ (child.org = id \/ child.key = id)

(* The rows a DELETE of one row takes with it.                              *)
TakenWith(S) == S \cup {r \in rows : \E s \in S : Cascades(r, s.id)}
Gone(id) == TakenWith(TakenWith({r \in rows : r.id = id}))

Refused(id) == \E r \in rows \ Gone(id) : \E g \in Gone(id) : Restricts(r, g.id)

(* DELETE FROM ... WHERE id = $1.                                           *)
Delete(id) ==
  /\ id \in Ids
  /\ rows' = IF Refused(id) THEN rows ELSE rows \ Gone(id)
  /\ UNCHANGED <<used, creating, request>>

-----------------------------------------------------------------------------
(* The organisation and its default project, in one transaction. *)
CreateOrg(o, p) ==
  /\ Fresh(o) /\ Fresh(p)
  /\ rows' = rows \cup {OfOrg(o, TRUE), OfProject(p, o, TRUE)}
  /\ Use({o, p})
  /\ UNCHANGED <<creating, request>>

Update(id, active) ==
  /\ rows' = {IF r.id = id THEN [r EXCEPT !.active = active] ELSE r : r \in rows}
  /\ UNCHANGED <<used, creating, request>>

UpdateOrg(o, active) == o \in Ids /\ Update(o, active)

DeleteOrg(o) == Delete(o)

CreateProject(o, p) ==
  /\ o \in Ids /\ Fresh(p)
  /\ rows' = rows \cup {OfProject(p, o, TRUE)}
  /\ Use({p})
  /\ UNCHANGED <<creating, request>>

UpdateProject(p, active) == p \in Ids /\ Update(p, active)

DeleteProject(p) == Delete(p)

(* create_key: SELECT p.org_id, o.slug FROM projects p JOIN organizations.  *)
BeginKey(k, p) ==
  /\ Fresh(k)
  /\ \E r \in rows : r.id = p /\ creating' = [creating EXCEPT ![k] =
                                               [org |-> r.org, project |-> p]]
  /\ Use({k})
  /\ UNCHANGED <<rows, request>>

Unchecked(c) == TRUE

(* The foreign keys of a new key's row. *)
KeyRefsExist(c) == c.org \in Ids /\ c.project \in Ids

(* create_key: INSERT INTO api_keys; it fails when a reference is gone.     *)
InsertKey(k) ==
  /\ creating[k] # NULL
  /\ rows' = IF KeyRefsExist(creating[k])
             THEN rows \cup {OfKey(k, creating[k].org, creating[k].project)}
             ELSE rows
  /\ creating' = [creating EXCEPT ![k] = NULL]
  /\ UNCHANGED <<used, request>>

DeleteKey(k) == Delete(k)

-----------------------------------------------------------------------------
(* find_api_key_by_hash: an active key of an active organisation, whatever  *)
(* the state of its project.                                                *)
LookUp(l) ==
  /\ Fresh(l) /\ Use({l})
  /\ \E k \in rows, o \in rows :
       /\ k.id \in Keys /\ k.active
       /\ o.id = k.org /\ o.active
       /\ request' = [request EXCEPT ![l] = k]
  /\ UNCHANGED <<rows, creating>>

NoKeyCheck(k) == k.org \in Ids

(* The foreign keys of a new log row; the project is not one of them.       *)
LogRefsExist(k) == k.org \in Ids /\ k.id \in Ids

(* The row is inserted when the request is over; it fails, and the request  *)
(* is neither logged nor charged, when its key is gone.                     *)
InsertLog(l) ==
  /\ request[l] # NULL
  /\ rows' = IF LogRefsExist(request[l]) THEN rows \cup {OfLog(l, request[l])}
                                         ELSE rows
  /\ request' = [request EXCEPT ![l] = NULL]
  /\ UNCHANGED <<used, creating>>

(* The request ends without a row, or the process dies. *)
Drop(l) ==
  /\ request[l] # NULL
  /\ request' = [request EXCEPT ![l] = NULL]
  /\ UNCHANGED <<rows, used, creating>>

Admin ==
  \/ \E o \in Orgs : \/ \E p \in Projects : CreateOrg(o, p) \/ CreateProject(o, p)
                     \/ \E active \in BOOLEAN : UpdateOrg(o, active)
                     \/ DeleteOrg(o)
  \/ \E p \in Projects : \/ \E active \in BOOLEAN : UpdateProject(p, active)
                         \/ DeleteProject(p)
  \/ \E k \in Keys : (\E p \in Projects : BeginKey(k, p)) \/ InsertKey(k) \/ DeleteKey(k)

Next == Admin \/ \E l \in Logs : LookUp(l) \/ InsertLog(l) \/ Drop(l)

Spec == Init /\ [][Next]_vars

-----------------------------------------------------------------------------
(***************************************************************************)
(* LogsAttributed: the project a logged request is attributed to exists, is*)
(* its key's and is its organisation's, although request_logs.project_id is*)
(* no foreign key: statistics and invoices by project leave no request out.*)
(***************************************************************************)
LogsAttributed ==
  \A l \in rows : l.id \in Logs =>
    \E k, p, o \in rows :
      /\ k.id = l.key /\ p.id = l.project /\ o.id = l.org
      /\ k.project = p.id /\ k.org = o.id /\ p.org = o.id

(***************************************************************************)
(* KeysOwned: a key's project exists and is one of the key's organisation, *)
(* whatever was deleted between the two statements of create_key: no key is*)
(* left that bills an organisation for another one's project.              *)
(***************************************************************************)
KeysOwned ==
  \A k \in rows : k.id \in Keys =>
    \E p, o \in rows : p.id = k.project /\ o.id = k.org /\ p.org = o.id

(***************************************************************************)
(* HistoryKept: no deletion, however far it cascades, takes a logged       *)
(* request with it.                                                        *)
(***************************************************************************)
HistoryKept ==
  [][\A l \in rows : l.id \in Logs => l \in rows']_vars
=============================================================================
