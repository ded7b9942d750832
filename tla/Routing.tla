------------------------------ MODULE Routing ------------------------------
(***************************************************************************)
(* How one request finds its upstream: it takes a snapshot of the model    *)
(* configs that serve its model, ordered by priority, decides once whether *)
(* its body is compressed, and tries the configs one after the other, those*)
(* that need a price and have none left out, until one answers.            *)
(* Administrators edit configs, prices and the compression setting at any  *)
(* time.                                                                   *)
(*                                                                         *)
(* The credit gate before it, the request_logs rows and the charge are in  *)
(* Metering, the answer's usage in Stream.  Requests share nothing here but*)
(* what administrators edit, so one request at a time is enough.           *)
(***************************************************************************)
EXTENDS Integers, Sequences, FiniteSets

CONSTANTS Configs,      \* ids of model_configs rows
          Settings,     \* the rows an administrator may write
          Requests,     \* the requests that may come
          MaxEdits,     \* bound: administrators' edits
          NULL          \* SQL NULL, and an absent header

Protocols == {"openai", "anthropic", "gemini"}

(* A model_configs row, of which matches stands for model_patterns: whether *)
(* they match the request's model.                                          *)
Setting == [priority : Int, protocol : Protocols, active : BOOLEAN,
            matches : BOOLEAN, compression : BOOLEAN \cup {NULL}]

(* A streaming request says so in its path to Gemini, else in its body.     *)
Request == {r \in [model : BOOLEAN, detected : Protocols,
                   header : {"none", "on", "off"}, inBody : BOOLEAN,
                   inPath : BOOLEAN, standard : BOOLEAN] :
              IF r.detected = "gemini" THEN ~r.inBody ELSE ~r.inPath}

ASSUME RoutingAssumption ==
  /\ IsFiniteSet(Configs)
  /\ Settings \subseteq Setting /\ Requests \subseteq Request
  /\ MaxEdits \in Nat

VARIABLES table,        \* model_configs
          priced,       \* the configs a price version is in force for
          global,       \* the global compression setting is on
          edits,        \* the number of edits so far
          pc, req,      \* where the request is, what it carries
          sent,         \* history: its upstream calls
          skipped       \* history: the configs it skipped without a call

vars == <<table, priced, global, edits, pc, req, sent, skipped>>

admin == <<table, priced, global, edits>>
history == <<sent, skipped>>

(* list is the configs' snapshot, with their ids in order; attempt counts   *)
(* from 1.                                                                  *)
Carried == [in : Requests, list : Seq(Configs), row : [Configs -> Setting \cup {NULL}],
            compressed : BOOLEAN, attempt : Nat]

(* A call is broken when its answer has a status but no readable body.      *)
Outcomes == {"unreachable", "error", "broken", "ok"}

Call == [config : Configs, stream : BOOLEAN, compressed : BOOLEAN, outcome : Outcomes]

Nothing == [config |-> NULL]

TypeOK ==
  /\ table \in [Configs -> Settings \cup {NULL}]
  /\ priced \subseteq Configs /\ global \in BOOLEAN /\ edits \in 0..MaxEdits
  /\ pc \in {"idle", "match", "compress", "attempt", "send", "end"}
  /\ pc # "idle" => req \in Carried
  /\ pc \in {"attempt", "send"} => req.attempt \in DOMAIN req.list
  /\ sent \in Seq(Call)
  /\ skipped \subseteq Configs

Init ==
  /\ table \in [Configs -> Settings \cup {NULL}]
  /\ priced \in SUBSET Configs /\ global \in BOOLEAN /\ edits = 0
  /\ pc = "idle" /\ req = Nothing
  /\ sent = <<>> /\ skipped = {}

-----------------------------------------------------------------------------
(* The decisions of the code, each after the slip it is to be told from.    *)

HighestFirst(a, b) == table[a].priority >= table[b].priority

(* ORDER BY priority ASC; configs of one priority come in any order.        *)
InOrder(a, b) == table[a].priority <= table[b].priority

(* X-LLMeter-Compress. *)
HeaderPref(h) == CASE h = "off" -> FALSE [] h = "on" -> TRUE [] h = "none" -> NULL

(* header off, per-model off, header on, per-model on, global: first wins.  *)
CompressionEnabled(pref, perModel) ==
  /\ pref # FALSE
  /\ perModel # FALSE
  /\ pref = TRUE \/ perModel = TRUE \/ global

AnyOverride == IF \E c \in Configs : req.row[c] # NULL /\ req.row[c].compression = TRUE
               THEN TRUE ELSE req.row[req.list[1]].compression

(* The override that decides for all attempts is the first config's.        *)
Override == req.row[req.list[1]].compression

OneLeftOut == req.attempt + 1 < Len(req.list)

MoreConfigs == req.attempt < Len(req.list)

WhateverStreams(stream) == MoreConfigs

(* A streaming answer is passed on as it is; others give way to the next.   *)
MayRetry(stream) == ~stream /\ MoreConfigs

-----------------------------------------------------------------------------
ActualProtocol(row) ==
  IF row.protocol \in {"anthropic", "gemini"} THEN row.protocol ELSE req.in.detected

IsStream(row) ==
  IF ActualProtocol(row) = "gemini" THEN req.in.inPath ELSE req.in.inBody

Current == req.list[req.attempt]

Active(c) == table[c] # NULL /\ table[c].active

(* find_all_model_configs, find_first_model_config. *)
Serving == {c \in Configs : Active(c) /\ table[c].matches}
Passing == {c \in Configs : Active(c) /\ table[c].protocol = req.in.detected}

Orders(S) ==
  {l \in [1..Cardinality(S) -> S] :
     \A i, j \in 1..Cardinality(S) : i < j => l[i] # l[j] /\ InOrder(l[i], l[j])}

Lists == IF req.in.model THEN Orders(Serving) \ {<<>>}
         ELSE {<<l[1]>> : l \in Orders(Passing) \ {<<>>}}

Arrive(in) ==
  /\ pc = "idle"
  /\ pc' = "match"
  /\ req' = [in |-> in, list |-> <<>>, row |-> [c \in Configs |-> NULL],
             compressed |-> FALSE, attempt |-> 1]
  /\ UNCHANGED <<admin, history>>

(* No config (404, 400), or the query fails and counts as none. *)
NoConfig ==
  /\ pc = "match"
  /\ pc' = "end"
  /\ UNCHANGED <<admin, req, history>>

MatchConfigs ==
  /\ pc = "match"
  /\ \E l \in Lists : req' = [req EXCEPT !.list = l, !.row = table]
  /\ pc' = "compress"
  /\ UNCHANGED <<admin, history>>

(* Decided once, before the first attempt, with the first config's override;*)
(* a setting that cannot be read counts as off, and there may be nothing to *)
(* compress.                                                                *)
Compress(wanted) ==
  /\ pc = "compress"
  /\ wanted => /\ req.in.model
               /\ CompressionEnabled(HeaderPref(req.in.header), Override)
  /\ req' = [req EXCEPT !.compressed = wanted]
  /\ pc' = "attempt"
  /\ UNCHANGED <<admin, history>>

NextAttempt ==
  IF MoreConfigs THEN req' = [req EXCEPT !.attempt = @ + 1] /\ pc' = "attempt"
                 ELSE UNCHANGED req /\ pc' = "end"

NeedsPrice == req.in.standard /\ req.in.model

(* No price version is in force for this config, or the query fails. *)
SkipUnpriced ==
  /\ pc = "attempt"
  /\ NeedsPrice
  /\ skipped' = skipped \cup {Current}
  /\ NextAttempt
  /\ UNCHANGED <<admin, sent>>

(* The price version of this config is locked before it is called.          *)
StartAttempt ==
  /\ pc = "attempt"
  /\ NeedsPrice => Current \in priced
  /\ pc' = "send"
  /\ UNCHANGED <<admin, req, history>>

Sent(outcome) ==
  sent' = Append(sent, [config |-> Current, stream |-> IsStream(req.row[Current]),
                        compressed |-> req.compressed, outcome |-> outcome])

(* The call fails, or its answer is an error and the next config is tried   *)
(* (a body of that answer which cannot be read counts as empty).            *)
TryNext(outcome) ==
  /\ pc = "send"
  /\ outcome = "error" => MayRetry(IsStream(req.row[Current]))
  /\ Sent(outcome)
  /\ NextAttempt
  /\ UNCHANGED <<admin, skipped>>

(* The answer goes to the client, its row is written in the background.     *)
Answer(outcome) ==
  /\ pc = "send"
  /\ outcome = "error" => ~MayRetry(IsStream(req.row[Current]))
  /\ Sent(outcome)
  /\ pc' = "end"
  /\ UNCHANGED <<admin, req, skipped>>

(* Neither streaming nor to be retried, the answer is read as a whole before *)
(* anything is passed on.  When that fails the client gets a 502 at once, be *)
(* the status a success and other configs untried; no row is written.        *)
BreakOff ==
  /\ pc = "send"
  /\ ~IsStream(req.row[Current])
  /\ Sent("broken")
  /\ pc' = "end"
  /\ UNCHANGED <<admin, req, skipped>>

(* The client goes away, or the request is over: the next one may come. *)
Leave ==
  /\ pc # "idle"
  /\ pc' = "idle" /\ req' = Nothing
  /\ sent' = <<>> /\ skipped' = {}
  /\ UNCHANGED admin

-----------------------------------------------------------------------------
Edit == edits < MaxEdits /\ edits' = edits + 1 /\ UNCHANGED <<pc, req, history>>

CreateModel(c, row) ==
  Edit /\ table[c] = NULL /\ table' = [table EXCEPT ![c] = row] /\ UNCHANGED <<priced, global>>

UpdateModel(c, row) ==
  Edit /\ table[c] # NULL /\ table' = [table EXCEPT ![c] = row] /\ UNCHANGED <<priced, global>>

DeleteModel(c) ==
  Edit /\ table[c] # NULL /\ table' = [table EXCEPT ![c] = NULL] /\ UNCHANGED <<priced, global>>

SetPrices(S) == Edit /\ priced' = S /\ UNCHANGED <<table, global>>

UpdateCompression(on) == Edit /\ global' = on /\ UNCHANGED <<table, priced>>

Admin ==
  \/ \E c \in Configs, row \in Settings : CreateModel(c, row) \/ UpdateModel(c, row)
  \/ \E c \in Configs : DeleteModel(c)
  \/ \E S \in SUBSET Configs : SetPrices(S)
  \/ \E on \in BOOLEAN : UpdateCompression(on)

Handle ==
  \/ \E in \in Requests : Arrive(in)
  \/ NoConfig \/ MatchConfigs
  \/ \E wanted \in BOOLEAN : Compress(wanted)
  \/ SkipUnpriced \/ StartAttempt
  \/ \E outcome \in {"unreachable", "error"} : TryNext(outcome)
  \/ \E outcome \in {"error", "ok"} : Answer(outcome)
  \/ BreakOff
  \/ Leave

Next == Handle \/ Admin

Spec == Init /\ [][Next]_vars

-----------------------------------------------------------------------------
Offered == {req.list[i] : i \in DOMAIN req.list}
Tried == {sent[i].config : i \in DOMAIN sent}

(* The call of attempt j failed and left the request to the next config.    *)
Gave(j, c) == sent[j].config = c /\ sent[j].outcome \in {"unreachable", "error"}

(***************************************************************************)
(* BestFirst: an upstream is called only when every config that served the *)
(* model and has a smaller priority number was called and failed, or had no*)
(* price, however the administrators edit the table meanwhile.  Smallest   *)
(* number first is the order of the query (db.rs:442); the comment above it*)
(* says descending, and so does the administrators' list.                  *)
(***************************************************************************)
BestFirst ==
  \A i \in DOMAIN sent : \A c \in Offered :
    req.row[c].priority < req.row[sent[i].config].priority =>
      c \in skipped \/ \E j \in 1..(i - 1) : Gave(j, c)

(***************************************************************************)
(* AllTried: a request ends in an error only after all its configs had     *)
(* their turn, with two exceptions the code makes: the error is the answer *)
(* to a streaming call, or the body of the answer to another call could not*)
(* be read.                                                                *)
(***************************************************************************)
Failed == /\ pc = "end"
          /\ sent = <<>> \/ sent[Len(sent)].outcome # "ok"

GaveUp(call) == IF call.stream THEN call.outcome = "error" ELSE call.outcome = "broken"

AllTried ==
  Failed => \/ Offered \subseteq Tried \cup skipped
            \/ sent # <<>> /\ GaveUp(sent[Len(sent)])

(***************************************************************************)
(* OneAnswer: nothing is called again once an upstream has accepted the    *)
(* request, readable or not, or has begun to answer a streaming one: the   *)
(* client is not billed for two answers and no stream is begun twice.  The *)
(* protocol, and with it whether a call streams, may differ from config to *)
(* config.                                                                 *)
(***************************************************************************)
OneAnswer ==
  \A i \in 1..(Len(sent) - 1) :
    /\ sent[i].outcome \in {"unreachable", "error"}
    /\ sent[i].stream => sent[i].outcome = "unreachable"

(***************************************************************************)
(* KillSwitchUntilFailover: a config with compression off is called with a *)
(* compressed body only as a fallback, after another config that does not  *)
(* forbid compression failed or was left out for want of a price; also when*)
(* an administrator edits the override between the two look-ups.  The      *)
(* repository's specification has no such exception (spec.md:121-123): the *)
(* body is rewritten once, before the first attempt.                       *)
(***************************************************************************)
KillSwitchUntilFailover ==
  \A i \in DOMAIN sent :
    sent[i].compressed /\ req.row[sent[i].config].compression = FALSE =>
      \E c \in Offered :
        /\ req.row[c].compression # FALSE
        /\ c \in skipped \/ \E j \in 1..(i - 1) : Gave(j, c)
=============================================================================
