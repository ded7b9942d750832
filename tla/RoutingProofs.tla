----------------------------- MODULE RoutingProofs -----------------------------
(***************************************************************************)
(* Proofs about Routing, for any number of configs and edits.  What makes  *)
(* the order of the failover right is that the list is a snapshot, sorted  *)
(* when it was taken (ListRight), and that the handler goes through it from*)
(* the front (Passed, FailedSoFar).                                        *)
(***************************************************************************)
EXTENDS Routing, SequenceTheorems, FiniteSetTheorems, TLAPS

(* The snapshot: rows that were there, in their order. *)
ListRight ==
  /\ \A k \in DOMAIN req.list : req.row[req.list[k]] \in Setting
  /\ \A k, l \in DOMAIN req.list :
       k < l => req.row[req.list[k]].priority <= req.row[req.list[l]].priority

(* c had its turn: it was skipped, or called and failed. *)
Turned(c) == c \in skipped \/ \E j \in DOMAIN sent : Gave(j, c)

Passed(n) == \A k \in DOMAIN req.list : k < n => Turned(req.list[k])

FailedSoFar ==
  \A i \in DOMAIN sent :
    /\ sent[i].outcome \in {"unreachable", "error"}
    /\ sent[i].stream => sent[i].outcome = "unreachable"

Answered ==
  /\ sent # <<>>
  /\ sent[Len(sent)].outcome = "ok" \/ GaveUp(sent[Len(sent)])

(* The first config of the snapshot does not forbid what was compressed. *)
OverrideRight == req.compressed => Override # FALSE

Nascent == sent = <<>> /\ skipped = {}

(* What holds where the request is. *)
Place ==
  /\ pc = "idle" => Nascent
  /\ pc = "match" => Nascent /\ req.list = <<>> /\ req.attempt = 1 /\ ~req.compressed
  /\ pc = "compress" => /\ Nascent /\ req.attempt = 1 /\ 1 \in DOMAIN req.list
                        /\ ~req.compressed
  /\ pc \in {"attempt", "send"} => Passed(req.attempt) /\ FailedSoFar
  /\ pc = "end" => Answered \/ \A c \in Offered : Turned(c)
  /\ pc # "idle" => ListRight /\ OverrideRight

IInv == TypeOK /\ Place /\ BestFirst /\ OneAnswer /\ KillSwitchUntilFailover

-----------------------------------------------------------------------------
LEMMA InitInv == Init => IInv
<1> SUFFICES ASSUME Init PROVE IInv
  OBVIOUS
<1>1. TypeOK
  BY RoutingAssumption DEF Init, TypeOK
<1>2. Place
  BY DEF Init, Place, Nascent
<1>3. BestFirst /\ OneAnswer /\ KillSwitchUntilFailover
  BY DEF Init, BestFirst, OneAnswer, KillSwitchUntilFailover
<1>4. QED
  BY <1>1, <1>2, <1>3 DEF IInv

(* With nothing called yet there is nothing to get wrong. *)
LEMMA NothingSent ==
  ASSUME sent' = <<>>
  PROVE  BestFirst' /\ OneAnswer' /\ KillSwitchUntilFailover'
BY DEF BestFirst, OneAnswer, KillSwitchUntilFailover

(* What is said of a request and its history depends on nothing else. *)
LEMMA SameRequest ==
  ASSUME UNCHANGED <<req, sent, skipped>>
  PROVE  /\ BestFirst' <=> BestFirst
         /\ OneAnswer' <=> OneAnswer
         /\ KillSwitchUntilFailover' <=> KillSwitchUntilFailover
         /\ Nascent' <=> Nascent
         /\ ListRight' <=> ListRight
         /\ OverrideRight' <=> OverrideRight
         /\ Passed(req.attempt)' <=> Passed(req.attempt)
         /\ FailedSoFar' <=> FailedSoFar
         /\ Answered' <=> Answered
         /\ Current' = Current
         /\ (\A c \in Offered : Turned(c))' <=> \A c \in Offered : Turned(c)
<1>1. /\ BestFirst' <=> BestFirst
      /\ OneAnswer' <=> OneAnswer
      /\ KillSwitchUntilFailover' <=> KillSwitchUntilFailover
  BY DEF BestFirst, OneAnswer, KillSwitchUntilFailover, Offered, Gave
<1>2. /\ Nascent' <=> Nascent
      /\ ListRight' <=> ListRight
      /\ OverrideRight' <=> OverrideRight
  BY DEF Nascent, ListRight, OverrideRight, Override
<1>3. \A c : Turned(c)' <=> Turned(c)
  BY DEF Turned, Gave
<1>4. /\ Passed(req.attempt)' <=> Passed(req.attempt)
      /\ (\A c \in Offered : Turned(c))' <=> \A c \in Offered : Turned(c)
  BY <1>3 DEF Passed, Offered
<1>5. /\ FailedSoFar' <=> FailedSoFar
      /\ Answered' <=> Answered
      /\ Current' = Current
  BY DEF FailedSoFar, Answered, Current
<1>6. QED
  BY <1>1, <1>2, <1>4, <1>5

(* An edit leaves the request as it is: it has its snapshot. *)
LEMMA AdminStep ==
  ASSUME IInv, Admin
  PROVE  IInv'
<1> USE DEF IInv
<1>1. UNCHANGED <<pc, req, sent, skipped>> /\ edits < MaxEdits /\ edits' = edits + 1
  BY DEF Admin, Edit, CreateModel, UpdateModel, DeleteModel, SetPrices,
         UpdateCompression, history
<1>2. /\ table' \in [Configs -> Settings \cup {NULL}]
      /\ priced' \subseteq Configs /\ global' \in BOOLEAN
  <2>1. CASE \E c \in Configs, row \in Settings : CreateModel(c, row) \/ UpdateModel(c, row)
    BY <2>1 DEF CreateModel, UpdateModel, TypeOK
  <2>2. CASE \E c \in Configs : DeleteModel(c)
    BY <2>2 DEF DeleteModel, TypeOK
  <2>3. CASE \E S \in SUBSET Configs : SetPrices(S)
    BY <2>3 DEF SetPrices, TypeOK
  <2>4. CASE \E on \in BOOLEAN : UpdateCompression(on)
    BY <2>4 DEF UpdateCompression, TypeOK
  <2>5. QED
    BY <2>1, <2>2, <2>3, <2>4 DEF Admin
<1>3. edits' \in 0..MaxEdits
  BY <1>1, RoutingAssumption DEF TypeOK
<1>4. TypeOK'
  BY <1>1, <1>2, <1>3 DEF TypeOK
<1>5. Place'
  <2>1. pc' = pc /\ req' = req
    BY <1>1
  <2>2. QED
    BY <1>1, <2>1, SameRequest DEF Place
<1>6. BestFirst' /\ OneAnswer' /\ KillSwitchUntilFailover'
  BY <1>1, SameRequest
<1>7. QED
  BY <1>4, <1>5, <1>6

-----------------------------------------------------------------------------
(* Before the first attempt.                                                *)
LEMMA ArriveStep ==
  ASSUME IInv, NEW in \in Requests, Arrive(in)
  PROVE  IInv'
<1> USE DEF IInv
<1>1. /\ pc' = "match" /\ sent' = <<>> /\ skipped' = {} /\ UNCHANGED admin
      /\ req' = [in |-> in, list |-> <<>>, row |-> [c \in Configs |-> NULL],
                 compressed |-> FALSE, attempt |-> 1]
  BY DEF Arrive, Place, Nascent, history
<1>2. req' \in Carried
  BY <1>1 DEF Carried
<1>3. TypeOK'
  BY <1>1, <1>2 DEF TypeOK, admin
<1>4. Place'
  BY <1>1 DEF Place, Nascent, ListRight, OverrideRight
<1>5. QED
  BY <1>1, <1>3, <1>4, NothingSent

LEMMA NoConfigStep ==
  ASSUME IInv, NoConfig
  PROVE  IInv'
<1> USE DEF IInv
<1>1. /\ pc = "match" /\ pc' = "end" /\ UNCHANGED <<req, sent, skipped, admin>>
  BY DEF NoConfig, history
<1>2. TypeOK'
  BY <1>1 DEF TypeOK, admin
<1>3. Place'
  <2>1. \A c \in Offered : Turned(c)
    BY <1>1 DEF Place, Offered
  <2>2. ListRight /\ OverrideRight
    BY <1>1 DEF Place
  <2>3. QED
    BY <1>1, <2>1, <2>2, SameRequest DEF Place
<1>4. BestFirst' /\ OneAnswer' /\ KillSwitchUntilFailover'
  BY <1>1, SameRequest
<1>5. QED
  BY <1>2, <1>3, <1>4

(* A list that a query returns is sorted by the priorities of the snapshot. *)
LEMMA ListsAre ==
  ASSUME TypeOK, NEW l \in Lists
  PROVE  /\ l \in Seq(Configs) /\ 1 \in DOMAIN l
         /\ \A k \in DOMAIN l : l[k] \in Configs /\ table[l[k]] \in Setting
         /\ \A j, k \in DOMAIN l : j < k => table[l[j]].priority <= table[l[k]].priority
<1>1. \A c \in Serving \cup Passing : c \in Configs /\ table[c] \in Setting
  BY RoutingAssumption DEF Serving, Passing, Active, TypeOK
<1>2. ASSUME NEW S \in SUBSET (Serving \cup Passing), NEW m \in Orders(S), m # <<>>
      PROVE  /\ m \in Seq(S) /\ 1 \in DOMAIN m
             /\ \A j, k \in DOMAIN m : j < k => table[m[j]].priority <= table[m[k]].priority
  <2> DEFINE n == Cardinality(S)
  <2>1. S \in SUBSET Configs
    BY <1>1
  <2>2. n \in Nat
    BY <2>1, FS_Subset, FS_CardinalityType, RoutingAssumption
  <2> HIDE DEF n
  <2>3. m \in [1..n -> S]
    BY DEF Orders, n
  <2>4. m \in Seq(S)
    BY <2>2, <2>3, SeqDef
  <2>5. Len(m) \in Nat \ {0} /\ DOMAIN m = 1..Len(m)
    BY <1>2, <2>4, EmptySeq, LenProperties
  <2>6. DOMAIN m = 1..n
    BY <2>3
  <2>7. \A j, k \in 1..n : j < k => table[m[j]].priority <= table[m[k]].priority
    BY DEF Orders, InOrder, n
  <2>8. 1 \in DOMAIN m
    BY <2>5
  <2>9. QED
    BY <2>4, <2>6, <2>7, <2>8
<1>3. CASE l \in Orders(Serving) \ {<<>>}
  <2>1. /\ l \in Seq(Serving) /\ 1 \in DOMAIN l
        /\ \A j, k \in DOMAIN l : j < k => table[l[j]].priority <= table[l[k]].priority
    BY <1>2, <1>3
  <2>2. \A k \in DOMAIN l : l[k] \in Serving
    BY <2>1, LenProperties
  <2>3. l \in Seq(Configs)
    BY <1>1, <2>1, SeqMonotonic
  <2>4. QED
    BY <1>1, <2>1, <2>2, <2>3
<1>4. CASE \E m \in Orders(Passing) \ {<<>>} : l = <<m[1]>>
  <2>1. PICK m \in Orders(Passing) \ {<<>>} : l = <<m[1]>>
    BY <1>4
  <2>2. m \in Seq(Passing) /\ 1 \in DOMAIN m
    BY <1>2, <2>1
  <2>3. m[1] \in Passing
    BY <2>2, LenProperties
  <2>4. m[1] \in Configs /\ table[m[1]] \in Setting
    BY <1>1, <2>3
  <2> HIDE DEF Setting
  <2>5. QED
    BY <2>1, <2>4
<1>5. QED
  BY <1>3, <1>4 DEF Lists

LEMMA MatchStep ==
  ASSUME IInv, MatchConfigs
  PROVE  IInv'
<1> USE DEF IInv
<1>1. PICK l \in Lists : req' = [req EXCEPT !.list = l, !.row = table]
  BY DEF MatchConfigs
<1>2. /\ pc = "match" /\ pc' = "compress" /\ UNCHANGED <<sent, skipped, admin>>
      /\ req \in Carried /\ table \in [Configs -> Settings \cup {NULL}]
      /\ Settings \subseteq Setting
  BY RoutingAssumption DEF MatchConfigs, history, TypeOK
<1>3. l \in Seq(Configs) /\ table \in [Configs -> Setting \cup {NULL}]
  BY <1>2, ListsAre
<1>4. /\ req' \in Carried /\ req'.list = l /\ req'.row = table
      /\ req'.attempt = req.attempt /\ req'.compressed = req.compressed
  BY <1>1, <1>2, <1>3 DEF Carried
<1>5. TypeOK'
  BY <1>2, <1>4 DEF TypeOK, admin
<1>6. Nascent' /\ OverrideRight' /\ req'.attempt = 1 /\ ~req'.compressed
  BY <1>2, <1>4 DEF Place, Nascent, OverrideRight
<1>7. ListRight' /\ 1 \in DOMAIN req'.list
  BY <1>4, ListsAre DEF ListRight
<1>8. Place'
  BY <1>2, <1>6, <1>7 DEF Place
<1>9. QED
  BY <1>5, <1>6, <1>8, NothingSent DEF Nascent

(* The body is compressed only if the first config does not say no.         *)
LEMMA CompressStep ==
  ASSUME IInv, NEW wanted \in BOOLEAN, Compress(wanted)
  PROVE  IInv'
<1> USE DEF IInv
<1>1. /\ pc = "compress" /\ pc' = "attempt" /\ UNCHANGED <<sent, skipped, admin>>
      /\ req \in Carried /\ req' = [req EXCEPT !.compressed = wanted]
      /\ sent = <<>> /\ skipped = {} /\ req.attempt = 1 /\ 1 \in DOMAIN req.list
  BY DEF Compress, history, TypeOK, Place, Nascent
<1>2. /\ req' \in Carried /\ req'.in = req.in /\ req'.list = req.list
      /\ req'.row = req.row /\ req'.attempt = 1 /\ req'.compressed = wanted
  BY <1>1 DEF Carried
<1>3. TypeOK'
  BY <1>1, <1>2 DEF TypeOK, admin
<1>4. wanted => Override # FALSE
  <2> SUFFICES ASSUME wanted PROVE Override # FALSE
    OBVIOUS
  <2>1. CompressionEnabled(HeaderPref(req.in.header), Override)
    BY DEF Compress
  <2>2. QED
    BY <2>1, Zenon DEF CompressionEnabled
<1>5. ListRight'
  BY <1>1, <1>2 DEF Place, ListRight
<1>6. OverrideRight'
  BY <1>2, <1>4 DEF OverrideRight, Override
<1>7. Passed(req.attempt)' /\ FailedSoFar'
  <2>1. \A k \in DOMAIN req'.list : ~(k < 1)
    BY <1>2, LenProperties DEF Carried
  <2>2. QED
    BY <1>1, <1>2, <2>1 DEF Passed, FailedSoFar
<1>8. Place'
  BY <1>1, <1>5, <1>6, <1>7 DEF Place
<1>9. sent' = <<>>
  BY <1>1
<1>10. QED
  BY <1>3, <1>8, <1>9, NothingSent

-----------------------------------------------------------------------------
(* The attempts.  The request stays what it is, but for attempt and lock.   *)
SameSnapshot ==
  /\ req'.in = req.in /\ req'.list = req.list /\ req'.row = req.row
  /\ req'.compressed = req.compressed

LEMMA SnapshotKept ==
  ASSUME SameSnapshot
  PROVE  /\ Offered' = Offered
         /\ ListRight' <=> ListRight
         /\ OverrideRight' <=> OverrideRight
         /\ sent' = sent => (OneAnswer' <=> OneAnswer)
         /\ (sent' = sent /\ skipped \subseteq skipped' /\ BestFirst) => BestFirst'
         /\ (sent' = sent /\ skipped \subseteq skipped' /\ KillSwitchUntilFailover)
              => KillSwitchUntilFailover'
<1>1. /\ Offered' = Offered
      /\ ListRight' <=> ListRight
      /\ OverrideRight' <=> OverrideRight
  BY DEF SameSnapshot, Offered, ListRight, OverrideRight, Override
<1>2. ASSUME sent' = sent PROVE OneAnswer' <=> OneAnswer
  BY <1>2 DEF OneAnswer
<1>3. ASSUME sent' = sent, skipped \subseteq skipped', BestFirst PROVE BestFirst'
  BY <1>1, <1>3 DEF SameSnapshot, BestFirst, Gave
<1>4. ASSUME sent' = sent, skipped \subseteq skipped', KillSwitchUntilFailover PROVE KillSwitchUntilFailover'
  BY <1>1, <1>4 DEF SameSnapshot, KillSwitchUntilFailover, Gave
<1>5. QED
  BY <1>1, <1>2, <1>3, <1>4

LEMMA AttemptIs ==
  ASSUME TypeOK, pc \in {"attempt", "send"}
  PROVE  /\ req \in Carried /\ Len(req.list) \in Nat
         /\ DOMAIN req.list = 1..Len(req.list)
         /\ req.attempt \in 1..Len(req.list) /\ Current \in Configs
<1>1. req \in Carried /\ req.attempt \in DOMAIN req.list
  BY DEF TypeOK
<1>2. req.list \in Seq(Configs)
  BY <1>1 DEF Carried
<1>3. Len(req.list) \in Nat /\ DOMAIN req.list = 1..Len(req.list)
  BY <1>2, LenProperties
<1>4. Current \in Configs
  BY <1>1, <1>2, LenProperties DEF Current
<1>5. QED
  BY <1>1, <1>3, <1>4

(* On to the next config, when the current one had its turn.                *)
LEMMA NextAttemptStep ==
  ASSUME TypeOK, pc \in {"attempt", "send"}, NextAttempt, Passed(req.attempt),
         \A c : Turned(c) \/ c = Current => Turned(c)'
  PROVE  /\ req' \in Carried /\ SameSnapshot
         /\ \/ pc' = "attempt" /\ req'.attempt \in DOMAIN req'.list /\ Passed(req.attempt)'
            \/ pc' = "end" /\ (\A c \in Offered : Turned(c))'
<1> USE AttemptIs
<1>1. CASE MoreConfigs
  <2>1. req' = [req EXCEPT !.attempt = req.attempt + 1] /\ pc' = "attempt"
    BY <1>1 DEF NextAttempt
  <2>2. /\ req' \in Carried /\ SameSnapshot /\ req'.attempt = req.attempt + 1
    BY <2>1 DEF Carried, SameSnapshot
  <2>3. req'.attempt \in DOMAIN req'.list
    BY <1>1, <2>2 DEF SameSnapshot, MoreConfigs
  <2>4. \A k \in DOMAIN req.list : k < req.attempt + 1 => k < req.attempt \/ k = req.attempt
    OBVIOUS
  <2>5. ASSUME NEW k \in DOMAIN req.list, k < req.attempt + 1
        PROVE  Turned(req.list[k]) \/ req.list[k] = Current
    BY <2>4, <2>5 DEF Passed, Current
  <2>6. Passed(req.attempt)'
    BY <2>2, <2>5 DEF Passed, SameSnapshot
  <2>7. QED
    BY <2>1, <2>2, <2>3, <2>6
<1>2. CASE ~MoreConfigs
  <2>1. UNCHANGED req /\ pc' = "end" /\ req.attempt = Len(req.list)
    BY <1>2 DEF NextAttempt, MoreConfigs
  <2>2. \A k \in DOMAIN req.list : k < req.attempt \/ k = req.attempt
    BY <2>1
  <2>3. \A c \in Offered : Turned(c) \/ c = Current
    BY <2>2 DEF Passed, Current, Offered
  <2>4. Offered' = Offered
    BY <2>1 DEF Offered
  <2>5. QED
    BY <2>1, <2>3, <2>4 DEF SameSnapshot
<1>3. QED
  BY <1>1, <1>2

LEMMA SkipStep ==
  ASSUME IInv, SkipUnpriced
  PROVE  IInv'
<1> USE DEF IInv
<1>1. /\ pc = "attempt" /\ skipped' = skipped \cup {Current} /\ NextAttempt
      /\ UNCHANGED <<sent, admin>> /\ Passed(req.attempt) /\ FailedSoFar
      /\ ListRight /\ OverrideRight /\ Current \in Configs
  BY AttemptIs DEF SkipUnpriced, Place
<1>2. \A c : Turned(c) \/ c = Current => Turned(c)'
  BY <1>1 DEF Turned, Gave
<1>3. /\ req' \in Carried /\ SameSnapshot
      /\ \/ pc' = "attempt" /\ req'.attempt \in DOMAIN req'.list /\ Passed(req.attempt)'
         \/ pc' = "end" /\ (\A c \in Offered : Turned(c))'
  BY <1>1, <1>2, NextAttemptStep
<1>4. TypeOK'
  BY <1>1, <1>3 DEF TypeOK, admin
<1>5. BestFirst' /\ KillSwitchUntilFailover' /\ OneAnswer' /\ ListRight' /\ OverrideRight'
  BY <1>1, <1>3, SnapshotKept
<1>6. FailedSoFar'
  BY <1>1 DEF FailedSoFar
<1>7. Place'
  BY <1>3, <1>5, <1>6 DEF Place
<1>8. QED
  BY <1>4, <1>5, <1>7

LEMMA StartStep ==
  ASSUME IInv, StartAttempt
  PROVE  IInv'
<1> USE DEF IInv
<1>1. /\ pc = "attempt" /\ pc' = "send" /\ UNCHANGED <<req, sent, skipped, admin>>
      /\ Passed(req.attempt) /\ FailedSoFar /\ ListRight /\ OverrideRight
  BY DEF StartAttempt, history, Place
<1>2. TypeOK'
  BY <1>1 DEF TypeOK, admin
<1>3. Place'
  BY <1>1, SameRequest DEF Place
<1>4. BestFirst' /\ OneAnswer' /\ KillSwitchUntilFailover'
  BY <1>1, SameRequest
<1>5. QED
  BY <1>2, <1>3, <1>4

-----------------------------------------------------------------------------
(* A call more, of the config whose turn it is.                             *)
LEMMA SentIs ==
  ASSUME IInv, pc = "send", NEW outcome \in Outcomes, Sent(outcome)
  PROVE  /\ sent' \in Seq(Call) /\ sent' # <<>> /\ Len(sent) \in Nat
         /\ DOMAIN sent = 1..Len(sent)
         /\ DOMAIN sent' = 1..(Len(sent) + 1) /\ Len(sent') = Len(sent) + 1
         /\ \A i \in 1..Len(sent) : sent'[i] = sent[i]
         /\ LET call == sent'[Len(sent) + 1]
            IN /\ call.config = Current /\ call.outcome = outcome
               /\ call.stream = IsStream(req.row[Current])
               /\ call.compressed = req.compressed
<1> DEFINE call == [config |-> Current, stream |-> IsStream(req.row[Current]),
                    compressed |-> req.compressed, outcome |-> outcome]
<1>1. /\ req \in Carried /\ Current \in Configs /\ sent \in Seq(Call)
  BY AttemptIs DEF IInv, TypeOK
<1>2. req.in \in Request
  BY <1>1, RoutingAssumption DEF Carried
<1>3. IsStream(req.row[Current]) \in BOOLEAN
  BY <1>2 DEF IsStream, Request
<1>4. call \in Call
  BY <1>1, <1>3 DEF Call, Carried
<1>5. sent' = Append(sent, call)
  BY DEF Sent
<1> HIDE DEF call
<1>6. /\ sent' \in Seq(Call) /\ sent' # <<>> /\ Len(sent') = Len(sent) + 1
      /\ \A i \in 1..Len(sent) : sent'[i] = sent[i]
      /\ sent'[Len(sent) + 1] = call
  BY <1>1, <1>4, <1>5, AppendProperties
<1>7. /\ Len(sent) \in Nat /\ DOMAIN sent = 1..Len(sent)
      /\ DOMAIN sent' = 1..(Len(sent) + 1)
  BY <1>1, <1>6, LenProperties
<1>8. QED
  BY <1>6, <1>7 DEF call

LEMMA SentKeeps ==
  ASSUME IInv, pc = "send", NEW outcome \in Outcomes, Sent(outcome), SameSnapshot,
         UNCHANGED skipped
  PROVE  /\ BestFirst' /\ OneAnswer' /\ KillSwitchUntilFailover' /\ OverrideRight' /\ ListRight'
         /\ \A c : Turned(c) \/ (c = Current /\ outcome \in {"unreachable", "error"})
                => Turned(c)'
         /\ (/\ outcome \in {"unreachable", "error"}
             /\ IsStream(req.row[Current]) => outcome = "unreachable") => FailedSoFar'
<1> USE DEF IInv
<1> DEFINE n == Len(sent) + 1
<1>1. /\ Passed(req.attempt) /\ FailedSoFar /\ ListRight /\ OverrideRight
  BY DEF Place
<1>2. /\ n \in Nat /\ DOMAIN sent' = DOMAIN sent \cup {n} /\ n \notin DOMAIN sent
      /\ DOMAIN sent = 1..(n - 1) /\ Len(sent') = n
      /\ \A i \in DOMAIN sent : sent'[i] = sent[i]
      /\ sent'[n].config = Current /\ sent'[n].outcome = outcome
      /\ sent'[n].stream = IsStream(req.row[Current])
      /\ sent'[n].compressed = req.compressed
  <2>1. /\ Len(sent) \in Nat /\ DOMAIN sent = 1..Len(sent) /\ DOMAIN sent' = 1..n
        /\ Len(sent') = n /\ \A i \in 1..Len(sent) : sent'[i] = sent[i]
    BY SentIs
  <2>2. /\ sent'[n].config = Current /\ sent'[n].outcome = outcome
        /\ sent'[n].stream = IsStream(req.row[Current])
        /\ sent'[n].compressed = req.compressed
    BY SentIs
  <2>3. /\ n \in Nat /\ n - 1 = Len(sent)
        /\ 1..n = 1..Len(sent) \cup {n} /\ n \notin 1..Len(sent)
    BY <2>1
  <2>4. QED
    BY <2>1, <2>2, <2>3
<1> HIDE DEF n
<1>3. \A c : Turned(c) \/ (c = Current /\ outcome \in {"unreachable", "error"}) => Turned(c)'
  BY <1>2 DEF Turned, Gave
<1>4. ASSUME outcome \in {"unreachable", "error"},
             IsStream(req.row[Current]) => outcome = "unreachable"
      PROVE  FailedSoFar'
  BY <1>1, <1>2, <1>4 DEF FailedSoFar
<1>5. OneAnswer'
  BY <1>1, <1>2 DEF OneAnswer, FailedSoFar
<1>6. OverrideRight' /\ ListRight'
  BY <1>1, SnapshotKept
(* What had its turn before is among the calls before the new one.          *)
<1>7. ASSUME NEW c, Turned(c)
      PROVE  c \in skipped' \/ \E j \in 1..(n - 1) : Gave(j, c)'
  BY <1>2, <1>7 DEF Turned, Gave
<1>8. ASSUME NEW i \in DOMAIN sent, NEW c,
             c \in skipped \/ \E j \in 1..(i - 1) : Gave(j, c)
      PROVE  c \in skipped' \/ \E j \in 1..(i - 1) : Gave(j, c)'
  <2>1. \A j \in 1..(i - 1) : j \in DOMAIN sent
    BY <1>2
  <2>2. QED
    BY <1>2, <1>8, <2>1 DEF Gave
<1>9. BestFirst'
  <2> SUFFICES ASSUME NEW i \in DOMAIN sent', NEW c \in Offered,
                      req.row[c].priority < req.row[sent'[i].config].priority
               PROVE  c \in skipped' \/ \E j \in 1..(i - 1) : Gave(j, c)'
    BY SnapshotKept DEF BestFirst, SameSnapshot
  <2>1. CASE i \in DOMAIN sent
    <3>1. c \in skipped \/ \E j \in 1..(i - 1) : Gave(j, c)
      BY <1>2, <2>1 DEF BestFirst
    <3>2. QED
      BY <1>8, <2>1, <3>1
  <2>2. CASE i = n
    <3>1. PICK k \in DOMAIN req.list : c = req.list[k]
      BY DEF Offered
    <3>2. /\ req.attempt \in DOMAIN req.list /\ req.attempt \in Int /\ k \in Int
          /\ sent'[i].config = req.list[req.attempt]
      BY <1>2, <2>2, AttemptIs DEF Current
    <3>3. /\ req.row[c].priority \in Int
          /\ req.row[req.list[req.attempt]].priority \in Int
      BY <1>1, <3>1, <3>2 DEF ListRight, Setting
    <3>4. ~(req.attempt < k) /\ k # req.attempt
      BY <1>1, <3>1, <3>2, <3>3 DEF ListRight
    <3>5. Turned(c)
      BY <1>1, <3>1, <3>2, <3>4 DEF Passed
    <3>6. QED
      BY <1>7, <2>2, <3>5
  <2>3. QED
    BY <1>2, <2>1, <2>2
<1>10. KillSwitchUntilFailover'
  <2> SUFFICES ASSUME NEW i \in DOMAIN sent', sent'[i].compressed,
                      req.row[sent'[i].config].compression = FALSE
               PROVE  \E c \in Offered :
                        /\ req.row[c].compression # FALSE
                        /\ c \in skipped' \/ \E j \in 1..(i - 1) : Gave(j, c)'
    BY SnapshotKept DEF KillSwitchUntilFailover, SameSnapshot
  <2>1. CASE i \in DOMAIN sent
    <3>1. PICK c \in Offered :
            /\ req.row[c].compression # FALSE
            /\ c \in skipped \/ \E j \in 1..(i - 1) : Gave(j, c)
      BY <1>2, <2>1 DEF KillSwitchUntilFailover
    <3>2. QED
      BY <1>8, <2>1, <3>1
  <2>2. CASE i = n
    <3>1. Override # FALSE /\ req.row[Current].compression = FALSE
      BY <1>1, <1>2, <2>2 DEF OverrideRight
    <3>2. req.attempt \in 1..Len(req.list) /\ Len(req.list) \in Nat
          /\ DOMAIN req.list = 1..Len(req.list)
      BY AttemptIs
    <3>3. req.attempt # 1
      BY <3>1 DEF Override, Current
    <3>4. 1 \in DOMAIN req.list /\ 1 < req.attempt
      BY <3>2, <3>3
    <3>5. PICK c \in Offered : c = req.list[1]
      BY <3>4 DEF Offered
    <3>6. Turned(c) /\ req.row[c].compression # FALSE
      BY <1>1, <3>1, <3>4, <3>5 DEF Passed, Override
    <3>7. QED
      BY <1>7, <2>2, <3>6
  <2>3. QED
    BY <1>2, <2>1, <2>2
<1>11. QED
  BY <1>3, <1>4, <1>5, <1>6, <1>9, <1>10

LEMMA TryNextStep ==
  ASSUME IInv, NEW outcome \in {"unreachable", "error"}, TryNext(outcome)
  PROVE  IInv'
<1> USE DEF IInv
<1>1. /\ pc = "send" /\ Sent(outcome) /\ NextAttempt /\ UNCHANGED <<skipped, admin>>
      /\ outcome \in Outcomes /\ outcome \in {"unreachable", "error"}
      /\ Passed(req.attempt)
      /\ IsStream(req.row[Current]) => outcome = "unreachable"
  BY DEF TryNext, Outcomes, MayRetry, Place
<1>2. \A c : Turned(c) \/ c = Current => Turned(c)'
  <2>1. skipped' = skipped /\ \A i \in DOMAIN sent : i \in DOMAIN sent' /\ sent'[i] = sent[i]
    BY <1>1, SentIs
  <2>2. \E i \in DOMAIN sent' : /\ sent'[i].config = Current
                               /\ sent'[i].outcome \in {"unreachable", "error"}
    <3>1. Len(sent) + 1 \in DOMAIN sent'
      BY <1>1, SentIs
    <3>2. QED
      BY <1>1, <3>1, SentIs
  <2>3. QED
    BY <2>1, <2>2 DEF Turned, Gave
<1>3. /\ req' \in Carried /\ SameSnapshot
      /\ \/ pc' = "attempt" /\ req'.attempt \in DOMAIN req'.list /\ Passed(req.attempt)'
         \/ pc' = "end" /\ (\A c \in Offered : Turned(c))'
  BY <1>1, <1>2, NextAttemptStep
<1>4. /\ BestFirst' /\ OneAnswer' /\ KillSwitchUntilFailover' /\ OverrideRight' /\ ListRight'
      /\ FailedSoFar'
  BY <1>1, <1>3, SentKeeps
<1>5. sent' \in Seq(Call)
  BY <1>1, SentIs
<1>6. TypeOK'
  BY <1>1, <1>3, <1>5 DEF TypeOK, admin
<1>7. Place'
  BY <1>3, <1>4 DEF Place
<1>8. QED
  BY <1>4, <1>6, <1>7

(* The request ends with the answer to the current call.                    *)
LEMMA LastCall ==
  ASSUME IInv, pc = "send", pc' = "end", NEW outcome \in Outcomes, Sent(outcome),
         UNCHANGED <<skipped, admin, req>>,
         outcome = "error" => ~MayRetry(IsStream(req.row[Current])),
         outcome = "broken" => ~IsStream(req.row[Current]),
         outcome # "unreachable"
  PROVE  IInv'
<1> USE DEF IInv
<1>1. Passed(req.attempt) /\ req \in Carried /\ SameSnapshot
  BY AttemptIs DEF Place, SameSnapshot
<1>2. /\ BestFirst' /\ OneAnswer' /\ KillSwitchUntilFailover' /\ OverrideRight' /\ ListRight'
      /\ \A c : Turned(c) \/ (c = Current /\ outcome \in {"unreachable", "error"})
             => Turned(c)'
  BY <1>1, SentKeeps
<1>3. /\ sent' \in Seq(Call) /\ sent' # <<>>
      /\ sent'[Len(sent')].outcome = outcome
      /\ sent'[Len(sent')].stream = IsStream(req.row[Current])
  BY SentIs
<1>4. Answered' \/ (\A c \in Offered : Turned(c))'
  <2>1. CASE outcome \in {"ok", "broken"} \/ IsStream(req.row[Current])
    <3>1. outcome = "ok" \/ outcome = "error" \/ outcome = "broken"
      BY DEF Outcomes
    <3>2. CASE outcome = "ok"
      BY <1>3, <3>2 DEF Answered
    <3>3. CASE outcome = "broken"
      BY <1>3, <3>3 DEF Answered, GaveUp
    <3>4. CASE outcome = "error"
      BY <1>3, <2>1, <3>4 DEF Answered, GaveUp
    <3>5. QED
      BY <3>1, <3>2, <3>3, <3>4
  <2>2. CASE outcome = "error" /\ ~IsStream(req.row[Current])
    <3>1. ~MoreConfigs
      BY <2>2 DEF MayRetry
    <3>2. req.attempt = Len(req.list) /\ DOMAIN req.list = 1..Len(req.list)
          /\ Len(req.list) \in Nat
      BY <3>1, AttemptIs DEF MoreConfigs
    <3>3. \A k \in DOMAIN req.list : k < req.attempt \/ k = req.attempt
      BY <3>2
    <3>4. \A c \in Offered : Turned(c) \/ c = Current
      BY <1>1, <3>3 DEF Passed, Current, Offered
    <3>5. Offered' = Offered
      BY DEF Offered
    <3>6. QED
      BY <1>2, <2>2, <3>4, <3>5
  <2>3. QED
    BY <2>1, <2>2 DEF Outcomes
<1>5. TypeOK'
  BY <1>1, <1>3 DEF TypeOK, admin
<1>6. Place'
  BY <1>2, <1>4 DEF Place
<1>7. QED
  BY <1>2, <1>5, <1>6

LEMMA AnswerStep ==
  ASSUME IInv, NEW outcome \in {"error", "ok"}, Answer(outcome)
  PROVE  IInv'
BY LastCall DEF Answer, Outcomes

LEMMA BreakOffStep ==
  ASSUME IInv, BreakOff
  PROVE  IInv'
BY LastCall DEF BreakOff, Outcomes

LEMMA LeaveStep ==
  ASSUME IInv, Leave
  PROVE  IInv'
<1> USE DEF IInv
<1>1. pc' = "idle" /\ sent' = <<>> /\ skipped' = {} /\ UNCHANGED admin
  BY DEF Leave
<1>2. TypeOK'
  BY <1>1 DEF TypeOK, admin
<1>3. Place'
  BY <1>1 DEF Place, Nascent
<1>4. QED
  BY <1>1, <1>2, <1>3, NothingSent

LEMMA Step == IInv /\ [Next]_vars => IInv'
<1> SUFFICES ASSUME IInv, [Next]_vars PROVE IInv'
  OBVIOUS
<1>1. CASE Handle
  BY <1>1, ArriveStep, NoConfigStep, MatchStep, CompressStep, SkipStep, StartStep,
     TryNextStep, AnswerStep, BreakOffStep, LeaveStep DEF Handle
<1>2. CASE Admin
  BY <1>2, AdminStep
<1>3. CASE UNCHANGED vars
  <2>1. /\ UNCHANGED <<req, sent, skipped>> /\ UNCHANGED <<pc, table, priced, global, edits>>
    BY <1>3 DEF vars
  <2>2. TypeOK'
    BY <2>1 DEF IInv, TypeOK
  <2>3. Place'
    BY <2>1, SameRequest DEF IInv, Place
  <2>4. QED
    BY <2>1, <2>2, <2>3, SameRequest DEF IInv
<1>4. QED
  BY <1>1, <1>2, <1>3 DEF Next

LEMMA RoutingInvariant == Spec => []IInv
BY InitInv, Step, PTL DEF Spec

-----------------------------------------------------------------------------
(* TypeOK: the variables hold what they are said to hold.                   *)
THEOREM RoutingTypeCorrect == Spec => []TypeOK
BY RoutingInvariant, PTL DEF IInv

(* BestFirst: no upstream is called before every config of a smaller        *)
(* priority number had its turn, whatever administrators edit meanwhile.    *)
THEOREM RoutingBestFirst == Spec => []BestFirst
BY RoutingInvariant, PTL DEF IInv

(* AllTried: a request ends in an error only after all its configs had      *)
(* their turn, or with the error of a streaming call, or because the body of*)
(* the answer to another call could not be read.                            *)
THEOREM RoutingAllTried == Spec => []AllTried
<1>1. IInv => AllTried
  <2> SUFFICES ASSUME IInv, Failed
               PROVE  \/ Offered \subseteq Tried \cup skipped
                      \/ sent # <<>> /\ GaveUp(sent[Len(sent)])
    BY DEF AllTried
  <2>1. Answered \/ \A c \in Offered : Turned(c)
    BY DEF IInv, Place, Failed
  <2>2. CASE Answered
    BY <2>2 DEF Answered, Failed
  <2>3. CASE \A c \in Offered : Turned(c)
    BY <2>3 DEF Turned, Tried, Gave
  <2>4. QED
    BY <2>1, <2>2, <2>3
<1>2. QED
  BY <1>1, RoutingInvariant, PTL

(* OneAnswer: no upstream is called after one that has accepted the request *)
(* or has begun to stream.                                                  *)
THEOREM RoutingOneAnswer == Spec => []OneAnswer
BY RoutingInvariant, PTL DEF IInv

(* KillSwitchUntilFailover: a config with compression off is sent a         *)
(* compressed body only after one that does not forbid it failed or was     *)
(* left out.                                                                *)
THEOREM RoutingKillSwitch == Spec => []KillSwitchUntilFailover
BY RoutingInvariant, PTL DEF IInv
===============================================================================
