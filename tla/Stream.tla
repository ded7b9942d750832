------------------------------- MODULE Stream -------------------------------
(***************************************************************************)
(* How the token usage of a streamed answer is found.  The proxy passes the*)
(* upstream's bytes on chunk by chunk, cut anywhere, and reads the usage   *)
(* from the complete SSE lines on the way; at the end of the stream it     *)
(* sends what it found to a background task, which, when there is nothing  *)
(* and the request was to the Responses API, asks the upstream again, up to*)
(* four times, and decides how the request is logged.  When the client or  *)
(* the upstream breaks the stream off, the sender is dropped unused.       *)
(*                                                                         *)
(* A line of the body is three bytes here, two of its text and the newline,*)
(* enough for a cut to fall inside the text and before the newline.  What  *)
(* happens once the outcome is known is in Metering (Answered).            *)
(***************************************************************************)
EXTENDS Integers, Sequences, SequencesExt

CONSTANTS Tokens,       \* token counts an upstream may report
          MaxLines,     \* bound: lines of an answer
          NULL          \* Rust's None

ASSUME StreamAssumption == Tokens \subseteq Int /\ MaxLines \in Nat \ {0}

VARIABLES body,         \* the lines the upstream will send, see SseLine
          cut,          \* bytes missing at the end of the last line
          ask,          \* what kind of request this is
          pos,          \* bytes passed on so far
          lineBuf,      \* line_buf: bytes of a line not complete yet
          usage,        \* last_usage, then the task's usage
          flow,         \* the body stream: "open", "ended" or "dropped"
          task,         \* the background task
          attempt,      \* attempts to recover the usage
          recovered,    \* history: what the upstream told on request
          row           \* the request_logs row

vars == <<body, cut, ask, pos, lineBuf, usage, flow, task, attempt, recovered, row>>

given == <<body, cut, ask>>

Count == Tokens \cup {NULL}
Usage == [prompt : Count, completion : Count, cached : Count]
Unknown == [prompt |-> NULL, completion |-> NULL, cached |-> NULL]

(* A line tells its usage where the extractor looks for it ("event"), or in *)
(* JSON it cannot parse ("broken"); text has none.                          *)
SseLine == [kind : {"event", "broken"}, usage : Usage]

Ask == [passthrough : BOOLEAN, responses : BOOLEAN, ok : BOOLEAN, hasId : BOOLEAN]

(* A byte: which one it is of the line it belongs to.                       *)
Byte == [part : 1..3, of : SseLine]

TypeOK ==
  /\ body \in Seq(SseLine) /\ cut \in 0..2 /\ ask \in Ask
  /\ pos \in Nat /\ lineBuf \in Seq(Byte)
  /\ usage \in Usage
  /\ flow \in {"open", "ended", "dropped"}
  /\ task \in {"waiting", "recovering", "asking", "finishing", "done"}
  /\ attempt \in 0..4
  /\ recovered \in Usage
  /\ row \in [status : {"success", "error", "interrupted"}, usage : Usage] \cup {NULL}

-----------------------------------------------------------------------------
Newest(new, old) == IF new # NULL THEN new ELSE old

(* merge_token_usage: what the newer one tells replaces the older. *)
Merge(old, new) ==
  [prompt |-> Newest(new.prompt, old.prompt),
   completion |-> Newest(new.completion, old.completion),
   cached |-> Newest(new.cached, old.cached)]

Missing(u) == u.prompt = NULL /\ u.completion = NULL

BytesOf(lines) == [k \in 1..3 * Len(lines) |->
                     [part |-> ((k - 1) % 3) + 1, of |-> lines[((k - 1) \div 3) + 1]]]

Bytes == SubSeq(BytesOf(body), 1, 3 * Len(body) - cut)

(* A piece of the body ends with the text of a line that is whole in it.    *)
EndsLine(bytes) == Front(bytes) # <<>> /\ Last(bytes).part = 2

(* extract_streaming_usage: the events in a piece that tell a count are     *)
(* merged in their order; one that tells neither is passed over.            *)
Tells(line) == line.kind = "event" /\ ~Missing(line.usage)

Extract[bytes \in Seq(Byte)] ==
  IF bytes = <<>> THEN Unknown
  ELSE IF EndsLine(bytes) /\ Tells(Last(bytes).of)
       THEN Merge(Extract[Front(bytes)], Last(bytes).of.usage)
       ELSE Extract[Front(bytes)]

(* extract_responses_api_usage_from_body: the last usage object anywhere.   *)
Salvage[bytes \in Seq(Byte)] ==
  IF bytes = <<>> THEN Unknown
  ELSE IF EndsLine(bytes) /\ ~Missing(Last(bytes).of.usage)
       THEN Last(bytes).of.usage
       ELSE Salvage[Front(bytes)]

AllOfIt(buf) == [lines |-> buf, rest |-> <<>>]

(* take_complete_sse_lines: up to the last newline; the rest waits.         *)
TakeComplete(buf) ==
  LET newlines == {k \in DOMAIN buf : buf[k].part = 3}
      last == IF newlines = {} THEN 0 ELSE CHOOSE k \in newlines : \A m \in newlines : m <= k
  IN [lines |-> SubSeq(buf, 1, last), rest |-> SubSeq(buf, last + 1, Len(buf))]

-----------------------------------------------------------------------------
Init ==
  /\ body \in UNION {[1..n -> SseLine] : n \in 0..MaxLines}
  /\ cut \in IF body = <<>> THEN {0} ELSE 0..2
  /\ ask \in {a \in Ask : a.responses \/ ~a.hasId}
  /\ pos = 0 /\ lineBuf = <<>> /\ usage = Unknown
  /\ flow = "open" /\ task = "waiting"
  /\ attempt = 0 /\ recovered = Unknown /\ row = NULL

(* The next n bytes arrive and are passed on. *)
Chunk(n) ==
  /\ flow = "open"
  /\ pos + n <= Len(Bytes)
  /\ LET take == TakeComplete(lineBuf \o SubSeq(Bytes, pos + 1, pos + n))
     IN /\ usage' = Merge(usage, Extract[take.lines])
        /\ lineBuf' = take.rest
  /\ pos' = pos + n
  /\ UNCHANGED <<given, flow, task, attempt, recovered, row>>

(* The upstream closes the stream; the rest of the last line is read, and   *)
(* when no line told anything, the whole body is searched.                  *)
EndOfStream ==
  /\ flow = "open"
  /\ pos = Len(Bytes)
  /\ LET u == Merge(usage, Extract[lineBuf])
     IN usage' = IF Missing(u) THEN Merge(u, Salvage[Bytes]) ELSE u
  /\ flow' = "ended"
  /\ UNCHANGED <<given, pos, lineBuf, task, attempt, recovered, row>>

(* The upstream fails or the client goes away: the stream is dropped, the   *)
(* sender with it.                                                          *)
BreakOff ==
  /\ flow = "open"
  /\ flow' = "dropped"
  /\ UNCHANGED <<given, pos, lineBuf, usage, task, attempt, recovered, row>>

-----------------------------------------------------------------------------
NeverGone == FALSE

(* The receiver is told when the sender is dropped without a value.         *)
SenderGone == flow = "dropped"

Interrupted ==
  /\ task = "waiting" /\ SenderGone
  /\ row' = [status |-> "interrupted", usage |-> Unknown]
  /\ task' = "done"
  /\ UNCHANGED <<given, pos, lineBuf, usage, flow, attempt, recovered>>

\* A faulty Recoverable: one missing count is enough.
WhenPartial ==
  /\ ask.responses /\ ask.hasId /\ ~ask.passthrough
  /\ usage.prompt = NULL \/ usage.completion = NULL

Recoverable == ask.responses /\ ask.hasId /\ ~ask.passthrough /\ Missing(usage)

Received ==
  /\ task = "waiting" /\ flow = "ended"
  /\ task' = IF Recoverable THEN "recovering" ELSE "finishing"
  /\ UNCHANGED <<given, pos, lineBuf, usage, flow, attempt, recovered, row>>

OneMore == attempt <= 4

(* retry_delays has four entries. *)
AttemptsLeft == attempt < 4

(* The upstream is asked for the answer by its id.                          *)
Retry ==
  /\ task = "recovering" /\ AttemptsLeft
  /\ attempt' = attempt + 1
  /\ task' = "asking"
  /\ UNCHANGED <<given, pos, lineBuf, usage, flow, recovered, row>>

(* The call fails, is refused, or brings no usage; or it brings one.  This  *)
(* step is the upstream's: the client limits the time it takes to connect,  *)
(* not the time it waits for an answer, so the call may never return.       *)
Told ==
  /\ task = "asking"
  /\ \/ task' = "recovering" /\ UNCHANGED <<usage, recovered>>
     \/ \E u \in {v \in Usage : ~Missing(v)} :
          recovered' = u /\ usage' = Merge(usage, u) /\ task' = "finishing"
  /\ UNCHANGED <<given, pos, lineBuf, flow, attempt, row>>

GiveUp ==
  /\ task = "recovering" /\ ~AttemptsLeft
  /\ task' = "finishing"
  /\ UNCHANGED <<given, pos, lineBuf, usage, flow, attempt, recovered, row>>

(* A stream of a model that ends without usage is an error. *)
Finish ==
  /\ task = "finishing"
  /\ row' = [status |-> IF ask.ok /\ (ask.passthrough \/ ~Missing(usage))
                        THEN "success" ELSE "error",
             usage |-> usage]
  /\ task' = "done"
  /\ UNCHANGED <<given, pos, lineBuf, usage, flow, attempt, recovered>>

Task == Interrupted \/ Received \/ Retry \/ GiveUp \/ Finish

Next ==
  \/ \E n \in 1..Len(Bytes) - pos : Chunk(n)
  \/ EndOfStream \/ BreakOff
  \/ Told
  \/ Task

Spec == Init /\ [][Next]_vars

(* The background task takes its own steps; upstream and client owe         *)
(* nothing, not even an answer to the recovery call.                        *)
FairSpec == Spec /\ WF_vars(Task)

-----------------------------------------------------------------------------
(***************************************************************************)
(* ChunkingIrrelevant: the usage found at the end of a stream is the one   *)
(* read from the whole body at once, wherever the network cut it: no event *)
(* is lost, read twice, or read in two halves.                             *)
(***************************************************************************)
Reference ==
  LET u == Extract[Bytes]
  IN IF Missing(u) THEN Merge(u, Salvage[Bytes]) ELSE u

ChunkingIrrelevant ==
  flow = "ended" /\ task = "waiting" => usage = Reference

(***************************************************************************)
(* BilledAsTold: a request logged as a success is logged, and so charged,  *)
(* with what the upstream told in the stream when it told anything there,  *)
(* else with what it told on recovery; a request with a model is never a   *)
(* success with neither count, nor when its stream broke off.              *)
(***************************************************************************)
BilledAsTold ==
  row # NULL /\ row.status = "success" =>
    /\ flow = "ended"
    /\ ask.passthrough \/ ~Missing(row.usage)
    /\ ~Missing(Reference) => row.usage = Reference
    /\ Missing(Reference) => row.usage = Merge(Reference, recovered)

(***************************************************************************)
(* StreamLogged: once a stream is over, in whatever way, its request gets  *)
(* its row, unless the upstream leaves a recovery call unanswered for      *)
(* ever: the task waits for no sender that is gone, and recovery comes to  *)
(* an end.                                                                 *)
(***************************************************************************)
StreamLogged == flow # "open" ~> row # NULL \/ [](task = "asking")
=============================================================================
