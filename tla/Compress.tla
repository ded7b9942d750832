------------------------------ MODULE Compress ------------------------------
(***************************************************************************)
(* Prompt compression (compress.rs): which string of a request body may be *)
(* rewritten, the line-by-line rewriting that must leave code alone, and   *)
(* the guards under which the original is kept.  One string of one body at *)
(* a time: the walker treats them one by one.                              *)
(*                                                                         *)
(* A text is a sequence of lines.  A line is its leading spaces, the tildes *)
(* that follow, and the rest cut at its backticks into segments of words   *)
(* and spaces; a "filler" is a phrase that a rule removes, a "verbose" one *)
(* that a rule replaces by a "brief" one.  A tab counts as four spaces.    *)
(***************************************************************************)
EXTENDS Integers, Sequences, SequencesExt

CONSTANTS Fields,       \* the strings of request bodies, with where they are
          MinFieldChars, MinSavingsPct

Token == {"word", "filler", "verbose", "brief", "sp"}
Segment == Seq(Token)
Line == [indent : Nat, tildes : Nat, segs : Seq(Segment) \ {<<>>}]

(* The strings of a body, as the three APIs define it: where they are, whose*)
(* they are, and whether they are plain or of a part with a type.           *)
At(protocol, places, roles, kinds) ==
  [protocol : {protocol}, place : places, role : roles, kind : kinds]

Leaf ==
  At("OpenAI", {"messages", "input"}, {"system", "developer", "user", "assistant", "tool"},
     {"string", "text", "input_text", "tool_result"})
  \cup At("OpenAI", {"instructions", "input", "tools"}, {"none"}, {"string"})
  \cup At("Anthropic", {"system"}, {"none"}, {"string", "text", "tool_result"})
  \cup At("Anthropic", {"messages"}, {"user", "assistant"}, {"string", "text", "tool_result"})
  \cup At("Gemini", {"systemInstruction"}, {"none"}, {"text"})
  \cup At("Gemini", {"contents"}, {"user", "model", "none"}, {"text", "tool_result"})
  \cup At("Gemini", {"tools"}, {"none"}, {"string"})

ASSUME CompressAssumption ==
  /\ MinFieldChars \in Nat /\ MinSavingsPct \in Nat
  /\ Fields \subseteq [leaf : Leaf, text : Seq(Line) \ {<<>>}]

VARIABLES field,        \* the string being compressed
          scope,        \* CompressionConfig.scope
          phase,        \* "walk", "scan", "guard", "done"
          nextLine,
          inFence, out, \* of compress_prose
          result        \* the string that is forwarded

compressVars == <<field, scope, phase, nextLine, inFence, out, result>>

text == field.text

-----------------------------------------------------------------------------
(* The walker: which strings are natural language of a role in scope.       *)

RoleInScopeOpenAI(role) ==
  \/ role \in {"system", "developer"} /\ scope.system
  \/ role = "user" /\ scope.user
  \/ role = "assistant" /\ scope.assistant

Or(role, default) == IF role = "none" THEN default ELSE role

(* A faulty ContentOf: every part that has a text is compressed. *)
AnyContent(leaf, textTypes) == TRUE

(* compress_content: a string, or a part of one of the types. *)
ContentOf(leaf, textTypes) == leaf.kind \in {"string"} \cup textTypes

OpenAITarget(leaf) ==
  \/ /\ leaf.place = "messages"
     /\ RoleInScopeOpenAI(leaf.role) /\ ContentOf(leaf, {"text", "input_text"})
  \/ leaf.place = "instructions" /\ scope.system
  \/ /\ leaf.place = "input"
     /\ RoleInScopeOpenAI(Or(leaf.role, "user"))
     /\ ContentOf(leaf, {"text", "input_text"})

AnthropicTarget(leaf) ==
  \/ leaf.place = "system" /\ scope.system /\ ContentOf(leaf, {"text"})
  \/ /\ leaf.place = "messages"
     /\ \/ leaf.role = "user" /\ scope.user
        \/ leaf.role = "assistant" /\ scope.assistant
     /\ ContentOf(leaf, {"text"})

(* Parts of Gemini have no type: one with a text is text. *)
GeminiTarget(leaf) ==
  /\ leaf.kind = "text"
  /\ \/ leaf.place = "systemInstruction" /\ scope.system
     \/ /\ leaf.place = "contents"
        /\ IF leaf.role = "model" THEN scope.assistant ELSE scope.user

Targeted(leaf) ==
  CASE leaf.protocol = "OpenAI" -> OpenAITarget(leaf)
    [] leaf.protocol = "Anthropic" -> AnthropicTarget(leaf)
    [] leaf.protocol = "Gemini" -> GeminiTarget(leaf)

-----------------------------------------------------------------------------
(* Lines and segments.                                                      *)

IsFence(line) ==
  \/ line.tildes >= 3
  \/ Len(line.segs) > 3 /\ \A k \in 1..3 : line.segs[k] = <<>>

Empty(line) == line.indent = 0 /\ line.tildes = 0 /\ line.segs = << <<>> >>

(* A faulty Verbatim: four spaces are still prose. *)
DeeperOnly(line) == line.indent > 4

Verbatim(line) == line.indent >= 4

(* The rules on one segment, and then runs of spaces made one. *)
Rewritten[seg \in Segment] ==
  IF seg = <<>> THEN <<>>
  ELSE LET done == Rewritten[Front(seg)]
           t == Last(seg)
       IN IF t = "filler" \/ (t = "sp" /\ done # <<>> /\ Last(done) = "sp")
          THEN done
          ELSE Append(done, IF t = "verbose" THEN "brief" ELSE t)

TrimEnd[seg \in Segment] ==
  IF seg = <<>> \/ Last(seg) # "sp" THEN seg ELSE TrimEnd[Front(seg)]

(* A faulty Prose: the segments inside backticks are those that change. *)
SwappedProse(line) ==
  [line EXCEPT !.segs =
     [k \in DOMAIN line.segs |->
        IF k % 2 = 0 THEN Rewritten[line.segs[k]] ELSE line.segs[k]]]

(* process_prose_line and trim_end: every other segment is inside backticks.*)
Prose(line) ==
  LET segs == [k \in DOMAIN line.segs |->
                 IF k % 2 = 1 THEN Rewritten[line.segs[k]] ELSE line.segs[k]]
  IN [line EXCEPT !.segs = [segs EXCEPT ![Len(segs)] = TrimEnd[@]]]

(* BLANKLINES: three and more newlines in a row become two, wherever.  The  *)
(* newline after the last of these lines is the third or later of a run:    *)
Droppable(lines) == Len(lines) >= 3 /\ Empty(Last(lines)) /\ Empty(Last(Front(lines)))

Shrunk[lines \in Seq(Line)] ==
  IF lines = <<>> THEN <<>>
  ELSE IF Droppable(lines) THEN Shrunk[Front(lines)]
       ELSE Append(Shrunk[Front(lines)], Last(lines))

(* No newline comes after the last line. *)
Collapsed(lines) ==
  IF lines = <<>> THEN <<>> ELSE Append(Shrunk[Front(lines)], Last(lines))

-----------------------------------------------------------------------------
(* Sizes, in bytes.                                                         *)
Weight == [word |-> 5, filler |-> 6, verbose |-> 12, brief |-> 2, sp |-> 1]

SegSize[seg \in Segment] ==
  IF seg = <<>> THEN 0 ELSE SegSize[Front(seg)] + Weight[Last(seg)]

SegsSize[segs \in Seq(Segment)] ==
  IF segs = <<>> THEN 0 ELSE SegsSize[Front(segs)] + SegSize[Last(segs)]

LineSize(line) ==
  line.indent + line.tildes + Len(line.segs) - 1 + SegsSize[line.segs]

LinesSize[lines \in Seq(Line)] ==
  IF lines = <<>> THEN 0 ELSE LinesSize[Front(lines)] + LineSize(Last(lines))

Size(lines) == Len(lines) - 1 + LinesSize[lines]

EstimateTokens(lines) == Size(lines) \div 4

IsBlank(lines) ==
  \A k \in DOMAIN lines :
    lines[k].tildes = 0 /\ Len(lines[k].segs) = 1 /\ TrimEnd[lines[k].segs[1]] = <<>>

(* The guards of try_compress. *)
WorthIt(old, new) ==
  LET before == EstimateTokens(old)
      saved == IF before > EstimateTokens(new) THEN before - EstimateTokens(new) ELSE 0
  IN /\ Size(new) < Size(old)
     /\ IsBlank(new) => IsBlank(old)
     /\ before # 0 /\ (saved * 100) \div before >= MinSavingsPct

-----------------------------------------------------------------------------
CompressInit ==
  /\ field \in Fields
  /\ scope \in [system : BOOLEAN, user : BOOLEAN, assistant : BOOLEAN]
  /\ phase = "walk"
  /\ nextLine = 1 /\ inFence = FALSE /\ out = <<>>
  /\ result = field.text

Skip ==
  /\ phase = "walk"
  /\ ~Targeted(field.leaf) \/ Size(text) < MinFieldChars
  /\ phase' = "done"
  /\ UNCHANGED <<field, scope, nextLine, inFence, out, result>>

Begin ==
  /\ phase = "walk"
  /\ Targeted(field.leaf) /\ Size(text) >= MinFieldChars
  /\ phase' = "scan"
  /\ UNCHANGED <<field, scope, nextLine, inFence, out, result>>

Push(line) == /\ out' = Append(out, line) /\ nextLine' = nextLine + 1
              /\ UNCHANGED <<field, scope, phase, result>>

Reading == phase = "scan" /\ nextLine <= Len(text)

FenceLine == /\ Reading /\ IsFence(text[nextLine])
             /\ inFence' = ~inFence
             /\ Push(text[nextLine])

(* A line of code: inside a fence, or indented. *)
CodeLine == /\ Reading /\ ~IsFence(text[nextLine])
            /\ inFence \/ Verbatim(text[nextLine])
            /\ Push(text[nextLine])
            /\ UNCHANGED inFence

ProseLine == /\ Reading /\ ~IsFence(text[nextLine])
             /\ ~inFence /\ ~Verbatim(text[nextLine])
             /\ Push(Prose(text[nextLine]))
             /\ UNCHANGED inFence

Join == /\ phase = "scan" /\ nextLine > Len(text)
        /\ out' = Collapsed(out)
        /\ phase' = "guard"
        /\ UNCHANGED <<field, scope, nextLine, inFence, result>>

Keep == /\ phase = "guard" /\ ~WorthIt(text, out)
        /\ phase' = "done"
        /\ UNCHANGED <<field, scope, nextLine, inFence, out, result>>

Replace == /\ phase = "guard" /\ WorthIt(text, out)
           /\ result' = out
           /\ phase' = "done"
           /\ UNCHANGED <<field, scope, nextLine, inFence, out>>

CompressNext == \/ Skip \/ Begin
                \/ FenceLine \/ CodeLine \/ ProseLine \/ Join
                \/ Keep \/ Replace

CompressSpec == CompressInit /\ [][CompressNext]_compressVars

-----------------------------------------------------------------------------
(* What a reader of the prompt takes for code: CommonMark's fenced blocks   *)
(* and lines indented by four and more.                                     *)
NoFence == [mark |-> "none", length |-> 0]

(* Three or more of one mark, indented by less than four; no backtick comes *)
(* after backticks.                                                         *)
MarkOf(line) ==
  [mark |-> IF line.tildes > 0 THEN "tilde" ELSE "tick",
   length |-> IF line.tildes > 0 THEN line.tildes ELSE Len(line.segs) - 1]

IsMark(line) ==
  /\ line.indent < 4
  /\ MarkOf(line).length >= 3
  /\ line.tildes = 0 => \A k \in 1..Len(line.segs) - 1 : line.segs[k] = <<>>

(* A fence ends with its own mark, as long or longer, and nothing after it. *)
Ends(open, line) ==
  /\ MarkOf(line).mark = open.mark
  /\ MarkOf(line).length >= open.length
  /\ line.tildes > 0 => Len(line.segs) = 1
  /\ TrimEnd[Last(line.segs)] = <<>>

(* The fence that is open after these lines. *)
OpenFence[lines \in Seq(Line)] ==
  IF lines = <<>> THEN NoFence
  ELSE LET open == OpenFence[Front(lines)]
           line == Last(lines)
       IN IF ~IsMark(line) THEN open
          ELSE IF open = NoFence THEN MarkOf(line)
          ELSE IF Ends(open, line) THEN NoFence ELSE open

(* The scanner took one of these lines for a fence that is none: it is text *)
(* of the code around it, or has a backtick after the mark, or is indented. *)
Misled[lines \in Seq(Line)] ==
  IF lines = <<>> THEN FALSE
  ELSE \/ Misled[Front(lines)]
       \/ IsFence(Last(lines)) /\ OpenFence[lines] = OpenFence[Front(lines)]

(* The last of these lines is code of which the scanner can know. *)
EndsInCode(lines) ==
  \/ Last(lines).indent >= 4
  \/ /\ OpenFence[Front(lines)] # NoFence \/ OpenFence[lines] # NoFence
     /\ ~Misled[Front(lines)]

(* What is left of a sequence of lines when some are left out. *)
Within[lines \in Seq(Line)] ==
  IF lines = <<>> THEN {<<>>}
  ELSE Within[Front(lines)] \cup {Append(part, Last(lines)) : part \in Within[Front(lines)]}

(***************************************************************************)
(* CodeKept: a prompt's indented lines, and its fenced blocks up to the    *)
(* first line that begins with a mark and is no fence, are forwarded line  *)
(* by line as they were and in order, blank lines aside, whatever is       *)
(* around them (compress.rs 184-188).  After such a line the scanner takes *)
(* code for prose, which openspec's "fenced code is untouched" has not.    *)
(***************************************************************************)
CodeOf[lines \in Seq(Line)] ==
  IF lines = <<>> THEN <<>>
  ELSE IF EndsInCode(lines) /\ ~Empty(Last(lines))
       THEN Append(CodeOf[Front(lines)], Last(lines))
       ELSE CodeOf[Front(lines)]

CodeKept == CodeOf[text] \in Within[result]

(***************************************************************************)
(* TextKept: what no rule names is forwarded, and in its order: every word *)
(* of the prose, and every span between two backticks of a line as it was, *)
(* the backticks taken two by two, whatever around them is removed, joined,*)
(* trimmed or collapsed.                                                   *)
(***************************************************************************)
Words[seg \in Segment] ==
  IF seg = <<>> THEN <<>>
  ELSE IF Last(seg) = "word" THEN Append(Words[Front(seg)], <<"word">>)
       ELSE Words[Front(seg)]

KeptIn[segs \in Seq(Segment)] ==
  IF segs = <<>> THEN <<>>
  ELSE KeptIn[Front(segs)] \o
         (IF Len(segs) % 2 = 0 THEN <<Last(segs)>> ELSE Words[Last(segs)])

(* The last segment is between no two backticks. *)
KeptOf(line) == KeptIn[Front(line.segs)] \o Words[Last(line.segs)]

Kept[lines \in Seq(Line)] ==
  IF lines = <<>> THEN <<>> ELSE Kept[Front(lines)] \o KeptOf(Last(lines))

TextKept == Kept[result] = Kept[text]

(***************************************************************************)
(* OnlyPrompt: a string that is changed is a text of the system or the     *)
(* user, or of the assistant when that is switched on, never a tool's or   *)
(* another part's (openspec prompt-compression, field targeting); it got   *)
(* shorter by the savings asked for, and is blank only if it was before.   *)
(***************************************************************************)
SpeakerOf(leaf) ==
  CASE leaf.place \in {"instructions", "system", "systemInstruction"} -> "system"
    [] leaf.role \in {"system", "developer"} -> "system"
    [] leaf.role \in {"assistant", "model"} -> "assistant"
    [] leaf.role = "tool" -> "tool"
    [] OTHER -> IF leaf.place = "tools" THEN "tool" ELSE "user"

OnlyPrompt ==
  result # text =>
    /\ SpeakerOf(field.leaf) \in {s \in {"system", "user", "assistant"} : scope[s]}
    /\ field.leaf.kind # "tool_result"
    /\ EstimateTokens(result) * 100 <= EstimateTokens(text) * (100 - MinSavingsPct)
    /\ IsBlank(result) => IsBlank(text)
=============================================================================
