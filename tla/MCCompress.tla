----------------------------- MODULE MCCompress -----------------------------
(* Every text of up to four of some lines, and of up to three of these and  *)
(* of lines that are, or look like, fences of other kinds, as the content   *)
(* of a user's message; a longer blank one, and one at every place of a     *)
(* body.                                                                    *)
EXTENDS Compress

LineOf(indent, tildes, segs) == [indent |-> indent, tildes |-> tildes, segs |-> segs]

SomeLines ==
  { LineOf(0, 0, << <<>> >>),
    LineOf(0, 0, << <<>>, <<>>, <<>>, <<>> >>),
    LineOf(0, 3, << <<>> >>),
    LineOf(0, 0, << <<"filler">> >>),
    LineOf(0, 0, << <<"filler", "sp">>, <<>>, <<>>, <<>> >>),
    LineOf(2, 0, << <<"verbose", "sp", "filler", "sp", "word", "sp">> >>),
    LineOf(4, 0, << <<"filler", "sp", "word">> >>),
    LineOf(0, 0, << <<"word", "sp">>, <<"filler", "sp", "word">>,
                        <<"sp", "filler">> >>) }

Marks == [k \in 1..4 |-> <<>>]

(* Four backticks; three and a word; a span of three; three behind four     *)
(* spaces; four tildes and a word.                                          *)
OtherFences ==
  { LineOf(0, 0, Marks \o << <<>> >>),
    LineOf(0, 0, [Marks EXCEPT ![4] = <<"word">>]),
    LineOf(0, 0, [Marks EXCEPT ![4] = <<"word">>] \o << <<>>, <<>>, <<>> >>),
    LineOf(4, 0, Marks),
    LineOf(0, 4, << <<"word">> >>) }

Sample == << LineOf(0, 0, << <<"verbose", "sp", "word">> >>) >>

UserText == [protocol |-> "OpenAI", place |-> "messages", role |-> "user",
             kind |-> "string"]

Blanks == [k \in 1..12 |-> LineOf(0, 0, << <<>> >>)]

SomeFields ==
  {[leaf |-> UserText, text |-> t] :
     t \in UNION {[1..n -> SomeLines] : n \in 1..4}
          \cup UNION {[1..n -> SomeLines \cup OtherFences] : n \in 1..3}}
  \cup {[leaf |-> l, text |-> Sample] : l \in Leaf}
  \cup {[leaf |-> UserText, text |-> Blanks]}
=============================================================================
