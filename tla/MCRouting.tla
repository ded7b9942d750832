----------------------------- MODULE MCRouting -----------------------------
(* A small instance of Routing.  The config ids are interchangeable. *)
EXTENDS Routing, TLC

Row(priority, protocol, active, compression) ==
  [priority |-> priority, protocol |-> protocol, active |-> active,
   matches |-> TRUE, compression |-> compression]

(* A preferred upstream, a second one with compression off, a Gemini one    *)
(* with compression on, and one that is inactive.                           *)
SomeRows == {Row(0, "openai", TRUE, NULL), Row(1, "openai", TRUE, FALSE),
             Row(1, "gemini", TRUE, TRUE), Row(0, "openai", FALSE, NULL)}

Ask(detected, header, inBody, inPath, standard) ==
  [model |-> TRUE, detected |-> detected, header |-> header, inBody |-> inBody,
   inPath |-> inPath, standard |-> standard]

(* Requests to OpenAI, streaming or not; one to Gemini, which streams; and  *)
(* one without a model, passed through.                                     *)
SomeRequests ==
  {Ask("openai", "none", s, FALSE, TRUE) : s \in BOOLEAN} \cup
  {Ask("openai", h, TRUE, FALSE, FALSE) : h \in {"on", "off"}} \cup
  {Ask("gemini", "none", FALSE, TRUE, FALSE),
   [Ask("openai", "on", FALSE, FALSE, TRUE) EXCEPT !.model = FALSE]}

IdSymmetry == Permutations(Configs)
=============================================================================
