-------------------------------- MODULE Calc --------------------------------
(***************************************************************************)
(* Token usage and charge arithmetic: the counts an upstream reports, in   *)
(* the body of an answer or in the events of a stream, become a TokenUsage *)
(* of 32-bit integers (protocol.rs), a stored total and the numbers of     *)
(* tokens charged at each price (proxy.rs, deduct_credits).                *)
(*                                                                         *)
(* A price is a natural number of credits per token. A contract rate is    *)
(* kept as the weight of a token, its inverse, and a rate that is not      *)
(* positive as weight 0. Decimal scales, exchange rate and multiplier only *)
(* scale the sum and are left out, and so is its rounding.                 *)
(***************************************************************************)
EXTENDS Integers

CONSTANTS MaxInt,     \* i32::MAX
          Bodies,     \* what an answer or an event may report
          PriceLists, \* price versions and contract rates
          Null        \* None

VARIABLES protocol,   \* of the upstream that answered
          usage,      \* TokenUsage
          phase,      \* "open", "ended" or "settled"
          total,      \* request_logs.total_tokens
          charge      \* what deduct_credits bills

vars == <<protocol, usage, phase, total, charge>>

Protocols == {"OpenAI", "Anthropic", "Gemini"}
Modes == {"contract", "standard_pricing"}

I32 == (-MaxInt - 1) .. MaxInt
OptI32 == I32 \cup {Null}
OptNat == Nat \cup {Null}

TokenUsage == [prompt: OptI32, completion: OptI32, cached: OptI32,
               write: OptI32, total: OptI32]
Body == [prompt: Int \cup {Null}, completion: Int \cup {Null},
         cached: Int \cup {Null}, write: Int \cup {Null},
         total: Int \cup {Null}]
Tier == [input: Nat, output: Nat, cached: OptNat, write: OptNat]

\* long is the long-context tier: a missing field falls back to the base
\* one, and a missing input price disables the tier.
PriceList == [base: Tier, threshold: OptNat,
              long: [input: OptNat, output: OptNat,
                     cached: OptNat, write: OptNat]]

ASSUME CalcAssumption ==
  /\ MaxInt \in Nat \ {0}
  /\ Null \notin Int
  /\ Bodies \subseteq Body
  /\ PriceLists \subseteq PriceList

NoUsage == [prompt |-> Null, completion |-> Null, cached |-> Null,
            write |-> Null, total |-> Null]
NoCharge == [mode |-> Null]

-----------------------------------------------------------------------------
(* Options and machine integers.                                           *)

Or(a, b) == IF a # Null THEN a ELSE b

\* unwrap_or(0).max(0)
Count(n) == IF n = Null \/ n < 0 THEN 0 ELSE n

Least(a, b) == IF a <= b THEN a ELSE b
Most(a, b) == IF a >= b THEN a ELSE b

\* saturating_sub of u64
Minus(a, b) == IF a >= b THEN a - b ELSE 0

\* Arithmetic of i32 in a release build wraps around.
Wrap(n) == ((n + MaxInt + 1) % (2 * MaxInt + 2)) - MaxInt - 1

\* as_i64().map(|v| v as i32)
AsI32(n) == IF n = Null THEN Null ELSE Wrap(n)

\* p + c when both are there
PlusBoth(p, c) == IF p = Null \/ c = Null THEN Null ELSE Wrap(p + c)

-----------------------------------------------------------------------------
(* Usage.                                                                  *)

Extract(p, body) ==
  LET prompt == AsI32(body.prompt)
      completion == AsI32(body.completion)
  IN [prompt |-> prompt, completion |-> completion,
      cached |-> AsI32(body.cached),
      write |-> IF p = "Gemini" THEN Null ELSE AsI32(body.write),
      total |->
        LET reported == IF p = "Anthropic" THEN Null ELSE AsI32(body.total)
        IN IF p = "OpenAI" THEN reported
           ELSE Or(reported, PlusBoth(prompt, completion))]

Merge(old, new) ==
  LET prompt == Or(new.prompt, old.prompt)
      completion == Or(new.completion, old.completion)
  IN [prompt |-> prompt, completion |-> completion,
      cached |-> Or(new.cached, old.cached),
      write |-> Or(new.write, old.write),
      total |-> Or(PlusBoth(prompt, completion), old.total)]

\* A faulty Capped: the sum is made in 32 bits.
WrappedSum(n) == Wrap(n)

Capped(n) == Least(n, MaxInt)

\* checked_token_sum; a count that is not part of the sum is Null.
CheckedSum(a, b, c, d) ==
  IF \A n \in {a, b, c, d}: n = Null THEN Null
  ELSE Capped(Count(a) + Count(b) + Count(c) + Count(d))

NormalizedTotal(p, u) ==
  IF p = "Anthropic"
  THEN CheckedSum(u.prompt, u.completion, u.cached, u.write)
  ELSE LET fallback == CheckedSum(u.prompt, u.completion, Null, Null)
       IN IF u.total = Null \/ u.total < 0 THEN fallback
          ELSE IF fallback = Null THEN u.total
          ELSE Most(u.total, fallback)

-----------------------------------------------------------------------------
(* Charges.                                                                *)

\* What the long-context threshold is compared with.
ThresholdInput(mode, p, u) ==
  IF mode = "standard_pricing" /\ p = "Anthropic"
  THEN Count(u.prompt) + Count(u.cached) + Count(u.write)
  ELSE Count(u.prompt)

\* A contract compares only a prompt count that is there, but a missing one
\* is 0, below every threshold that counts.
IsLong(mode, p, u, list) ==
  /\ list.threshold \notin {Null, 0}
  /\ ThresholdInput(mode, p, u) >= list.threshold
  /\ list.long.input # Null

\* A faulty OrBase: a missing long-context price is free.
OrFree(long, base) == Or(long, 0)

OrBase(long, base) == Or(long, base)

TierOf(list, isLong) ==
  IF ~isLong THEN list.base
  ELSE [input |-> list.long.input,
        output |-> OrBase(list.long.output, list.base.output),
        cached |-> OrBase(list.long.cached, list.base.cached),
        write |-> OrBase(list.long.write, list.base.write)]

\* Protocols whose prompt count holds the cache details.
Includes(mode, p) ==
  p \in (IF mode = "contract" THEN {"OpenAI"} ELSE {"OpenAI", "Gemini"})

\* A faulty RoomForWrite: reads and writes are capped one by one.
WholePrompt(prompt, cached) == prompt

RoomForWrite(prompt, cached) == Minus(prompt, cached)

\* The cache details as charged.
Details(mode, p, u) ==
  LET prompt == Count(u.prompt)
      cached == Least(Count(u.cached), prompt)
  IN IF Includes(mode, p)
     THEN [cached |-> cached,
           write |-> Least(Count(u.write), RoomForWrite(prompt, cached))]
     ELSE [cached |-> Count(u.cached), write |-> Count(u.write)]

\* How many tokens go by each price of the tier: a standard price list bills
\* a detail without a price of its own as input, a contract not at all.
Tokens(mode, p, u, tier) ==
  LET prompt == Count(u.prompt)
      details == Details(mode, p, u)
      cached == IF tier.cached = Null THEN 0 ELSE details.cached
      write == IF tier.write = Null THEN 0 ELSE details.write
      input == IF Includes(mode, p)
               THEN IF mode = "contract"
                    THEN Minus(Minus(prompt, details.cached), details.write)
                    ELSE Minus(Minus(prompt, cached), write)
               ELSE IF mode = "contract" THEN prompt
                    ELSE prompt + (details.cached - cached)
                                + (details.write - write)
  IN [input |-> input, cached |-> cached, write |-> write,
      output |-> Count(u.completion)]

Bill(mode, p, u, list) ==
  LET long == IsLong(mode, p, u, list)
      tier == TierOf(list, long)
  IN [mode |-> mode, list |-> list, long |-> long,
      tokens |-> Tokens(mode, p, u, tier)]

Cost(bill) ==
  LET tier == TierOf(bill.list, bill.long)
  IN bill.tokens.input * tier.input + bill.tokens.output * tier.output
     + bill.tokens.cached * Count(tier.cached)
     + bill.tokens.write * Count(tier.write)

-----------------------------------------------------------------------------
Init ==
  /\ protocol \in Protocols
  /\ usage = NoUsage
  /\ phase = "open"
  /\ total = Null
  /\ charge = NoCharge

\* handle_normal_response: the whole answer is one body.
Answer(body) ==
  /\ phase = "open" /\ usage = NoUsage
  /\ usage' = Extract(protocol, body)
  /\ phase' = "ended"
  /\ UNCHANGED <<protocol, total, charge>>

\* An event of a stream: one without prompt and completion is ignored.
Event(body) ==
  LET new == Extract(protocol, body)
  IN /\ phase = "open"
     /\ new.prompt # Null \/ new.completion # Null
     /\ usage' = Merge(usage, new)
     /\ UNCHANGED <<protocol, phase, total, charge>>

UsageMissing == usage.prompt = Null /\ usage.completion = Null

\* The row is written with the total and the request is charged; an answer
\* that reports nothing is charged for nothing.
Settle(mode, list) ==
  /\ phase = "ended" \/ (phase = "open" /\ ~UsageMissing)
  /\ phase' = "settled"
  /\ total' = NormalizedTotal(protocol, usage)
  /\ charge' = Bill(mode, protocol, usage, list)
  /\ UNCHANGED <<protocol, usage>>

\* The stream ended without prompt and completion: an error row, no charge.
SettleMissing ==
  /\ phase = "open" /\ UsageMissing
  /\ phase' = "settled"
  /\ total' = NormalizedTotal(protocol, usage)
  /\ UNCHANGED <<protocol, usage, charge>>

Next ==
  \/ \E body \in Bodies: Answer(body) \/ Event(body)
  \/ SettleMissing
  \/ \E mode \in Modes, list \in PriceLists: Settle(mode, list)

Spec == Init /\ [][Next]_vars
-----------------------------------------------------------------------------
Settled == phase = "settled"
Charged == Settled /\ charge # NoCharge

\* The reported counts fit 32 bits, the stored total is never negative and
\* no price is applied to a negative number of tokens.
TypeOK ==
  /\ protocol \in Protocols
  /\ usage \in TokenUsage
  /\ phase \in {"open", "ended", "settled"}
  /\ total \in 0 .. MaxInt \cup {Null}
  /\ ~Settled => total = Null /\ charge = NoCharge
  /\ Charged => /\ charge.mode \in Modes
                /\ charge.list \in PriceLists
                /\ charge.long \in BOOLEAN
                /\ charge.tokens \in [input: Nat, cached: Nat,
                                      write: Nat, output: Nat]

\* The parts of the total: the details are in the prompt count but for
\* Anthropic.
Parts == Count(usage.prompt) + Count(usage.completion)
         + (IF protocol = "Anthropic"
            THEN Count(usage.cached) + Count(usage.write) ELSE 0)

\* The stored total is there when the upstream reported any part of it, and
\* it covers the parts or is the largest integer, even when their 32-bit sum
\* wrapped around or a stream's merged total did (protocol.rs
\* normalized_total_tokens).
TotalCovers ==
  Settled =>
    /\ usage.prompt # Null \/ usage.completion # Null => total # Null
    /\ total # Null => total = MaxInt \/ total >= Parts

\* The input tokens a request stands for: its prompt count, and for Anthropic
\* the cache details beside it.
InputTokens == Count(usage.prompt)
               + (IF protocol = "Anthropic"
                  THEN Count(usage.cached) + Count(usage.write) ELSE 0)

Billed == charge.tokens.input + charge.tokens.cached + charge.tokens.write

\* Standard pricing bills each input token once, at one price, whatever the
\* upstream says of its cache; a contract bills none of them twice, and all
\* of them when both cache rates are set (proxy.rs calculate_standard_charge,
\* calculate_token_credit_cost). Gemini under a contract is left to
\* GeminiChargedOnce.
BilledOnce ==
  Charged =>
    LET tier == TierOf(charge.list, charge.long)
    IN /\ charge.mode = "standard_pricing" => Billed = InputTokens
       /\ charge.mode = "contract" /\ protocol # "Gemini" =>
            /\ Billed <= InputTokens
            /\ tier.cached # Null /\ tier.write # Null
                 => Billed = InputTokens

\* No long-context price is below the price the same token has in the base
\* tier, which for a detail without one is the input price, or 0.
NotBelow(mode, list) ==
  LET base == list.base
      Plain(p) == Or(p, IF mode = "contract" THEN 0 ELSE base.input)
  IN list.long.input # Null =>
       /\ list.long.input >= base.input
       /\ Or(list.long.output, base.output) >= base.output
       /\ Or(list.long.cached, Plain(base.cached)) >= Plain(base.cached)
       /\ Or(list.long.write, Plain(base.write)) >= Plain(base.write)

\* A longer prompt never costs less, across the long-context threshold and
\* the caps on the cache details, when no long-context price is below the
\* base price of the same token (proxy.rs calculate_standard_charge,
\* deduct_credits).
LongerNeverCheaper ==
  Charged /\ usage.prompt # Null /\ usage.prompt < MaxInt
    /\ NotBelow(charge.mode, charge.list) =>
    Cost(charge) <=
      Cost(Bill(charge.mode, protocol,
                [usage EXCEPT !.prompt = @ + 1], charge.list))

\* A comment of protocol.rs (lines 24-25) says that the prompt count of
\* Gemini holds its cache details already. It does not hold of what a
\* contract charges, even when the upstream reports no more cached tokens
\* than prompt tokens: the details are charged once more.
GeminiChargedOnce ==
  Charged /\ protocol = "Gemini" /\ Count(usage.cached) <= Count(usage.prompt)
    => Billed <= Count(usage.prompt)
=============================================================================
