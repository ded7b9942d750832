----------------------------- MODULE CalcProofs -----------------------------
(***************************************************************************)
(* Proofs about Calc, for every width of the integers, every body and every*)
(* price list: the stored total covers what was reported, and every input  *)
(* token is billed once.  The invariant says that total and charge are what*)
(* the code computes from the usage; the rest is arithmetic.               *)
(***************************************************************************)
EXTENDS Calc, TLAPS

USE CalcAssumption

-----------------------------------------------------------------------------
(* Machine integers stay in their range. *)

LEMMA WrapInRange ==
  ASSUME NEW n \in Int
  PROVE  Wrap(n) \in I32
<1> DEFINE d == 2 * MaxInt + 2
           m == (n + MaxInt + 1) % d
<1>1. d \in Int /\ d > 0
  OBVIOUS
<1>2. m \in 0 .. d - 1
  BY <1>1
<1>3. Wrap(n) = m - MaxInt - 1
  BY DEF Wrap
<1> HIDE DEF m
<1>4. QED
  BY <1>2, <1>3 DEF I32

LEMMA AsI32Type ==
  ASSUME NEW n \in Int \cup {Null}
  PROVE  AsI32(n) \in OptI32
BY WrapInRange DEF AsI32, OptI32

LEMMA PlusBothType ==
  ASSUME NEW p \in OptI32, NEW c \in OptI32
  PROVE  PlusBoth(p, c) \in OptI32
<1>1. CASE p = Null \/ c = Null
  BY <1>1 DEF PlusBoth, OptI32
<1>2. CASE ~(p = Null \/ c = Null)
  <2>1. p + c \in Int
    BY <1>2 DEF OptI32, I32
  <2>2. QED
    BY <1>2, <2>1, WrapInRange DEF PlusBoth, OptI32
<1>3. QED
  BY <1>1, <1>2

LEMMA ExtractType ==
  ASSUME NEW p \in Protocols, NEW body \in Body
  PROVE  Extract(p, body) \in TokenUsage
<1>1. /\ AsI32(body.prompt) \in OptI32 /\ AsI32(body.completion) \in OptI32
      /\ AsI32(body.cached) \in OptI32 /\ AsI32(body.write) \in OptI32
      /\ AsI32(body.total) \in OptI32
  BY AsI32Type DEF Body
<1>2. PlusBoth(AsI32(body.prompt), AsI32(body.completion)) \in OptI32
  BY <1>1, PlusBothType
<1>3. Null \in OptI32
  BY DEF OptI32
<1>4. QED
  BY <1>1, <1>2, <1>3 DEF Extract, TokenUsage, Protocols, Or

LEMMA MergeType ==
  ASSUME NEW old \in TokenUsage, NEW new \in TokenUsage
  PROVE  Merge(old, new) \in TokenUsage
<1>1. /\ Or(new.prompt, old.prompt) \in OptI32
      /\ Or(new.completion, old.completion) \in OptI32
      /\ Or(new.cached, old.cached) \in OptI32
      /\ Or(new.write, old.write) \in OptI32
  BY DEF TokenUsage, Or
<1>2. PlusBoth(Or(new.prompt, old.prompt), Or(new.completion, old.completion))
        \in OptI32
  BY <1>1, PlusBothType
<1>3. QED
  BY <1>1, <1>2 DEF Merge, TokenUsage, Or

LEMMA CountType ==
  ASSUME NEW n \in OptI32
  PROVE  Count(n) \in 0 .. MaxInt
BY DEF Count, OptI32, I32

-----------------------------------------------------------------------------
(* The stored total. *)

\* The sum is missing only when every part is, it is no 32-bit overflow, and
\* it reaches the parts or the largest integer.
LEMMA CheckedSumCovers ==
  ASSUME NEW a \in OptI32, NEW b \in OptI32, NEW c \in OptI32, NEW d \in OptI32
  PROVE  /\ CheckedSum(a, b, c, d) \in 0 .. MaxInt \cup {Null}
         /\ CheckedSum(a, b, c, d) = Null
              => a = Null /\ b = Null /\ c = Null /\ d = Null
         /\ CheckedSum(a, b, c, d) # Null =>
              \/ CheckedSum(a, b, c, d) = MaxInt
              \/ CheckedSum(a, b, c, d) >= Count(a) + Count(b) + Count(c) + Count(d)
<1> DEFINE sum == Count(a) + Count(b) + Count(c) + Count(d)
<1>1. sum \in Nat
  BY CountType
<1>2. CASE \A n \in {a, b, c, d}: n = Null
  BY <1>2 DEF CheckedSum
<1>3. CASE ~(\A n \in {a, b, c, d}: n = Null)
  <2>1. CheckedSum(a, b, c, d) = Capped(sum)
    BY <1>3 DEF CheckedSum
  <2> HIDE DEF sum
  <2>2. Capped(sum) \in 0 .. MaxInt /\ (Capped(sum) = MaxInt \/ Capped(sum) >= sum)
    BY <1>1 DEF Capped, Least
  <2>3. Null \notin 0 .. MaxInt
    OBVIOUS
  <2>4. QED
    BY <1>3, <2>1, <2>2, <2>3 DEF sum
<1>4. QED
  BY <1>2, <1>3

\* The tokens a total stands for.
PartsOf(p, u) == Count(u.prompt) + Count(u.completion)
                 + (IF p = "Anthropic"
                    THEN Count(u.cached) + Count(u.write) ELSE 0)

LEMMA NormalizedCovers ==
  ASSUME NEW p \in Protocols, NEW u \in TokenUsage
  PROVE  /\ NormalizedTotal(p, u) \in 0 .. MaxInt \cup {Null}
         /\ u.prompt # Null \/ u.completion # Null => NormalizedTotal(p, u) # Null
         /\ NormalizedTotal(p, u) # Null =>
              NormalizedTotal(p, u) = MaxInt \/ NormalizedTotal(p, u) >= PartsOf(p, u)
<1>1. /\ u.prompt \in OptI32 /\ u.completion \in OptI32
      /\ u.cached \in OptI32 /\ u.write \in OptI32 /\ u.total \in OptI32
  BY DEF TokenUsage
<1>2. /\ Count(u.prompt) \in Nat /\ Count(u.completion) \in Nat
      /\ Count(u.cached) \in Nat /\ Count(u.write) \in Nat /\ Count(Null) = 0
  BY <1>1, CountType DEF Count
<1>3. CASE p = "Anthropic"
  BY <1>1, <1>2, <1>3, CheckedSumCovers DEF NormalizedTotal, PartsOf
<1>4. CASE p # "Anthropic"
  <2> DEFINE fallback == CheckedSum(u.prompt, u.completion, Null, Null)
             parts == Count(u.prompt) + Count(u.completion)
  <2>1. Null \in OptI32
    BY DEF OptI32
  <2>2. /\ fallback \in 0 .. MaxInt \cup {Null}
        /\ fallback = Null => u.prompt = Null /\ u.completion = Null
        /\ fallback # Null => fallback = MaxInt \/ fallback >= parts
    BY <1>1, <1>2, <2>1, CheckedSumCovers
  <2>3. PartsOf(p, u) = parts
    BY <1>2, <1>4 DEF PartsOf
  <2>4. parts \in Nat /\ (u.prompt = Null /\ u.completion = Null => parts = 0)
    BY <1>2 DEF Count
  <2>5. NormalizedTotal(p, u) =
          IF u.total = Null \/ u.total < 0 THEN fallback
          ELSE IF fallback = Null THEN u.total
          ELSE Most(u.total, fallback)
    BY <1>4 DEF NormalizedTotal
  <2>6. u.total # Null /\ ~(u.total < 0) => u.total \in 0 .. MaxInt
    BY <1>1 DEF OptI32, I32
  <2> HIDE DEF fallback, parts
  <2>7. QED
    BY <2>2, <2>3, <2>4, <2>5, <2>6 DEF Most
<1>5. QED
  BY <1>3, <1>4

-----------------------------------------------------------------------------
(* The tokens charged. *)

LEMMA DetailsFit ==
  ASSUME NEW mode \in Modes, NEW p \in Protocols, NEW u \in TokenUsage
  PROVE  /\ Details(mode, p, u) \in [cached: Nat, write: Nat]
         /\ Includes(mode, p) =>
              Details(mode, p, u).cached + Details(mode, p, u).write
                <= Count(u.prompt)
         /\ ~Includes(mode, p) =>
              Details(mode, p, u) = [cached |-> Count(u.cached),
                                     write |-> Count(u.write)]
<1>1. /\ Count(u.prompt) \in Nat /\ Count(u.cached) \in Nat
      /\ Count(u.write) \in Nat
  BY CountType DEF TokenUsage
<1> DEFINE prompt == Count(u.prompt)
           cached == Least(Count(u.cached), prompt)
           write == Least(Count(u.write), RoomForWrite(prompt, cached))
<1>2. cached \in Nat /\ cached <= prompt
  BY <1>1 DEF Least
<1> HIDE DEF cached
<1>3. write \in Nat /\ cached + write <= prompt
  BY <1>1, <1>2 DEF Least, RoomForWrite, Minus
<1> HIDE DEF write
<1>4. Details(mode, p, u) =
        IF Includes(mode, p)
        THEN [cached |-> cached, write |-> write]
        ELSE [cached |-> Count(u.cached), write |-> Count(u.write)]
  BY DEF Details, cached, write
<1>5. CASE Includes(mode, p)
  BY <1>2, <1>3, <1>4, <1>5
<1>6. CASE ~Includes(mode, p)
  BY <1>1, <1>4, <1>6
<1>7. QED
  BY <1>5, <1>6

\* The input tokens of a usage under a protocol.
InputOf(p, u) == Count(u.prompt)
                 + (IF p = "Anthropic"
                    THEN Count(u.cached) + Count(u.write) ELSE 0)

\* Every token count is a natural number, and the three parts of the input
\* are the input: always for a standard price, and for a contract but Gemini's
\* when both details have a rate.
LEMMA TokensOnce ==
  ASSUME NEW mode \in Modes, NEW p \in Protocols, NEW u \in TokenUsage, NEW tier
  PROVE  LET t == Tokens(mode, p, u, tier)
         IN /\ t \in [input: Nat, cached: Nat, write: Nat, output: Nat]
            /\ mode = "standard_pricing" =>
                 t.input + t.cached + t.write = InputOf(p, u)
            /\ mode = "contract" /\ p # "Gemini" =>
                 /\ t.input + t.cached + t.write <= InputOf(p, u)
                 /\ tier.cached # Null /\ tier.write # Null =>
                      t.input + t.cached + t.write = InputOf(p, u)
<1> DEFINE t == Tokens(mode, p, u, tier)
           prompt == Count(u.prompt)
           d == Details(mode, p, u)
           cached == IF tier.cached = Null THEN 0 ELSE d.cached
           write == IF tier.write = Null THEN 0 ELSE d.write
<1>1. prompt \in Nat /\ Count(u.completion) \in Nat
      /\ Count(u.cached) \in Nat /\ Count(u.write) \in Nat
  BY CountType DEF TokenUsage
<1>2. d.cached \in Nat /\ d.write \in Nat
  BY DetailsFit
<1>3. /\ cached \in Nat /\ cached <= d.cached
      /\ write \in Nat /\ write <= d.write
  BY <1>2
<1>4. /\ t.cached = cached /\ t.write = write
      /\ t.output = Count(u.completion)
      /\ t = [input |-> t.input, cached |-> cached, write |-> write,
              output |-> Count(u.completion)]
  BY DEF Tokens
<1>5. Includes(mode, p) => d.cached + d.write <= prompt
  BY DetailsFit
<1>6. ~Includes(mode, p) => d.cached = Count(u.cached) /\ d.write = Count(u.write)
  BY DetailsFit
<1>7. mode = "contract" /\ Includes(mode, p) => t.input = prompt - d.cached - d.write
  <2>1. SUFFICES ASSUME mode = "contract", Includes(mode, p)
                 PROVE  t.input = prompt - d.cached - d.write
    OBVIOUS
  <2>2. t.input = Minus(Minus(prompt, d.cached), d.write)
    BY <2>1 DEF Tokens
  <2>3. QED
    BY <1>1, <1>2, <1>5, <2>1, <2>2 DEF Minus
<1>8. mode = "standard_pricing" /\ Includes(mode, p) => t.input = prompt - cached - write
  <2>1. SUFFICES ASSUME mode = "standard_pricing", Includes(mode, p)
                 PROVE  t.input = prompt - cached - write
    OBVIOUS
  <2>2. t.input = Minus(Minus(prompt, cached), write)
    BY <2>1 DEF Tokens
  <2> HIDE DEF cached, write
  <2>3. QED
    BY <1>1, <1>2, <1>3, <1>5, <2>1, <2>2 DEF Minus
<1>9. mode = "contract" /\ ~Includes(mode, p) => t.input = prompt
  BY DEF Tokens
<1>10. mode = "standard_pricing" /\ ~Includes(mode, p) =>
         t.input = prompt + (d.cached - cached) + (d.write - write)
  BY DEF Tokens
<1>11. /\ mode = "contract" => (Includes(mode, p) <=> p = "OpenAI")
       /\ mode = "standard_pricing" => (Includes(mode, p) <=> p # "Anthropic")
       /\ mode = "contract" \/ mode = "standard_pricing"
       /\ p = "OpenAI" \/ p = "Gemini" \/ p = "Anthropic"
  BY DEF Includes, Modes, Protocols
<1>12. /\ p = "Anthropic" => InputOf(p, u) = prompt + Count(u.cached) + Count(u.write)
       /\ p # "Anthropic" => InputOf(p, u) = prompt
  BY <1>1 DEF InputOf
<1>13. /\ tier.cached # Null => cached = d.cached
       /\ tier.write # Null => write = d.write
  OBVIOUS
<1> HIDE DEF t, prompt, d, cached, write
<1>14. t.input \in Nat
  BY <1>1, <1>2, <1>3, <1>5, <1>7, <1>8, <1>9, <1>10, <1>11
<1>15. t \in [input: Nat, cached: Nat, write: Nat, output: Nat]
  BY <1>1, <1>3, <1>4, <1>14
<1>16. mode = "standard_pricing" => t.input + t.cached + t.write = InputOf(p, u)
  BY <1>1, <1>2, <1>3, <1>4, <1>6, <1>8, <1>10, <1>11, <1>12
<1>17. mode = "contract" /\ p # "Gemini" =>
         /\ t.input + t.cached + t.write <= InputOf(p, u)
         /\ tier.cached # Null /\ tier.write # Null =>
              t.input + t.cached + t.write = InputOf(p, u)
  BY <1>1, <1>2, <1>3, <1>4, <1>5, <1>6, <1>7, <1>9, <1>11, <1>12, <1>13
<1>18. QED
  BY <1>15, <1>16, <1>17 DEF t

-----------------------------------------------------------------------------
(* The invariant: what is stored is computed from the usage. *)

ChargeOfUsage ==
  /\ charge.list \in PriceLists
  /\ charge.mode \in Modes
  /\ charge = Bill(charge.mode, protocol, usage, charge.list)

CalcInv ==
  /\ protocol \in Protocols
  /\ usage \in TokenUsage
  /\ phase \in {"open", "ended", "settled"}
  /\ IF Settled THEN total = NormalizedTotal(protocol, usage)
                ELSE total = Null /\ charge = NoCharge
  /\ charge = NoCharge \/ ChargeOfUsage

LEMMA CalcInvInit == Init => CalcInv
BY DEF Init, CalcInv, NoUsage, TokenUsage, OptI32, Settled

LEMMA BillOfList ==
  ASSUME NEW mode \in Modes, NEW p, NEW u, NEW list \in PriceLists
  PROVE  LET b == Bill(mode, p, u, list)
         IN b.list \in PriceLists /\ b.mode \in Modes
            /\ b = Bill(b.mode, p, u, b.list)
BY DEF Bill

LEMMA CalcInvNext == CalcInv /\ [Next]_vars => CalcInv'
<1> SUFFICES ASSUME CalcInv, [Next]_vars
             PROVE  CalcInv'
  OBVIOUS
<1> USE DEF CalcInv
<1>1. ASSUME NEW body \in Bodies, Answer(body)
      PROVE  CalcInv'
  <2>1. usage' \in TokenUsage
    BY <1>1, ExtractType DEF Answer
  <2>2. QED
    BY <1>1, <2>1 DEF Answer, Settled, ChargeOfUsage
<1>2. ASSUME NEW body \in Bodies, Event(body)
      PROVE  CalcInv'
  <2>1. usage' \in TokenUsage
    BY <1>2, ExtractType, MergeType DEF Event
  <2>2. QED
    BY <1>2, <2>1 DEF Event, Settled, ChargeOfUsage
<1>3. ASSUME NEW mode \in Modes, NEW list \in PriceLists, Settle(mode, list)
      PROVE  CalcInv'
  <2>1. charge' = Bill(mode, protocol, usage, list)
        /\ UNCHANGED <<protocol, usage>> /\ phase' = "settled"
        /\ total' = NormalizedTotal(protocol, usage)
    BY <1>3 DEF Settle
  <2>2. ChargeOfUsage'
    BY <2>1, BillOfList DEF ChargeOfUsage
  <2>3. QED
    BY <2>1, <2>2 DEF Settled
<1>4. CASE SettleMissing
  BY <1>4 DEF SettleMissing, Settled, ChargeOfUsage
<1>5. CASE UNCHANGED vars
  BY <1>5 DEF vars, Settled, ChargeOfUsage
<1>6. QED
  BY <1>1, <1>2, <1>3, <1>4, <1>5 DEF Next

LEMMA CalcInvariant == Spec => []CalcInv
BY CalcInvInit, CalcInvNext, PTL DEF Spec

-----------------------------------------------------------------------------
LEMMA ChargeIsBill ==
  ASSUME CalcInv, charge # NoCharge
  PROVE  /\ Settled
         /\ charge.mode \in Modes
         /\ charge.list \in PriceLists
         /\ charge.long = IsLong(charge.mode, protocol, usage, charge.list)
         /\ charge.tokens = Tokens(charge.mode, protocol, usage,
                                   TierOf(charge.list, charge.long))
<1>1. ChargeOfUsage /\ Settled
  BY DEF CalcInv
<1>2. QED
  BY <1>1 DEF ChargeOfUsage, Bill

LEMMA InvType == CalcInv => TypeOK
<1> SUFFICES ASSUME CalcInv PROVE TypeOK
  OBVIOUS
<1>1. total \in 0 .. MaxInt \cup {Null}
  BY NormalizedCovers DEF CalcInv
<1>2. ASSUME charge # NoCharge
      PROVE  charge.tokens \in [input: Nat, cached: Nat, write: Nat, output: Nat]
  BY <1>2, ChargeIsBill, TokensOnce DEF CalcInv
<1>3. ASSUME charge # NoCharge
      PROVE  charge.long \in BOOLEAN
  BY <1>3, ChargeIsBill DEF IsLong
<1>4. QED
  BY <1>1, <1>2, <1>3, ChargeIsBill DEF CalcInv, TypeOK, Charged

\* Every reachable state is well typed: the stored total is never negative
\* and no price is applied to a negative number of tokens, whatever the
\* upstream reports (protocol.rs, proxy.rs deduct_credits).
THEOREM CalcTypeCorrect == Spec => []TypeOK
BY CalcInvariant, InvType, PTL

\* The stored total covers what the upstream reported, or is the largest
\* integer (protocol.rs normalized_total_tokens).
THEOREM CalcTotalCovers == Spec => []TotalCovers
<1>1. CalcInv => TotalCovers
  BY NormalizedCovers DEF CalcInv, TotalCovers, PartsOf, Parts
<1>2. QED
  BY <1>1, CalcInvariant, PTL

\* Standard pricing bills every input token exactly once, and a contract of
\* OpenAI or Anthropic at most once (proxy.rs calculate_standard_charge,
\* calculate_token_credit_cost).
THEOREM CalcBilledOnce == Spec => []BilledOnce
<1>1. CalcInv => BilledOnce
  <2> SUFFICES ASSUME CalcInv, Charged
               PROVE  LET tier == TierOf(charge.list, charge.long)
                      IN /\ charge.mode = "standard_pricing" => Billed = InputTokens
                         /\ charge.mode = "contract" /\ protocol # "Gemini" =>
                              /\ Billed <= InputTokens
                              /\ tier.cached # Null /\ tier.write # Null
                                   => Billed = InputTokens
    BY DEF BilledOnce
  <2> DEFINE tier == TierOf(charge.list, charge.long)
  <2>1. /\ charge.mode \in Modes /\ protocol \in Protocols /\ usage \in TokenUsage
        /\ charge.tokens = Tokens(charge.mode, protocol, usage, tier)
    BY ChargeIsBill DEF CalcInv, Charged
  <2>2. InputTokens = InputOf(protocol, usage)
    BY DEF InputTokens, InputOf
  <2> HIDE DEF tier
  <2>3. /\ charge.mode = "standard_pricing" => Billed = InputTokens
        /\ charge.mode = "contract" /\ protocol # "Gemini" =>
             /\ Billed <= InputTokens
             /\ tier.cached # Null /\ tier.write # Null => Billed = InputTokens
    BY <2>1, <2>2, TokensOnce DEF Billed
  <2>4. QED
    BY <2>3 DEF tier
<1>2. QED
  BY <1>1, CalcInvariant, PTL

-----------------------------------------------------------------------------
(* A longer prompt. *)

\* The price of a detail in a tier: its own, or else the input price under
\* standard pricing and nothing under a contract.
PriceIn(mode, tier, price) == Or(price, IF mode = "contract" THEN 0 ELSE tier.input)

\* The tokens that are input and no detail.
Undetailed(mode, p, u) ==
  IF Includes(mode, p)
  THEN Count(u.prompt) - Details(mode, p, u).cached - Details(mode, p, u).write
  ELSE Count(u.prompt)

CostOf(mode, p, u, tier) ==
  Undetailed(mode, p, u) * tier.input
  + Count(u.completion) * tier.output
  + Details(mode, p, u).cached * PriceIn(mode, tier, tier.cached)
  + Details(mode, p, u).write * PriceIn(mode, tier, tier.write)

LEMMA Shared ==
  ASSUME NEW a \in Nat, NEW b \in Nat, NEW c \in Nat, NEW k \in Nat
  PROVE  (a + b + c) * k = a * k + b * k + c * k
OBVIOUS

LEMMA ProductsGrow ==
  ASSUME NEW a \in Nat, NEW b \in Nat, NEW c \in Nat, NEW d \in Nat,
         a <= b, c <= d
  PROVE  a * c \in Nat /\ b * d \in Nat /\ a * c <= b * d
<1>1. a * c <= b * c
  OBVIOUS
<1>2. b * c <= b * d
  OBVIOUS
<1>3. a * c \in Nat /\ b * d \in Nat /\ b * c \in Nat
  OBVIOUS
<1> DEFINE x == a * c  y == b * c  z == b * d
<1> HIDE DEF x, y, z
<1>4. x <= z
  BY <1>1, <1>2, <1>3 DEF x, y, z
<1>5. QED
  BY <1>3, <1>4 DEF x, z

LEMMA UndetailedType ==
  ASSUME NEW mode \in Modes, NEW p \in Protocols, NEW u \in TokenUsage
  PROVE  /\ Undetailed(mode, p, u) \in Nat
         /\ Details(mode, p, u).cached \in Nat
         /\ Details(mode, p, u).write \in Nat
         /\ Count(u.prompt) \in Nat /\ Count(u.completion) \in Nat
<1>1. Count(u.prompt) \in Nat /\ Count(u.completion) \in Nat
  BY CountType DEF TokenUsage
<1> DEFINE d == Details(mode, p, u)
<1>2. d.cached \in Nat /\ d.write \in Nat
  BY DetailsFit
<1>3. Includes(mode, p) => d.cached + d.write <= Count(u.prompt)
  BY DetailsFit
<1> HIDE DEF d
<1>4. IF Includes(mode, p) THEN Count(u.prompt) - d.cached - d.write \in Nat
                           ELSE Count(u.prompt) \in Nat
  BY <1>1, <1>2, <1>3
<1>5. QED
  BY <1>1, <1>2, <1>4 DEF Undetailed, d

\* What is billed is the undetailed input, the output and each detail, each
\* at its price.
LEMMA CostIs ==
  ASSUME NEW mode \in Modes, NEW p \in Protocols, NEW u \in TokenUsage,
         NEW tier \in Tier
  PROVE  LET t == Tokens(mode, p, u, tier)
         IN t.input * tier.input + t.output * tier.output
            + t.cached * Count(tier.cached) + t.write * Count(tier.write)
            = CostOf(mode, p, u, tier)
<1> DEFINE t == Tokens(mode, p, u, tier)
           d == Details(mode, p, u)
           raw == Undetailed(mode, p, u)
           prompt == Count(u.prompt)
           cached == IF tier.cached = Null THEN 0 ELSE d.cached
           write == IF tier.write = Null THEN 0 ELSE d.write
           ofInput == tier.input
           ofCached == PriceIn(mode, tier, tier.cached)
           ofWrite == PriceIn(mode, tier, tier.write)
<1>1. /\ ofInput \in Nat /\ tier.output \in Nat
      /\ tier.cached \in Nat \/ tier.cached = Null
      /\ tier.write \in Nat \/ tier.write = Null
  BY DEF Tier, OptNat
<1>2. Null \notin Int
  BY CalcAssumption
<1>3. /\ tier.cached # Null => /\ Count(tier.cached) = tier.cached
                               /\ ofCached = tier.cached
      /\ tier.cached = Null => /\ Count(tier.cached) = 0
                               /\ ofCached = IF mode = "contract" THEN 0 ELSE ofInput
      /\ tier.write # Null => /\ Count(tier.write) = tier.write
                              /\ ofWrite = tier.write
      /\ tier.write = Null => /\ Count(tier.write) = 0
                              /\ ofWrite = IF mode = "contract" THEN 0 ELSE ofInput
  BY <1>1, <1>2 DEF Count, PriceIn, Or
<1>4. /\ raw \in Nat /\ d.cached \in Nat /\ d.write \in Nat
      /\ prompt \in Nat /\ Count(u.completion) \in Nat
  BY UndetailedType
<1>5. /\ cached \in Nat /\ cached <= d.cached
      /\ write \in Nat /\ write <= d.write
  BY <1>4
<1>6. /\ t.cached = cached /\ t.write = write
      /\ t.output = Count(u.completion)
  BY DEF Tokens
<1>7. Includes(mode, p) => d.cached + d.write <= prompt
  BY DetailsFit
<1>8. raw = IF Includes(mode, p) THEN prompt - d.cached - d.write ELSE prompt
  BY DEF Undetailed
<1>9. t.input = IF Includes(mode, p)
                THEN IF mode = "contract"
                     THEN Minus(Minus(prompt, d.cached), d.write)
                     ELSE Minus(Minus(prompt, cached), write)
                ELSE IF mode = "contract" THEN prompt
                     ELSE prompt + (d.cached - cached) + (d.write - write)
  BY DEF Tokens
<1>10. mode = "contract" \/ mode = "standard_pricing"
  BY DEF Modes
<1>11. CostOf(mode, p, u, tier) = raw * ofInput + Count(u.completion) * tier.output
                                  + d.cached * ofCached + d.write * ofWrite
  BY DEF CostOf
<1>12. /\ tier.cached # Null => cached = d.cached
       /\ tier.cached = Null => cached = 0
       /\ tier.write # Null => write = d.write
       /\ tier.write = Null => write = 0
  OBVIOUS
<1> DEFINE out == Count(u.completion) * tier.output
           restCached == IF mode = "contract" THEN 0 ELSE d.cached - cached
           restWrite == IF mode = "contract" THEN 0 ELSE d.write - write
<1>13. restCached \in Nat /\ restWrite \in Nat
  BY <1>4, <1>5
<1> HIDE DEF t, d, raw, prompt, cached, write
<1>14. t.input = raw + restCached + restWrite
  BY <1>4, <1>5, <1>7, <1>8, <1>9, <1>10 DEF Minus
<1>15. out \in Nat
  <2>1. ASSUME NEW x \in Nat, NEW y \in Nat PROVE x * y \in Nat
    OBVIOUS
  <2>2. QED
    BY <1>1, <1>4, <2>1
<1> HIDE DEF restCached, restWrite, out, ofInput, ofCached, ofWrite
<1>16. t.input * ofInput = raw * ofInput + restCached * ofInput + restWrite * ofInput
  BY <1>1, <1>4, <1>13, <1>14, Shared
<1>17. restCached * ofInput + cached * Count(tier.cached) = d.cached * ofCached
  <2>1. CASE tier.cached # Null
    <3>1. restCached = 0 /\ cached = d.cached /\ Count(tier.cached) = ofCached
          /\ ofCached \in Nat
      BY <1>1, <1>3, <1>4, <1>12, <2>1 DEF restCached
    <3>2. QED
      BY <1>1, <1>4, <3>1
  <2>2. CASE tier.cached = Null /\ mode = "contract"
    <3>1. restCached = 0 /\ cached = 0 /\ Count(tier.cached) = 0 /\ ofCached = 0
      BY <1>3, <1>12, <2>2 DEF restCached
    <3>2. QED
      BY <1>1, <1>4, <3>1
  <2>3. CASE tier.cached = Null /\ mode # "contract"
    <3>1. restCached = d.cached /\ cached = 0 /\ Count(tier.cached) = 0
          /\ ofCached = ofInput
      BY <1>3, <1>4, <1>12, <2>3 DEF restCached
    <3>2. QED
      BY <1>1, <1>4, <3>1
  <2>4. QED
    BY <2>1, <2>2, <2>3
<1>18. restWrite * ofInput + write * Count(tier.write) = d.write * ofWrite
  <2>1. CASE tier.write # Null
    <3>1. restWrite = 0 /\ write = d.write /\ Count(tier.write) = ofWrite
          /\ ofWrite \in Nat
      BY <1>1, <1>3, <1>4, <1>12, <2>1 DEF restWrite
    <3>2. QED
      BY <1>1, <1>4, <3>1
  <2>2. CASE tier.write = Null /\ mode = "contract"
    <3>1. restWrite = 0 /\ write = 0 /\ Count(tier.write) = 0 /\ ofWrite = 0
      BY <1>3, <1>12, <2>2 DEF restWrite
    <3>2. QED
      BY <1>1, <1>4, <3>1
  <2>3. CASE tier.write = Null /\ mode # "contract"
    <3>1. restWrite = d.write /\ write = 0 /\ Count(tier.write) = 0
          /\ ofWrite = ofInput
      BY <1>3, <1>4, <1>12, <2>3 DEF restWrite
    <3>2. QED
      BY <1>1, <1>4, <3>1
  <2>4. QED
    BY <2>1, <2>2, <2>3
<1>19. /\ Count(tier.cached) \in Nat /\ Count(tier.write) \in Nat
       /\ ofCached \in Nat /\ ofWrite \in Nat
  BY <1>1, <1>3
<1> DEFINE a == raw * ofInput
           b == restCached * ofInput
           c == restWrite * ofInput
           e == cached * Count(tier.cached)
           f == write * Count(tier.write)
<1>20. a \in Nat /\ b \in Nat /\ c \in Nat /\ e \in Nat /\ f \in Nat
  <2>1. ASSUME NEW x \in Nat, NEW y \in Nat PROVE x * y \in Nat
    OBVIOUS
  <2>2. QED
    BY <1>1, <1>4, <1>5, <1>13, <1>19, <2>1
<1>21. /\ t.input * ofInput = a + b + c
       /\ b + e = d.cached * ofCached
       /\ c + f = d.write * ofWrite
  BY <1>16, <1>17, <1>18
<1>22. CostOf(mode, p, u, tier) = a + out + d.cached * ofCached + d.write * ofWrite
  BY <1>11 DEF out
<1>23. t.output * tier.output = out
  BY <1>6 DEF out
<1> HIDE DEF a, b, c, e, f
<1>24. (a + b + c) + out + e + f = a + out + (b + e) + (c + f)
  BY <1>15, <1>20
<1>25. t.input * ofInput + t.output * tier.output + e + f = CostOf(mode, p, u, tier)
  BY <1>21, <1>22, <1>23, <1>24
<1>26. QED
  BY <1>6, <1>25 DEF t, e, f, ofInput

\* One token more in the prompt is one more to count or none (a negative
\* count is 0): no detail and no undetailed part shrinks.
LEMMA LongerParts ==
  ASSUME NEW mode \in Modes, NEW p \in Protocols,
         NEW u \in TokenUsage, NEW v \in TokenUsage,
         Count(u.prompt) <= Count(v.prompt),
         v.completion = u.completion, v.cached = u.cached, v.write = u.write
  PROVE  /\ Undetailed(mode, p, u) <= Undetailed(mode, p, v)
         /\ Details(mode, p, u).cached <= Details(mode, p, v).cached
         /\ Details(mode, p, u).write <= Details(mode, p, v).write
         /\ ThresholdInput(mode, p, u) \in Nat
         /\ ThresholdInput(mode, p, v) \in Nat
         /\ ThresholdInput(mode, p, u) <= ThresholdInput(mode, p, v)
<1> DEFINE P == Count(u.prompt)
           Q == Count(v.prompt)
           c == Count(u.cached)
           w == Count(u.write)
<1>1. P \in Nat /\ Q \in Nat /\ c \in Nat /\ w \in Nat /\ P <= Q
  BY CountType DEF TokenUsage
<1>2. /\ Details(mode, p, u) =
           IF Includes(mode, p)
           THEN [cached |-> Least(c, P), write |-> Least(w, Minus(P, Least(c, P)))]
           ELSE [cached |-> c, write |-> w]
      /\ Details(mode, p, v) =
           IF Includes(mode, p)
           THEN [cached |-> Least(c, Q), write |-> Least(w, Minus(Q, Least(c, Q)))]
           ELSE [cached |-> c, write |-> w]
  BY DEF Details, RoomForWrite
<1>3. ThresholdInput(mode, p, u) \in Nat /\ ThresholdInput(mode, p, v) \in Nat
      /\ ThresholdInput(mode, p, u) <= ThresholdInput(mode, p, v)
  <2>1. /\ ThresholdInput(mode, p, u) =
             (IF mode = "standard_pricing" /\ p = "Anthropic" THEN P + c + w ELSE P)
        /\ ThresholdInput(mode, p, v) =
             (IF mode = "standard_pricing" /\ p = "Anthropic" THEN Q + c + w ELSE Q)
    BY DEF ThresholdInput
  <2> HIDE DEF P, Q, c, w
  <2>2. QED
    BY <1>1, <2>1
<1>4. CASE Includes(mode, p)
  <2>1. /\ Details(mode, p, u).cached = Least(c, P)
        /\ Details(mode, p, u).write = Least(w, Minus(P, Least(c, P)))
        /\ Details(mode, p, v).cached = Least(c, Q)
        /\ Details(mode, p, v).write = Least(w, Minus(Q, Least(c, Q)))
    BY <1>2, <1>4
  <2>2. /\ Undetailed(mode, p, u) = P - Least(c, P) - Least(w, Minus(P, Least(c, P)))
        /\ Undetailed(mode, p, v) = Q - Least(c, Q) - Least(w, Minus(Q, Least(c, Q)))
    BY <1>4, <2>1 DEF Undetailed
  <2> HIDE DEF P, Q, c, w
  <2>3. QED
    BY <1>1, <1>3, <2>1, <2>2 DEF Least, Minus
<1>5. CASE ~Includes(mode, p)
  <2>1. Undetailed(mode, p, u) = P /\ Undetailed(mode, p, v) = Q
    BY <1>5 DEF Undetailed
  <2>2. Details(mode, p, u) = Details(mode, p, v) /\ Details(mode, p, v).cached = c
        /\ Details(mode, p, v).write = w
    BY <1>2, <1>5
  <2> HIDE DEF P, Q, c, w
  <2>3. QED
    BY <1>1, <1>3, <2>1, <2>2
<1>6. QED
  BY <1>4, <1>5

\* A cost is monotonic in its parts and in its prices.
LEMMA DearerParts ==
  ASSUME NEW a \in Nat, NEW b \in Nat, NEW c \in Nat, NEW d \in Nat,
         NEW A \in Nat, NEW B \in Nat, NEW C \in Nat, NEW D \in Nat,
         NEW ap \in Nat, NEW bp \in Nat, NEW cp \in Nat, NEW dp \in Nat,
         NEW Ap \in Nat, NEW Bp \in Nat, NEW Cp \in Nat, NEW Dp \in Nat,
         a <= A, b <= B, c <= C, d <= D,
         ap <= Ap, bp <= Bp, cp <= Cp, dp <= Dp
  PROVE  a * ap + b * bp + c * cp + d * dp <= A * Ap + B * Bp + C * Cp + D * Dp
<1> DEFINE x1 == a * ap  x2 == b * bp  x3 == c * cp  x4 == d * dp
           y1 == A * Ap  y2 == B * Bp  y3 == C * Cp  y4 == D * Dp
<1>1. x1 \in Nat /\ y1 \in Nat /\ x1 <= y1
  BY ProductsGrow
<1>2. x2 \in Nat /\ y2 \in Nat /\ x2 <= y2
  BY ProductsGrow
<1>3. x3 \in Nat /\ y3 \in Nat /\ x3 <= y3
  BY ProductsGrow
<1>4. x4 \in Nat /\ y4 \in Nat /\ x4 <= y4
  BY ProductsGrow
<1> HIDE DEF x1, x2, x3, x4, y1, y2, y3, y4
<1>5. x1 + x2 + x3 + x4 <= y1 + y2 + y3 + y4
  BY <1>1, <1>2, <1>3, <1>4
<1>6. QED
  BY <1>5 DEF x1, x2, x3, x4, y1, y2, y3, y4

LEMMA PriceListParts ==
  ASSUME NEW list \in PriceLists
  PROVE  /\ list.base \in Tier
         /\ list.threshold \in Nat \cup {Null}
         /\ list.long.input \in Nat \cup {Null}
         /\ list.long.output \in Nat \cup {Null}
         /\ list.long.cached \in Nat \cup {Null}
         /\ list.long.write \in Nat \cup {Null}
BY CalcAssumption DEF PriceList, OptNat

LEMMA TierType ==
  ASSUME NEW list \in PriceLists, NEW isLong \in BOOLEAN,
         isLong => list.long.input # Null
  PROVE  TierOf(list, isLong) \in Tier
BY PriceListParts DEF TierOf, OrBase, Or, Tier, OptNat

LEMMA PriceType ==
  ASSUME NEW tier \in Tier, NEW mode, NEW price \in Nat \cup {Null}
  PROVE  PriceIn(mode, tier, price) \in Nat
BY DEF PriceIn, Or, Tier

\* When NotBelow holds, no price of the long-context tier is below the base one.
LEMMA LongDearer ==
  ASSUME NEW mode \in Modes, NEW list \in PriceLists,
         list.long.input # Null, NotBelow(mode, list)
  PROVE  LET base == TierOf(list, FALSE)
             long == TierOf(list, TRUE)
         IN /\ base.input <= long.input
            /\ base.output <= long.output
            /\ PriceIn(mode, base, base.cached) <= PriceIn(mode, long, long.cached)
            /\ PriceIn(mode, base, base.write) <= PriceIn(mode, long, long.write)
<1> DEFINE base == list.base
           long == TierOf(list, TRUE)
           free == IF mode = "contract" THEN 0 ELSE base.input
<1>1. TierOf(list, FALSE) = base
  BY DEF TierOf
<1>2. /\ long.input = list.long.input
      /\ long.output = Or(list.long.output, base.output)
      /\ long.cached = Or(list.long.cached, base.cached)
      /\ long.write = Or(list.long.write, base.write)
  BY DEF TierOf, OrBase
<1>3. /\ base.input \in Nat /\ base.output \in Nat
      /\ base.cached \in Nat \cup {Null} /\ base.write \in Nat \cup {Null}
      /\ list.long.input \in Nat /\ list.long.output \in Nat \cup {Null}
      /\ list.long.cached \in Nat \cup {Null} /\ list.long.write \in Nat \cup {Null}
  BY PriceListParts DEF Tier, OptNat
<1>4. /\ list.long.input >= base.input
      /\ Or(list.long.output, base.output) >= base.output
      /\ Or(list.long.cached, Or(base.cached, free)) >= Or(base.cached, free)
      /\ Or(list.long.write, Or(base.write, free)) >= Or(base.write, free)
  BY DEF NotBelow
<1>5. /\ PriceIn(mode, base, base.cached) = Or(base.cached, free)
      /\ PriceIn(mode, base, base.write) = Or(base.write, free)
      /\ PriceIn(mode, long, long.cached) =
           Or(long.cached, IF mode = "contract" THEN 0 ELSE long.input)
      /\ PriceIn(mode, long, long.write) =
           Or(long.write, IF mode = "contract" THEN 0 ELSE long.input)
  BY DEF PriceIn
<1>6. base.input <= long.input /\ base.output <= long.output
  BY <1>2, <1>3, <1>4 DEF Or
<1>7. PriceIn(mode, base, base.cached) <= PriceIn(mode, long, long.cached)
  BY <1>2, <1>3, <1>4, <1>5 DEF Or
<1>8. PriceIn(mode, base, base.write) <= PriceIn(mode, long, long.write)
  BY <1>2, <1>3, <1>4, <1>5 DEF Or
<1>9. QED
  BY <1>1, <1>6, <1>7, <1>8

\* The cost of a bill is that of its parts at the prices of its tier.
LEMMA CostOfBill ==
  ASSUME NEW mode \in Modes, NEW p \in Protocols, NEW u \in TokenUsage,
         NEW list \in PriceLists
  PROVE  LET isLong == IsLong(mode, p, u, list)
         IN /\ isLong \in BOOLEAN
            /\ TierOf(list, isLong) \in Tier
            /\ Cost(Bill(mode, p, u, list)) = CostOf(mode, p, u, TierOf(list, isLong))
<1> DEFINE isLong == IsLong(mode, p, u, list)
           tier == TierOf(list, isLong)
<1>1. isLong \in BOOLEAN /\ (isLong => list.long.input # Null)
  BY DEF IsLong
<1>2. tier \in Tier
  BY <1>1, TierType
<1>3. LET bill == Bill(mode, p, u, list)
      IN bill.list = list /\ bill.long = isLong /\ bill.tokens = Tokens(mode, p, u, tier)
  BY DEF Bill
<1> HIDE DEF isLong
<1>4. Cost(Bill(mode, p, u, list)) = CostOf(mode, p, u, tier)
  <2> DEFINE t == Tokens(mode, p, u, tier)
  <2>1. Cost(Bill(mode, p, u, list)) =
          t.input * tier.input + t.output * tier.output
          + t.cached * Count(tier.cached) + t.write * Count(tier.write)
    BY <1>3 DEF Cost
  <2> HIDE DEF tier
  <2>2. QED
    BY <1>2, <2>1, CostIs
<1>5. QED
  BY <1>1, <1>2, <1>4 DEF isLong

LEMMA LongerCosts ==
  ASSUME NEW mode \in Modes, NEW p \in Protocols, NEW list \in PriceLists,
         NEW u \in TokenUsage, NEW v \in TokenUsage,
         Count(u.prompt) <= Count(v.prompt),
         v.completion = u.completion, v.cached = u.cached, v.write = u.write,
         NotBelow(mode, list)
  PROVE  Cost(Bill(mode, p, u, list)) <= Cost(Bill(mode, p, v, list))
<1> DEFINE small == TierOf(list, IsLong(mode, p, u, list))
           large == TierOf(list, IsLong(mode, p, v, list))
<1>1. /\ small \in Tier /\ large \in Tier
      /\ Cost(Bill(mode, p, u, list)) = CostOf(mode, p, u, small)
      /\ Cost(Bill(mode, p, v, list)) = CostOf(mode, p, v, large)
      /\ IsLong(mode, p, u, list) \in BOOLEAN
      /\ IsLong(mode, p, v, list) \in BOOLEAN
  BY CostOfBill
<1>2. /\ Undetailed(mode, p, u) <= Undetailed(mode, p, v)
      /\ Details(mode, p, u).cached <= Details(mode, p, v).cached
      /\ Details(mode, p, u).write <= Details(mode, p, v).write
      /\ ThresholdInput(mode, p, u) \in Nat
      /\ ThresholdInput(mode, p, v) \in Nat
      /\ ThresholdInput(mode, p, u) <= ThresholdInput(mode, p, v)
  BY LongerParts
<1>3. IsLong(mode, p, u, list) => IsLong(mode, p, v, list)
  BY <1>2, PriceListParts DEF IsLong
<1>4. /\ small.input \in Nat /\ small.output \in Nat
      /\ large.input \in Nat /\ large.output \in Nat
      /\ small.cached \in Nat \cup {Null} /\ small.write \in Nat \cup {Null}
      /\ large.cached \in Nat \cup {Null} /\ large.write \in Nat \cup {Null}
  BY <1>1 DEF Tier, OptNat
<1>5. /\ PriceIn(mode, small, small.cached) \in Nat
      /\ PriceIn(mode, small, small.write) \in Nat
      /\ PriceIn(mode, large, large.cached) \in Nat
      /\ PriceIn(mode, large, large.write) \in Nat
  BY <1>1, <1>4, PriceType
<1>6. /\ small.input <= large.input /\ small.output <= large.output
      /\ PriceIn(mode, small, small.cached) <= PriceIn(mode, large, large.cached)
      /\ PriceIn(mode, small, small.write) <= PriceIn(mode, large, large.write)
  <2>1. CASE IsLong(mode, p, u, list) = IsLong(mode, p, v, list)
    <3>1. small = large
      BY <2>1
    <3> HIDE DEF small, large
    <3>2. QED
      BY <1>4, <1>5, <3>1
  <2>2. CASE ~IsLong(mode, p, u, list) /\ IsLong(mode, p, v, list)
    <3>1. small = TierOf(list, FALSE) /\ large = TierOf(list, TRUE)
          /\ list.long.input # Null
      BY <1>1, <2>2 DEF IsLong
    <3> HIDE DEF small, large
    <3>2. QED
      BY <3>1, LongDearer
  <2>3. QED
    BY <1>1, <1>3, <2>1, <2>2
<1>7. /\ Undetailed(mode, p, u) \in Nat /\ Undetailed(mode, p, v) \in Nat
      /\ Details(mode, p, u).cached \in Nat /\ Details(mode, p, v).cached \in Nat
      /\ Details(mode, p, u).write \in Nat /\ Details(mode, p, v).write \in Nat
      /\ Count(u.completion) \in Nat
  BY UndetailedType
<1> HIDE DEF small, large
<1>8. CostOf(mode, p, u, small) <= CostOf(mode, p, v, large)
  <2> DEFINE n == Count(u.completion)
             a == Undetailed(mode, p, u)
             A == Undetailed(mode, p, v)
             c == Details(mode, p, u).cached
             C == Details(mode, p, v).cached
             d == Details(mode, p, u).write
             D == Details(mode, p, v).write
             s == PriceIn(mode, small, small.cached)
             l == PriceIn(mode, large, large.cached)
             sw == PriceIn(mode, small, small.write)
             lw == PriceIn(mode, large, large.write)
             si == small.input
             li == large.input
             so == small.output
             lo == large.output
  <2>1. /\ n \in Nat /\ a \in Nat /\ A \in Nat /\ c \in Nat /\ C \in Nat
        /\ d \in Nat /\ D \in Nat /\ n <= n /\ a <= A /\ c <= C /\ d <= D
    BY <1>2, <1>7
  <2>2. /\ s \in Nat /\ l \in Nat /\ sw \in Nat /\ lw \in Nat
        /\ si \in Nat /\ li \in Nat /\ so \in Nat /\ lo \in Nat
        /\ s <= l /\ sw <= lw /\ si <= li /\ so <= lo
    BY <1>4, <1>5, <1>6
  <2>3. /\ CostOf(mode, p, u, small) = a * si + n * so + c * s + d * sw
        /\ CostOf(mode, p, v, large) = A * li + n * lo + C * l + D * lw
    BY DEF CostOf
  <2> HIDE DEF n, a, A, c, C, d, D, s, l, sw, lw, si, li, so, lo
  <2>4. a * si + n * so + c * s + d * sw <= A * li + n * lo + C * l + D * lw
    BY <2>1, <2>2, DearerParts
  <2>5. QED
    BY <2>3, <2>4
<1>9. QED
  BY <1>1, <1>8

LEMMA OneMoreToken ==
  ASSUME NEW u \in TokenUsage, u.prompt # Null, u.prompt < MaxInt
  PROVE  LET v == [u EXCEPT !.prompt = @ + 1]
         IN /\ v \in TokenUsage
            /\ Count(u.prompt) <= Count(v.prompt)
            /\ v.completion = u.completion /\ v.cached = u.cached
            /\ v.write = u.write
<1> DEFINE v == [u EXCEPT !.prompt = @ + 1]
<1>1. MaxInt \in Nat /\ Null \notin Int
  BY CalcAssumption
<1>2. u.prompt \in I32 /\ u.prompt + 1 \in I32
  BY <1>1 DEF TokenUsage, OptI32, I32
<1>3. u.prompt + 1 \in OptI32
  BY <1>2 DEF OptI32
<1>4. v \in TokenUsage
  BY <1>3 DEF TokenUsage
<1>5. /\ v.prompt = u.prompt + 1 /\ v.completion = u.completion
      /\ v.cached = u.cached /\ v.write = u.write
  BY DEF TokenUsage
<1>6. Count(u.prompt) <= Count(u.prompt + 1)
  BY <1>1, <1>2 DEF Count, I32
<1>7. QED
  BY <1>4, <1>5, <1>6

\* A longer prompt never costs less, across the long-context threshold and
\* the caps on the cache details, when no long-context price is below the
\* base price of the same token (proxy.rs calculate_standard_charge,
\* deduct_credits).
THEOREM CalcLongerNeverCheaper == Spec => []LongerNeverCheaper
<1>1. CalcInv => LongerNeverCheaper
  <2> SUFFICES ASSUME CalcInv, Charged, usage.prompt # Null, usage.prompt < MaxInt,
                      NotBelow(charge.mode, charge.list)
               PROVE  Cost(charge) <=
                        Cost(Bill(charge.mode, protocol,
                                  [usage EXCEPT !.prompt = @ + 1], charge.list))
    BY DEF LongerNeverCheaper
  <2>1. /\ charge.mode \in Modes /\ charge.list \in PriceLists
        /\ charge = Bill(charge.mode, protocol, usage, charge.list)
        /\ protocol \in Protocols /\ usage \in TokenUsage
    BY DEF CalcInv, ChargeOfUsage, Charged
  <2> DEFINE more == [usage EXCEPT !.prompt = @ + 1]
  <2>2. /\ more \in TokenUsage
        /\ Count(usage.prompt) <= Count(more.prompt)
        /\ more.completion = usage.completion /\ more.cached = usage.cached
        /\ more.write = usage.write
    BY <2>1, OneMoreToken
  <2> HIDE DEF more
  <2>3. Cost(Bill(charge.mode, protocol, usage, charge.list))
          <= Cost(Bill(charge.mode, protocol, more, charge.list))
    BY <2>1, <2>2, LongerCosts
  <2>4. QED
    BY <2>1, <2>3 DEF more
<1>2. QED
  BY <1>1, CalcInvariant, PTL
=============================================================================
