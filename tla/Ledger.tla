------------------------------- MODULE Ledger -------------------------------
(***************************************************************************)
(* What the credit accounting of one organisation promises, with nothing   *)
(* of how: the balance organizations.credit and the credit_logs rows move  *)
(* together, in one indivisible step per recharge or charge, one request   *)
(* is charged at most once, and an organisation that was charged is never  *)
(* deleted.  Metering (the whole request path) and ChargeTx (the SQL       *)
(* transactions, statement by statement) are shown to implement it.        *)
(***************************************************************************)
EXTENDS Integers, Sequences

CONSTANTS Amounts,      \* the amounts an administrator may recharge
          Costs,        \* the credits one charge may take
          Refs,         \* the request log ids a charge may refer to
          NULL          \* the reference of an entry that is not a charge

(* What the theorems suppose of the constants. *)
LedgerConstants ==
  /\ Amounts \subseteq Int
  /\ Costs \subseteq Int
  /\ NULL \notin Refs

VARIABLES open,         \* whether the organisation exists
          balance,      \* organizations.credit
          entries       \* credit_logs of the organisation, in commit order

lvars == <<open, balance, entries>>

Kinds == {"recharge", "consume"}

Entry == [kind : Kinds, ref : Refs \cup {NULL}, amount : Int, after : Int]

(* A movement of the balance and the entry that records it are one step. *)
Post(kind, ref, amount) ==
  /\ balance' = balance + amount
  /\ entries' = Append(entries, [kind |-> kind, ref |-> ref,
                                 amount |-> amount, after |-> balance'])

Charged(ref) == \E i \in DOMAIN entries : entries[i].ref = ref

Init == open = TRUE /\ balance = 0 /\ entries = <<>>

Recharge(a) == /\ a \in Amounts /\ open
               /\ Post("recharge", NULL, a)
               /\ UNCHANGED open

Consume(ref, c) == /\ c \in Costs /\ open
                   /\ ~Charged(ref)
                   /\ Post("consume", ref, -c)
                   /\ UNCHANGED open

(* The organisation is deleted, its entries with it: never one with charges. *)
Close == /\ open
         /\ \A ref \in Refs : ~Charged(ref)
         /\ open' = FALSE /\ balance' = 0 /\ entries' = <<>>

Next == \/ \E a \in Amounts : Recharge(a)
        \/ \E ref \in Refs, c \in Costs : Consume(ref, c)
        \/ Close

Spec == Init /\ [][Next]_lvars

-----------------------------------------------------------------------------
TypeOK == open \in BOOLEAN /\ balance \in Int /\ entries \in Seq(Entry)

(***************************************************************************)
(* Chain: every entry's balance_after is the previous one plus its amount, *)
(* and the balance is that of the last entry, so the ledger can be replayed*)
(* from an empty organisation to the balance that is stored.               *)
(***************************************************************************)
Before(i) == IF i = 1 THEN 0 ELSE entries[i - 1].after

Chain ==
  /\ \A i \in DOMAIN entries : entries[i].after = Before(i) + entries[i].amount
  /\ balance = Before(Len(entries) + 1)

(* OncePerRef: no two charges of the ledger refer to the same request. *)
OncePerRef ==
  \A i, j \in DOMAIN entries :
    entries[i].ref # NULL /\ entries[i].ref = entries[j].ref => i = j
=============================================================================
