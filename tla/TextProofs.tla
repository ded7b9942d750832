----------------------------- MODULE TextProofs -----------------------------
(***************************************************************************)
(* Proofs about the components that work their way along a text: the bytes *)
(* of a stream (Stream), the lines of a prompt (Compress) and the rows and *)
(* lines of an invoice (Invoice).                                          *)
(*                                                                         *)
(* What a function that is defined along a sequence computes needs an      *)
(* induction over sequences.  It is done here by a least counterexample:   *)
(* SeqInduction says that a set of sequences that has the empty one and    *)
(* every one-element extension of its members has all, which follows from  *)
(* the well-foundedness of < on Nat.  AlongSequence and AlongPrefixes give *)
(* the existence of a function that is defined by a step, from which the   *)
(* equations of each recursive function of the modules follow ("...Is",    *)
(* "...Are"), and with them its properties.                                *)
(*                                                                         *)
(* An invoice is made in three stages, and InvoiceInvariant says of each   *)
(* what it has made: the answer of the query has every key of a project it *)
(* has a row of, once; a group has the rows of its project so far and their*)
(* sums; the sheet bears what the place of the printing says is done, and  *)
(* has the room that is still needed.                                      *)
(***************************************************************************)
EXTENDS Stream, Compress, Invoice, SequenceTheorems, FiniteSetTheorems,
        WellFoundedInduction, TLAPS

(* A set of numbers has a least one. *)
LEMMA LeastOf ==
  ASSUME NEW T, T \subseteq Nat, T # {}
  PROVE  \E n \in T : \A m \in T : n <= m
<1>1. IsWellFoundedOn(OpToRel(<, Nat), Nat)
  BY NatLessThanWellFounded
<1>2. PICK n \in T : \A m \in T : ~(<<m, n>> \in OpToRel(<, Nat))
  BY <1>1, WFMin, Zenon
<1>3. \A m \in T : ~(m < n)
  BY <1>2 DEF OpToRel
<1>4. QED
  BY <1>3

(* What holds at 0 and is handed on holds up to n. *)
LEMMA Upwards ==
  ASSUME NEW n \in Nat, NEW T, 0 \in T, \A k \in 1..n : k - 1 \in T => k \in T
  PROVE  0..n \subseteq T
<1> SUFFICES ASSUME (0..n) \ T # {} PROVE FALSE
  OBVIOUS
<1> DEFINE Out == (0..n) \ T
<1>0. Out \subseteq Nat /\ Out # {}
  OBVIOUS
<1>1. PICK k \in Out : \A m \in Out : k <= m
  <2> HIDE DEF Out
  <2>1. QED
    BY <1>0, LeastOf
<1>2. k - 1 \in 0..n /\ k \in 1..n
  BY <1>1
<1>3. QED
  BY <1>1, <1>2

(* A sequence that is not empty is its front and its last element. *)
LEMMA FrontLast ==
  ASSUME NEW X, NEW s \in Seq(X), s # <<>>
  PROVE  /\ Front(s) \in Seq(X) /\ Last(s) \in X
         /\ Len(Front(s)) = Len(s) - 1
         /\ s = Append(Front(s), Last(s))
<1>1. PICK n \in Nat : n = Len(s) /\ n >= 1
  OBVIOUS
<1> DEFINE f == SubSeq(s, 1, n - 1)
<1>2. f \in Seq(X) /\ Len(f) = n - 1 /\ \A k \in 1..n - 1 : f[k] = s[k]
  <2>1. \A k \in 1..n - 1 : s[k] \in X
    BY <1>1
  <2>2. /\ f \in Seq(X)
        /\ Len(f) = IF 1 <= n - 1 THEN (n - 1) - 1 + 1 ELSE 0
        /\ \A k \in 1..(n - 1) - 1 + 1 : f[k] = s[1 + k - 1]
    BY <1>1, <2>1, SubSeqProperties
  <2> HIDE DEF f
  <2>3. QED
    BY <1>1, <2>2
<1>3. s[n] \in X
  BY <1>1
<1> HIDE DEF f
<1>4. s = Append(f, s[n])
  <2> DEFINE t == Append(f, s[n])
  <2>1. /\ t \in Seq(X) /\ Len(t) = n - 1 + 1 /\ t[n - 1 + 1] = s[n]
        /\ \A k \in 1..n - 1 : t[k] = f[k]
    BY <1>2, <1>3, AppendProperties
  <2> HIDE DEF t
  <2>2. \A k \in 1..n : s[k] = t[k]
    BY <1>1, <1>2, <2>1
  <2>3. s = t
    BY <1>1, <2>1, <2>2, SeqEqual
  <2>4. QED
    BY <2>3 DEF t
<1>5. QED
  BY <1>1, <1>2, <1>3, <1>4 DEF Front, Last, f

LEMMA Appended ==
  ASSUME NEW X, NEW s \in Seq(X), NEW x \in X
  PROVE  /\ Append(s, x) \in Seq(X) /\ Append(s, x) # <<>>
         /\ Len(Append(s, x)) = Len(s) + 1
         /\ Append(s, x)[Len(s) + 1] = x
         /\ \A k \in 1..Len(s) : Append(s, x)[k] = s[k]
         /\ Front(Append(s, x)) = s
         /\ Last(Append(s, x)) = x
<1> DEFINE t == Append(s, x)
           n == Len(s)
<1>1. n \in Nat
  OBVIOUS
<1>2. /\ t \in Seq(X) /\ t # <<>> /\ Len(t) = n + 1 /\ t[n + 1] = x
      /\ \A k \in 1..n : t[k] = s[k]
  BY AppendProperties
<1> HIDE DEF t
<1>3. Front(t) = s
  <2>1. \A k \in 1..n : t[k] \in X
    BY <1>2
  <2>2. /\ SubSeq(t, 1, n) \in Seq(X)
        /\ Len(SubSeq(t, 1, n)) = IF 1 <= n THEN n - 1 + 1 ELSE 0
        /\ \A k \in 1..n - 1 + 1 : SubSeq(t, 1, n)[k] = t[1 + k - 1]
    BY <1>1, <2>1, SubSeqProperties
  <2>3. \A k \in 1..n : SubSeq(t, 1, n)[k] = s[k]
    BY <1>1, <1>2, <2>2
  <2>4. SubSeq(t, 1, n) = s
    BY <1>1, <2>2, <2>3, SeqEqual
  <2>5. Len(t) - 1 = n
    BY <1>1, <1>2
  <2>6. QED
    BY <2>4, <2>5 DEF Front
<1>4. QED
  BY <1>1, <1>2, <1>3 DEF Last, t

LEMMA FrontParts ==
  ASSUME NEW X, NEW s \in Seq(X), s # <<>>
  PROVE  /\ Front(s) \in Seq(X) /\ Len(Front(s)) = Len(s) - 1 /\ Last(s) = s[Len(s)]
         /\ \A k \in 1..Len(s) - 1 : Front(s)[k] = s[k]
<1>1. /\ Front(s) \in Seq(X) /\ Last(s) \in X
      /\ Len(Front(s)) = Len(s) - 1
      /\ s = Append(Front(s), Last(s))
  BY FrontLast
<1>2. \A k \in 1..Len(Front(s)) : s[k] = Front(s)[k]
  BY <1>1, Appended
<1>3. QED
  BY <1>1, <1>2 DEF Last

(* Induction over sequences, from their front. *)
LEMMA SeqInduction ==
  ASSUME NEW X, NEW T, <<>> \in T,
         \A s \in Seq(X), x \in X : s \in T => Append(s, x) \in T
  PROVE  Seq(X) \subseteq T
<1> SUFFICES ASSUME NEW u \in Seq(X), u \notin T PROVE FALSE
  OBVIOUS
<1> DEFINE Bad == {s \in Seq(X) : s \notin T}
           L == {Len(s) : s \in Bad}
<1>1. L \subseteq Nat /\ L # {}
  OBVIOUS
<1>2. PICK n \in L : \A m \in L : n <= m
  BY <1>1, LeastOf
<1>3. PICK s \in Bad : n = Len(s)
  OBVIOUS
<1>4. s # <<>> /\ s \in Seq(X)
  OBVIOUS
<1>5. Front(s) \notin Bad
  <2>1. Len(Front(s)) = n - 1 /\ n \in Nat
    BY <1>3, <1>4, FrontLast
  <2>2. QED
    BY <1>2, <2>1
<1>6. Front(s) \in T /\ Front(s) \in Seq(X)
  BY <1>4, <1>5, FrontLast
<1>7. Append(Front(s), Last(s)) \in T
  BY <1>4, <1>6, FrontLast
<1>8. QED
  BY <1>4, <1>7, FrontLast

(* A function that is defined along a sequence exists. *)
IsStep(G, S, X) == G \in [S \X X -> S]

IsFold(f, b, G, S, X) ==
  /\ f \in [Seq(X) -> S]
  /\ f[<<>>] = b
  /\ \A s \in Seq(X) : s # <<>> => f[s] = G[<<f[Front(s)], Last(s)>>]

LEMMA AlongSequence ==
  ASSUME NEW X, NEW S, NEW b \in S, NEW G, IsStep(G, S, X)
  PROVE  \E f : IsFold(f, b, G, S, X)
<1> USE DEF IsStep
<1> DEFINE Runs(s) == {h \in [0..Len(s) -> S] :
                         /\ h[0] = b
                         /\ \A k \in 1..Len(s) : h[k] = G[<<h[k - 1], s[k]>>]}
           T == {s \in Seq(X) : Runs(s) # {}}
           run(s) == CHOOSE h : h \in Runs(s)
           f == [s \in Seq(X) |-> run(s)[Len(s)]]
<1>1. <<>> \in T
  <2>1. [k \in 0..0 |-> b] \in Runs(<<>>)
    OBVIOUS
  <2>2. QED
    BY <2>1
<1>2. ASSUME NEW s \in Seq(X), NEW x \in X, s \in T PROVE Append(s, x) \in T
  <2> DEFINE t == Append(s, x)
             n == Len(s)
  <2>1. PICK h : h \in Runs(s)
    BY <1>2
  <2>2. /\ t \in Seq(X) /\ n \in Nat /\ Len(t) = n + 1 /\ t[n + 1] = x
        /\ \A k \in 1..n : t[k] = s[k]
    BY Appended
  <2>a. /\ h \in [0..n -> S] /\ h[0] = b
        /\ \A k \in 1..n : h[k] = G[<<h[k - 1], s[k]>>]
    BY <2>1
  <2> HIDE DEF t, n
  <2> DEFINE g == [k \in 0..n + 1 |-> IF k = n + 1 THEN G[<<h[n], x>>] ELSE h[k]]
  <2>3. G[<<h[n], x>>] \in S
    BY <2>2, <2>a
  <2>4. g \in [0..n + 1 -> S] /\ g[0] = b
    BY <2>2, <2>3, <2>a
  <2>5. \A k \in 1..n + 1 : g[k] = G[<<g[k - 1], t[k]>>]
    <3> SUFFICES ASSUME NEW k \in 1..n + 1 PROVE g[k] = G[<<g[k - 1], t[k]>>]
      OBVIOUS
    <3>1. CASE k = n + 1
      <4>1. g[k] = G[<<h[n], x>>] /\ g[k - 1] = h[n] /\ t[k] = x
        BY <2>2, <3>1
      <4>2. QED
        BY <4>1
    <3>2. CASE k \in 1..n
      <4>1. k \in 0..n /\ k - 1 \in 0..n
        <5>1. n \in Nat
          BY <2>2
        <5>2. QED
          BY <3>2, <5>1
      <4>2. g[k] = h[k] /\ g[k - 1] = h[k - 1]
        <5>1. k # n + 1 /\ k - 1 # n + 1 /\ k \in 0..n + 1 /\ k - 1 \in 0..n + 1
          BY <2>2, <4>1
        <5>2. QED
          BY <5>1
      <4>3. t[k] = s[k]
        BY <2>2, <3>2
      <4>4. h[k] = G[<<h[k - 1], s[k]>>]
        BY <2>2, <2>a, <3>2
      <4>5. QED
        BY <4>2, <4>3, <4>4
    <3>3. QED
      BY <2>2, <3>1, <3>2
  <2> HIDE DEF g
  <2>6. g \in Runs(t)
    BY <2>2, <2>4, <2>5
  <2>7. QED
    BY <2>2, <2>6 DEF t
<1>3. \A s \in Seq(X) : run(s) \in Runs(s)
  <2> HIDE DEF Runs
  <2>1. Seq(X) \subseteq T
    <3> HIDE DEF T
    <3>1. QED
      BY <1>1, <1>2, SeqInduction
  <2>2. QED
    BY <2>1
<1>4. ASSUME NEW s \in Seq(X), NEW h \in Runs(s), NEW g \in Runs(s),
             NEW k \in 0..Len(s)
      PROVE  h[k] = g[k]
  <2> DEFINE Same == {j \in 0..Len(s) : h[j] = g[j]}
  <2>1. 0 \in Same
    OBVIOUS
  <2>2. ASSUME NEW j \in 1..Len(s), j - 1 \in Same PROVE j \in Same
    <3>1. h[j] = G[<<h[j - 1], s[j]>>] /\ g[j] = G[<<g[j - 1], s[j]>>]
      OBVIOUS
    <3>2. h[j - 1] = g[j - 1] /\ j \in 0..Len(s)
      BY <2>2
    <3>3. QED
      BY <3>1, <3>2
  <2>3. 0..Len(s) \subseteq Same
    <3> HIDE DEF Same, Runs
    <3>1. Len(s) \in Nat
      OBVIOUS
    <3>2. QED
      BY <3>1, <2>1, <2>2, Upwards
  <2>4. QED
    BY <2>3
<1>5. f \in [Seq(X) -> S]
  <2> SUFFICES ASSUME NEW s \in Seq(X) PROVE run(s)[Len(s)] \in S
    OBVIOUS
  <2>1. run(s) \in [0..Len(s) -> S] /\ Len(s) \in Nat
    BY <1>3
  <2> HIDE DEF run
  <2>2. QED
    BY <2>1
<1>6. f[<<>>] = b
  <2>0. <<>> \in Seq(X) /\ Len(<<>>) = 0
    OBVIOUS
  <2>1. run(<<>>) \in Runs(<<>>)
    <3> HIDE DEF Runs, run
    <3>1. QED
      BY <1>3, <2>0
  <2>2. run(<<>>)[0] = b
    <3> HIDE DEF run
    <3>1. QED
      BY <2>1
  <2> HIDE DEF run
  <2>3. QED
    BY <2>0, <2>2
<1>7. ASSUME NEW s \in Seq(X), s # <<>> PROVE f[s] = G[<<f[Front(s)], Last(s)>>]
  <2> DEFINE r == Front(s)
             x == Last(s)
             n == Len(r)
             h == run(s)
             g == [k \in 0..n |-> h[k]]
  <2>1. /\ r \in Seq(X) /\ x \in X /\ n \in Nat /\ Len(s) = n + 1 /\ s[n + 1] = x
        /\ \A k \in 1..n : s[k] = r[k]
    <3>1. /\ r \in Seq(X) /\ x \in X /\ Len(r) = Len(s) - 1 /\ s = Append(r, x)
          /\ Len(s) \in Nat
      <4> HIDE DEF T, f, g, h, Runs, run
      <4>1. Len(s) \in Nat
        OBVIOUS
      <4>2. QED
        BY <1>7, <4>1, FrontLast
    <3> HIDE DEF r, x
    <3>2. /\ Len(s) = n + 1 /\ s[n + 1] = x /\ \A k \in 1..n : s[k] = r[k]
      BY <3>1, Appended
    <3>3. QED
      BY <3>1, <3>2
  <2>2. h \in [0..n + 1 -> S] /\ h[0] = b
        /\ \A k \in 1..n + 1 : h[k] = G[<<h[k - 1], s[k]>>]
    <3>1. h \in Runs(s)
      BY <1>3
    <3> HIDE DEF h, n
    <3>2. QED
      BY <3>1, <2>1
  <2>3. g \in Runs(r)
    <3> HIDE DEF h, r, x
    <3>1. QED
      BY <2>1, <2>2
  <2>4. g[n] = run(r)[n]
    <3>1. run(r) \in Runs(r) /\ n \in 0..Len(r)
      BY <1>3, <2>1
    <3> HIDE DEF Runs, run, g, r
    <3>2. QED
      BY <3>1, <2>1, <2>3, <1>4
  <2>5. f[r] = h[n]
    <3> HIDE DEF h, r, run
    <3>1. QED
      BY <2>1, <2>4
  <2>6. f[s] = h[n + 1]
    BY <2>1
  <2>7. h[n + 1] = G[<<h[n], x>>]
    <3> HIDE DEF h, r, x, n
    <3>1. QED
      BY <2>1, <2>2
  <2> HIDE DEF f, r, x, n, h
  <2>8. QED
    BY <2>5, <2>6, <2>7 DEF r, x
<1> HIDE DEF f
<1>8. QED
  BY <1>5, <1>6, <1>7 DEF IsFold

(* What a step along a sequence preserves holds of all of it. *)
LEMMA AlongType ==
  ASSUME NEW X, NEW S, NEW F, F[<<>>] \in S,
         \A s \in Seq(X), x \in X : F[s] \in S => F[Append(s, x)] \in S
  PROVE  \A s \in Seq(X) : F[s] \in S
<1> DEFINE T == {s \in Seq(X) : F[s] \in S}
<1>1. <<>> \in T
  BY EmptySeq
<1>2. \A s \in Seq(X), x \in X : s \in T => Append(s, x) \in T
  BY AppendProperties
<1>3. Seq(X) \subseteq T
  <2> HIDE DEF T
  <2>1. QED
    BY <1>1, <1>2, SeqInduction
<1>4. QED
  BY <1>3

(* The same for a step that looks at the whole sequence so far. *)
IsStepOf(G, S, X) == G \in [S \X Seq(X) -> S]

IsFoldOf(f, b, G, S, X) ==
  /\ f \in [Seq(X) -> S]
  /\ f[<<>>] = b
  /\ \A s \in Seq(X) : s # <<>> => f[s] = G[<<f[Front(s)], s>>]

LEMMA AlongPrefixes ==
  ASSUME NEW X, NEW S, NEW b \in S, NEW G, IsStepOf(G, S, X)
  PROVE  \E f : IsFoldOf(f, b, G, S, X)
<1> DEFINE P == S \X Seq(X)
           e(p, x) == <<G[<<p[1], Append(p[2], x)>>], Append(p[2], x)>>
           H == [q \in P \X X |-> e(q[1], q[2])]
<1>1. \A p \in P, x \in X : e(p, x) \in P
  <2> SUFFICES ASSUME NEW p \in P, NEW x \in X PROVE e(p, x) \in P
    OBVIOUS
  <2>1. Append(p[2], x) \in Seq(X) /\ p[1] \in S
    BY AppendProperties
  <2>2. QED
    BY <2>1 DEF IsStepOf
<1>2. H \in [P \X X -> P] /\ \A p \in P, x \in X : H[<<p, x>>] = e(p, x)
  <2> HIDE DEF P, e
  <2>1. QED
    BY <1>1
<1>3. <<b, <<>>>> \in P
  BY EmptySeq
<1>4. PICK g : IsFold(g, <<b, <<>>>>, H, P, X)
  <2> HIDE DEF P, H, e
  <2>1. IsStep(H, P, X)
    BY <1>2 DEF IsStep
  <2>2. QED
    BY <1>3, <2>1, AlongSequence
<1>5. /\ \A s \in Seq(X) : g[s] \in P
      /\ g[<<>>] = <<b, <<>>>>
      /\ \A s \in Seq(X) : s # <<>> => g[s] = e(g[Front(s)], Last(s))
  <2> HIDE DEF P, H, e
  <2>1. \A s \in Seq(X) : s # <<>> => Front(s) \in Seq(X) /\ Last(s) \in X
    BY FrontLast
  <2>2. QED
    BY <1>2, <1>4, <2>1 DEF IsFold
<1> DEFINE T == {s \in Seq(X) : g[s][2] = s}
<1>6. <<>> \in T
  BY <1>5, EmptySeq
<1>7. ASSUME NEW s \in Seq(X), NEW x \in X, s \in T PROVE Append(s, x) \in T
  <2>1. /\ Append(s, x) \in Seq(X) /\ Append(s, x) # <<>>
        /\ Front(Append(s, x)) = s /\ Last(Append(s, x)) = x
    BY Appended
  <2>2. g[Append(s, x)] = e(g[s], x)
    <3> HIDE DEF e
    <3>1. QED
      BY <1>5, <2>1
  <2>3. g[Append(s, x)][2] = Append(g[s][2], x)
    BY <2>2
  <2>4. QED
    BY <1>7, <2>1, <2>3
<1>8. \A s \in Seq(X) : g[s][2] = s
  <2>1. Seq(X) \subseteq T
    <3> HIDE DEF T
    <3>1. QED
      BY <1>6, <1>7, SeqInduction
  <2>2. QED
    BY <2>1
<1> DEFINE f == [s \in Seq(X) |-> g[s][1]]
<1>9. f \in [Seq(X) -> S] /\ f[<<>>] = b
  BY <1>5, EmptySeq
<1>10. ASSUME NEW s \in Seq(X), s # <<>> PROVE f[s] = G[<<f[Front(s)], s>>]
  <2>1. /\ Front(s) \in Seq(X) /\ Last(s) \in X
        /\ s = Append(Front(s), Last(s))
    BY <1>10, FrontLast
  <2>2. g[s] = e(g[Front(s)], Last(s)) /\ g[Front(s)][2] = Front(s)
    <3> HIDE DEF e
    <3>1. QED
      BY <1>5, <1>8, <1>10, <2>1
  <2>3. g[s][1] = G[<<g[Front(s)][1], Append(g[Front(s)][2], Last(s))>>]
    BY <2>2
  <2>4. g[s][1] = G[<<g[Front(s)][1], s>>]
    BY <2>1, <2>2, <2>3
  <2>5. QED
    BY <2>1, <2>4
<1> HIDE DEF f
<1>11. QED
  BY <1>9, <1>10 DEF IsFoldOf

(* A piece of a sequence. *)
LEMMA Piece ==
  ASSUME NEW X, NEW s \in Seq(X), NEW a \in Nat, NEW c \in Nat,
         a <= c, c <= Len(s)
  PROVE  /\ SubSeq(s, a + 1, c) \in Seq(X)
         /\ Len(SubSeq(s, a + 1, c)) = c - a
         /\ \A n \in 1..c - a : SubSeq(s, a + 1, c)[n] = s[a + n]
<1>1. PICK l \in Nat : l = Len(s)
  OBVIOUS
<1>2. \A n \in a + 1..c : s[n] \in X
  BY <1>1
<1>3. /\ SubSeq(s, a + 1, c) \in Seq(X)
      /\ Len(SubSeq(s, a + 1, c)) = IF a + 1 <= c THEN c - (a + 1) + 1 ELSE 0
      /\ \A n \in 1..c - (a + 1) + 1 : SubSeq(s, a + 1, c)[n] = s[a + 1 + n - 1]
  BY <1>1, <1>2, SubSeqProperties
<1> DEFINE u == SubSeq(s, a + 1, c)
<1> HIDE DEF u
<1>4. Len(u) = c - a
  BY <1>3 DEF u
<1>5. \A n \in 1..c - a : n \in 1..c - (a + 1) + 1 /\ a + 1 + n - 1 = a + n
  OBVIOUS
<1>6. u \in Seq(X) /\ \A n \in 1..c - a : u[n] = s[a + n]
  BY <1>3, <1>5 DEF u
<1>7. QED
  BY <1>4, <1>6 DEF u

(* Two pieces that meet are one. *)
LEMMA TwoPieces ==
  ASSUME NEW X, NEW s \in Seq(X), NEW j \in Nat, NEW k \in Nat, NEW m \in Nat,
         j <= k, k <= m, m <= Len(s)
  PROVE  SubSeq(s, j + 1, k) \o SubSeq(s, k + 1, m) = SubSeq(s, j + 1, m)
<1> DEFINE u == SubSeq(s, j + 1, k)
           v == SubSeq(s, k + 1, m)
           w == SubSeq(s, j + 1, m)
<1>0. j <= m /\ k <= Len(s)
  <2>1. PICK l \in Nat : l = Len(s)
    OBVIOUS
  <2>2. QED
    BY <2>1
<1>1. u \in Seq(X) /\ Len(u) = k - j /\ \A n \in 1..k - j : u[n] = s[j + n]
  BY <1>0, Piece
<1>2. v \in Seq(X) /\ Len(v) = m - k /\ \A n \in 1..m - k : v[n] = s[k + n]
  BY Piece
<1>3. w \in Seq(X) /\ Len(w) = m - j /\ \A n \in 1..m - j : w[n] = s[j + n]
  BY <1>0, Piece
<1> HIDE DEF u, v, w
<1> DEFINE c == u \o v
<1>4. /\ c \in Seq(X) /\ Len(c) = Len(u) + Len(v)
      /\ \A n \in 1..Len(u) + Len(v) :
           c[n] = IF n <= Len(u) THEN u[n] ELSE v[n - Len(u)]
  BY <1>1, <1>2, ConcatProperties
<1> HIDE DEF c
<1>5. Len(c) = m - j
  BY <1>1, <1>2, <1>4
<1>6. ASSUME NEW n \in 1..m - j PROVE c[n] = w[n]
  <2>1. c[n] = IF n <= k - j THEN u[n] ELSE v[n - (k - j)]
    BY <1>1, <1>2, <1>4
  <2>2. CASE n <= k - j
    BY <1>1, <1>3, <2>1, <2>2
  <2>3. CASE ~(n <= k - j)
    <3>1. n - (k - j) \in 1..m - k /\ k + (n - (k - j)) = j + n
      BY <2>3
    <3>2. v[n - (k - j)] = s[j + n]
      BY <1>2, <3>1
    <3>3. QED
      BY <1>3, <2>1, <2>3, <3>2
  <2>4. QED
    BY <2>2, <2>3
<1>7. c = w
  BY <1>3, <1>4, <1>5, <1>6, SeqEqual
<1>8. QED
  BY <1>7 DEF c, u, v, w

-----------------------------------------------------------------------------
(* Stream: what is read from a piece of the body.                           *)

LEMMA UsageParts ==
  ASSUME NEW u \in Usage
  PROVE  u.prompt \in Count /\ u.completion \in Count /\ u.cached \in Count
BY DEF Usage

LEMMA UnknownType == Unknown \in Usage
BY DEF Unknown, Usage, Count

LEMMA MergeType ==
  ASSUME NEW u \in Usage, NEW v \in Usage
  PROVE  Merge(u, v) \in Usage
BY DEF Usage, Merge, Newest

LEMMA MergeUnknown ==
  ASSUME NEW u \in Usage
  PROVE  Merge(u, Unknown) = u /\ Merge(Unknown, u) = u
<1>1. /\ Merge(u, Unknown) = [prompt |-> u.prompt, completion |-> u.completion,
                              cached |-> u.cached]
      /\ Merge(Unknown, u) = [prompt |-> u.prompt, completion |-> u.completion,
                              cached |-> u.cached]
  BY DEF Merge, Unknown, Newest
<1>2. u = [prompt |-> u.prompt, completion |-> u.completion, cached |-> u.cached]
  BY DEF Usage
<1>3. QED
  BY <1>1, <1>2

LEMMA MergeAssociative ==
  ASSUME NEW u \in Usage, NEW v \in Usage, NEW w \in Usage
  PROVE  Merge(Merge(u, v), w) = Merge(u, Merge(v, w))
BY DEF Merge, Newest

LEMMA ByteParts ==
  ASSUME NEW x \in Byte
  PROVE  x.part \in 1..3 /\ x.of \in SseLine /\ x.of.usage \in Usage
BY DEF Byte, SseLine

LEMMA EndsLineIs ==
  ASSUME NEW s \in Seq(Byte), NEW x \in Byte
  PROVE  EndsLine(Append(s, x)) <=> s # <<>> /\ x.part = 2
BY Appended DEF EndsLine

LEMMA ExtractIs ==
  /\ Extract[<<>>] = Unknown
  /\ \A s \in Seq(Byte), x \in Byte :
       Extract[Append(s, x)] =
         IF s # <<>> /\ x.part = 2 /\ Tells(x.of)
         THEN Merge(Extract[s], x.of.usage) ELSE Extract[s]
  /\ \A s \in Seq(Byte) : Extract[s] \in Usage
<1> DEFINE e(u, s) == IF EndsLine(s) /\ Tells(Last(s).of)
                      THEN Merge(u, Last(s).of.usage) ELSE u
           G == [p \in Usage \X Seq(Byte) |->
                   IF p[2] = <<>> THEN Unknown ELSE e(p[1], p[2])]
<1>1. ASSUME NEW u \in Usage, NEW s \in Seq(Byte), s # <<>>
      PROVE  e(u, s) \in Usage
  <2>1. Last(s).of.usage \in Usage
    BY <1>1, FrontLast, ByteParts
  <2>2. QED
    BY <2>1, MergeType
<1>2. /\ IsStepOf(G, Usage, Byte)
      /\ \A u \in Usage, s \in Seq(Byte) : s # <<>> => G[<<u, s>>] = e(u, s)
  <2> HIDE DEF e
  <2>1. QED
    BY <1>1, UnknownType DEF IsStepOf
<1>3. PICK f : IsFoldOf(f, Unknown, G, Usage, Byte)
  <2> HIDE DEF G
  <2>1. QED
    BY <1>2, UnknownType, AlongPrefixes
<1>4. f = [s \in Seq(Byte) |-> IF s = <<>> THEN Unknown ELSE e(f[Front(s)], s)]
  <2> HIDE DEF G, e
  <2>1. \A s \in Seq(Byte) : s # <<>> => f[s] = e(f[Front(s)], s)
    BY <1>2, <1>3, FrontLast DEF IsFoldOf
  <2>2. QED
    BY <1>3, <2>1 DEF IsFoldOf
<1>5. f = [s \in Seq(Byte) |->
             IF s = <<>> THEN Unknown
             ELSE IF EndsLine(s) /\ Tells(Last(s).of)
                  THEN Merge(f[Front(s)], Last(s).of.usage) ELSE f[Front(s)]]
  BY <1>4
<1>6. Extract = [s \in Seq(Byte) |->
                   IF s = <<>> THEN Unknown
                   ELSE IF EndsLine(s) /\ Tells(Last(s).of)
                        THEN Merge(Extract[Front(s)], Last(s).of.usage)
                        ELSE Extract[Front(s)]]
  BY <1>5 DEF Extract
<1>7. Extract[<<>>] = Unknown
  BY <1>6, EmptySeq
<1>8. ASSUME NEW s \in Seq(Byte), NEW x \in Byte
      PROVE  Extract[Append(s, x)] =
               IF s # <<>> /\ x.part = 2 /\ Tells(x.of)
               THEN Merge(Extract[s], x.of.usage) ELSE Extract[s]
  <2>1. /\ Append(s, x) \in Seq(Byte) /\ Append(s, x) # <<>>
        /\ Front(Append(s, x)) = s /\ Last(Append(s, x)) = x
    BY Appended
  <2>2. Extract[Append(s, x)] =
          IF EndsLine(Append(s, x)) /\ Tells(x.of)
          THEN Merge(Extract[s], x.of.usage) ELSE Extract[s]
    BY <1>6, <2>1
  <2>3. QED
    BY <2>2, EndsLineIs
<1>9. \A s \in Seq(Byte), x \in Byte :
        Extract[s] \in Usage => Extract[Append(s, x)] \in Usage
  BY <1>8, ByteParts, MergeType
<1>10. \A s \in Seq(Byte) : Extract[s] \in Usage
  BY <1>7, <1>9, UnknownType, AlongType
<1>11. QED
  BY <1>7, <1>8, <1>10

LEMMA SalvageType == \A s \in Seq(Byte) : Salvage[s] \in Usage
<1> DEFINE e(u, s) == IF EndsLine(s) /\ ~Missing(Last(s).of.usage)
                      THEN Last(s).of.usage ELSE u
           G == [p \in Usage \X Seq(Byte) |->
                   IF p[2] = <<>> THEN Unknown ELSE e(p[1], p[2])]
<1>1. ASSUME NEW u \in Usage, NEW s \in Seq(Byte), s # <<>>
      PROVE  e(u, s) \in Usage
  BY <1>1, FrontLast, ByteParts
<1>2. /\ IsStepOf(G, Usage, Byte)
      /\ \A u \in Usage, s \in Seq(Byte) : s # <<>> => G[<<u, s>>] = e(u, s)
  <2> HIDE DEF e
  <2>1. QED
    BY <1>1, UnknownType DEF IsStepOf
<1>3. PICK f : IsFoldOf(f, Unknown, G, Usage, Byte)
  <2> HIDE DEF G
  <2>1. QED
    BY <1>2, UnknownType, AlongPrefixes
<1>4. f = [s \in Seq(Byte) |-> IF s = <<>> THEN Unknown ELSE e(f[Front(s)], s)]
  <2> HIDE DEF G, e
  <2>1. \A s \in Seq(Byte) : s # <<>> => f[s] = e(f[Front(s)], s)
    BY <1>2, <1>3, FrontLast DEF IsFoldOf
  <2>2. QED
    BY <1>3, <2>1 DEF IsFoldOf
<1>5. f = [s \in Seq(Byte) |->
             IF s = <<>> THEN Unknown
             ELSE IF EndsLine(s) /\ ~Missing(Last(s).of.usage)
                  THEN Last(s).of.usage ELSE f[Front(s)]]
  BY <1>4
<1>6. Salvage = [s \in Seq(Byte) |->
                   IF s = <<>> THEN Unknown
                   ELSE IF EndsLine(s) /\ ~Missing(Last(s).of.usage)
                        THEN Last(s).of.usage ELSE Salvage[Front(s)]]
  BY <1>5 DEF Salvage
<1>7. Salvage[<<>>] \in Usage
  BY <1>6, EmptySeq, UnknownType
<1>8. ASSUME NEW s \in Seq(Byte), NEW x \in Byte, Salvage[s] \in Usage
      PROVE  Salvage[Append(s, x)] \in Usage
  <2>1. /\ Append(s, x) \in Seq(Byte) /\ Append(s, x) # <<>>
        /\ Front(Append(s, x)) = s /\ Last(Append(s, x)) = x
    BY Appended
  <2>2. Salvage[Append(s, x)] =
          IF EndsLine(Append(s, x)) /\ ~Missing(x.of.usage)
          THEN x.of.usage ELSE Salvage[s]
    BY <1>6, <2>1
  <2>3. QED
    BY <1>8, <2>2, ByteParts
<1>9. QED
  BY <1>7, <1>8, AlongType

(* A piece that begins with a line can be read apart from what is before it.*)
LEMMA ReadApart ==
  ASSUME NEW a \in Seq(Byte)
  PROVE  \A b \in Seq(Byte) : (b # <<>> => b[1].part = 1) =>
           Extract[a \o b] = Merge(Extract[a], Extract[b])
<1> DEFINE Good(b) == (b # <<>> => b[1].part = 1) =>
                        Extract[a \o b] = Merge(Extract[a], Extract[b])
           T == {b \in Seq(Byte) : Good(b)}
<1>1. <<>> \in T
  <2>1. a \o <<>> = a
    BY ConcatEmptySeq
  <2>2. Merge(Extract[a], Unknown) = Extract[a]
    BY ExtractIs, MergeUnknown
  <2>3. QED
    BY <2>1, <2>2, ExtractIs, EmptySeq
<1>2. ASSUME NEW b \in Seq(Byte), NEW y \in Byte, b \in T PROVE Append(b, y) \in T
  <2> DEFINE c == Append(b, y)
  <2>1. c \in Seq(Byte) /\ c # <<>>
    BY Appended
  <2>2. SUFFICES ASSUME c[1].part = 1
                 PROVE  Extract[a \o c] = Merge(Extract[a], Extract[c])
    BY <2>1
  <2>3. b = <<>> => y.part = 1
    <3>1. b = <<>> => c[1] = y
      OBVIOUS
    <3>2. QED
      BY <2>2, <3>1
  <2>4. b # <<>> => b[1].part = 1
    <3>1. b # <<>> => 1 \in 1..Len(b)
      OBVIOUS
    <3>2. b # <<>> => c[1] = b[1]
      BY <3>1, Appended
    <3>3. QED
      BY <2>2, <3>2
  <2>5. Extract[a \o b] = Merge(Extract[a], Extract[b])
    BY <1>2, <2>4
  <2>6. a \o b \in Seq(Byte) /\ a \o c = Append(a \o b, y)
    BY ConcatProperties, AppendIsConcat, ConcatAssociative
  <2>7. b # <<>> => a \o b # <<>>
    <3>1. PICK m \in Nat, n \in Nat : m = Len(a) /\ n = Len(b)
      OBVIOUS
    <3>2. Len(a \o b) = m + n
      BY <3>1, ConcatProperties
    <3>3. b # <<>> => n # 0
      BY <3>1
    <3>4. QED
      BY <3>1, <3>2, <3>3
  <2> HIDE DEF c
  <2>8. Extract[a \o c] = IF b # <<>> /\ y.part = 2 /\ Tells(y.of)
                          THEN Merge(Extract[a \o b], y.of.usage)
                          ELSE Extract[a \o b]
    <3>1. Extract[a \o c] = IF a \o b # <<>> /\ y.part = 2 /\ Tells(y.of)
                            THEN Merge(Extract[a \o b], y.of.usage)
                            ELSE Extract[a \o b]
      BY <2>6, ExtractIs
    <3>2. QED
      BY <2>3, <2>7, <3>1
  <2>9. Extract[c] = IF b # <<>> /\ y.part = 2 /\ Tells(y.of)
                     THEN Merge(Extract[b], y.of.usage) ELSE Extract[b]
    BY ExtractIs DEF c
  <2>10. Merge(Merge(Extract[a], Extract[b]), y.of.usage)
           = Merge(Extract[a], Merge(Extract[b], y.of.usage))
    <3>1. Extract[a] \in Usage /\ Extract[b] \in Usage /\ y.of.usage \in Usage
      BY ExtractIs, ByteParts
    <3>2. QED
      BY <3>1, MergeAssociative
  <2>11. QED
    BY <2>5, <2>8, <2>9, <2>10
<1>3. Seq(Byte) \subseteq T
  <2> HIDE DEF T
  <2>1. QED
    BY <1>1, <1>2, SeqInduction
<1>4. QED
  BY <1>3

(* A piece of a piece. *)
LEMMA PieceOfPiece ==
  ASSUME NEW X, NEW s \in Seq(X), NEW a \in Nat, NEW c \in Nat,
         a <= c, c <= Len(s),
         NEW j \in Nat, NEW k \in Nat, j <= k, k <= c - a
  PROVE  SubSeq(SubSeq(s, a + 1, c), j + 1, k) = SubSeq(s, (a + j) + 1, a + k)
<1> DEFINE p == SubSeq(s, a + 1, c)
           u == SubSeq(p, j + 1, k)
           v == SubSeq(s, (a + j) + 1, a + k)
<1>1. p \in Seq(X) /\ Len(p) = c - a /\ \A n \in 1..c - a : p[n] = s[a + n]
  BY Piece
<1> HIDE DEF p
<1>2. u \in Seq(X) /\ Len(u) = k - j /\ \A n \in 1..k - j : u[n] = p[j + n]
  BY <1>1, Piece
<1>3. /\ a + j \in Nat /\ a + k \in Nat /\ a + j <= a + k /\ a + k <= Len(s)
      /\ (a + k) - (a + j) = k - j
  <2>1. PICK l \in Nat : l = Len(s)
    OBVIOUS
  <2>2. QED
    BY <2>1
<1>4. v \in Seq(X) /\ Len(v) = k - j /\ \A n \in 1..k - j : v[n] = s[(a + j) + n]
  BY <1>3, Piece
<1> HIDE DEF u, v
<1>5. ASSUME NEW n \in 1..k - j PROVE u[n] = v[n]
  <2>1. j + n \in 1..c - a /\ a + (j + n) = (a + j) + n
    OBVIOUS
  <2>2. QED
    BY <1>1, <1>2, <1>4, <2>1
<1>6. u = v
  BY <1>2, <1>4, <1>5, SeqEqual
<1>7. QED
  BY <1>6 DEF u, v, p

(* How many of n bytes are in lines that have come whole. *)
Whole(n) == 3 * (n \div 3)

LEMMA WholeIs ==
  ASSUME NEW n \in Nat
  PROVE  /\ Whole(n) \in Nat /\ Whole(n) <= n /\ n <= Whole(n) + 2
         /\ (Whole(n)) % 3 = 0
         /\ Whole(n) > 0 => ((Whole(n) - 1) % 3) + 1 = 3
         /\ \A k \in Whole(n) + 1..n : ((k - 1) % 3) + 1 # 3
<1>1. PICK q \in Nat : q = n \div 3
  OBVIOUS
<1>2. 3 * q <= n /\ n <= 3 * q + 2
  BY <1>1
<1>3. Whole(n) = 3 * q
  BY <1>1 DEF Whole
<1>4. (3 * q) % 3 = 0
  OBVIOUS
<1>5. q > 0 => (3 * q - 1) % 3 = 2
  <2>1. q > 0 => q - 1 \in Nat /\ 3 * q - 1 = 3 * (q - 1) + 2
    OBVIOUS
  <2>2. \A m \in Nat : (3 * m + 2) % 3 = 2
    OBVIOUS
  <2>3. QED
    BY <2>1, <2>2
<1>6. ASSUME NEW k \in 3 * q + 1..n PROVE (k - 1) % 3 # 2
  <2>1. k = 3 * q + 1 \/ k = 3 * q + 2
    BY <1>2
  <2>2. QED
    BY <2>1
<1>7. QED
  BY <1>2, <1>3, <1>4, <1>5, <1>6

LEMMA WholeGrows ==
  ASSUME NEW m \in Nat, NEW n \in Nat, m <= n
  PROVE  Whole(m) <= Whole(n)
BY DEF Whole

LEMMA BytesAre ==
  ASSUME body \in Seq(SseLine), cut \in 0..2, body = <<>> => cut = 0
  PROVE  /\ Bytes \in Seq(Byte)
         /\ Len(Bytes) \in Nat
         /\ \A k \in 1..Len(Bytes) : Bytes[k].part = ((k - 1) % 3) + 1
<1>1. PICK n \in Nat : n = Len(body)
  OBVIOUS
<1>2. n = 0 => body = <<>>
  BY <1>1, EmptySeq
<1> DEFINE l == 3 * n
           all == BytesOf(body)
<1>3. l \in Nat /\ l - cut \in Nat /\ l - cut <= l
  <2>1. cut \in Int /\ 0 <= cut /\ cut <= 2 /\ (n = 0 => cut = 0)
    BY <1>2
  <2>2. QED
    BY <2>1
<1>4. ASSUME NEW k \in 1..l
      PROVE  [part |-> ((k - 1) % 3) + 1, of |-> body[((k - 1) \div 3) + 1]] \in Byte
  <2>1. ((k - 1) \div 3) + 1 \in 1..n
    BY <1>4
  <2>2. body[((k - 1) \div 3) + 1] \in SseLine
    BY <1>1, <2>1
  <2>3. ((k - 1) % 3) + 1 \in 1..3
    BY <1>4
  <2>4. QED
    BY <2>2, <2>3 DEF Byte
<1>5. all = [k \in 1..l |->
               [part |-> ((k - 1) % 3) + 1, of |-> body[((k - 1) \div 3) + 1]]]
  BY <1>1 DEF BytesOf
<1>6. all \in Seq(Byte) /\ Len(all) = l
  BY <1>3, <1>4, <1>5
<1>7. \A k \in 1..l : all[k].part = ((k - 1) % 3) + 1
  BY <1>5
<1>8. Bytes = SubSeq(all, 0 + 1, l - cut)
  BY <1>1 DEF Bytes
<1> HIDE DEF all, l
<1>9. PICK m \in Nat : m = l - cut
  BY <1>3
<1>10. m \in 0..l /\ 0 \in Nat /\ 0 <= m /\ m <= Len(all)
  BY <1>3, <1>6, <1>9
<1>11. PICK bytes : bytes = SubSeq(all, 0 + 1, m)
  OBVIOUS
<1>12. /\ bytes \in Seq(Byte) /\ Len(bytes) = m - 0
       /\ \A k \in 1..m - 0 : bytes[k] = all[0 + k]
  BY <1>6, <1>10, <1>11, Piece
<1>13. \A k \in 1..m : k \in 1..l /\ k \in 1..m - 0 /\ 0 + k = k
  BY <1>3, <1>10
<1>14. Len(bytes) = m
  BY <1>9, <1>12
<1>15. \A k \in 1..m : bytes[k].part = ((k - 1) % 3) + 1
  BY <1>7, <1>12, <1>13
<1>16. Bytes = bytes
  BY <1>8, <1>9, <1>11
<1>17. QED
  BY <1>9, <1>12, <1>14, <1>15, <1>16

(* take_complete_sse_lines cuts after the last newline. *)
LEMMA TakeCompleteIs ==
  ASSUME NEW buf \in Seq(Byte), NEW l \in Nat, l <= Len(buf),
         l > 0 => buf[l].part = 3,
         \A k \in l + 1..Len(buf) : buf[k].part # 3
  PROVE  /\ TakeComplete(buf).lines = SubSeq(buf, 1, l)
         /\ TakeComplete(buf).rest = SubSeq(buf, l + 1, Len(buf))
<1>1. PICK n \in Nat : n = Len(buf)
  OBVIOUS
<1> DEFINE newlines == {k \in DOMAIN buf : buf[k].part = 3}
           last == IF newlines = {} THEN 0
                   ELSE CHOOSE k \in newlines : \A m \in newlines : m <= k
<1>2. DOMAIN buf = 1..n
  BY <1>1
<1>3. \A k \in newlines : k \in 1..n /\ k <= l
  BY <1>1, <1>2
<1>4. last = l
  <2>1. CASE l = 0
    <3>1. newlines = {}
      BY <1>3, <2>1
    <3>2. QED
      BY <2>1, <3>1
  <2>2. CASE l # 0
    <3>1. l \in newlines
      BY <1>1, <1>2, <2>2
    <3>2. \A k \in newlines : (\A m \in newlines : m <= k) => k = l
      BY <1>3, <3>1
    <3>3. \E k \in newlines : \A m \in newlines : m <= k
      BY <1>3, <3>1
    <3> HIDE DEF newlines
    <3>4. QED
      BY <3>1, <3>2, <3>3
  <2>3. QED
    BY <2>1, <2>2
<1> HIDE DEF newlines, last
<1>5. /\ TakeComplete(buf).lines = SubSeq(buf, 1, last)
      /\ TakeComplete(buf).rest = SubSeq(buf, last + 1, Len(buf))
  BY DEF TakeComplete, last, newlines
<1>6. QED
  BY <1>4, <1>5

-----------------------------------------------------------------------------
(* Stream: the invariant.  Of what has come, the whole lines have been read *)
(* and the rest waits; what was read or asked for later is in usage.        *)

Framed ==
  /\ pos <= Len(Bytes)
  /\ usage = Extract[SubSeq(Bytes, 1, Whole(pos))]
  /\ lineBuf = SubSeq(Bytes, Whole(pos) + 1, pos)

Asked ==
  /\ flow = "ended" => usage = Merge(Reference, recovered)
  /\ task \in {"waiting", "recovering", "asking"} => recovered = Unknown
  /\ task \in {"recovering", "asking"} => Missing(usage)
  /\ task \in {"recovering", "asking", "finishing"} => flow = "ended"
  /\ recovered # Unknown => Missing(Reference)

RowOfTask ==
  /\ row # NULL => task = "done"
  /\ row # NULL /\ row.status = "success" =>
       flow = "ended" /\ row.usage = usage /\ (ask.passthrough \/ ~Missing(usage))

StreamInv ==
  /\ TypeOK
  /\ body = <<>> => cut = 0
  /\ flow = "open" => Framed /\ task = "waiting"
  /\ Asked
  /\ RowOfTask

(* Bytes of whole lines, the last of which may be cut. *)
InLines(bytes) ==
  /\ bytes \in Seq(Byte)
  /\ \A k \in 1..Len(bytes) : bytes[k].part = ((k - 1) % 3) + 1

(* Reading on from the beginning of a line adds what is read there. *)
LEMMA ReadOn ==
  ASSUME NEW bytes, InLines(bytes), NEW w \in Nat, w % 3 = 0,
         NEW m \in Nat, w <= m, m <= Len(bytes)
  PROVE  Extract[SubSeq(bytes, 1, m)] =
           Merge(Extract[SubSeq(bytes, 1, w)], Extract[SubSeq(bytes, w + 1, m)])
<1> DEFINE a == SubSeq(bytes, 0 + 1, w)
           b == SubSeq(bytes, w + 1, m)
<1>1. PICK l \in Nat : l = Len(bytes)
  BY DEF InLines
<1>2. a \in Seq(Byte)
  BY <1>1, Piece DEF InLines
<1>3. b \in Seq(Byte) /\ Len(b) = m - w /\ \A n \in 1..m - w : b[n] = bytes[w + n]
  BY <1>1, Piece DEF InLines
<1>4. a \o b = SubSeq(bytes, 0 + 1, m)
  <2>1. bytes \in Seq(Byte) /\ 0 \in Nat /\ 0 <= w
    BY DEF InLines
  <2>2. QED
    BY <2>1, TwoPieces
<1> HIDE DEF a, b
<1>5. b # <<>> => b[1].part = 1
  <2>1. SUFFICES ASSUME b # <<>> PROVE b[1].part = 1
    OBVIOUS
  <2>2. 1 \in 1..m - w /\ w + 1 \in 1..l
    BY <1>1, <1>3, <2>1, EmptySeq
  <2>3. b[1] = bytes[w + 1] /\ bytes[w + 1].part = ((w + 1 - 1) % 3) + 1
    BY <1>1, <1>3, <2>2 DEF InLines
  <2>4. w + 1 - 1 = w
    OBVIOUS
  <2>5. QED
    BY <2>3, <2>4
<1>6. Extract[a \o b] = Merge(Extract[a], Extract[b])
  BY <1>2, <1>3, <1>5, ReadApart
<1>7. 0 + 1 = 1
  OBVIOUS
<1>8. QED
  BY <1>4, <1>6, <1>7 DEF a, b

(* A chunk completes the lines up to its last newline. *)
LEMMA TakeOn ==
  ASSUME NEW bytes, InLines(bytes), NEW p \in Nat, NEW q \in Nat,
         p <= q, q <= Len(bytes)
  PROVE  LET take == TakeComplete(SubSeq(bytes, Whole(p) + 1, p)
                                    \o SubSeq(bytes, p + 1, q))
         IN /\ take.lines = SubSeq(bytes, Whole(p) + 1, Whole(q))
            /\ take.rest = SubSeq(bytes, Whole(q) + 1, q)
<1> DEFINE w == Whole(p)
           v == Whole(q)
           buf == SubSeq(bytes, w + 1, q)
<1>1. PICK l \in Nat : l = Len(bytes)
  BY DEF InLines
<1>2. /\ w \in Nat /\ w <= p
      /\ v \in Nat /\ v <= q /\ w <= v
      /\ v > 0 => ((v - 1) % 3) + 1 = 3
      /\ \A k \in v + 1..q : ((k - 1) % 3) + 1 # 3
  BY WholeIs, WholeGrows
<1> HIDE DEF w, v
<1>3. SubSeq(bytes, w + 1, p) \o SubSeq(bytes, p + 1, q) = buf
  BY <1>1, <1>2, TwoPieces DEF InLines
<1>4. /\ buf \in Seq(Byte) /\ Len(buf) = q - w
      /\ \A n \in 1..q - w : buf[n] = bytes[w + n]
  <2>1. w <= q
    BY <1>2
  <2>2. QED
    BY <1>1, <1>2, <2>1, Piece DEF InLines
<1>5. \A n \in 1..q - w : buf[n].part = ((w + n - 1) % 3) + 1
  <2>1. SUFFICES ASSUME NEW n \in 1..q - w
                 PROVE  buf[n].part = ((w + n - 1) % 3) + 1
    OBVIOUS
  <2>2. w + n \in 1..l
    BY <1>1, <1>2
  <2>3. bytes[w + n].part = ((w + n - 1) % 3) + 1
    <3>1. PICK k \in 1..l : k = w + n
      BY <2>2
    <3>2. bytes[k].part = ((k - 1) % 3) + 1
      BY <1>1 DEF InLines
    <3>3. QED
      BY <1>2, <3>1, <3>2
  <2>4. buf[n] = bytes[w + n]
    BY <1>4
  <2>5. QED
    BY <2>3, <2>4
<1>6. SubSeq(buf, (v - w) + 1, q - w) = SubSeq(bytes, (w + (v - w)) + 1, w + (q - w))
      /\ SubSeq(buf, 0 + 1, v - w) = SubSeq(bytes, (w + 0) + 1, w + (v - w))
  <2>1. /\ w <= q /\ v - w \in Nat /\ q - w \in Nat /\ v - w <= q - w
        /\ 0 <= v - w
    BY <1>2
  <2>2. q <= Len(bytes) /\ bytes \in Seq(Byte) /\ 0 \in Nat /\ q - w <= q - w
    BY <2>1 DEF InLines
  <2>3. SubSeq(buf, (v - w) + 1, q - w) = SubSeq(bytes, (w + (v - w)) + 1, w + (q - w))
    BY <1>2, <2>1, <2>2, PieceOfPiece
  <2>4. SubSeq(buf, 0 + 1, v - w) = SubSeq(bytes, (w + 0) + 1, w + (v - w))
    BY <1>2, <2>1, <2>2, PieceOfPiece
  <2>5. QED
    BY <2>3, <2>4
<1> HIDE DEF buf
<1> DEFINE take == TakeComplete(buf)
<1>7. take.lines = SubSeq(buf, 1, v - w) /\ take.rest = SubSeq(buf, (v - w) + 1, Len(buf))
  <2>1. v - w \in Nat /\ v - w <= Len(buf)
    BY <1>2, <1>4
  <2>2. v - w > 0 => buf[v - w].part = 3
    <3>1. v - w > 0 => v - w \in 1..q - w /\ w + (v - w) - 1 = v - 1 /\ v > 0
      BY <1>2
    <3>2. QED
      BY <1>2, <1>5, <3>1
  <2>3. ASSUME NEW k \in (v - w) + 1..Len(buf) PROVE buf[k].part # 3
    <3>1. k \in 1..q - w /\ w + k \in v + 1..q
      BY <1>2, <1>4
    <3>2. buf[k].part = ((w + k - 1) % 3) + 1
      BY <1>5, <3>1
    <3>3. ((w + k - 1) % 3) + 1 # 3
      <4> DEFINE j == w + k
      <4>1. j \in v + 1..q
        BY <3>1
      <4> HIDE DEF j
      <4>2. ((j - 1) % 3) + 1 # 3
        BY <1>2, <4>1
      <4>3. w + k - 1 = j - 1
        BY <1>2, <3>1 DEF j
      <4>4. QED
        BY <4>2, <4>3
    <3>4. QED
      BY <3>2, <3>3
  <2>4. QED
    BY <1>4, <2>1, <2>2, <2>3, TakeCompleteIs
<1> HIDE DEF take
<1>8. w + (v - w) = v /\ w + (q - w) = q /\ w + 0 = w /\ 0 + 1 = 1
  BY <1>2
<1>9. take.lines = SubSeq(bytes, w + 1, v) /\ take.rest = SubSeq(bytes, v + 1, q)
  BY <1>4, <1>6, <1>7, <1>8
<1>10. QED
  BY <1>3, <1>9 DEF take, w, v

LEMMA BytesInLines ==
  ASSUME TypeOK, body = <<>> => cut = 0
  PROVE  InLines(Bytes) /\ Len(Bytes) \in Nat
BY BytesAre DEF TypeOK, InLines

LEMMA ReferenceType ==
  ASSUME TypeOK, body = <<>> => cut = 0
  PROVE  Reference \in Usage
<1>1. Bytes \in Seq(Byte)
  BY BytesInLines DEF InLines
<1>2. Extract[Bytes] \in Usage /\ Salvage[Bytes] \in Usage
  BY <1>1, ExtractIs, SalvageType
<1>3. QED
  BY <1>2, MergeType DEF Reference

LEMMA StreamInitGood == Init => StreamInv
<1> SUFFICES ASSUME Init PROVE StreamInv
  OBVIOUS
<1>1. body \in Seq(SseLine)
  BY DEF Init
<1>2. cut \in 0..2 /\ (body = <<>> => cut = 0)
  BY DEF Init
<1>3. TypeOK
  <2>1. lineBuf \in Seq(Byte) /\ usage \in Usage /\ recovered \in Usage
    BY EmptySeq, UnknownType DEF Init
  <2>2. QED
    BY <1>1, <1>2, <2>1 DEF Init, TypeOK
<1>4. Framed
  <2>1. Bytes \in Seq(Byte) /\ Len(Bytes) \in Nat
    BY <1>2, <1>3, BytesInLines DEF InLines
  <2>2. SubSeq(Bytes, 0 + 1, 0) \in Seq(Byte) /\ Len(SubSeq(Bytes, 0 + 1, 0)) = 0 - 0
    BY <2>1, Piece
  <2>3. SubSeq(Bytes, 0 + 1, 0) = <<>>
    BY <2>2, EmptySeq
  <2>4. Whole(0) = 0 /\ 0 + 1 = 1
    BY DEF Whole
  <2>5. pos = 0 /\ usage = Unknown /\ lineBuf = <<>>
    BY DEF Init
  <2>6. SubSeq(Bytes, 1, Whole(pos)) = <<>> /\ SubSeq(Bytes, Whole(pos) + 1, pos) = <<>>
    BY <2>3, <2>4, <2>5
  <2>7. pos <= Len(Bytes)
    BY <2>1, <2>5
  <2>8. QED
    BY <2>5, <2>6, <2>7, ExtractIs DEF Framed
<1>5. Asked /\ RowOfTask
  BY DEF Init, Asked, RowOfTask
<1>6. QED
  BY <1>2, <1>3, <1>4, <1>5 DEF Init, StreamInv

LEMMA ChunkGood ==
  ASSUME StreamInv, NEW n \in 1..Len(Bytes) - pos, Chunk(n)
  PROVE  StreamInv'
<1>1. /\ TypeOK /\ (body = <<>> => cut = 0) /\ Framed /\ task = "waiting" /\ flow = "open"
      /\ Asked /\ RowOfTask
  BY DEF StreamInv, Chunk
<1>2. InLines(Bytes) /\ Len(Bytes) \in Nat /\ Bytes \in Seq(Byte)
  BY <1>1, BytesInLines DEF InLines
<1> DEFINE p == pos
           q == pos + n
<1>3. p \in Nat /\ q \in Nat /\ p <= q /\ q <= Len(Bytes)
  BY <1>1, <1>2 DEF TypeOK, Framed
<1>4. /\ Whole(p) \in Nat /\ Whole(q) \in Nat /\ Whole(p) % 3 = 0
      /\ Whole(p) <= Whole(q) /\ Whole(q) <= Len(Bytes) /\ Whole(q) <= q
      /\ Whole(p) <= p
  <2> HIDE DEF p, q
  <2>1. /\ Whole(p) \in Nat /\ Whole(q) \in Nat /\ Whole(p) % 3 = 0
        /\ Whole(p) <= p /\ Whole(q) <= q
    BY <1>3, WholeIs
  <2>2. Whole(p) <= Whole(q)
    BY <1>3, WholeGrows
  <2>3. Whole(q) <= Len(Bytes)
    BY <1>2, <1>3, <2>1
  <2>4. QED
    BY <2>1, <2>2, <2>3
<1>5. UNCHANGED <<body, cut, ask, flow, task, attempt, recovered, row>> /\ pos' = q
  BY DEF Chunk, given
<1> DEFINE take == TakeComplete(lineBuf \o SubSeq(Bytes, pos + 1, pos + n))
<1>6. usage' = Merge(usage, Extract[take.lines]) /\ lineBuf' = take.rest
  BY DEF Chunk
<1>7. /\ take.lines = SubSeq(Bytes, Whole(p) + 1, Whole(q))
      /\ take.rest = SubSeq(Bytes, Whole(q) + 1, q)
  <2>1. lineBuf = SubSeq(Bytes, Whole(p) + 1, p)
    BY <1>1 DEF Framed
  <2>2. QED
    BY <1>2, <1>3, <2>1, TakeOn
<1>8. usage' = Extract[SubSeq(Bytes, 1, Whole(q))]
  <2>1. usage = Extract[SubSeq(Bytes, 1, Whole(p))]
    BY <1>1 DEF Framed
  <2>2. Extract[SubSeq(Bytes, 1, Whole(q))] =
          Merge(Extract[SubSeq(Bytes, 1, Whole(p))],
                Extract[SubSeq(Bytes, Whole(p) + 1, Whole(q))])
    BY <1>2, <1>4, ReadOn
  <2>3. QED
    BY <1>6, <1>7, <2>1, <2>2
<1>9. Bytes' = Bytes
  BY <1>5 DEF Bytes
<1>10. Framed'
  BY <1>3, <1>5, <1>6, <1>7, <1>8, <1>9 DEF Framed
<1>11. usage' \in Usage /\ lineBuf' \in Seq(Byte)
  <2>1. SubSeq(Bytes, Whole(q) + 1, q) \in Seq(Byte)
    BY <1>2, <1>3, <1>4, Piece
  <2>2. SubSeq(Bytes, 0 + 1, Whole(q)) \in Seq(Byte) /\ 0 + 1 = 1
    BY <1>2, <1>4, Piece
  <2>3. QED
    BY <1>6, <1>7, <1>8, <2>1, <2>2, ExtractIs
<1> HIDE DEF take, p, q
<1>12. TypeOK'
  BY <1>1, <1>3, <1>5, <1>11 DEF TypeOK
<1>13. Asked'
  <2>1. Reference' = Reference
    BY <1>9 DEF Reference
  <2>2. QED
    BY <1>1, <1>5, <2>1 DEF Asked
<1>14. RowOfTask'
  BY <1>1, <1>5 DEF RowOfTask
<1>15. QED
  BY <1>1, <1>5, <1>10, <1>12, <1>13, <1>14 DEF StreamInv

LEMMA EndOfStreamGood ==
  ASSUME StreamInv, EndOfStream
  PROVE  StreamInv'
<1>1. /\ TypeOK /\ (body = <<>> => cut = 0) /\ Framed /\ task = "waiting" /\ flow = "open"
      /\ Asked /\ RowOfTask
  BY DEF StreamInv, EndOfStream
<1>2. InLines(Bytes) /\ Len(Bytes) \in Nat /\ Bytes \in Seq(Byte)
  BY <1>1, BytesInLines DEF InLines
<1>3. UNCHANGED <<body, cut, ask, pos, lineBuf, task, attempt, recovered, row>>
      /\ flow' = "ended"
  BY DEF EndOfStream, given
<1>4. pos = Len(Bytes) /\ pos \in Nat /\ Whole(pos) \in Nat /\ Whole(pos) <= pos
      /\ Whole(pos) % 3 = 0
  BY <1>1, <1>2, WholeIs DEF EndOfStream, TypeOK
<1>5. SubSeq(Bytes, 1, pos) = Bytes
  <2> DEFINE b == Bytes
  <2>1. b \in Seq(Byte) /\ pos = Len(b)
    BY <1>2, <1>4
  <2> HIDE DEF b
  <2>2. /\ SubSeq(b, 0 + 1, pos) \in Seq(Byte) /\ Len(SubSeq(b, 0 + 1, pos)) = pos - 0
        /\ \A n \in 1..pos - 0 : SubSeq(b, 0 + 1, pos)[n] = b[0 + n]
    BY <1>4, <2>1, Piece
  <2> DEFINE c == SubSeq(b, 1, pos)
  <2>3. c \in Seq(Byte) /\ Len(c) = pos /\ \A n \in 1..pos : c[n] = b[n]
    BY <1>4, <2>2
  <2> HIDE DEF c
  <2>4. c = b
    BY <1>4, <2>1, <2>3, SeqEqual
  <2>5. QED
    BY <2>4 DEF b, c
<1>6. Merge(usage, Extract[lineBuf]) = Extract[Bytes]
  <2>1. Extract[SubSeq(Bytes, 1, pos)] =
          Merge(Extract[SubSeq(Bytes, 1, Whole(pos))],
                Extract[SubSeq(Bytes, Whole(pos) + 1, pos)])
    BY <1>2, <1>4, ReadOn
  <2>2. QED
    BY <1>1, <1>5, <2>1 DEF Framed
<1>7. usage' = Reference
  BY <1>6 DEF EndOfStream, Reference
<1>8. Reference' = Reference
  BY <1>3 DEF Reference, Bytes
<1>9. Reference \in Usage /\ recovered = Unknown
  BY <1>1, ReferenceType DEF Asked
<1>10. usage' = Merge(Reference, recovered)
  BY <1>7, <1>9, MergeUnknown
<1>11. TypeOK'
  BY <1>1, <1>3, <1>7, <1>9 DEF TypeOK
<1>12. Asked' /\ RowOfTask'
  BY <1>1, <1>3, <1>8, <1>10 DEF Asked, RowOfTask
<1>13. QED
  BY <1>1, <1>3, <1>11, <1>12 DEF StreamInv

(* The stream is over or nothing of it is touched: what is left to show. *)
LEMMA TaskGood ==
  ASSUME StreamInv, UNCHANGED <<given, pos, lineBuf>>, TypeOK',
         flow' # "open", Asked', RowOfTask'
  PROVE  StreamInv'
BY DEF StreamInv, given

LEMMA SameReference ==
  ASSUME UNCHANGED given
  PROVE  Reference' = Reference
BY DEF given, Reference, Bytes

LEMMA BreakOffGood ==
  ASSUME StreamInv, BreakOff
  PROVE  StreamInv'
<1>1. TypeOK /\ Asked /\ RowOfTask /\ task = "waiting" /\ flow = "open"
  BY DEF StreamInv, BreakOff
<1>2. UNCHANGED <<given, pos, lineBuf, usage, task, attempt, recovered, row>>
      /\ flow' = "dropped"
  BY DEF BreakOff
<1>3. TypeOK'
  BY <1>1, <1>2 DEF TypeOK, given
<1>4. Asked' /\ RowOfTask'
  BY <1>1, <1>2, SameReference DEF Asked, RowOfTask, given
<1>5. QED
  BY <1>2, <1>3, <1>4, TaskGood

LEMMA InterruptedGood ==
  ASSUME StreamInv, Interrupted
  PROVE  StreamInv'
<1>1. TypeOK /\ Asked /\ RowOfTask /\ flow = "dropped" /\ task = "waiting"
  BY DEF StreamInv, Interrupted, SenderGone
<1>2. /\ UNCHANGED <<given, pos, lineBuf, usage, flow, attempt, recovered>>
      /\ row' = [status |-> "interrupted", usage |-> Unknown]
      /\ task' = "done"
  BY DEF Interrupted
<1>3. TypeOK'
  BY <1>1, <1>2, UnknownType DEF TypeOK, given
<1>4. Asked' /\ RowOfTask'
  BY <1>1, <1>2, SameReference DEF Asked, RowOfTask, given
<1>5. QED
  BY <1>1, <1>2, <1>3, <1>4, TaskGood

LEMMA ReceivedGood ==
  ASSUME StreamInv, Received
  PROVE  StreamInv'
<1>1. TypeOK /\ Asked /\ RowOfTask /\ flow = "ended" /\ task = "waiting"
  BY DEF StreamInv, Received
<1>2. /\ UNCHANGED <<given, pos, lineBuf, usage, flow, attempt, recovered, row>>
      /\ task' \in {"recovering", "finishing"}
      /\ task' = "recovering" => Missing(usage)
  BY DEF Received, Recoverable
<1>3. TypeOK'
  BY <1>1, <1>2 DEF TypeOK, given
<1>4. Asked' /\ RowOfTask'
  BY <1>1, <1>2, SameReference DEF Asked, RowOfTask, given
<1>5. QED
  BY <1>1, <1>2, <1>3, <1>4, TaskGood

LEMMA RetryGood ==
  ASSUME StreamInv, Retry
  PROVE  StreamInv'
<1>1. /\ TypeOK /\ Asked /\ RowOfTask /\ task = "recovering" /\ flow = "ended"
  BY DEF StreamInv, Retry, Asked
<1>2. /\ UNCHANGED <<given, pos, lineBuf, usage, flow, recovered, row>>
      /\ attempt' = attempt + 1 /\ attempt < 4 /\ task' = "asking"
  BY DEF Retry, AttemptsLeft
<1>3. attempt' \in 0..4
  BY <1>1, <1>2 DEF TypeOK
<1>4. TypeOK'
  BY <1>1, <1>2, <1>3 DEF TypeOK, given
<1>5. Asked' /\ RowOfTask'
  BY <1>1, <1>2, SameReference DEF Asked, RowOfTask, given
<1>6. QED
  BY <1>1, <1>2, <1>4, <1>5, TaskGood

LEMMA ToldGood ==
  ASSUME StreamInv, Told
  PROVE  StreamInv'
<1>1. /\ TypeOK /\ Asked /\ RowOfTask /\ task = "asking" /\ flow = "ended"
      /\ (body = <<>> => cut = 0)
  BY DEF StreamInv, Told, Asked
<1>2. UNCHANGED <<given, pos, lineBuf, flow, attempt, row>>
  BY DEF Told
<1>3. recovered = Unknown /\ usage = Merge(Reference, recovered) /\ Missing(usage)
  BY <1>1 DEF Asked
<1>4. Reference \in Usage /\ usage = Reference
  BY <1>1, <1>3, ReferenceType, MergeUnknown
<1>5. row = NULL
  BY <1>1 DEF RowOfTask
<1>6. CASE task' = "recovering" /\ UNCHANGED <<usage, recovered>>
  <2>1. TypeOK'
    BY <1>1, <1>2, <1>6 DEF TypeOK, given
  <2>2. Asked' /\ RowOfTask'
    BY <1>1, <1>2, <1>6, SameReference DEF Asked, RowOfTask, given
  <2>3. QED
    BY <1>1, <1>2, <2>1, <2>2, TaskGood
<1>7. ASSUME NEW u \in {v \in Usage : ~Missing(v)},
             recovered' = u /\ usage' = Merge(usage, u) /\ task' = "finishing"
      PROVE  StreamInv'
  <2>1. usage' \in Usage
    BY <1>1, <1>7, MergeType DEF TypeOK
  <2>2. TypeOK'
    BY <1>1, <1>2, <1>7, <2>1 DEF TypeOK, given
  <2>3. Missing(Reference') /\ usage' = Merge(Reference', recovered')
    BY <1>2, <1>3, <1>4, <1>7, SameReference
  <2>4. Asked'
    BY <1>1, <1>2, <1>7, <2>3 DEF Asked
  <2>5. RowOfTask'
    BY <1>2, <1>5 DEF RowOfTask
  <2>6. QED
    BY <1>1, <1>2, <2>2, <2>4, <2>5, TaskGood
<1>8. QED
  BY <1>6, <1>7 DEF Told

LEMMA GiveUpGood ==
  ASSUME StreamInv, GiveUp
  PROVE  StreamInv'
<1>1. TypeOK /\ Asked /\ RowOfTask /\ task = "recovering" /\ flow = "ended"
  BY DEF StreamInv, GiveUp, Asked
<1>2. /\ UNCHANGED <<given, pos, lineBuf, usage, flow, attempt, recovered, row>>
      /\ task' = "finishing"
  BY DEF GiveUp
<1>3. TypeOK'
  BY <1>1, <1>2 DEF TypeOK, given
<1>4. Asked' /\ RowOfTask'
  BY <1>1, <1>2, SameReference DEF Asked, RowOfTask, given
<1>5. QED
  BY <1>1, <1>2, <1>3, <1>4, TaskGood

LEMMA FinishGood ==
  ASSUME StreamInv, Finish
  PROVE  StreamInv'
<1>1. TypeOK /\ Asked /\ RowOfTask /\ task = "finishing" /\ flow = "ended"
  BY DEF StreamInv, Finish, Asked
<1> DEFINE how == IF ask.ok /\ (ask.passthrough \/ ~Missing(usage))
                  THEN "success" ELSE "error"
<1>2. /\ UNCHANGED <<given, pos, lineBuf, usage, flow, attempt, recovered>>
      /\ row' = [status |-> how, usage |-> usage]
      /\ task' = "done"
  BY DEF Finish
<1>3. how \in {"success", "error"}
      /\ (how = "success" => ask.passthrough \/ ~Missing(usage))
  OBVIOUS
<1> HIDE DEF how
<1>4. TypeOK'
  BY <1>1, <1>2, <1>3 DEF TypeOK, given
<1>5. Asked'
  BY <1>1, <1>2, SameReference DEF Asked, given
<1>6. RowOfTask'
  <2>1. UNCHANGED <<ask, usage, flow>> /\ row'.status = how /\ row'.usage = usage
    BY <1>2 DEF given
  <2>2. Missing(usage)' = Missing(usage)
    BY <2>1 DEF Missing
  <2>3. QED
    BY <1>1, <1>2, <1>3, <2>1, <2>2 DEF RowOfTask
<1>7. QED
  BY <1>1, <1>2, <1>4, <1>5, <1>6, TaskGood

LEMMA StreamStep == StreamInv /\ [Next]_vars => StreamInv'
<1> SUFFICES ASSUME StreamInv, [Next]_vars PROVE StreamInv'
  OBVIOUS
<1>1. CASE UNCHANGED vars
  <2>1. UNCHANGED <<body, cut, ask, pos, lineBuf, usage, flow, task, attempt,
                    recovered, row>>
    BY <1>1 DEF vars
  <2>2. Bytes' = Bytes
    BY <2>1 DEF Bytes
  <2>3. Reference' = Reference
    BY <2>2 DEF Reference
  <2>4. TypeOK'
    BY <2>1 DEF StreamInv, TypeOK
  <2>5. Framed' = Framed
    BY <2>1, <2>2 DEF Framed
  <2>6. Asked' /\ RowOfTask'
    BY <2>1, <2>3 DEF StreamInv, Asked, RowOfTask
  <2>7. QED
    BY <2>1, <2>4, <2>5, <2>6 DEF StreamInv
<1>2. QED
  BY <1>1, ChunkGood, EndOfStreamGood, BreakOffGood, InterruptedGood, ReceivedGood,
     RetryGood, ToldGood, GiveUpGood, FinishGood DEF Next, Task

LEMMA StreamInvariant == Spec => []StreamInv
BY StreamInitGood, StreamStep, PTL DEF Spec

(* What is read, asked for and logged keeps its type, and the upstream is   *)
(* asked at most four times.                                                *)
THEOREM StreamTypeCorrect == Spec => []TypeOK
BY StreamInvariant, PTL DEF StreamInv

(* ChunkingIrrelevant: however long the body and wherever it was cut, the   *)
(* usage at the end of a stream is the one read from the whole body at once *)
(* (proxy.rs handle_streaming_response, take_complete_sse_lines).           *)
THEOREM StreamChunkingIrrelevant == Spec => []ChunkingIrrelevant
<1>1. StreamInv => ChunkingIrrelevant
  <2> SUFFICES ASSUME StreamInv, flow = "ended", task = "waiting"
               PROVE  usage = Reference
    BY DEF ChunkingIrrelevant
  <2>1. usage = Merge(Reference, recovered) /\ recovered = Unknown
    BY DEF StreamInv, Asked
  <2>2. Reference \in Usage
    BY ReferenceType DEF StreamInv
  <2>3. QED
    BY <2>1, <2>2, MergeUnknown
<1>2. QED
  BY <1>1, StreamInvariant, PTL

(* BilledAsTold: a success is logged with what the stream told, or else     *)
(* with what the upstream told when asked, never with neither count         *)
(* (proxy.rs handle_streaming_response, recover_responses_usage).     *)
THEOREM StreamBilledAsTold == Spec => []BilledAsTold
<1>1. StreamInv => BilledAsTold
  <2> SUFFICES ASSUME StreamInv, row # NULL, row.status = "success"
               PROVE  /\ flow = "ended"
                      /\ ask.passthrough \/ ~Missing(row.usage)
                      /\ ~Missing(Reference) => row.usage = Reference
                      /\ Missing(Reference) => row.usage = Merge(Reference, recovered)
    BY DEF BilledAsTold
  <2>1. /\ flow = "ended" /\ row.usage = usage /\ (ask.passthrough \/ ~Missing(usage))
        /\ usage = Merge(Reference, recovered)
        /\ recovered # Unknown => Missing(Reference)
    BY DEF StreamInv, Asked, RowOfTask
  <2>2. Reference \in Usage
    BY ReferenceType DEF StreamInv
  <2>3. ~Missing(Reference) => usage = Reference
    BY <2>1, <2>2, MergeUnknown
  <2>4. QED
    BY <2>1, <2>3
<1>2. QED
  BY <1>1, StreamInvariant, PTL

-----------------------------------------------------------------------------
(* Compress: the equations of the functions along segments, lines and texts.*)

LEMMA RewrittenIs ==
  /\ Rewritten[<<>>] = <<>>
  /\ \A s \in Seq(Token), x \in Token :
       Rewritten[Append(s, x)] =
         IF x = "filler" \/ (x = "sp" /\ Rewritten[s] # <<>> /\ Last(Rewritten[s]) = "sp")
                      THEN Rewritten[s] ELSE Append(Rewritten[s], IF x = "verbose" THEN "brief" ELSE x)
  /\ \A s \in Seq(Token) : Rewritten[s] \in Seq(Token)
<1> DEFINE S == Seq(Token)
           e(u, x) == IF x = "filler" \/ (x = "sp" /\ u # <<>> /\ Last(u) = "sp")
                      THEN u ELSE Append(u, IF x = "verbose" THEN "brief" ELSE x)
           G == [p \in S \X Token |-> e(p[1], p[2])]
<1>1. <<>> \in S /\ \A u \in S, x \in Token : e(u, x) \in S
  BY EmptySeq, AppendProperties DEF Token
<1>2. IsStep(G, S, Token) /\ \A u \in S, x \in Token : G[<<u, x>>] = e(u, x)
  <2> HIDE DEF S, e
  <2>1. QED
    BY <1>1 DEF IsStep
<1>3. PICK f : IsFold(f, <<>>, G, S, Token)
  <2> HIDE DEF S, G, e
  <2>1. QED
    BY <1>1, <1>2, AlongSequence
<1>4. f = [s \in Seq(Token) |-> IF s = <<>> THEN <<>> ELSE e(f[Front(s)], Last(s))]
  <2> HIDE DEF S, G, e
  <2>1. \A s \in Seq(Token) : s # <<>> => f[s] = e(f[Front(s)], Last(s))
    BY <1>2, <1>3, FrontLast DEF IsFold
  <2>2. QED
    BY <1>3, <2>1 DEF IsFold
<1>5. Rewritten = [s \in Seq(Token) |-> IF s = <<>> THEN <<>> ELSE e(Rewritten[Front(s)], Last(s))]
  BY <1>4 DEF Rewritten, Segment
<1>6. Rewritten[<<>>] = <<>>
  BY <1>5, EmptySeq
<1>7. ASSUME NEW s \in Seq(Token), NEW x \in Token
      PROVE  Rewritten[Append(s, x)] = e(Rewritten[s], x)
  <2> HIDE DEF e
  <2>1. /\ Append(s, x) \in Seq(Token) /\ Append(s, x) # <<>>
        /\ Front(Append(s, x)) = s /\ Last(Append(s, x)) = x
    BY Appended
  <2>2. \A t \in Seq(Token) : t # <<>> => Rewritten[t] = e(Rewritten[Front(t)], Last(t))
    BY <1>5
  <2>3. QED
    BY <2>1, <2>2
<1>8. \A s \in Seq(Token) : Rewritten[s] \in S
  <2> HIDE DEF e, S
  <2>1. QED
    BY <1>1, <1>6, <1>7, AlongType
<1>10. QED
  BY <1>6, <1>7, <1>8

LEMMA TrimEndIs ==
  /\ TrimEnd[<<>>] = <<>>
  /\ \A s \in Seq(Token), x \in Token :
       TrimEnd[Append(s, x)] = IF x # "sp" THEN Append(s, x) ELSE TrimEnd[s]
  /\ \A s \in Seq(Token) : TrimEnd[s] \in Seq(Token)
<1> DEFINE S == Seq(Token)
           e(u, s) == IF Last(s) # "sp" THEN s ELSE u
           G == [p \in S \X Seq(Token) |-> IF p[2] = <<>> THEN <<>> ELSE e(p[1], p[2])]
<1>1. <<>> \in S /\ \A u \in S, s \in Seq(Token) : s # <<>> => e(u, s) \in S
  BY EmptySeq
<1>2. IsStepOf(G, S, Token) /\ \A u \in S, s \in Seq(Token) : s # <<>> => G[<<u, s>>] = e(u, s)
  <2> HIDE DEF S, e
  <2>1. QED
    BY <1>1 DEF IsStepOf
<1>3. PICK f : IsFoldOf(f, <<>>, G, S, Token)
  <2> HIDE DEF S, G, e
  <2>1. QED
    BY <1>1, <1>2, AlongPrefixes
<1>4. f = [s \in Seq(Token) |-> IF s = <<>> THEN <<>> ELSE e(f[Front(s)], s)]
  <2> HIDE DEF S, G, e
  <2>1. \A s \in Seq(Token) : s # <<>> => f[s] = e(f[Front(s)], s)
    BY <1>2, <1>3, FrontLast DEF IsFoldOf
  <2>2. QED
    BY <1>3, <2>1 DEF IsFoldOf
<1>5. TrimEnd = [s \in Seq(Token) |-> IF s = <<>> THEN <<>> ELSE e(TrimEnd[Front(s)], s)]
  BY <1>4 DEF TrimEnd, Segment
<1>6. TrimEnd[<<>>] = <<>>
  BY <1>5, EmptySeq
<1>7. ASSUME NEW s \in Seq(Token), NEW x \in Token
      PROVE  TrimEnd[Append(s, x)] = e(TrimEnd[s], Append(s, x))
  <2> HIDE DEF e
  <2>1. /\ Append(s, x) \in Seq(Token) /\ Append(s, x) # <<>>
        /\ Front(Append(s, x)) = s /\ Last(Append(s, x)) = x
    BY Appended
  <2>2. \A t \in Seq(Token) : t # <<>> => TrimEnd[t] = e(TrimEnd[Front(t)], t)
    BY <1>5
  <2>3. QED
    BY <2>1, <2>2
<1>8. \A s \in Seq(Token) : TrimEnd[s] \in S
  <2> HIDE DEF e, S
  <2>1. \A s \in Seq(Token), x \in Token :
          Append(s, x) \in Seq(Token) /\ Append(s, x) # <<>>
    BY Appended
  <2>2. \A s \in Seq(Token), x \in Token : TrimEnd[s] \in S => TrimEnd[Append(s, x)] \in S
    BY <1>1, <1>7, <2>1
  <2>3. QED
    BY <1>1, <1>6, <2>2, AlongType
<1>9. \A s \in Seq(Token), x \in Token :
        e(TrimEnd[s], Append(s, x)) = IF x # "sp" THEN Append(s, x) ELSE TrimEnd[s]
  BY Appended
<1>10. QED
  BY <1>6, <1>7, <1>8, <1>9

LEMMA WordsAre ==
  /\ Words[<<>>] = <<>>
  /\ \A s \in Seq(Token), x \in Token :
       Words[Append(s, x)] = IF x = "word" THEN Append(Words[s], <<"word">>) ELSE Words[s]
  /\ \A s \in Seq(Token) : Words[s] \in Seq(Segment)
<1> DEFINE S == Seq(Segment)
           e(u, x) == IF x = "word" THEN Append(u, <<"word">>) ELSE u
           G == [p \in S \X Token |-> e(p[1], p[2])]
<1>1. <<>> \in S /\ \A u \in S, x \in Token : e(u, x) \in S
  <2>1. <<"word">> \in Segment
    BY DEF Segment, Token
  <2>2. QED
    BY <2>1, EmptySeq, AppendProperties
<1>2. IsStep(G, S, Token) /\ \A u \in S, x \in Token : G[<<u, x>>] = e(u, x)
  <2> HIDE DEF S, e
  <2>1. QED
    BY <1>1 DEF IsStep
<1>3. PICK f : IsFold(f, <<>>, G, S, Token)
  <2> HIDE DEF S, G, e
  <2>1. QED
    BY <1>1, <1>2, AlongSequence
<1>4. f = [s \in Seq(Token) |-> IF s = <<>> THEN <<>> ELSE e(f[Front(s)], Last(s))]
  <2> HIDE DEF S, G, e
  <2>1. \A s \in Seq(Token) : s # <<>> => f[s] = e(f[Front(s)], Last(s))
    BY <1>2, <1>3, FrontLast DEF IsFold
  <2>2. QED
    BY <1>3, <2>1 DEF IsFold
<1>5. Words = [s \in Seq(Token) |-> IF s = <<>> THEN <<>> ELSE e(Words[Front(s)], Last(s))]
  BY <1>4 DEF Words, Segment
<1>6. Words[<<>>] = <<>>
  BY <1>5, EmptySeq
<1>7. ASSUME NEW s \in Seq(Token), NEW x \in Token
      PROVE  Words[Append(s, x)] = e(Words[s], x)
  <2> HIDE DEF e
  <2>1. /\ Append(s, x) \in Seq(Token) /\ Append(s, x) # <<>>
        /\ Front(Append(s, x)) = s /\ Last(Append(s, x)) = x
    BY Appended
  <2>2. \A t \in Seq(Token) : t # <<>> => Words[t] = e(Words[Front(t)], Last(t))
    BY <1>5
  <2>3. QED
    BY <2>1, <2>2
<1>8. \A s \in Seq(Token) : Words[s] \in S
  <2> HIDE DEF e, S
  <2>1. QED
    BY <1>1, <1>6, <1>7, AlongType
<1>10. QED
  BY <1>6, <1>7, <1>8

LEMMA KeptInIs ==
  /\ KeptIn[<<>>] = <<>>
  /\ \A s \in Seq(Segment), x \in Segment :
       KeptIn[Append(s, x)] = KeptIn[s] \o (IF (Len(s) + 1) % 2 = 0 THEN <<x>> ELSE Words[x])
  /\ \A s \in Seq(Segment) : KeptIn[s] \in Seq(Segment)
<1> DEFINE S == Seq(Segment)
           e(u, s) == u \o (IF Len(s) % 2 = 0 THEN <<Last(s)>> ELSE Words[Last(s)])
           G == [p \in S \X Seq(Segment) |-> IF p[2] = <<>> THEN <<>> ELSE e(p[1], p[2])]
<1>1. <<>> \in S /\ \A u \in S, s \in Seq(Segment) : s # <<>> => e(u, s) \in S
  <2>1. \A s \in Seq(Segment) : s # <<>> => Last(s) \in Segment
    BY FrontLast
  <2>2. \A y \in Segment : <<y>> \in Seq(Segment) /\ Words[y] \in Seq(Segment)
    BY WordsAre DEF Segment
  <2>3. QED
    BY <2>1, <2>2, EmptySeq, ConcatProperties
<1>2. IsStepOf(G, S, Segment) /\ \A u \in S, s \in Seq(Segment) : s # <<>> => G[<<u, s>>] = e(u, s)
  <2> HIDE DEF S, e
  <2>1. QED
    BY <1>1 DEF IsStepOf
<1>3. PICK f : IsFoldOf(f, <<>>, G, S, Segment)
  <2> HIDE DEF S, G, e
  <2>1. QED
    BY <1>1, <1>2, AlongPrefixes
<1>4. f = [s \in Seq(Segment) |-> IF s = <<>> THEN <<>> ELSE e(f[Front(s)], s)]
  <2> HIDE DEF S, G, e
  <2>1. \A s \in Seq(Segment) : s # <<>> => f[s] = e(f[Front(s)], s)
    BY <1>2, <1>3, FrontLast DEF IsFoldOf
  <2>2. QED
    BY <1>3, <2>1 DEF IsFoldOf
<1>5. KeptIn = [s \in Seq(Segment) |-> IF s = <<>> THEN <<>> ELSE e(KeptIn[Front(s)], s)]
  BY <1>4 DEF KeptIn
<1>6. KeptIn[<<>>] = <<>>
  BY <1>5, EmptySeq
<1>7. ASSUME NEW s \in Seq(Segment), NEW x \in Segment
      PROVE  KeptIn[Append(s, x)] = e(KeptIn[s], Append(s, x))
  <2> HIDE DEF e
  <2>1. /\ Append(s, x) \in Seq(Segment) /\ Append(s, x) # <<>>
        /\ Front(Append(s, x)) = s /\ Last(Append(s, x)) = x
    BY Appended
  <2>2. \A t \in Seq(Segment) : t # <<>> => KeptIn[t] = e(KeptIn[Front(t)], t)
    BY <1>5
  <2>3. QED
    BY <2>1, <2>2
<1>8. \A s \in Seq(Segment) : KeptIn[s] \in S
  <2> HIDE DEF e, S
  <2>1. \A s \in Seq(Segment), x \in Segment :
          Append(s, x) \in Seq(Segment) /\ Append(s, x) # <<>>
    BY Appended
  <2>2. \A s \in Seq(Segment), x \in Segment : KeptIn[s] \in S => KeptIn[Append(s, x)] \in S
    BY <1>1, <1>7, <2>1
  <2>3. QED
    BY <1>1, <1>6, <2>2, AlongType
<1>9. ASSUME NEW s \in Seq(Segment), NEW x \in Segment
      PROVE  e(KeptIn[s], Append(s, x)) =
               KeptIn[s] \o (IF (Len(s) + 1) % 2 = 0 THEN <<x>> ELSE Words[x])
  <2>1. Last(Append(s, x)) = x /\ Len(Append(s, x)) = Len(s) + 1
    BY Appended
  <2>2. QED
    BY <2>1
<1>10. QED
  BY <1>6, <1>7, <1>8, <1>9

LEMMA SegSizeIs ==
  /\ SegSize[<<>>] = 0
  /\ \A s \in Seq(Token), x \in Token :
       SegSize[Append(s, x)] = SegSize[s] + Weight[x]
  /\ \A s \in Seq(Token) : SegSize[s] \in Nat
<1> DEFINE S == Nat
           e(u, x) == u + Weight[x]
           G == [p \in S \X Token |-> e(p[1], p[2])]
<1>1. 0 \in S /\ \A u \in S, x \in Token : e(u, x) \in S
  BY DEF Weight, Token
<1>2. IsStep(G, S, Token) /\ \A u \in S, x \in Token : G[<<u, x>>] = e(u, x)
  <2> HIDE DEF S, e
  <2>1. QED
    BY <1>1 DEF IsStep
<1>3. PICK f : IsFold(f, 0, G, S, Token)
  <2> HIDE DEF S, G, e
  <2>1. QED
    BY <1>1, <1>2, AlongSequence
<1>4. f = [s \in Seq(Token) |-> IF s = <<>> THEN 0 ELSE e(f[Front(s)], Last(s))]
  <2> HIDE DEF S, G, e
  <2>1. \A s \in Seq(Token) : s # <<>> => f[s] = e(f[Front(s)], Last(s))
    BY <1>2, <1>3, FrontLast DEF IsFold
  <2>2. QED
    BY <1>3, <2>1 DEF IsFold
<1>5. SegSize = [s \in Seq(Token) |-> IF s = <<>> THEN 0 ELSE e(SegSize[Front(s)], Last(s))]
  BY <1>4 DEF SegSize, Segment
<1>6. SegSize[<<>>] = 0
  BY <1>5, EmptySeq
<1>7. ASSUME NEW s \in Seq(Token), NEW x \in Token
      PROVE  SegSize[Append(s, x)] = e(SegSize[s], x)
  <2> HIDE DEF e
  <2>1. /\ Append(s, x) \in Seq(Token) /\ Append(s, x) # <<>>
        /\ Front(Append(s, x)) = s /\ Last(Append(s, x)) = x
    BY Appended
  <2>2. \A t \in Seq(Token) : t # <<>> => SegSize[t] = e(SegSize[Front(t)], Last(t))
    BY <1>5
  <2>3. QED
    BY <2>1, <2>2
<1>8. \A s \in Seq(Token) : SegSize[s] \in S
  <2> HIDE DEF e, S
  <2>1. QED
    BY <1>1, <1>6, <1>7, AlongType
<1>10. QED
  BY <1>6, <1>7, <1>8

LEMMA SegsSizeIs ==
  /\ SegsSize[<<>>] = 0
  /\ \A s \in Seq(Segment), x \in Segment :
       SegsSize[Append(s, x)] = SegsSize[s] + SegSize[x]
  /\ \A s \in Seq(Segment) : SegsSize[s] \in Nat
<1> DEFINE S == Nat
           e(u, x) == u + SegSize[x]
           G == [p \in S \X Segment |-> e(p[1], p[2])]
<1>1. 0 \in S /\ \A u \in S, x \in Segment : e(u, x) \in S
  BY SegSizeIs DEF Segment
<1>2. IsStep(G, S, Segment) /\ \A u \in S, x \in Segment : G[<<u, x>>] = e(u, x)
  <2> HIDE DEF S, e
  <2>1. QED
    BY <1>1 DEF IsStep
<1>3. PICK f : IsFold(f, 0, G, S, Segment)
  <2> HIDE DEF S, G, e
  <2>1. QED
    BY <1>1, <1>2, AlongSequence
<1>4. f = [s \in Seq(Segment) |-> IF s = <<>> THEN 0 ELSE e(f[Front(s)], Last(s))]
  <2> HIDE DEF S, G, e
  <2>1. \A s \in Seq(Segment) : s # <<>> => f[s] = e(f[Front(s)], Last(s))
    BY <1>2, <1>3, FrontLast DEF IsFold
  <2>2. QED
    BY <1>3, <2>1 DEF IsFold
<1>5. SegsSize = [s \in Seq(Segment) |-> IF s = <<>> THEN 0 ELSE e(SegsSize[Front(s)], Last(s))]
  BY <1>4 DEF SegsSize
<1>6. SegsSize[<<>>] = 0
  BY <1>5, EmptySeq
<1>7. ASSUME NEW s \in Seq(Segment), NEW x \in Segment
      PROVE  SegsSize[Append(s, x)] = e(SegsSize[s], x)
  <2> HIDE DEF e
  <2>1. /\ Append(s, x) \in Seq(Segment) /\ Append(s, x) # <<>>
        /\ Front(Append(s, x)) = s /\ Last(Append(s, x)) = x
    BY Appended
  <2>2. \A t \in Seq(Segment) : t # <<>> => SegsSize[t] = e(SegsSize[Front(t)], Last(t))
    BY <1>5
  <2>3. QED
    BY <2>1, <2>2
<1>8. \A s \in Seq(Segment) : SegsSize[s] \in S
  <2> HIDE DEF e, S
  <2>1. QED
    BY <1>1, <1>6, <1>7, AlongType
<1>10. QED
  BY <1>6, <1>7, <1>8

LEMMA LineParts ==
  ASSUME NEW l \in Line
  PROVE  /\ l.indent \in Nat /\ l.tildes \in Nat
         /\ l.segs \in Seq(Segment) /\ l.segs # <<>>
BY DEF Line

LEMMA LineSizeIs ==
  ASSUME NEW l \in Line
  PROVE  LineSize(l) \in Nat
<1>1. /\ l.indent \in Nat /\ l.tildes \in Nat
      /\ Len(l.segs) \in Nat \ {0} /\ SegsSize[l.segs] \in Nat
  BY LineParts, SegsSizeIs, EmptySeq
<1>2. QED
  BY <1>1 DEF LineSize

LEMMA LinesSizeIs ==
  /\ LinesSize[<<>>] = 0
  /\ \A s \in Seq(Line), x \in Line :
       LinesSize[Append(s, x)] = LinesSize[s] + LineSize(x)
  /\ \A s \in Seq(Line) : LinesSize[s] \in Nat
<1> DEFINE S == Nat
           e(u, x) == u + LineSize(x)
           G == [p \in S \X Line |-> e(p[1], p[2])]
<1>1. 0 \in S /\ \A u \in S, x \in Line : e(u, x) \in S
  BY LineSizeIs
<1>2. IsStep(G, S, Line) /\ \A u \in S, x \in Line : G[<<u, x>>] = e(u, x)
  <2> HIDE DEF S, e
  <2>1. QED
    BY <1>1 DEF IsStep
<1>3. PICK f : IsFold(f, 0, G, S, Line)
  <2> HIDE DEF S, G, e
  <2>1. QED
    BY <1>1, <1>2, AlongSequence
<1>4. f = [s \in Seq(Line) |-> IF s = <<>> THEN 0 ELSE e(f[Front(s)], Last(s))]
  <2> HIDE DEF S, G, e
  <2>1. \A s \in Seq(Line) : s # <<>> => f[s] = e(f[Front(s)], Last(s))
    BY <1>2, <1>3, FrontLast DEF IsFold
  <2>2. QED
    BY <1>3, <2>1 DEF IsFold
<1>5. LinesSize = [s \in Seq(Line) |-> IF s = <<>> THEN 0 ELSE e(LinesSize[Front(s)], Last(s))]
  BY <1>4 DEF LinesSize
<1>6. LinesSize[<<>>] = 0
  BY <1>5, EmptySeq
<1>7. ASSUME NEW s \in Seq(Line), NEW x \in Line
      PROVE  LinesSize[Append(s, x)] = e(LinesSize[s], x)
  <2> HIDE DEF e
  <2>1. /\ Append(s, x) \in Seq(Line) /\ Append(s, x) # <<>>
        /\ Front(Append(s, x)) = s /\ Last(Append(s, x)) = x
    BY Appended
  <2>2. \A t \in Seq(Line) : t # <<>> => LinesSize[t] = e(LinesSize[Front(t)], Last(t))
    BY <1>5
  <2>3. QED
    BY <2>1, <2>2
<1>8. \A s \in Seq(Line) : LinesSize[s] \in S
  <2> HIDE DEF e, S
  <2>1. QED
    BY <1>1, <1>6, <1>7, AlongType
<1>10. QED
  BY <1>6, <1>7, <1>8

LEMMA KeptOfType ==
  ASSUME NEW l \in Line
  PROVE  KeptOf(l) \in Seq(Segment)
<1>1. Front(l.segs) \in Seq(Segment) /\ Last(l.segs) \in Segment
  BY LineParts, FrontLast
<1>2. KeptIn[Front(l.segs)] \in Seq(Segment) /\ Words[Last(l.segs)] \in Seq(Segment)
  BY <1>1, KeptInIs, WordsAre DEF Segment
<1>3. QED
  BY <1>2, ConcatProperties DEF KeptOf

LEMMA KeptIs ==
  /\ Kept[<<>>] = <<>>
  /\ \A s \in Seq(Line), x \in Line :
       Kept[Append(s, x)] = Kept[s] \o KeptOf(x)
  /\ \A s \in Seq(Line) : Kept[s] \in Seq(Segment)
<1> DEFINE S == Seq(Segment)
           e(u, x) == u \o KeptOf(x)
           G == [p \in S \X Line |-> e(p[1], p[2])]
<1>1. <<>> \in S /\ \A u \in S, x \in Line : e(u, x) \in S
  BY KeptOfType, EmptySeq, ConcatProperties
<1>2. IsStep(G, S, Line) /\ \A u \in S, x \in Line : G[<<u, x>>] = e(u, x)
  <2> HIDE DEF S, e
  <2>1. QED
    BY <1>1 DEF IsStep
<1>3. PICK f : IsFold(f, <<>>, G, S, Line)
  <2> HIDE DEF S, G, e
  <2>1. QED
    BY <1>1, <1>2, AlongSequence
<1>4. f = [s \in Seq(Line) |-> IF s = <<>> THEN <<>> ELSE e(f[Front(s)], Last(s))]
  <2> HIDE DEF S, G, e
  <2>1. \A s \in Seq(Line) : s # <<>> => f[s] = e(f[Front(s)], Last(s))
    BY <1>2, <1>3, FrontLast DEF IsFold
  <2>2. QED
    BY <1>3, <2>1 DEF IsFold
<1>5. Kept = [s \in Seq(Line) |-> IF s = <<>> THEN <<>> ELSE e(Kept[Front(s)], Last(s))]
  BY <1>4 DEF Kept
<1>6. Kept[<<>>] = <<>>
  BY <1>5, EmptySeq
<1>7. ASSUME NEW s \in Seq(Line), NEW x \in Line
      PROVE  Kept[Append(s, x)] = e(Kept[s], x)
  <2> HIDE DEF e
  <2>1. /\ Append(s, x) \in Seq(Line) /\ Append(s, x) # <<>>
        /\ Front(Append(s, x)) = s /\ Last(Append(s, x)) = x
    BY Appended
  <2>2. \A t \in Seq(Line) : t # <<>> => Kept[t] = e(Kept[Front(t)], Last(t))
    BY <1>5
  <2>3. QED
    BY <2>1, <2>2
<1>8. \A s \in Seq(Line) : Kept[s] \in S
  <2> HIDE DEF e, S
  <2>1. QED
    BY <1>1, <1>6, <1>7, AlongType
<1>10. QED
  BY <1>6, <1>7, <1>8

Fences == [mark : {"none", "tilde", "tick"}, length : Int]

LEMMA MarkOfType ==
  ASSUME NEW l \in Line
  PROVE  MarkOf(l) \in Fences /\ MarkOf(l) # NoFence
<1>1. Len(l.segs) \in Nat /\ l.tildes \in Nat
  BY LineParts
<1>2. PICK m \in {"tick", "tilde"}, n \in Int : MarkOf(l) = [mark |-> m, length |-> n]
  <2>1. CASE l.tildes > 0
    BY <1>1, <2>1 DEF MarkOf
  <2>2. CASE ~(l.tildes > 0)
    BY <1>1, <2>2 DEF MarkOf
  <2>3. QED
    BY <2>1, <2>2
<1>3. MarkOf(l).mark = m /\ NoFence.mark = "none"
  BY <1>2 DEF NoFence
<1>4. MarkOf(l) \in Fences
  BY <1>2 DEF Fences
<1>5. QED
  BY <1>3, <1>4

LEMMA OpenFenceIs ==
  /\ OpenFence[<<>>] = NoFence
  /\ \A s \in Seq(Line), x \in Line :
       OpenFence[Append(s, x)] =
         IF ~IsMark(x) THEN OpenFence[s]
         ELSE IF OpenFence[s] = NoFence THEN MarkOf(x)
         ELSE IF Ends(OpenFence[s], x) THEN NoFence ELSE OpenFence[s]
  /\ \A s \in Seq(Line) : OpenFence[s] \in Fences
<1> DEFINE S == Fences
           e(u, x) == IF ~IsMark(x) THEN u
                      ELSE IF u = NoFence THEN MarkOf(x)
                      ELSE IF Ends(u, x) THEN NoFence ELSE u
           G == [p \in S \X Line |-> e(p[1], p[2])]
<1>1. NoFence \in S /\ \A u \in S, x \in Line : e(u, x) \in S
  <2>1. NoFence \in Fences
    BY DEF NoFence, Fences
  <2>2. QED
    BY <2>1, MarkOfType
<1>2. IsStep(G, S, Line) /\ \A u \in S, x \in Line : G[<<u, x>>] = e(u, x)
  <2> HIDE DEF S, e
  <2>1. QED
    BY <1>1 DEF IsStep
<1>3. PICK f : IsFold(f, NoFence, G, S, Line)
  <2> HIDE DEF S, G, e
  <2>1. QED
    BY <1>1, <1>2, AlongSequence
<1>4. f = [s \in Seq(Line) |-> IF s = <<>> THEN NoFence ELSE e(f[Front(s)], Last(s))]
  <2> HIDE DEF S, G, e
  <2>1. \A s \in Seq(Line) : s # <<>> => f[s] = e(f[Front(s)], Last(s))
    BY <1>2, <1>3, FrontLast DEF IsFold
  <2>2. QED
    BY <1>3, <2>1 DEF IsFold
<1>5. OpenFence = [s \in Seq(Line) |-> IF s = <<>> THEN NoFence ELSE e(OpenFence[Front(s)], Last(s))]
  BY <1>4 DEF OpenFence
<1>6. OpenFence[<<>>] = NoFence
  BY <1>5, EmptySeq
<1>7. ASSUME NEW s \in Seq(Line), NEW x \in Line
      PROVE  OpenFence[Append(s, x)] = e(OpenFence[s], x)
  <2> HIDE DEF e
  <2>1. /\ Append(s, x) \in Seq(Line) /\ Append(s, x) # <<>>
        /\ Front(Append(s, x)) = s /\ Last(Append(s, x)) = x
    BY Appended
  <2>2. \A t \in Seq(Line) : t # <<>> => OpenFence[t] = e(OpenFence[Front(t)], Last(t))
    BY <1>5
  <2>3. QED
    BY <2>1, <2>2
<1>8. \A s \in Seq(Line) : OpenFence[s] \in S
  <2> HIDE DEF e, S
  <2>1. QED
    BY <1>1, <1>6, <1>7, AlongType
<1>10. QED
  BY <1>6, <1>7, <1>8

LEMMA MisledIs ==
  /\ Misled[<<>>] = FALSE
  /\ \A s \in Seq(Line), x \in Line :
       Misled[Append(s, x)] =
         (Misled[s] \/ (IsFence(x) /\ OpenFence[Append(s, x)] = OpenFence[s]))
  /\ \A s \in Seq(Line) : Misled[s] \in BOOLEAN
<1> DEFINE S == BOOLEAN
           e(u, s) == u \/ (IsFence(Last(s)) /\ OpenFence[s] = OpenFence[Front(s)])
           G == [p \in S \X Seq(Line) |-> IF p[2] = <<>> THEN FALSE ELSE e(p[1], p[2])]
<1>1. FALSE \in S /\ \A u \in S, s \in Seq(Line) : s # <<>> => e(u, s) \in S
  OBVIOUS
<1>2. IsStepOf(G, S, Line) /\ \A u \in S, s \in Seq(Line) : s # <<>> => G[<<u, s>>] = e(u, s)
  <2> HIDE DEF S, e
  <2>1. QED
    BY <1>1 DEF IsStepOf
<1>3. PICK f : IsFoldOf(f, FALSE, G, S, Line)
  <2> HIDE DEF S, G, e
  <2>1. QED
    BY <1>1, <1>2, AlongPrefixes
<1>4. f = [s \in Seq(Line) |-> IF s = <<>> THEN FALSE ELSE e(f[Front(s)], s)]
  <2> HIDE DEF S, G, e
  <2>1. \A s \in Seq(Line) : s # <<>> => f[s] = e(f[Front(s)], s)
    BY <1>2, <1>3, FrontLast DEF IsFoldOf
  <2>2. QED
    BY <1>3, <2>1 DEF IsFoldOf
<1>5. Misled = [s \in Seq(Line) |-> IF s = <<>> THEN FALSE ELSE e(Misled[Front(s)], s)]
  BY <1>4 DEF Misled
<1>6. Misled[<<>>] = FALSE
  BY <1>5, EmptySeq
<1>7. ASSUME NEW s \in Seq(Line), NEW x \in Line
      PROVE  Misled[Append(s, x)] = e(Misled[s], Append(s, x))
  <2> HIDE DEF e
  <2>1. /\ Append(s, x) \in Seq(Line) /\ Append(s, x) # <<>>
        /\ Front(Append(s, x)) = s /\ Last(Append(s, x)) = x
    BY Appended
  <2>2. \A t \in Seq(Line) : t # <<>> => Misled[t] = e(Misled[Front(t)], t)
    BY <1>5
  <2>3. QED
    BY <2>1, <2>2
<1>8. \A s \in Seq(Line) : Misled[s] \in S
  <2> HIDE DEF e, S
  <2>1. \A s \in Seq(Line), x \in Line :
          Append(s, x) \in Seq(Line) /\ Append(s, x) # <<>>
    BY Appended
  <2>2. \A s \in Seq(Line), x \in Line : Misled[s] \in S => Misled[Append(s, x)] \in S
    BY <1>1, <1>7, <2>1
  <2>3. QED
    BY <1>1, <1>6, <2>2, AlongType
<1>9. \A s \in Seq(Line), x \in Line :
        Last(Append(s, x)) = x /\ Front(Append(s, x)) = s
  BY Appended
<1>10. QED
  BY <1>6, <1>7, <1>8, <1>9

LEMMA ShrunkIs ==
  /\ Shrunk[<<>>] = <<>>
  /\ \A s \in Seq(Line), x \in Line :
       Shrunk[Append(s, x)] = IF Droppable(Append(s, x)) THEN Shrunk[s] ELSE Append(Shrunk[s], x)
  /\ \A s \in Seq(Line) : Shrunk[s] \in Seq(Line)
<1> DEFINE S == Seq(Line)
           e(u, s) == IF Droppable(s) THEN u ELSE Append(u, Last(s))
           G == [p \in S \X Seq(Line) |-> IF p[2] = <<>> THEN <<>> ELSE e(p[1], p[2])]
<1>1. <<>> \in S /\ \A u \in S, s \in Seq(Line) : s # <<>> => e(u, s) \in S
  BY FrontLast, EmptySeq, AppendProperties
<1>2. IsStepOf(G, S, Line) /\ \A u \in S, s \in Seq(Line) : s # <<>> => G[<<u, s>>] = e(u, s)
  <2> HIDE DEF S, e
  <2>1. QED
    BY <1>1 DEF IsStepOf
<1>3. PICK f : IsFoldOf(f, <<>>, G, S, Line)
  <2> HIDE DEF S, G, e
  <2>1. QED
    BY <1>1, <1>2, AlongPrefixes
<1>4. f = [s \in Seq(Line) |-> IF s = <<>> THEN <<>> ELSE e(f[Front(s)], s)]
  <2> HIDE DEF S, G, e
  <2>1. \A s \in Seq(Line) : s # <<>> => f[s] = e(f[Front(s)], s)
    BY <1>2, <1>3, FrontLast DEF IsFoldOf
  <2>2. QED
    BY <1>3, <2>1 DEF IsFoldOf
<1>5. Shrunk = [s \in Seq(Line) |-> IF s = <<>> THEN <<>> ELSE e(Shrunk[Front(s)], s)]
  BY <1>4 DEF Shrunk
<1>6. Shrunk[<<>>] = <<>>
  BY <1>5, EmptySeq
<1>7. ASSUME NEW s \in Seq(Line), NEW x \in Line
      PROVE  Shrunk[Append(s, x)] = e(Shrunk[s], Append(s, x))
  <2> HIDE DEF e
  <2>1. /\ Append(s, x) \in Seq(Line) /\ Append(s, x) # <<>>
        /\ Front(Append(s, x)) = s /\ Last(Append(s, x)) = x
    BY Appended
  <2>2. \A t \in Seq(Line) : t # <<>> => Shrunk[t] = e(Shrunk[Front(t)], t)
    BY <1>5
  <2>3. QED
    BY <2>1, <2>2
<1>8. \A s \in Seq(Line) : Shrunk[s] \in S
  <2> HIDE DEF e, S
  <2>1. \A s \in Seq(Line), x \in Line :
          Append(s, x) \in Seq(Line) /\ Append(s, x) # <<>>
    BY Appended
  <2>2. \A s \in Seq(Line), x \in Line : Shrunk[s] \in S => Shrunk[Append(s, x)] \in S
    BY <1>1, <1>7, <2>1
  <2>3. QED
    BY <1>1, <1>6, <2>2, AlongType
<1>9. \A s \in Seq(Line), x \in Line : Last(Append(s, x)) = x
  BY Appended
<1>10. QED
  BY <1>6, <1>7, <1>8, <1>9

LEMMA CodeOfIs ==
  /\ CodeOf[<<>>] = <<>>
  /\ \A s \in Seq(Line), x \in Line :
       CodeOf[Append(s, x)] = IF EndsInCode(Append(s, x)) /\ ~Empty(x)
                           THEN Append(CodeOf[s], x) ELSE CodeOf[s]
  /\ \A s \in Seq(Line) : CodeOf[s] \in Seq(Line)
<1> DEFINE S == Seq(Line)
           e(u, s) == IF EndsInCode(s) /\ ~Empty(Last(s)) THEN Append(u, Last(s)) ELSE u
           G == [p \in S \X Seq(Line) |-> IF p[2] = <<>> THEN <<>> ELSE e(p[1], p[2])]
<1>1. <<>> \in S /\ \A u \in S, s \in Seq(Line) : s # <<>> => e(u, s) \in S
  BY FrontLast, EmptySeq, AppendProperties
<1>2. IsStepOf(G, S, Line) /\ \A u \in S, s \in Seq(Line) : s # <<>> => G[<<u, s>>] = e(u, s)
  <2> HIDE DEF S, e
  <2>1. QED
    BY <1>1 DEF IsStepOf
<1>3. PICK f : IsFoldOf(f, <<>>, G, S, Line)
  <2> HIDE DEF S, G, e
  <2>1. QED
    BY <1>1, <1>2, AlongPrefixes
<1>4. f = [s \in Seq(Line) |-> IF s = <<>> THEN <<>> ELSE e(f[Front(s)], s)]
  <2> HIDE DEF S, G, e
  <2>1. \A s \in Seq(Line) : s # <<>> => f[s] = e(f[Front(s)], s)
    BY <1>2, <1>3, FrontLast DEF IsFoldOf
  <2>2. QED
    BY <1>3, <2>1 DEF IsFoldOf
<1>5. CodeOf = [s \in Seq(Line) |-> IF s = <<>> THEN <<>> ELSE e(CodeOf[Front(s)], s)]
  BY <1>4 DEF CodeOf
<1>6. CodeOf[<<>>] = <<>>
  BY <1>5, EmptySeq
<1>7. ASSUME NEW s \in Seq(Line), NEW x \in Line
      PROVE  CodeOf[Append(s, x)] = e(CodeOf[s], Append(s, x))
  <2> HIDE DEF e
  <2>1. /\ Append(s, x) \in Seq(Line) /\ Append(s, x) # <<>>
        /\ Front(Append(s, x)) = s /\ Last(Append(s, x)) = x
    BY Appended
  <2>2. \A t \in Seq(Line) : t # <<>> => CodeOf[t] = e(CodeOf[Front(t)], t)
    BY <1>5
  <2>3. QED
    BY <2>1, <2>2
<1>8. \A s \in Seq(Line) : CodeOf[s] \in S
  <2> HIDE DEF e, S
  <2>1. \A s \in Seq(Line), x \in Line :
          Append(s, x) \in Seq(Line) /\ Append(s, x) # <<>>
    BY Appended
  <2>2. \A s \in Seq(Line), x \in Line : CodeOf[s] \in S => CodeOf[Append(s, x)] \in S
    BY <1>1, <1>7, <2>1
  <2>3. QED
    BY <1>1, <1>6, <2>2, AlongType
<1>9. \A s \in Seq(Line), x \in Line : Last(Append(s, x)) = x
  BY Appended
<1>10. QED
  BY <1>6, <1>7, <1>8, <1>9

LEMMA WithinIs ==
  /\ Within[<<>>] = {<<>>}
  /\ \A s \in Seq(Line), x \in Line :
       Within[Append(s, x)] = Within[s] \cup {Append(part, x) : part \in Within[s]}
  /\ \A s \in Seq(Line) : Within[s] \in SUBSET Seq(Line)
<1> DEFINE S == SUBSET Seq(Line)
           e(u, x) == u \cup {Append(part, x) : part \in u}
           G == [p \in S \X Line |-> e(p[1], p[2])]
<1>1. {<<>>} \in S /\ \A u \in S, x \in Line : e(u, x) \in S
  BY EmptySeq, AppendProperties
<1>2. IsStep(G, S, Line) /\ \A u \in S, x \in Line : G[<<u, x>>] = e(u, x)
  <2> HIDE DEF S, e
  <2>1. QED
    BY <1>1 DEF IsStep
<1>3. PICK f : IsFold(f, {<<>>}, G, S, Line)
  <2> HIDE DEF S, G, e
  <2>1. QED
    BY <1>1, <1>2, AlongSequence
<1>4. f = [s \in Seq(Line) |-> IF s = <<>> THEN {<<>>} ELSE e(f[Front(s)], Last(s))]
  <2> HIDE DEF S, G, e
  <2>1. \A s \in Seq(Line) : s # <<>> => f[s] = e(f[Front(s)], Last(s))
    BY <1>2, <1>3, FrontLast DEF IsFold
  <2>2. QED
    BY <1>3, <2>1 DEF IsFold
<1>5. Within = [s \in Seq(Line) |-> IF s = <<>> THEN {<<>>} ELSE e(Within[Front(s)], Last(s))]
  BY <1>4 DEF Within
<1>6. Within[<<>>] = {<<>>}
  BY <1>5, EmptySeq
<1>7. ASSUME NEW s \in Seq(Line), NEW x \in Line
      PROVE  Within[Append(s, x)] = e(Within[s], x)
  <2> HIDE DEF e
  <2>1. /\ Append(s, x) \in Seq(Line) /\ Append(s, x) # <<>>
        /\ Front(Append(s, x)) = s /\ Last(Append(s, x)) = x
    BY Appended
  <2>2. \A t \in Seq(Line) : t # <<>> => Within[t] = e(Within[Front(t)], Last(t))
    BY <1>5
  <2>3. QED
    BY <2>1, <2>2
<1>8. \A s \in Seq(Line) : Within[s] \in S
  <2> HIDE DEF e, S
  <2>1. Within[<<>>] \in S
    BY <1>1, <1>6
  <2>2. \A s \in Seq(Line), x \in Line : Within[s] \in S => Within[Append(s, x)] \in S
    BY <1>1, <1>7
  <2>3. QED
    BY <2>1, <2>2, AlongType
<1>10. QED
  BY <1>6, <1>7, <1>8

-----------------------------------------------------------------------------
(* The rules and the trimming touch no word. *)
LEMMA RewrittenKeeps == \A s \in Seq(Token) : Words[Rewritten[s]] = Words[s]
<1> DEFINE T == {s \in Seq(Token) : Words[Rewritten[s]] = Words[s]}
<1>1. <<>> \in T
  BY RewrittenIs, EmptySeq
<1>2. ASSUME NEW s \in Seq(Token), NEW x \in Token, s \in T PROVE Append(s, x) \in T
  <2>1. Append(s, x) \in Seq(Token) /\ Rewritten[s] \in Seq(Token)
    BY Appended, RewrittenIs
  <2>2. Words[Append(s, x)] = IF x = "word" THEN Append(Words[s], <<"word">>) ELSE Words[s]
    BY WordsAre
  <2>3. CASE Rewritten[Append(s, x)] = Rewritten[s] /\ x # "word"
    BY <1>2, <2>1, <2>2, <2>3
  <2>4. ASSUME NEW y \in Token, Rewritten[Append(s, x)] = Append(Rewritten[s], y),
               y = "word" <=> x = "word"
        PROVE  Append(s, x) \in T
    <3>1. Words[Append(Rewritten[s], y)] =
            IF y = "word" THEN Append(Words[Rewritten[s]], <<"word">>)
            ELSE Words[Rewritten[s]]
      BY <2>1, WordsAre
    <3>2. QED
      BY <1>2, <2>1, <2>2, <2>4, <3>1
  <2>5. \/ Rewritten[Append(s, x)] = Rewritten[s] /\ x # "word"
        \/ \E y \in Token : /\ Rewritten[Append(s, x)] = Append(Rewritten[s], y)
                            /\ y = "word" <=> x = "word"
    <3> DEFINE u == Rewritten[s]
               y == IF x = "verbose" THEN "brief" ELSE x
    <3>1. Rewritten[Append(s, x)] =
            IF x = "filler" \/ (x = "sp" /\ u # <<>> /\ Last(u) = "sp")
            THEN u ELSE Append(u, y)
      BY RewrittenIs
    <3>2. y \in Token /\ (y = "word" <=> x = "word")
      BY DEF Token
    <3> HIDE DEF u, y
    <3>3. QED
      BY <3>1, <3>2 DEF u
  <2>6. QED
    BY <2>3, <2>4, <2>5
<1>3. Seq(Token) \subseteq T
  <2> HIDE DEF T
  <2>1. QED
    BY <1>1, <1>2, SeqInduction
<1>4. QED
  BY <1>3

LEMMA TrimEndKeeps == \A s \in Seq(Token) : Words[TrimEnd[s]] = Words[s]
<1> DEFINE T == {s \in Seq(Token) : Words[TrimEnd[s]] = Words[s]}
<1>1. <<>> \in T
  BY TrimEndIs, EmptySeq
<1>2. ASSUME NEW s \in Seq(Token), NEW x \in Token, s \in T PROVE Append(s, x) \in T
  <2>1. Append(s, x) \in Seq(Token)
    BY Appended
  <2>2. x = "sp" => Words[Append(s, x)] = Words[s]
    BY WordsAre
  <2>3. QED
    BY <1>2, <2>1, <2>2, TrimEndIs
<1>3. Seq(Token) \subseteq T
  <2> HIDE DEF T
  <2>1. QED
    BY <1>1, <1>2, SeqInduction
<1>4. QED
  BY <1>3

(* Two lines of which the spans in backticks are the same, and the words    *)
(* elsewhere, are kept alike.                                               *)
Alike(s, t) ==
  /\ Len(s) = Len(t)
  /\ \A k \in 1..Len(s) : IF k % 2 = 0 THEN s[k] = t[k] ELSE Words[s[k]] = Words[t[k]]

LEMMA AlikeKept ==
  \A s \in Seq(Segment) : \A t \in Seq(Segment) : Alike(s, t) => KeptIn[s] = KeptIn[t]
<1> DEFINE Good(s) == \A t \in Seq(Segment) : Alike(s, t) => KeptIn[s] = KeptIn[t]
           T == {s \in Seq(Segment) : Good(s)}
<1>1. <<>> \in T
  <2>1. \A t \in Seq(Segment) : Alike(<<>>, t) => t = <<>>
    BY EmptySeq DEF Alike
  <2>2. QED
    BY <2>1, EmptySeq
<1>2. ASSUME NEW s \in Seq(Segment), NEW x \in Segment, s \in T PROVE Append(s, x) \in T
  <2> DEFINE u == Append(s, x)
  <2>1. u \in Seq(Segment)
    BY Appended
  <2>2. SUFFICES ASSUME NEW t \in Seq(Segment), Alike(u, t) PROVE KeptIn[u] = KeptIn[t]
    BY <2>1
  <2>3. PICK n \in Nat : n = Len(s)
    OBVIOUS
  <2>4. /\ Len(u) = n + 1 /\ u[n + 1] = x /\ \A k \in 1..n : u[k] = s[k]
    BY <2>3, Appended
  <2> HIDE DEF u
  <2>5. Len(t) = n + 1 /\ t # <<>>
    <3>1. Len(t) = n + 1
      BY <2>2, <2>4 DEF Alike
    <3>2. QED
      BY <3>1, <2>3, EmptySeq
  <2> DEFINE f == Front(t)
             y == Last(t)
  <2>6. f \in Seq(Segment) /\ y \in Segment /\ Len(f) = n /\ t = Append(f, y)
    <3>1. /\ f \in Seq(Segment) /\ y \in Segment /\ Len(f) = Len(t) - 1 /\ t = Append(f, y)
      BY <2>5, FrontLast
    <3> HIDE DEF f, y
    <3>2. QED
      BY <2>3, <2>5, <3>1
  <2> HIDE DEF f, y
  <2>7. t[n + 1] = y /\ \A k \in 1..n : t[k] = f[k]
    BY <2>6, Appended
  <2>8. Alike(s, f)
    <3>1. ASSUME NEW k \in 1..n
          PROVE  IF k % 2 = 0 THEN s[k] = f[k] ELSE Words[s[k]] = Words[f[k]]
      <4>1. k \in 1..n + 1
        BY <2>3
      <4>2. IF k % 2 = 0 THEN u[k] = t[k] ELSE Words[u[k]] = Words[t[k]]
        BY <2>2, <2>4, <4>1 DEF Alike
      <4>3. QED
        BY <2>4, <2>7, <4>2
    <3>2. QED
      BY <2>3, <2>6, <3>1 DEF Alike
  <2>9. IF (n + 1) % 2 = 0 THEN x = y ELSE Words[x] = Words[y]
    <3>1. n + 1 \in 1..n + 1
      BY <2>3
    <3>2. QED
      BY <2>2, <2>4, <2>7, <3>1 DEF Alike
  <2>10. KeptIn[s] = KeptIn[f]
    BY <1>2, <2>6, <2>8
  <2> DEFINE last(z) == IF (n + 1) % 2 = 0 THEN <<z>> ELSE Words[z]
  <2>11. KeptIn[u] = KeptIn[s] \o last(x)
    BY <2>3, KeptInIs DEF u
  <2>12. KeptIn[t] = KeptIn[f] \o last(y)
    BY <2>6, KeptInIs
  <2>13. last(x) = last(y)
    BY <2>9
  <2>14. QED
    BY <2>10, <2>11, <2>12, <2>13
<1>3. Seq(Segment) \subseteq T
  <2> HIDE DEF T
  <2>1. QED
    BY <1>1, <1>2, SeqInduction
<1>4. QED
  BY <1>3

LEMMA ProseKeeps ==
  ASSUME NEW l \in Line
  PROVE  Prose(l) \in Line /\ KeptOf(Prose(l)) = KeptOf(l)
<1> DEFINE a == l.segs
           b == [k \in DOMAIN a |-> IF k % 2 = 1 THEN Rewritten[a[k]] ELSE a[k]]
           c == [b EXCEPT ![Len(b)] = TrimEnd[@]]
<1>1. a \in Seq(Segment) /\ a # <<>>
  BY LineParts
<1>2. PICK n \in Nat : n = Len(a) /\ n >= 1 /\ DOMAIN a = 1..n
  BY <1>1, EmptySeq
<1> HIDE DEF a
<1>3. \A k \in 1..n : a[k] \in Seq(Token)
  BY <1>1, <1>2 DEF Segment
<1>4. /\ b \in Seq(Segment) /\ Len(b) = n /\ DOMAIN b = 1..n
      /\ \A k \in 1..n : b[k] \in Seq(Token) /\ Words[b[k]] = Words[a[k]]
                         /\ (k % 2 = 0 => b[k] = a[k])
  <2>1. \A k \in 1..n : b[k] = IF k % 2 = 1 THEN Rewritten[a[k]] ELSE a[k]
    BY <1>2
  <2>2. \A k \in 1..n : b[k] \in Seq(Token) /\ Words[b[k]] = Words[a[k]]
                        /\ (k % 2 = 0 => b[k] = a[k])
    BY <1>3, <2>1, RewrittenIs, RewrittenKeeps
  <2>3. b \in [1..n -> Segment]
    BY <1>2, <2>2 DEF Segment
  <2> HIDE DEF b
  <2>4. b \in Seq(Segment) /\ Len(b) = n /\ DOMAIN b = 1..n
    BY <2>3
  <2>5. QED
    BY <2>2, <2>4
<1> HIDE DEF b
<1>5. /\ c \in Seq(Segment) /\ Len(c) = n /\ c # <<>>
      /\ c[n] = TrimEnd[b[n]] /\ \A k \in 1..n - 1 : c[k] = b[k]
  <2>1. n \in 1..n /\ TrimEnd[b[n]] \in Segment
    BY <1>2, <1>4, TrimEndIs DEF Segment
  <2>2. c[n] = TrimEnd[b[n]] /\ \A k \in 1..n - 1 : c[k] = b[k]
    BY <1>2, <1>4, <2>1
  <2>3. c \in [1..n -> Segment]
    <3>1. \A k \in 1..n : b[k] \in Segment
      BY <1>4 DEF Segment
    <3>2. QED
      BY <1>4, <2>1, <3>1
  <2> HIDE DEF c
  <2>4. c \in Seq(Segment) /\ Len(c) = n
    BY <2>3
  <2>5. QED
    BY <1>2, <2>2, <2>4, EmptySeq
<1>6. Prose(l) = [l EXCEPT !.segs = c]
  BY DEF Prose, a, b, c
<1> HIDE DEF c
<1>7. Prose(l) \in Line /\ Prose(l).segs = c
  BY <1>5, <1>6 DEF Line
<1>8. /\ Front(a) \in Seq(Segment) /\ Len(Front(a)) = n - 1 /\ Last(a) = a[n]
      /\ \A k \in 1..n - 1 : Front(a)[k] = a[k]
  BY <1>1, <1>2, FrontParts
<1>9. /\ Front(c) \in Seq(Segment) /\ Len(Front(c)) = n - 1 /\ Last(c) = c[n]
      /\ \A k \in 1..n - 1 : Front(c)[k] = c[k]
  BY <1>2, <1>5, FrontParts
<1>10. Alike(Front(c), Front(a))
  <2>1. ASSUME NEW k \in 1..n - 1
        PROVE  IF k % 2 = 0 THEN Front(c)[k] = Front(a)[k]
               ELSE Words[Front(c)[k]] = Words[Front(a)[k]]
    <3>1. k \in 1..n
      BY <1>2
    <3>2. Front(c)[k] = b[k] /\ Front(a)[k] = a[k]
      BY <1>5, <1>8, <1>9
    <3>3. Words[b[k]] = Words[a[k]] /\ (k % 2 = 0 => b[k] = a[k])
      BY <1>4, <3>1
    <3>4. QED
      BY <3>2, <3>3
  <2>2. QED
    BY <1>8, <1>9, <2>1 DEF Alike
<1>11. Words[Last(c)] = Words[Last(a)]
  <2>1. n \in 1..n
    BY <1>2
  <2>2. Words[TrimEnd[b[n]]] = Words[b[n]] /\ Words[b[n]] = Words[a[n]]
    BY <1>4, <2>1, TrimEndKeeps
  <2>3. QED
    BY <1>5, <1>8, <1>9, <2>2
<1>12. KeptIn[Front(c)] = KeptIn[Front(a)]
  BY <1>8, <1>9, <1>10, AlikeKept
<1>13. KeptOf(l) = KeptIn[Front(a)] \o Words[Last(a)]
  BY DEF KeptOf, a
<1>14. QED
  BY <1>7, <1>11, <1>12, <1>13 DEF KeptOf

-----------------------------------------------------------------------------
(* Blank lines hold nothing that is kept, and the collapse drops no other.  *)
LEMMA EmptyKeepsNothing ==
  ASSUME NEW l \in Line, Empty(l)
  PROVE  KeptOf(l) = <<>>
<1>1. <<>> \in Seq(Segment) /\ <<>> \in Segment
  BY EmptySeq DEF Segment
<1>2. l.segs = Append(<<>>, <<>>)
  BY DEF Empty
<1>3. Front(l.segs) = <<>> /\ Last(l.segs) = <<>>
  <2>1. \A s \in Seq(Segment), x \in Segment :
          Front(Append(s, x)) = s /\ Last(Append(s, x)) = x
    BY Appended
  <2>2. QED
    BY <1>1, <1>2, <2>1
<1>4. KeptOf(l) = <<>> \o <<>>
  BY <1>3, KeptInIs, WordsAre DEF KeptOf
<1>5. QED
  BY <1>1, <1>4, ConcatEmptySeq

LEMMA DroppableIsEmpty ==
  ASSUME NEW s \in Seq(Line), NEW x \in Line, Droppable(Append(s, x))
  PROVE  Empty(x)
BY Appended DEF Droppable

LEMMA ShrunkKeeps == \A s \in Seq(Line) : Kept[Shrunk[s]] = Kept[s]
<1> DEFINE T == {s \in Seq(Line) : Kept[Shrunk[s]] = Kept[s]}
<1>1. <<>> \in T
  BY ShrunkIs, EmptySeq
<1>2. ASSUME NEW s \in Seq(Line), NEW x \in Line, s \in T PROVE Append(s, x) \in T
  <2>1. Append(s, x) \in Seq(Line) /\ Shrunk[s] \in Seq(Line)
    BY Appended, ShrunkIs
  <2>2. Kept[Append(s, x)] = Kept[s] \o KeptOf(x)
    BY KeptIs
  <2>3. CASE Droppable(Append(s, x))
    <3>1. KeptOf(x) = <<>>
      BY <2>3, DroppableIsEmpty, EmptyKeepsNothing
    <3>2. Kept[Append(s, x)] = Kept[s]
      BY <2>2, <3>1, KeptIs, ConcatEmptySeq
    <3>3. Shrunk[Append(s, x)] = Shrunk[s]
      BY <2>3, ShrunkIs
    <3>4. QED
      BY <1>2, <2>1, <3>2, <3>3
  <2>4. CASE ~Droppable(Append(s, x))
    <3>1. Shrunk[Append(s, x)] = Append(Shrunk[s], x)
      BY <2>4, ShrunkIs
    <3>2. Kept[Append(Shrunk[s], x)] = Kept[Shrunk[s]] \o KeptOf(x)
      BY <2>1, KeptIs
    <3>3. QED
      BY <1>2, <2>1, <2>2, <3>1, <3>2
  <2>5. QED
    BY <2>3, <2>4
<1>3. Seq(Line) \subseteq T
  <2> HIDE DEF T
  <2>1. QED
    BY <1>1, <1>2, SeqInduction
<1>4. QED
  BY <1>3

LEMMA CollapsedKeeps ==
  ASSUME NEW s \in Seq(Line)
  PROVE  Collapsed(s) \in Seq(Line) /\ Kept[Collapsed(s)] = Kept[s]
<1>1. CASE s = <<>>
  BY <1>1 DEF Collapsed
<1>2. CASE s # <<>>
  <2>1. /\ Front(s) \in Seq(Line) /\ Last(s) \in Line /\ s = Append(Front(s), Last(s))
    BY <1>2, FrontLast
  <2> DEFINE f == Front(s)
             x == Last(s)
  <2>2. Collapsed(s) = Append(Shrunk[f], x)
    BY <1>2 DEF Collapsed
  <2> HIDE DEF f, x
  <2>3. f \in Seq(Line) /\ x \in Line /\ s = Append(f, x)
    BY <2>1 DEF f, x
  <2>4. Shrunk[f] \in Seq(Line) /\ Kept[Shrunk[f]] = Kept[f]
    BY <2>3, ShrunkIs, ShrunkKeeps
  <2>5. Kept[Append(Shrunk[f], x)] = Kept[Shrunk[f]] \o KeptOf(x)
    BY <2>3, <2>4, KeptIs
  <2>6. Kept[s] = Kept[f] \o KeptOf(x)
    BY <2>3, KeptIs
  <2>7. Append(Shrunk[f], x) \in Seq(Line)
    BY <2>3, <2>4, Appended
  <2>8. QED
    BY <2>2, <2>4, <2>5, <2>6, <2>7
<1>3. QED
  BY <1>1, <1>2

(* What is a mark for the reader is a fence for the scanner, and a fence    *)
(* that is one opens what was closed or closes what was open.               *)
LEMMA MarksAreFences ==
  ASSUME NEW l \in Line, IsMark(l)
  PROVE  IsFence(l)
<1>1. Len(l.segs) \in Nat /\ l.tildes \in Nat
  BY LineParts
<1>2. QED
  BY <1>1 DEF IsMark, MarkOf, IsFence

LEMMA FenceToggles ==
  ASSUME NEW r \in Seq(Line), NEW x \in Line, OpenFence[Append(r, x)] # OpenFence[r]
  PROVE  (OpenFence[Append(r, x)] # NoFence) <=> (OpenFence[r] = NoFence)
BY OpenFenceIs, MarkOfType

(* The code of a text is found in it in order. *)
LEMMA CodeOfWithin == \A s \in Seq(Line) : CodeOf[s] \in Within[s]
<1> DEFINE T == {s \in Seq(Line) : CodeOf[s] \in Within[s]}
<1>1. <<>> \in T
  BY CodeOfIs, WithinIs, EmptySeq
<1>2. ASSUME NEW s \in Seq(Line), NEW x \in Line, s \in T PROVE Append(s, x) \in T
  <2>1. Append(s, x) \in Seq(Line)
    BY Appended
  <2>2. CodeOf[Append(s, x)] \in {CodeOf[s], Append(CodeOf[s], x)}
    BY CodeOfIs
  <2>3. Within[Append(s, x)] = Within[s] \cup {Append(part, x) : part \in Within[s]}
    BY WithinIs
  <2>4. QED
    BY <1>2, <2>1, <2>2, <2>3
<1>3. Seq(Line) \subseteq T
  <2> HIDE DEF T
  <2>1. QED
    BY <1>1, <1>2, SeqInduction
<1>4. QED
  BY <1>3

NoneEmpty(s) == \A k \in 1..Len(s) : ~Empty(s[k])

LEMMA NoneEmptyParts ==
  ASSUME NEW s \in Seq(Line), NEW x \in Line
  PROVE  NoneEmpty(Append(s, x)) <=> NoneEmpty(s) /\ ~Empty(x)
<1> DEFINE u == Append(s, x)
<1>1. PICK n \in Nat : n = Len(s)
  OBVIOUS
<1>2. Len(u) = n + 1 /\ u[n + 1] = x /\ \A k \in 1..n : u[k] = s[k]
  BY <1>1, Appended
<1> HIDE DEF u
<1>3. NoneEmpty(u) <=> NoneEmpty(s) /\ ~Empty(x)
  BY <1>1, <1>2 DEF NoneEmpty
<1>4. QED
  BY <1>3 DEF u

LEMMA CodeOfNoneEmpty == \A s \in Seq(Line) : NoneEmpty(CodeOf[s])
<1> DEFINE T == {s \in Seq(Line) : NoneEmpty(CodeOf[s])}
<1>1. <<>> \in T
  BY CodeOfIs, EmptySeq DEF NoneEmpty
<1>2. ASSUME NEW s \in Seq(Line), NEW x \in Line, s \in T PROVE Append(s, x) \in T
  <2>1. Append(s, x) \in Seq(Line) /\ CodeOf[s] \in Seq(Line)
    BY Appended, CodeOfIs
  <2>2. ~Empty(x) => NoneEmpty(Append(CodeOf[s], x))
    BY <1>2, <2>1, NoneEmptyParts
  <2>3. QED
    BY <1>2, <2>1, <2>2, CodeOfIs
<1>3. Seq(Line) \subseteq T
  <2> HIDE DEF T
  <2>1. QED
    BY <1>1, <1>2, SeqInduction
<1>4. QED
  BY <1>3

LEMMA WithinShrunk ==
  \A s \in Seq(Line) : \A p \in Within[s] : NoneEmpty(p) => p \in Within[Shrunk[s]]
<1> DEFINE Good(s) == \A p \in Within[s] : NoneEmpty(p) => p \in Within[Shrunk[s]]
           T == {s \in Seq(Line) : Good(s)}
<1>1. <<>> \in T
  BY ShrunkIs, EmptySeq
<1>2. ASSUME NEW s \in Seq(Line), NEW x \in Line, s \in T PROVE Append(s, x) \in T
  <2>1. Append(s, x) \in Seq(Line) /\ Shrunk[s] \in Seq(Line) /\ Within[s] \subseteq Seq(Line)
    BY Appended, ShrunkIs, WithinIs
  <2>2. SUFFICES ASSUME NEW p \in Within[Append(s, x)], NoneEmpty(p)
                 PROVE  p \in Within[Shrunk[Append(s, x)]]
    BY <2>1
  <2>3. Within[Append(Shrunk[s], x)] =
          Within[Shrunk[s]] \cup {Append(part, x) : part \in Within[Shrunk[s]]}
    BY <2>1, WithinIs
  <2>4. CASE p \in Within[s]
    <3>1. p \in Within[Shrunk[s]]
      BY <1>2, <2>2, <2>4
    <3>2. QED
      BY <2>3, <3>1, ShrunkIs
  <2>5. ASSUME NEW q \in Within[s], p = Append(q, x)
        PROVE  p \in Within[Shrunk[Append(s, x)]]
    <3>1. NoneEmpty(q) /\ ~Empty(x)
      BY <2>1, <2>2, <2>5, NoneEmptyParts
    <3>2. Shrunk[Append(s, x)] = Append(Shrunk[s], x)
      BY <3>1, DroppableIsEmpty, ShrunkIs
    <3>3. q \in Within[Shrunk[s]]
      BY <1>2, <3>1
    <3>4. QED
      BY <2>3, <2>5, <3>2, <3>3
  <2>6. Within[Append(s, x)] = Within[s] \cup {Append(part, x) : part \in Within[s]}
    BY WithinIs
  <2>7. QED
    BY <2>2, <2>4, <2>5, <2>6
<1>3. Seq(Line) \subseteq T
  <2> HIDE DEF T
  <2>1. QED
    BY <1>1, <1>2, SeqInduction
<1>4. QED
  BY <1>3

LEMMA WithinCollapsed ==
  ASSUME NEW s \in Seq(Line), NEW p \in Within[s], NoneEmpty(p)
  PROVE  p \in Within[Collapsed(s)]
<1>1. CASE s = <<>>
  BY <1>1 DEF Collapsed
<1>2. CASE s # <<>>
  <2> DEFINE f == Front(s)
             x == Last(s)
  <2>1. f \in Seq(Line) /\ x \in Line /\ s = Append(f, x)
    BY <1>2, FrontLast
  <2>2. Collapsed(s) = Append(Shrunk[f], x)
    BY <1>2 DEF Collapsed
  <2> HIDE DEF f, x
  <2>3. Shrunk[f] \in Seq(Line) /\ Within[f] \subseteq Seq(Line)
    BY <2>1, ShrunkIs, WithinIs
  <2>4. Within[Append(Shrunk[f], x)] =
          Within[Shrunk[f]] \cup {Append(part, x) : part \in Within[Shrunk[f]]}
    BY <2>1, <2>3, WithinIs
  <2>5. CASE p \in Within[f]
    <3>1. p \in Within[Shrunk[f]]
      BY <2>1, <2>5, WithinShrunk
    <3>2. QED
      BY <2>2, <2>4, <3>1
  <2>6. ASSUME NEW q \in Within[f], p = Append(q, x)
        PROVE  p \in Within[Collapsed(s)]
    <3>1. NoneEmpty(q)
      BY <2>1, <2>3, <2>6, NoneEmptyParts
    <3>2. q \in Within[Shrunk[f]]
      BY <2>1, <3>1, WithinShrunk
    <3>3. QED
      BY <2>2, <2>4, <2>6, <3>2
  <2>7. Within[s] = Within[f] \cup {Append(part, x) : part \in Within[f]}
    BY <2>1, WithinIs
  <2>8. QED
    BY <2>5, <2>6, <2>7
<1>3. QED
  BY <1>1, <1>2

-----------------------------------------------------------------------------
(* Compress: the lines read so far, and what has become of them.            *)
LinesRead == SubSeq(text, 1, nextLine - 1)

Faithful(old, new) ==
  /\ Kept[new] = Kept[old]
  /\ CodeOf[old] \in Within[new]

CompressTypeOK ==
  /\ field \in Fields
  /\ scope \in [system : BOOLEAN, user : BOOLEAN, assistant : BOOLEAN]
  /\ nextLine \in 1..Len(text) + 1
  /\ inFence \in BOOLEAN
  /\ out \in Seq(Line) /\ result \in Seq(Line)

(* As long as it was not misled, the scanner's one bit is the fence that is *)
(* open; and what it has put out is true to what it has read.               *)
Scanned ==
  /\ Faithful(LinesRead, out)
  /\ ~Misled[LinesRead] => (inFence <=> OpenFence[LinesRead] # NoFence)

CompressInv ==
  /\ CompressTypeOK
  /\ phase \in {"walk", "scan"} => Scanned
  /\ phase = "guard" => Faithful(text, out)
  /\ phase \in {"scan", "guard"} => Targeted(field.leaf)
  /\ \/ result = text
     \/ /\ phase = "done"
        /\ Targeted(field.leaf) /\ WorthIt(text, result) /\ Faithful(text, result)

LEMMA TextIs ==
  ASSUME CompressTypeOK
  PROVE  text \in Seq(Line) /\ text # <<>> /\ field.leaf \in Leaf
BY CompressAssumption DEF CompressTypeOK, text

LEMMA LineRead ==
  ASSUME NEW s \in Seq(Line), NEW n \in 1..Len(s)
  PROVE  /\ s[n] \in Line /\ SubSeq(s, 1, n - 1) \in Seq(Line)
         /\ Len(SubSeq(s, 1, n - 1)) = n - 1
         /\ \A k \in 1..n - 1 : SubSeq(s, 1, n - 1)[k] = s[k]
         /\ SubSeq(s, 1, n) = Append(SubSeq(s, 1, n - 1), s[n])
<1>1. PICK l \in Nat : l = Len(s)
  OBVIOUS
<1> DEFINE a == SubSeq(s, 1, n - 1)
           b == SubSeq(s, 1, n)
           c == Append(a, s[n])
<1>2. n - 1 \in Nat /\ n \in Nat /\ 0 \in Nat /\ 0 <= n - 1 /\ n - 1 <= Len(s) /\ 0 <= n
      /\ n <= Len(s) /\ 0 + 1 = 1 /\ (n - 1) - 0 = n - 1 /\ n - 0 = n
      /\ \A k \in Nat : 0 + k = k
  BY <1>1
<1>3. a \in Seq(Line) /\ Len(a) = n - 1 /\ \A k \in 1..n - 1 : a[k] = s[k]
  <2>1. /\ SubSeq(s, 0 + 1, n - 1) \in Seq(Line)
        /\ Len(SubSeq(s, 0 + 1, n - 1)) = (n - 1) - 0
        /\ \A k \in 1..(n - 1) - 0 : SubSeq(s, 0 + 1, n - 1)[k] = s[0 + k]
    BY <1>2, Piece
  <2>2. QED
    BY <1>2, <2>1
<1>4. b \in Seq(Line) /\ Len(b) = n /\ \A k \in 1..n : b[k] = s[k]
  <2>1. /\ SubSeq(s, 0 + 1, n) \in Seq(Line)
        /\ Len(SubSeq(s, 0 + 1, n)) = n - 0
        /\ \A k \in 1..n - 0 : SubSeq(s, 0 + 1, n)[k] = s[0 + k]
    BY <1>2, Piece
  <2>2. QED
    BY <1>2, <2>1
<1>5. s[n] \in Line
  BY <1>1
<1> HIDE DEF a, b
<1>6. /\ c \in Seq(Line) /\ Len(c) = (n - 1) + 1 /\ c[(n - 1) + 1] = s[n]
      /\ \A k \in 1..n - 1 : c[k] = a[k]
  BY <1>3, <1>5, Appended
<1> HIDE DEF c
<1>7. b = c
  <2>1. \A k \in 1..n : b[k] = c[k]
    BY <1>2, <1>3, <1>4, <1>6
  <2>2. QED
    BY <1>2, <1>4, <1>6, <2>1, SeqEqual
<1>8. QED
  BY <1>3, <1>5, <1>7 DEF a, b, c

LEMMA NothingRead ==
  ASSUME NEW s \in Seq(Line)
  PROVE  SubSeq(s, 1, 0) = <<>> /\ SubSeq(s, 1, Len(s)) = s
<1>1. PICK l \in Nat : l = Len(s)
  OBVIOUS
<1>2. 0 \in Nat /\ 0 <= l /\ 0 <= 0 /\ l <= Len(s) /\ 0 <= Len(s) /\ 0 + 1 = 1 /\ l - 0 = l
  BY <1>1
<1>3. SubSeq(s, 1, 0) = <<>>
  <2>1. SubSeq(s, 0 + 1, 0) \in Seq(Line) /\ Len(SubSeq(s, 0 + 1, 0)) = 0 - 0
    BY <1>2, Piece
  <2>2. QED
    BY <1>2, <2>1, EmptySeq
<1>4. SubSeq(s, 1, l) = s
  <2> DEFINE b == SubSeq(s, 1, l)
  <2>1. /\ SubSeq(s, 0 + 1, l) \in Seq(Line) /\ Len(SubSeq(s, 0 + 1, l)) = l - 0
        /\ \A k \in 1..l - 0 : SubSeq(s, 0 + 1, l)[k] = s[0 + k]
    BY <1>2, Piece
  <2>2. b \in Seq(Line) /\ Len(b) = l /\ \A k \in 1..l : b[k] = s[k]
    BY <1>2, <2>1
  <2> HIDE DEF b
  <2>3. b = s
    BY <1>1, <2>2, SeqEqual
  <2>4. QED
    BY <2>3 DEF b
<1>5. QED
  BY <1>1, <1>3, <1>4

LEMMA CompressInitGood == CompressInit => CompressInv
<1> SUFFICES ASSUME CompressInit PROVE CompressInv
  OBVIOUS
<1>1. field \in Fields /\ nextLine = 1 /\ inFence = FALSE /\ out = <<>> /\ phase = "walk"
      /\ result = text
  BY DEF CompressInit, text
<1>2. text \in Seq(Line) /\ text # <<>>
  BY <1>1, CompressAssumption DEF text
<1>3. 1 \in 1..Len(text) + 1
  BY <1>2
<1>4. CompressTypeOK
  BY <1>1, <1>2, <1>3, EmptySeq DEF CompressInit, CompressTypeOK
<1>5. LinesRead = <<>>
  BY <1>1, <1>2, NothingRead DEF LinesRead
<1>6. Scanned
  <2>1. inFence = FALSE /\ OpenFence[LinesRead] = NoFence
    BY <1>1, <1>5, OpenFenceIs
  <2>2. Faithful(LinesRead, out)
    BY <1>1, <1>5, CodeOfIs, WithinIs DEF Faithful
  <2>3. QED
    BY <2>1, <2>2 DEF Scanned
<1>7. QED
  BY <1>1, <1>4, <1>6 DEF CompressInv

(* The text and the part of it that was read are the same after a step that *)
(* reads nothing.                                                           *)
LEMMA SameText ==
  ASSUME UNCHANGED <<field, nextLine>>
  PROVE  text' = text /\ LinesRead' = LinesRead
BY DEF text, LinesRead

LEMMA SkipGood ==
  ASSUME CompressInv, Skip
  PROVE  CompressInv'
<1>1. UNCHANGED <<field, scope, nextLine, inFence, out, result>> /\ phase = "walk"
      /\ phase' = "done"
  BY DEF Skip
<1>2. text' = text
  BY <1>1, SameText
<1>3. CompressTypeOK'
  BY <1>1, <1>2 DEF CompressInv, CompressTypeOK
<1>4. QED
  BY <1>1, <1>2, <1>3 DEF CompressInv

LEMMA BeginGood ==
  ASSUME CompressInv, Begin
  PROVE  CompressInv'
<1>1. UNCHANGED <<field, scope, nextLine, inFence, out, result>> /\ phase = "walk"
      /\ phase' = "scan" /\ Targeted(field.leaf)
  BY DEF Begin
<1>2. text' = text /\ LinesRead' = LinesRead
  BY <1>1, SameText
<1>3. CompressTypeOK'
  BY <1>1, <1>2 DEF CompressInv, CompressTypeOK
<1>4. Scanned'
  BY <1>1, <1>2 DEF CompressInv, Scanned, Faithful
<1>5. Targeted(field.leaf)'
  BY <1>1 DEF Targeted, OpenAITarget, AnthropicTarget, GeminiTarget, RoleInScopeOpenAI
<1>6. QED
  BY <1>1, <1>2, <1>3, <1>4, <1>5 DEF CompressInv

LEMMA ReadOneLine ==
  ASSUME CompressInv, Reading
  PROVE  /\ text[nextLine] \in Line /\ LinesRead \in Seq(Line) /\ Scanned
         /\ SubSeq(text, 1, nextLine) = Append(LinesRead, text[nextLine])
         /\ \A k \in 1..Len(LinesRead) : k \in DOMAIN text /\ LinesRead[k] = text[k]
         /\ nextLine \in DOMAIN text
<1>1. CompressTypeOK /\ Scanned
  BY DEF CompressInv, Reading
<1>2. text \in Seq(Line)
  BY <1>1, TextIs
<1>3. nextLine \in 1..Len(text)
  BY <1>1, <1>2 DEF CompressTypeOK, Reading
<1> DEFINE s == text
           n == nextLine
<1>4. /\ s[n] \in Line /\ SubSeq(s, 1, n - 1) \in Seq(Line)
      /\ Len(SubSeq(s, 1, n - 1)) = n - 1
      /\ \A k \in 1..n - 1 : SubSeq(s, 1, n - 1)[k] = s[k]
      /\ SubSeq(s, 1, n) = Append(SubSeq(s, 1, n - 1), s[n])
  BY <1>2, <1>3, LineRead
<1>5. \A k \in 1..n - 1 : k \in DOMAIN s
  BY <1>2, <1>3
<1>6. n \in DOMAIN s
  BY <1>2, <1>3
<1>7. QED
  BY <1>1, <1>4, <1>5, <1>6 DEF LinesRead

(* One more line was read and one was put out.                              *)
LEMMA FaithfulOn ==
  ASSUME NEW r \in Seq(Line), NEW x \in Line, NEW o \in Seq(Line), NEW y \in Line,
         Faithful(r, o), KeptOf(y) = KeptOf(x),
         y = x \/ ~EndsInCode(Append(r, x))
  PROVE  Faithful(Append(r, x), Append(o, y))
<1>1. Kept[Append(o, y)] = Kept[Append(r, x)]
  <2>1. Kept[Append(o, y)] = Kept[o] \o KeptOf(y) /\ Kept[Append(r, x)] = Kept[r] \o KeptOf(x)
    BY KeptIs
  <2>2. QED
    BY <2>1 DEF Faithful
<1>2. CodeOf[Append(r, x)] \in Within[Append(o, y)]
  <2>1. CodeOf[r] \in Within[o]
    BY DEF Faithful
  <2>2. Within[Append(o, y)] = Within[o] \cup {Append(part, y) : part \in Within[o]}
    BY WithinIs
  <2>3. CodeOf[Append(r, x)] = IF EndsInCode(Append(r, x)) /\ ~Empty(x)
                               THEN Append(CodeOf[r], x) ELSE CodeOf[r]
    BY CodeOfIs
  <2>4. QED
    BY <2>1, <2>2, <2>3
<1>3. QED
  BY <1>1, <1>2 DEF Faithful

LEMMA PushGood ==
  ASSUME CompressInv, Reading, NEW y \in Line, Push(y), inFence' \in BOOLEAN,
         Faithful(SubSeq(text, 1, nextLine), Append(out, y)),
         ~Misled[SubSeq(text, 1, nextLine)] =>
           (inFence' <=> OpenFence[SubSeq(text, 1, nextLine)] # NoFence)
  PROVE  CompressInv'
<1>1. /\ UNCHANGED <<field, scope, phase, result>> /\ phase = "scan"
      /\ nextLine' = nextLine + 1 /\ out' = Append(out, y)
  BY DEF Push, Reading
<1>2. CompressTypeOK /\ text \in Seq(Line) /\ nextLine <= Len(text)
  BY TextIs DEF CompressInv, Reading
<1>3. text' = text
  BY <1>1 DEF text
<1>4. nextLine' \in 1..Len(text) + 1 /\ nextLine' - 1 = nextLine
  BY <1>1, <1>2 DEF CompressTypeOK
<1>5. LinesRead' = SubSeq(text, 1, nextLine)
  BY <1>3, <1>4 DEF LinesRead
<1>6. out' \in Seq(Line)
  BY <1>1, <1>2, Appended DEF CompressTypeOK
<1>7. CompressTypeOK'
  BY <1>1, <1>2, <1>3, <1>4, <1>6 DEF CompressTypeOK
<1>8. Scanned'
  BY <1>1, <1>3, <1>5 DEF Scanned, Faithful
<1>9. Targeted(field.leaf)' /\ result' = text'
  <2>1. Targeted(field.leaf) /\ result = text
    BY <1>1 DEF CompressInv
  <2>2. QED
    BY <1>1, <1>3, <2>1
       DEF Targeted, OpenAITarget, AnthropicTarget, GeminiTarget, RoleInScopeOpenAI
<1>10. QED
  BY <1>1, <1>7, <1>8, <1>9 DEF CompressInv

LEMMA FenceLineGood ==
  ASSUME CompressInv, FenceLine
  PROVE  CompressInv'
<1> DEFINE x == text[nextLine]
           r == LinesRead
<1>1. Reading /\ IsFence(x) /\ inFence' = ~inFence /\ Push(x)
  BY DEF FenceLine
<1>2. /\ x \in Line /\ r \in Seq(Line) /\ Scanned
      /\ SubSeq(text, 1, nextLine) = Append(r, x)
      /\ \A k \in 1..Len(r) : k \in DOMAIN text /\ r[k] = text[k]
      /\ nextLine \in DOMAIN text
  BY <1>1, ReadOneLine
<1>3. inFence \in BOOLEAN /\ out \in Seq(Line)
  BY DEF CompressInv, CompressTypeOK
<1>4. Faithful(Append(r, x), Append(out, x))
  BY <1>2, <1>3, FaithfulOn DEF Scanned
<1>5. ASSUME ~Misled[Append(r, x)]
      PROVE  inFence' <=> OpenFence[Append(r, x)] # NoFence
  <2>1. ~Misled[r] /\ OpenFence[Append(r, x)] # OpenFence[r]
    BY <1>1, <1>2, <1>5, MisledIs
  <2>2. inFence <=> OpenFence[r] # NoFence
    BY <1>2, <2>1 DEF Scanned
  <2>3. (OpenFence[Append(r, x)] # NoFence) <=> (OpenFence[r] = NoFence)
    BY <1>2, <2>1, FenceToggles
  <2>4. QED
    BY <1>1, <1>3, <2>2, <2>3
<1>6. inFence' \in BOOLEAN
  BY <1>1
<1> HIDE DEF x, r
<1>7. QED
  BY <1>1, <1>2, <1>4, <1>5, <1>6, PushGood

(* A line that is no fence leaves the fence that is open, and misleads      *)
(* nobody.                                                                  *)
LEMMA SameFence ==
  ASSUME NEW r \in Seq(Line), NEW x \in Line, ~IsFence(x)
  PROVE  OpenFence[Append(r, x)] = OpenFence[r] /\ Misled[Append(r, x)] = Misled[r]
<1>1. ~IsMark(x)
  BY MarksAreFences
<1>2. Misled[r] \in BOOLEAN
  BY MisledIs
<1>3. QED
  BY <1>1, <1>2, OpenFenceIs, MisledIs

LEMMA CodeLineGood ==
  ASSUME CompressInv, CodeLine
  PROVE  CompressInv'
<1> DEFINE x == text[nextLine]
           r == LinesRead
<1>1. Reading /\ ~IsFence(x) /\ inFence' = inFence /\ Push(x)
  BY DEF CodeLine
<1>2. /\ x \in Line /\ r \in Seq(Line) /\ Scanned
      /\ SubSeq(text, 1, nextLine) = Append(r, x)
  BY <1>1, ReadOneLine
<1>3. inFence \in BOOLEAN /\ out \in Seq(Line)
  BY DEF CompressInv, CompressTypeOK
<1>4. Faithful(Append(r, x), Append(out, x))
  BY <1>2, <1>3, FaithfulOn DEF Scanned
<1>5. ~Misled[Append(r, x)] => (inFence' <=> OpenFence[Append(r, x)] # NoFence)
  BY <1>1, <1>2, SameFence DEF Scanned
<1>6. inFence' \in BOOLEAN
  BY <1>1, <1>3
<1> HIDE DEF x, r
<1>7. QED
  BY <1>1, <1>2, <1>4, <1>5, <1>6, PushGood

LEMMA ProseLineGood ==
  ASSUME CompressInv, ProseLine
  PROVE  CompressInv'
<1> DEFINE x == text[nextLine]
           r == LinesRead
           y == Prose(x)
<1>1. /\ Reading /\ ~IsFence(x) /\ inFence' = inFence /\ Push(y)
      /\ ~inFence /\ ~Verbatim(x)
  BY DEF ProseLine
<1>2. /\ x \in Line /\ r \in Seq(Line) /\ Scanned
      /\ SubSeq(text, 1, nextLine) = Append(r, x)
  BY <1>1, ReadOneLine
<1>3. inFence \in BOOLEAN /\ out \in Seq(Line)
  BY DEF CompressInv, CompressTypeOK
<1>4. y \in Line /\ KeptOf(y) = KeptOf(x)
  BY <1>2, ProseKeeps
<1>5. ~EndsInCode(Append(r, x))
  <2>1. Front(Append(r, x)) = r /\ Last(Append(r, x)) = x
    BY <1>2, Appended
  <2>2. ~Misled[r] => OpenFence[r] = NoFence /\ OpenFence[Append(r, x)] = NoFence
    BY <1>1, <1>2, SameFence DEF Scanned
  <2>3. ~(x.indent >= 4)
    BY <1>1 DEF Verbatim
  <2> HIDE DEF x, r
  <2>4. QED
    BY <2>1, <2>2, <2>3 DEF EndsInCode
<1>6. Faithful(Append(r, x), Append(out, y))
  <2>1. Faithful(r, out)
    BY <1>2 DEF Scanned
  <2> HIDE DEF x, r, y
  <2>2. QED
    BY <1>2, <1>3, <1>4, <1>5, <2>1, FaithfulOn
<1>7. ~Misled[Append(r, x)] => (inFence' <=> OpenFence[Append(r, x)] # NoFence)
  BY <1>1, <1>2, SameFence DEF Scanned
<1>8. inFence' \in BOOLEAN
  BY <1>1, <1>3
<1> HIDE DEF x, r, y
<1>9. QED
  BY <1>1, <1>2, <1>4, <1>6, <1>7, <1>8, PushGood

(* What is the same everywhere: a string and its place.                     *)
LEMMA SameTarget ==
  ASSUME UNCHANGED <<field, scope>>
  PROVE  Targeted(field.leaf)' = Targeted(field.leaf)
BY DEF Targeted, OpenAITarget, AnthropicTarget, GeminiTarget, RoleInScopeOpenAI

LEMMA JoinGood ==
  ASSUME CompressInv, Join
  PROVE  CompressInv'
<1>1. /\ UNCHANGED <<field, scope, nextLine, inFence, result>> /\ phase = "scan"
      /\ phase' = "guard" /\ out' = Collapsed(out) /\ nextLine > Len(text)
  BY DEF Join
<1>2. /\ CompressTypeOK /\ Scanned /\ Targeted(field.leaf) /\ result = text
      /\ out \in Seq(Line)
  BY <1>1 DEF CompressInv, CompressTypeOK
<1>3. text \in Seq(Line) /\ text' = text
  BY <1>1, <1>2, TextIs DEF text
<1>4. LinesRead = text
  <2>1. nextLine - 1 = Len(text)
    BY <1>1, <1>2, <1>3 DEF CompressTypeOK
  <2>2. SubSeq(text, 1, Len(text)) = text
    BY <1>3, NothingRead
  <2>3. QED
    BY <2>1, <2>2 DEF LinesRead
<1>5. Faithful(text, out)
  BY <1>2, <1>4 DEF Scanned
<1>6. Faithful(text, Collapsed(out))
  <2>1. Kept[Collapsed(out)] = Kept[text]
    BY <1>2, <1>5, CollapsedKeeps DEF Faithful
  <2>2. CodeOf[text] \in Within[Collapsed(out)]
    <3>1. CodeOf[text] \in Within[out]
      BY <1>5 DEF Faithful
    <3>2. QED
      BY <1>2, <1>3, <3>1, CodeOfNoneEmpty, WithinCollapsed
  <2>3. QED
    BY <2>1, <2>2 DEF Faithful
<1>7. CompressTypeOK'
  BY <1>1, <1>2, <1>3, CollapsedKeeps DEF CompressTypeOK
<1>8. Faithful(text, out)'
  BY <1>1, <1>3, <1>6 DEF Faithful
<1>9. QED
  BY <1>1, <1>2, <1>3, <1>7, <1>8, SameTarget DEF CompressInv

LEMMA KeepGood ==
  ASSUME CompressInv, Keep
  PROVE  CompressInv'
<1>1. UNCHANGED <<field, scope, nextLine, inFence, out, result>> /\ phase = "guard"
      /\ phase' = "done"
  BY DEF Keep
<1>2. text' = text
  BY <1>1, SameText
<1>3. CompressTypeOK'
  BY <1>1, <1>2 DEF CompressInv, CompressTypeOK
<1>4. QED
  BY <1>1, <1>2, <1>3 DEF CompressInv

LEMMA ReplaceGood ==
  ASSUME CompressInv, Replace
  PROVE  CompressInv'
<1>1. /\ UNCHANGED <<field, scope, nextLine, inFence, out>> /\ phase = "guard"
      /\ phase' = "done" /\ result' = out /\ WorthIt(text, out)
  BY DEF Replace
<1>2. text' = text
  BY <1>1, SameText
<1>3. CompressTypeOK'
  BY <1>1, <1>2 DEF CompressInv, CompressTypeOK
<1>4. Targeted(field.leaf) /\ Faithful(text, out)
  BY <1>1 DEF CompressInv
<1>5. WorthIt(text, result)' /\ Faithful(text, result)'
  BY <1>1, <1>2, <1>4
     DEF WorthIt, EstimateTokens, Size, IsBlank, Faithful
<1>6. QED
  BY <1>1, <1>3, <1>4, <1>5, SameTarget DEF CompressInv

LEMMA CompressStep == CompressInv /\ [CompressNext]_compressVars => CompressInv'
<1> SUFFICES ASSUME CompressInv, [CompressNext]_compressVars PROVE CompressInv'
  OBVIOUS
<1>1. CASE UNCHANGED compressVars
  <2>1. UNCHANGED <<field, scope, phase, nextLine, inFence, out, result>>
    BY <1>1 DEF compressVars
  <2>2. text' = text /\ LinesRead' = LinesRead
    BY <2>1, SameText
  <2>3. CompressTypeOK' /\ Scanned' = Scanned /\ Faithful(text, out)' = Faithful(text, out)
        /\ Faithful(text, result)' = Faithful(text, result)
        /\ WorthIt(text, result)' = WorthIt(text, result)
    BY <2>1, <2>2 DEF CompressInv, CompressTypeOK, Scanned, Faithful, WorthIt,
                      EstimateTokens, Size, IsBlank
  <2>4. QED
    BY <2>1, <2>2, <2>3, SameTarget DEF CompressInv
<1>2. QED
  BY <1>1, SkipGood, BeginGood, FenceLineGood, CodeLineGood, ProseLineGood, JoinGood,
     KeepGood, ReplaceGood DEF CompressNext

LEMMA CompressInvariant == CompressSpec => []CompressInv
BY CompressInitGood, CompressStep, PTL DEF CompressSpec

(* CodeKept: however long a prompt and wherever its fences are, its lines   *)
(* of code are forwarded as they were and in order, those in fences up to   *)
(* the first line that looks like a fence and is none (compress.rs          *)
(* compress_prose).                                                         *)
THEOREM CompressCodeKept == CompressSpec => []CodeKept
<1>1. CompressInv => CodeKept
  <2> SUFFICES ASSUME CompressInv PROVE CodeOf[text] \in Within[result]
    BY DEF CodeKept
  <2>1. text \in Seq(Line)
    BY TextIs DEF CompressInv
  <2>2. QED
    BY <2>1, CodeOfWithin DEF CompressInv, Faithful
<1>2. QED
  BY <1>1, CompressInvariant, PTL

(* TextKept: of any prompt, every word and every span in backticks that no  *)
(* rule names is forwarded, in its order (compress.rs process_prose_line,   *)
(* compress_prose).                                                         *)
THEOREM CompressTextKept == CompressSpec => []TextKept
<1>1. CompressInv => TextKept
  BY DEF CompressInv, TextKept, Faithful
<1>2. QED
  BY <1>1, CompressInvariant, PTL

LEMMA SizeIs ==
  ASSUME NEW s \in Seq(Line), s # <<>>
  PROVE  Size(s) \in Nat
<1>1. Len(s) \in Nat \ {0} /\ LinesSize[s] \in Nat
  BY LinesSizeIs, EmptySeq
<1>2. QED
  BY <1>1 DEF Size

(* Where a string can be, protocol by protocol, and whose words it then is. *)
LEMMA LeafOfProtocol ==
  ASSUME NEW l \in Leaf
  PROVE  \/ /\ l.protocol = "OpenAI" /\ l.place \in {"messages", "input"}
            /\ l.role \in {"system", "developer", "user", "assistant", "tool"}
         \/ /\ l.protocol = "OpenAI" /\ l.place \in {"instructions", "input", "tools"}
            /\ l.role = "none" /\ l.kind = "string"
         \/ /\ l.protocol = "Anthropic" /\ l.place = "system" /\ l.role = "none"
         \/ /\ l.protocol = "Anthropic" /\ l.place = "messages"
            /\ l.role \in {"user", "assistant"}
         \/ /\ l.protocol = "Gemini" /\ l.place = "systemInstruction" /\ l.role = "none"
         \/ /\ l.protocol = "Gemini" /\ l.place = "contents"
            /\ l.role \in {"user", "model", "none"}
         \/ /\ l.protocol = "Gemini" /\ l.place = "tools"
BY DEF Leaf, At

LEMMA SpeakerInScope ==
  ASSUME NEW l \in Leaf, Targeted(l)
  PROVE  SpeakerOf(l) \in {s \in {"system", "user", "assistant"} : scope[s]}
         /\ l.kind # "tool_result"
<1>1. CASE l.protocol = "OpenAI"
  <2>1. OpenAITarget(l)
    BY <1>1 DEF Targeted
  <2>2. CASE l.place = "messages"
    <3>1. l.role \in {"system", "developer", "user", "assistant", "tool"}
      BY <1>1, <2>2, LeafOfProtocol
    <3>2. RoleInScopeOpenAI(l.role) /\ l.kind # "tool_result"
      BY <2>1, <2>2 DEF OpenAITarget, ContentOf
    <3>3. SpeakerOf(l) = IF l.role \in {"system", "developer"} THEN "system"
                         ELSE IF l.role = "assistant" THEN "assistant"
                         ELSE IF l.role = "tool" THEN "tool" ELSE "user"
      BY <2>2, <3>1 DEF SpeakerOf
    <3>4. QED
      BY <3>1, <3>2, <3>3 DEF RoleInScopeOpenAI
  <2>3. CASE l.place = "instructions"
    <3>1. scope.system /\ l.kind = "string" /\ SpeakerOf(l) = "system"
      BY <1>1, <2>1, <2>3, LeafOfProtocol DEF OpenAITarget, SpeakerOf
    <3>2. QED
      BY <3>1
  <2>4. CASE l.place = "input"
    <3>1. l.role \in {"system", "developer", "user", "assistant", "tool", "none"}
      BY <1>1, <2>4, LeafOfProtocol
    <3>2. RoleInScopeOpenAI(Or(l.role, "user")) /\ l.kind # "tool_result"
      BY <2>1, <2>4 DEF OpenAITarget, ContentOf
    <3>3. SpeakerOf(l) = IF l.role \in {"system", "developer"} THEN "system"
                         ELSE IF l.role = "assistant" THEN "assistant"
                         ELSE IF l.role = "tool" THEN "tool" ELSE "user"
      BY <2>4, <3>1 DEF SpeakerOf
    <3>4. QED
      BY <3>1, <3>2, <3>3 DEF RoleInScopeOpenAI, Or
  <2>5. QED
    BY <2>1, <2>2, <2>3, <2>4 DEF OpenAITarget
<1>2. CASE l.protocol = "Anthropic"
  <2>1. AnthropicTarget(l)
    BY <1>2 DEF Targeted
  <2>2. CASE l.place = "system"
    <3>1. scope.system /\ ContentOf(l, {"text"})
      BY <2>1, <2>2 DEF AnthropicTarget
    <3>2. l.kind # "tool_result"
      BY <3>1 DEF ContentOf
    <3>3. SpeakerOf(l) = "system"
      BY <1>2, <2>2, LeafOfProtocol DEF SpeakerOf
    <3>4. QED
      BY <3>1, <3>2, <3>3
  <2>3. CASE l.place = "messages"
    <3>1. /\ ContentOf(l, {"text"})
          /\ (l.role = "user" /\ scope.user) \/ (l.role = "assistant" /\ scope.assistant)
      BY <2>1, <2>3 DEF AnthropicTarget
    <3>2. l.kind # "tool_result"
      BY <3>1 DEF ContentOf
    <3>3. SpeakerOf(l) = l.role
      BY <2>3, <3>1 DEF SpeakerOf
    <3>4. QED
      BY <3>1, <3>2, <3>3
  <2>4. QED
    BY <2>1, <2>2, <2>3 DEF AnthropicTarget
<1>3. CASE l.protocol = "Gemini"
  <2>1. GeminiTarget(l) /\ l.kind # "tool_result"
    BY <1>3 DEF Targeted, GeminiTarget
  <2>2. CASE l.place = "systemInstruction"
    <3>1. scope.system
      BY <2>1, <2>2 DEF GeminiTarget
    <3>2. SpeakerOf(l) = "system"
      BY <1>3, <2>2, LeafOfProtocol DEF SpeakerOf
    <3>3. QED
      BY <2>1, <3>1, <3>2
  <2>3. CASE l.place = "contents"
    <3>1. l.role \in {"user", "model", "none"}
      BY <1>3, <2>3, LeafOfProtocol
    <3>2. IF l.role = "model" THEN scope.assistant ELSE scope.user
      BY <2>1, <2>3 DEF GeminiTarget
    <3>3. SpeakerOf(l) = IF l.role = "model" THEN "assistant" ELSE "user"
      BY <2>3, <3>1 DEF SpeakerOf
    <3>4. QED
      BY <2>1, <3>2, <3>3
  <2>4. QED
    BY <2>1, <2>2, <2>3 DEF GeminiTarget
<1>4. QED
  BY <1>1, <1>2, <1>3, LeafOfProtocol
(* A share of the tokens saved, and what is left of them. *)
LEMMA Savings ==
  ASSUME NEW a \in Nat, a # 0, NEW b \in Int, b <= a, NEW c \in Nat,
         ((IF a > b THEN a - b ELSE 0) * 100) \div a >= c
  PROVE  b * 100 <= a * (100 - c)
<1>1. PICK s \in Nat : s = (IF a > b THEN a - b ELSE 0) /\ s = a - b
  OBVIOUS
<1>2. PICK q \in Nat : q = (s * 100) \div a /\ q >= c
  <2>1. (s * 100) \div a \in Nat
    BY <1>1
  <2>2. QED
    BY <1>1, <2>1
<1>3. a * q <= s * 100
  <2>1. s * 100 \in Nat
    BY <1>1
  <2>2. PICK t \in Nat : t = s * 100
    BY <2>1
  <2>3. a * (t \div a) <= t
    BY <2>2
  <2>4. QED
    BY <1>2, <2>2, <2>3
<1>4. a * c <= a * q
  BY <1>2
<1>5. a * c \in Nat /\ a * (100 - c) = a * 100 - a * c
  OBVIOUS
<1>6. a * c <= (a - b) * 100
  BY <1>1, <1>3, <1>4, <1>5
<1>7. QED
  BY <1>5, <1>6

(* OnlyPrompt: whatever the scope, only texts of those it names are changed,*)
(* and one that is changed got shorter by the savings asked for             *)
(* (compress.rs compress_openai, compress_anthropic, compress_gemini,       *)
(* compress_content, try_compress).                                         *)
THEOREM CompressOnlyPrompt == CompressSpec => []OnlyPrompt
<1>1. CompressInv => OnlyPrompt
  <2> SUFFICES ASSUME CompressInv, result # text
               PROVE  /\ SpeakerOf(field.leaf) \in {s \in {"system", "user", "assistant"} : scope[s]}
                      /\ field.leaf.kind # "tool_result"
                      /\ EstimateTokens(result) * 100 <= EstimateTokens(text) * (100 - MinSavingsPct)
                      /\ IsBlank(result) => IsBlank(text)
    BY DEF OnlyPrompt
  <2>1. /\ CompressTypeOK /\ Targeted(field.leaf) /\ WorthIt(text, result)
        /\ field.leaf \in Leaf /\ text \in Seq(Line) /\ text # <<>> /\ result \in Seq(Line)
    BY TextIs DEF CompressInv, CompressTypeOK
  <2>2. SpeakerOf(field.leaf) \in {s \in {"system", "user", "assistant"} : scope[s]}
        /\ field.leaf.kind # "tool_result"
    BY <2>1, SpeakerInScope
  <2>3. EstimateTokens(result) * 100 <= EstimateTokens(text) * (100 - MinSavingsPct)
    <3>1. Size(text) \in Nat /\ Size(result) \in Int
      <4>1. LinesSize[result] \in Nat /\ Len(result) \in Nat
        BY <2>1, LinesSizeIs
      <4>2. QED
        BY <2>1, <4>1, SizeIs DEF Size
    <3>2. PICK m \in Nat, n \in Int : m = Size(text) /\ n = Size(result)
      BY <3>1
    <3>3. n < m
      BY <2>1, <3>2 DEF WorthIt
    <3>4. PICK a \in Nat, b \in Int : a = m \div 4 /\ b = n \div 4 /\ b <= a
      BY <3>2, <3>3
    <3>5. EstimateTokens(text) = a /\ EstimateTokens(result) = b
      BY <3>2, <3>4 DEF EstimateTokens
    <3>6. a # 0 /\ ((IF a > b THEN a - b ELSE 0) * 100) \div a >= MinSavingsPct
      BY <2>1, <3>5 DEF WorthIt
    <3>7. MinSavingsPct \in Nat
      BY CompressAssumption
    <3>8. QED
      BY <3>4, <3>5, <3>6, <3>7, Savings
  <2>4. IsBlank(result) => IsBlank(text)
    BY <2>1 DEF WorthIt
  <2>5. QED
    BY <2>2, <2>3, <2>4
<1>2. QED
  BY <1>1, CompressInvariant, PTL

-----------------------------------------------------------------------------
(* Invoice: the figures, the pages and the periods.                        *)

(* Sums.  The community modules' SumFunction takes the values of a function*)
(* one by one, in the order of a CHOOSE.  Which order that is turns out to *)
(* be of no consequence.                                                   *)

One(s) == CHOOSE x \in s : TRUE

SumIter(f) ==
  CHOOSE g : g = [s \in SUBSET DOMAIN f |->
                    IF s = {} THEN 0 ELSE f[One(s)] + g[s \ {One(s)}]]

Summable(f) == IsFiniteSet(DOMAIN f) /\ \A x \in DOMAIN f : f[x] \in Nat

(* SumFunction is the sum that goes on with One member after the other. *)
LEMMA SumIs ==
  ASSUME NEW f
  PROVE  SumFunction(f) = SumIter(f)[DOMAIN f]
BY DEF SumFunction, SumFunctionOnSet, FoldFunctionOnSet, MapThenFoldSet, SumIter, One

(* One member of a set is in it. *)
LEMMA OneIn ==
  ASSUME NEW s, s # {}
  PROVE  One(s) \in s
BY DEF One

(* There is a function that the equation of a sum defines: by induction on *)
(* the size of the sets, up to that of the domain.                         *)
LEMMA SumEquation ==
  ASSUME NEW f, IsFiniteSet(DOMAIN f)
  PROVE  SumIter(f) = [s \in SUBSET DOMAIN f |->
                         IF s = {} THEN 0
                         ELSE f[One(s)] + SumIter(f)[s \ {One(s)}]]
<1> DEFINE D == DOMAIN f
           Small(n) == {s \in SUBSET D : Cardinality(s) <= n}
           Eq(g, U) == g = [s \in U |-> IF s = {} THEN 0
                                        ELSE f[One(s)] + g[s \ {One(s)}]]
           T == {n \in Nat : \E g : Eq(g, Small(n))}
           size == Cardinality(D)
<1>1. ASSUME NEW s \in SUBSET D
      PROVE  /\ IsFiniteSet(s) /\ Cardinality(s) \in Nat /\ Cardinality(s) <= size
             /\ s # {} => /\ s \ {One(s)} \in SUBSET D
                          /\ Cardinality(s \ {One(s)}) = Cardinality(s) - 1
                          /\ Cardinality(s) # 0
  <2>1. size \in Nat
    BY FS_CardinalityType
  <2>2. IsFiniteSet(s) /\ Cardinality(s) <= size
    BY FS_Subset
  <2>3. Cardinality(s) \in Nat
    BY <2>2, FS_CardinalityType
  <2>4. ASSUME s # {}
        PROVE  Cardinality(s \ {One(s)}) = Cardinality(s) - 1
    BY <2>2, <2>4, OneIn, FS_RemoveElement
  <2>5. s # {} => Cardinality(s) # 0
    BY <2>2, FS_EmptySet
  <2>6. QED
    BY <2>1, <2>2, <2>3, <2>4, <2>5
<1>2. 0 \in T
  <2>1. ASSUME NEW s \in Small(0)
        PROVE  s = {}
    <3>1. s \in SUBSET D /\ Cardinality(s) <= 0
      OBVIOUS
    <3>2. Cardinality(s) \in Nat /\ (s # {} => Cardinality(s) # 0)
      BY <1>1, <3>1
    <3>3. QED
      BY <3>1, <3>2
  <2>2. Eq([s \in Small(0) |-> 0], Small(0))
    BY <2>1
  <2>3. QED
    BY <2>2
<1>3. ASSUME NEW n \in 1..size, n - 1 \in T
      PROVE  n \in T
  <2>1. PICK g : Eq(g, Small(n - 1))
    BY <1>3
  <2> DEFINE h == [s \in Small(n) |-> IF s = {} THEN 0 ELSE f[One(s)] + g[s \ {One(s)}]]
  <2>2. ASSUME NEW s \in Small(n), s # {}
        PROVE  h[s \ {One(s)}] = g[s \ {One(s)}]
    <3> DEFINE u == s \ {One(s)}
    <3>1. n \in Nat /\ Cardinality(s) <= n
      BY <1>3
    <3>2. Cardinality(u) = Cardinality(s) - 1 /\ u \in SUBSET D /\ Cardinality(s) \in Nat
      BY <1>1, <2>2
    <3>3. u \in Small(n - 1) /\ u \in Small(n)
      BY <3>1, <3>2
    <3> HIDE DEF u
    <3>4. g[u] = IF u = {} THEN 0 ELSE f[One(u)] + g[u \ {One(u)}]
      BY <2>1, <3>3
    <3>5. h[u] = IF u = {} THEN 0 ELSE f[One(u)] + g[u \ {One(u)}]
      BY <3>3
    <3>6. QED
      BY <3>4, <3>5 DEF u
  <2>3. Eq(h, Small(n))
    BY <2>2, Zenon
  <2>4. n \in Nat
    BY <1>3, FS_CardinalityType
  <2>5. QED
    BY <2>3, <2>4
<1>4. size \in T
  <2>1. size \in Nat
    BY FS_CardinalityType
  <2> HIDE DEF T, size
  <2>2. 0..size \subseteq T
    BY <1>2, <1>3, <2>1, Upwards
  <2>3. QED
    BY <2>1, <2>2
<1>5. PICK g : Eq(g, Small(size))
  BY <1>4
<1>6. Small(size) = SUBSET D
  BY <1>1
<1>7. Eq(g, SUBSET D)
  BY <1>5, <1>6, Zenon
<1>8. QED
  BY <1>7 DEF SumIter

(* The elements may be taken in any order. *)
LEMMA SumParts ==
  ASSUME NEW f, Summable(f), NEW s \in SUBSET DOMAIN f
  PROVE  /\ SumIter(f)[s] \in Nat
         /\ s = {} => SumIter(f)[s] = 0
         /\ \A x \in s : SumIter(f)[s] = f[x] + SumIter(f)[s \ {x}]
<1> DEFINE D == DOMAIN f
           g == SumIter(f)
           Good(u) == g[u] \in Nat /\ \A x \in u : g[u] = f[x] + g[u \ {x}]
           size == Cardinality(D)
           T == {n \in Nat : \A u \in SUBSET D : Cardinality(u) <= n => Good(u)}
<1>1. IsFiniteSet(D) /\ \A x \in D : f[x] \in Nat
  BY DEF Summable
<1>2. \A u \in SUBSET D : g[u] = IF u = {} THEN 0 ELSE f[One(u)] + g[u \ {One(u)}]
  <2> HIDE DEF g
  <2>1. g = [u \in SUBSET D |-> IF u = {} THEN 0 ELSE f[One(u)] + g[u \ {One(u)}]]
    BY <1>1, SumEquation DEF g
  <2>2. QED
    BY <2>1
<1> HIDE DEF g
<1>3. ASSUME NEW u \in SUBSET D
      PROVE  /\ IsFiniteSet(u) /\ Cardinality(u) \in Nat /\ Cardinality(u) <= size
             /\ Cardinality(u) = 0 => u = {}
             /\ \A x \in u : u \ {x} \in SUBSET D /\ Cardinality(u \ {x}) = Cardinality(u) - 1
  <2>1. size \in Nat
    BY <1>1, FS_CardinalityType
  <2>2. IsFiniteSet(u) /\ Cardinality(u) <= size
    BY <1>1, FS_Subset
  <2>3. Cardinality(u) \in Nat
    BY <2>2, FS_CardinalityType
  <2>4. ASSUME NEW x \in u
        PROVE  Cardinality(u \ {x}) = Cardinality(u) - 1
    BY <2>2, FS_RemoveElement
  <2>5. Cardinality(u) = 0 => u = {}
    BY <2>2, FS_EmptySet
  <2>6. QED
    BY <2>1, <2>2, <2>3, <2>4, <2>5
<1>4. 0 \in T
  BY <1>2, <1>3
<1>5. ASSUME NEW n \in 1..size, n - 1 \in T
      PROVE  n \in T
  <2>1. n \in Nat
    BY <1>5
  <2>2. ASSUME NEW u \in SUBSET D, Cardinality(u) <= n, u # {}
        PROVE  Good(u)
    <3> DEFINE c == One(u)
    <3>1. c \in u /\ g[u] = f[c] + g[u \ {c}]
      BY <1>2, <2>2, OneIn
    <3> HIDE DEF c
    <3>2. ASSUME NEW x \in u
          PROVE  /\ g[u \ {x}] \in Nat
                 /\ \A y \in u \ {x} : g[u \ {x}] = f[y] + g[(u \ {x}) \ {y}]
                 /\ \A y \in u \ {x} : g[(u \ {x}) \ {y}] \in Nat
      <4>1. u \ {x} \in SUBSET D /\ Cardinality(u \ {x}) <= n - 1
        BY <1>3, <2>1, <2>2
      <4>2. Good(u \ {x})
        BY <4>1, <1>5
      <4>3. ASSUME NEW y \in u \ {x}
            PROVE  Good((u \ {x}) \ {y})
        <5>1. (u \ {x}) \ {y} \in SUBSET D /\ Cardinality((u \ {x}) \ {y}) <= n - 1
          BY <1>3, <4>1, <2>1, SMTT(30)
        <5>2. QED
          BY <5>1, <1>5
      <4>4. QED
        BY <4>2, <4>3
    <3>3. f[c] \in Nat /\ g[u] \in Nat
      <4>1. c \in D
        BY <3>1
      <4>2. f[c] \in Nat /\ g[u \ {c}] \in Nat
        BY <1>1, <4>1, <3>1, <3>2
      <4>3. QED
        BY <3>1, <4>2
    <3>4. ASSUME NEW x \in u, x # c
          PROVE  g[u] = f[x] + g[u \ {x}]
      <4>1. g[u \ {c}] = f[x] + g[(u \ {c}) \ {x}]
        BY <3>1, <3>2, <3>4
      <4>2. g[u \ {x}] = f[c] + g[(u \ {x}) \ {c}]
        BY <3>1, <3>2, <3>4
      <4>3. (u \ {c}) \ {x} = (u \ {x}) \ {c}
        OBVIOUS
      <4>4. f[x] \in Nat /\ g[(u \ {x}) \ {c}] \in Nat
        BY <1>1, <3>1, <3>2, <3>4
      <4>5. PICK m \in Nat : m = g[(u \ {x}) \ {c}]
        BY <4>4
      <4>6. g[u] = f[c] + (f[x] + m) /\ g[u \ {x}] = f[c] + m
        BY <3>1, <4>1, <4>2, <4>3, <4>5
      <4>7. f[x] \in Nat /\ f[c] \in Nat /\ m \in Nat
        BY <3>3, <4>4, <4>5
      <4>8. QED
        BY <4>6, <4>7
    <3>5. QED
      BY <3>1, <3>3, <3>4
  <2>3. ASSUME NEW u \in SUBSET D, u = {}
        PROVE  Good(u)
    <3>1. g[u] = 0
      BY <1>2, <2>3
    <3>2. QED
      BY <2>3, <3>1
  <2>4. QED
    BY <2>1, <2>2, <2>3
<1>6. size \in T
  <2>1. size \in Nat
    BY <1>1, FS_CardinalityType
  <2> HIDE DEF T, size
  <2>2. 0..size \subseteq T
    BY <1>4, <1>5, <2>1, Upwards
  <2>3. QED
    BY <2>1, <2>2
<1>7. Good(s)
  BY <1>6, <1>3
<1>8. s = {} => g[s] = 0
  BY <1>2
<1>9. QED
  BY <1>7, <1>8 DEF g

(* A sum over a set is a member and the sum over the others. *)
LEMMA SumTaken ==
  ASSUME NEW f, Summable(f), NEW s \in SUBSET DOMAIN f, NEW x \in s
  PROVE  SumIter(f)[s] = f[x] + SumIter(f)[s \ {x}]
BY SumParts

(* Functions that agree on a set have the same sum over it. *)
LEMMA SumAgree ==
  ASSUME NEW f, Summable(f), NEW h, Summable(h),
         NEW s, s \subseteq DOMAIN f, s \subseteq DOMAIN h, \A x \in s : f[x] = h[x]
  PROVE  SumIter(f)[s] = SumIter(h)[s]
<1> DEFINE T == {n \in Nat : \A u \in SUBSET s : Cardinality(u) <= n =>
                               SumIter(f)[u] = SumIter(h)[u]}
           size == Cardinality(s)
<1>1. IsFiniteSet(s) /\ size \in Nat
  BY FS_Subset, FS_CardinalityType DEF Summable
<1>2. ASSUME NEW u \in SUBSET s
      PROVE  /\ Cardinality(u) \in Nat /\ Cardinality(u) <= size
             /\ Cardinality(u) = 0 => u = {}
             /\ \A x \in u : Cardinality(u \ {x}) = Cardinality(u) - 1
  BY <1>1, FS_Subset, FS_CardinalityType, FS_RemoveElement, FS_EmptySet
<1>3. 0 \in T
  BY <1>2, SumParts
<1>4. ASSUME NEW n \in 1..size, n - 1 \in T
      PROVE  n \in T
  <2>1. n \in Nat
    BY <1>4
  <2>2. ASSUME NEW u \in SUBSET s, Cardinality(u) <= n
        PROVE  SumIter(f)[u] = SumIter(h)[u]
    <3>1. CASE u = {}
      BY <3>1, SumParts
    <3>2. ASSUME NEW x \in u
          PROVE  SumIter(f)[u] = SumIter(h)[u]
      <4>1. SumIter(f)[u \ {x}] = SumIter(h)[u \ {x}]
        BY <1>2, <1>4, <2>1, <2>2
      <4>2. SumIter(f)[u] = f[x] + SumIter(f)[u \ {x}]
        BY SumParts, <3>2
      <4>3. SumIter(h)[u] = h[x] + SumIter(h)[u \ {x}]
        BY SumParts, <3>2
      <4>4. QED
        BY <4>1, <4>2, <4>3
    <3>3. QED
      BY <3>1, <3>2
  <2>3. QED
    BY <2>1, <2>2
<1>5. size \in T
  <2> HIDE DEF T, size
  <2>1. 0..size \subseteq T
    BY <1>1, <1>3, <1>4, Upwards
  <2>2. QED
    BY <1>1, <2>1
<1>6. QED
  BY <1>2, <1>5

(* What is used of sums: they are natural numbers, nothing comes to 0, and *)
(* one value that grows, or is new, makes the sum grow as much.            *)
LEMMA SumNat ==
  ASSUME NEW f, Summable(f)
  PROVE  SumFunction(f) \in Nat /\ (DOMAIN f = {} => SumFunction(f) = 0)
BY SumIs, SumParts

(* Two functions that differ at x only have sums that differ there only. *)
LEMMA SumSplit ==
  ASSUME NEW f, Summable(f), NEW h, Summable(h), NEW x,
         DOMAIN f \ {x} = DOMAIN h \ {x}, \A y \in DOMAIN f \ {x} : f[y] = h[y]
  PROVE  \E rest \in Nat :
           /\ SumFunction(f) = IF x \in DOMAIN f THEN f[x] + rest ELSE rest
           /\ SumFunction(h) = IF x \in DOMAIN h THEN h[x] + rest ELSE rest
<1> DEFINE R == DOMAIN f \ {x}
<1>1. R \subseteq DOMAIN f /\ R \subseteq DOMAIN h
  OBVIOUS
<1>2. \A y \in R : f[y] = h[y]
  OBVIOUS
<1>3. x \in DOMAIN f => SumIter(f)[DOMAIN f] = f[x] + SumIter(f)[R]
  BY SumParts
<1>4. x \in DOMAIN h => SumIter(h)[DOMAIN h] = h[x] + SumIter(h)[R]
  <2>1. x \in DOMAIN h => SumIter(h)[DOMAIN h] = h[x] + SumIter(h)[DOMAIN h \ {x}]
    BY SumParts
  <2>2. R = DOMAIN h \ {x}
    OBVIOUS
  <2>3. QED
    BY <2>1, <2>2
<1>5. (x \notin DOMAIN f => R = DOMAIN f) /\ (x \notin DOMAIN h => R = DOMAIN h)
  OBVIOUS
<1> HIDE DEF R
<1>6. SumIter(f)[R] = SumIter(h)[R] /\ SumIter(f)[R] \in Nat
  BY <1>1, <1>2, SumAgree, SumParts
<1>7. QED
  BY <1>3, <1>4, <1>5, <1>6, SumIs

(* What is appended is added. *)
LEMMA SumAppended ==
  ASSUME NEW f, Summable(f), NEW h, Summable(h), NEW l \in Nat, NEW more \in Nat,
         DOMAIN f = 1..l, DOMAIN h = 1..l + 1, \A i \in 1..l : h[i] = f[i],
         h[l + 1] = more
  PROVE  SumFunction(h) = SumFunction(f) + more
<1> DEFINE x == l + 1
<1>1. x \in DOMAIN h /\ x \notin DOMAIN f /\ h[x] = more
  OBVIOUS
<1>2. DOMAIN f \ {x} = DOMAIN h \ {x} /\ \A y \in DOMAIN f \ {x} : f[y] = h[y]
  OBVIOUS
<1> HIDE DEF x
<1>3. PICK rest \in Nat :
        /\ SumFunction(f) = IF x \in DOMAIN f THEN f[x] + rest ELSE rest
        /\ SumFunction(h) = IF x \in DOMAIN h THEN h[x] + rest ELSE rest
  BY <1>2, SumSplit
<1>4. QED
  BY <1>1, <1>3

(* A sum may be taken in other terms, one to one, and without what is 0.   *)
LEMMA SumAlong ==
  ASSUME NEW f, Summable(f), NEW h, Summable(h), NEW m,
         \A x \in DOMAIN f : m[x] \in DOMAIN h,
         \A x, y \in DOMAIN f : m[x] = m[y] => x = y,
         \A x \in DOMAIN f : f[x] = h[m[x]],
         \A z \in DOMAIN h : (\A x \in DOMAIN f : m[x] # z) => h[z] = 0
  PROVE  SumFunction(f) = SumFunction(h)
<1> DEFINE Img(u) == {m[x] : x \in u}
           size == Cardinality(DOMAIN f)
           T == {n \in Nat : \A u \in SUBSET DOMAIN f : Cardinality(u) <= n =>
                               SumIter(f)[u] = SumIter(h)[Img(u)]}
<1>1. IsFiniteSet(DOMAIN f) /\ size \in Nat
  BY FS_CardinalityType DEF Summable
<1>2. ASSUME NEW u \in SUBSET DOMAIN f
      PROVE  /\ Cardinality(u) \in Nat /\ Cardinality(u) <= size
             /\ Cardinality(u) = 0 => u = {}
             /\ \A x \in u : Cardinality(u \ {x}) = Cardinality(u) - 1
  BY <1>1, FS_Subset, FS_CardinalityType, FS_RemoveElement, FS_EmptySet
<1>3. ASSUME NEW u \in SUBSET DOMAIN f, u = {}
      PROVE  SumIter(f)[u] = SumIter(h)[Img(u)]
  <2>1. Img(u) = {} /\ Img(u) \in SUBSET DOMAIN h
    BY <1>3
  <2> HIDE DEF Img
  <2>2. SumIter(f)[u] = 0 /\ SumIter(h)[Img(u)] = 0
    BY <1>3, <2>1, SumParts
  <2>3. QED
    BY <2>2
<1>4. 0 \in T
  BY <1>2, <1>3
<1>5. ASSUME NEW n \in 1..size, n - 1 \in T
      PROVE  n \in T
  <2>1. n \in Nat
    BY <1>1, <1>5
  <2>2. ASSUME NEW u \in SUBSET DOMAIN f, Cardinality(u) <= n
        PROVE  SumIter(f)[u] = SumIter(h)[Img(u)]
    <3>1. CASE u = {}
      BY <3>1, <1>3
    <3>2. ASSUME NEW x \in u
          PROVE  SumIter(f)[u] = SumIter(h)[Img(u)]
      <4>1. u \ {x} \in SUBSET DOMAIN f /\ Cardinality(u \ {x}) <= n - 1
        BY <1>2, <2>1, <2>2, <3>2
      <4>2. SumIter(f)[u \ {x}] = SumIter(h)[Img(u \ {x})]
        BY <1>5, <4>1
      <4> HIDE DEF T, size
      <4>3. SumIter(f)[u] = f[x] + SumIter(f)[u \ {x}]
        BY SumTaken, <3>2
      <4>4. Img(u) \ {m[x]} = Img(u \ {x}) /\ m[x] \in Img(u) /\ Img(u) \in SUBSET DOMAIN h
        BY <3>2
      <4> HIDE DEF Img
      <4> DEFINE z == m[x]
                 v == Img(u)
      <4> HIDE DEF z, v
      <4>5. z \in v /\ v \in SUBSET DOMAIN h
        BY <4>4 DEF z, v
      <4>6. SumIter(h)[v] = h[z] + SumIter(h)[v \ {z}]
        BY <4>5, SumParts
      <4>7. SumIter(h)[Img(u)] = h[m[x]] + SumIter(h)[Img(u \ {x})]
        BY <4>6, <4>4 DEF z, v
      <4>8. QED
        BY <4>2, <4>3, <4>7
    <3>3. QED
      BY <3>1, <3>2
  <2>3. QED
    BY <2>1, <2>2
<1>6. size \in T
  <2> HIDE DEF T, size
  <2>1. 0..size \subseteq T
    BY <1>1, <1>4, <1>5, Upwards
  <2>2. QED
    BY <1>1, <2>1
<1>7. SumIter(f)[DOMAIN f] = SumIter(h)[Img(DOMAIN f)]
  BY <1>2, <1>6
<1> DEFINE all == Cardinality(DOMAIN h)
           Z == {n \in Nat : \A u \in SUBSET DOMAIN h :
                   Img(DOMAIN f) \subseteq u /\ Cardinality(u) <= n =>
                     SumIter(h)[u] = SumIter(h)[Img(DOMAIN f)]}
<1>8. IsFiniteSet(DOMAIN h) /\ all \in Nat
  BY FS_CardinalityType DEF Summable
<1>9. ASSUME NEW u \in SUBSET DOMAIN h
      PROVE  /\ Cardinality(u) \in Nat /\ Cardinality(u) <= all
             /\ Cardinality(u) = 0 => u = {}
             /\ \A x \in u : Cardinality(u \ {x}) = Cardinality(u) - 1
  BY <1>8, FS_Subset, FS_CardinalityType, FS_RemoveElement, FS_EmptySet
<1>10. ASSUME NEW u \in SUBSET DOMAIN h, u = {}, Img(DOMAIN f) \subseteq u
       PROVE  SumIter(h)[u] = SumIter(h)[Img(DOMAIN f)]
  <2> HIDE DEF Img
  <2>1. Img(DOMAIN f) = u
    BY <1>10
  <2>2. QED
    BY <2>1
<1>11. 0 \in Z
  <2> HIDE DEF Img
  <2>1. QED
    BY <1>9, <1>10
<1>12. ASSUME NEW n \in 1..all, n - 1 \in Z
       PROVE  n \in Z
  <2>1. n \in Nat
    BY <1>8, <1>12
  <2>2. ASSUME NEW u \in SUBSET DOMAIN h, Cardinality(u) <= n, Img(DOMAIN f) \subseteq u
        PROVE  SumIter(h)[u] = SumIter(h)[Img(DOMAIN f)]
    <3>1. CASE u = Img(DOMAIN f)
      BY <3>1
    <3>2. ASSUME NEW z \in u, z \notin Img(DOMAIN f)
          PROVE  SumIter(h)[u] = SumIter(h)[Img(DOMAIN f)]
      <4>1. h[z] = 0
        BY <3>2
      <4> HIDE DEF Img
      <4>2. SumIter(h)[u \ {z}] = SumIter(h)[Img(DOMAIN f)]
        BY <1>9, <1>12, <2>1, <2>2, <3>2
      <4>3. SumIter(h)[u] = h[z] + SumIter(h)[u \ {z}] /\ SumIter(h)[u \ {z}] \in Nat
        BY SumParts, <3>2
      <4>4. QED
        BY <4>1, <4>2, <4>3
    <3> HIDE DEF Img
    <3>3. QED
      BY <2>2, <3>1, <3>2
  <2> HIDE DEF Img
  <2>3. QED
    BY <2>1, <2>2
<1>13. all \in Z
  <2> HIDE DEF Z, all
  <2>1. 0..all \subseteq Z
    BY <1>8, <1>11, <1>12, Upwards
  <2>2. QED
    BY <1>8, <2>1
<1>14. Img(DOMAIN f) \subseteq DOMAIN h
  OBVIOUS
<1> HIDE DEF Img
<1>15. SumIter(h)[DOMAIN h] = SumIter(h)[Img(DOMAIN f)]
  BY <1>9, <1>13, <1>14
<1>16. QED
  BY <1>7, <1>15, SumIs

-----------------------------------------------------------------------------
(* A finite set in a strict total order can be numbered in that order: no  *)
(* two of its elements come after as many others.                          *)
LEMMA Ranks ==
  ASSUME NEW S, IsFiniteSet(S), NEW R,
         \A x \in S : <<x, x>> \notin R,
         \A x, y, z \in S : <<x, y>> \in R /\ <<y, z>> \in R => <<x, z>> \in R,
         \A x, y \in S : x = y \/ <<x, y>> \in R \/ <<y, x>> \in R,
         NEW d, \A x \in S : d[x] \subseteq S,
         \A x, o \in S : o \in d[x] <=> <<o, x>> \in R
  PROVE  /\ Cardinality(S) \in Nat
         /\ \A x \in S : Cardinality(d[x]) \in 0..Cardinality(S) - 1
         /\ \A x, y \in S : Cardinality(d[x]) = Cardinality(d[y]) => x = y
         /\ \A n \in 1..Cardinality(S) : \E x \in S : Cardinality(d[x]) = n - 1
<1> DEFINE Down(x) == d[x]
           size == Cardinality(S)
           rank == [x \in S |-> Cardinality(Down(x))]
<1>1. size \in Nat
  BY FS_CardinalityType
<1>2. ASSUME NEW x \in S
      PROVE  IsFiniteSet(Down(x)) /\ Cardinality(Down(x)) \in 0..size - 1
  <2>1. Down(x) \subseteq S \ {x}
    OBVIOUS
  <2>2. IsFiniteSet(S \ {x}) /\ Cardinality(S \ {x}) = size - 1
    BY FS_RemoveElement
  <2> HIDE DEF Down, size
  <2>3. IsFiniteSet(Down(x)) /\ Cardinality(Down(x)) <= size - 1
    BY <2>1, <2>2, FS_Subset
  <2>4. Cardinality(Down(x)) \in Nat
    BY <2>3, FS_CardinalityType
  <2>5. QED
    BY <1>1, <2>3, <2>4
<1>3. ASSUME NEW x \in S, NEW y \in S, <<x, y>> \in R
      PROVE  Cardinality(Down(x)) < Cardinality(Down(y))
  <2>1. Down(x) \cup {x} \subseteq Down(y) /\ x \notin Down(x)
    BY <1>3
  <2> HIDE DEF Down, size
  <2>2. Cardinality(Down(x) \cup {x}) = Cardinality(Down(x)) + 1
    BY <1>2, <2>1, FS_AddElement
  <2>3. Cardinality(Down(x) \cup {x}) <= Cardinality(Down(y))
    BY <1>2, <2>1, FS_Subset
  <2>4. Cardinality(Down(x)) \in Nat /\ Cardinality(Down(y)) \in Nat
    BY <1>1, <1>2
  <2>5. QED
    BY <2>2, <2>3, <2>4
<1>4. ASSUME NEW x \in S, NEW y \in S, Cardinality(Down(x)) = Cardinality(Down(y))
      PROVE  x = y
  <2> HIDE DEF Down
  <2>1. Cardinality(Down(x)) \in Nat
    BY <1>1, <1>2
  <2>2. /\ <<x, y>> \in R => Cardinality(Down(x)) < Cardinality(Down(y))
        /\ <<y, x>> \in R => Cardinality(Down(y)) < Cardinality(Down(x))
    BY <1>3
  <2>3. <<x, y>> \notin R /\ <<y, x>> \notin R
    BY <1>4, <2>1, <2>2
  <2>4. QED
    BY <2>3
<1>5. rank \in Injection(S, 0..size - 1)
  <2> HIDE DEF Down, size
  <2>1. rank \in [S -> 0..size - 1]
    BY <1>2
  <2>2. IsInjective(rank)
    BY <1>4 DEF IsInjective
  <2>3. QED
    BY <2>1, <2>2 DEF Injection
<1>6. IsFiniteSet(0..size - 1) /\ Cardinality(0..size - 1) = size
  <2> HIDE DEF size
  <2>1. QED
    BY <1>1, FS_Interval
<1>7. rank \in Surjection(S, 0..size - 1)
  <2>1. size = Cardinality(0..size - 1)
    BY <1>6
  <2> HIDE DEF rank
  <2>2. QED
    BY <1>5, <1>6, <2>1, FS_Injection
<1>8. \A n \in 1..size : \E x \in S : Cardinality(Down(x)) = n - 1
  <2> SUFFICES ASSUME NEW n \in 1..size PROVE \E x \in S : Cardinality(Down(x)) = n - 1
    OBVIOUS
  <2> HIDE DEF Down, size
  <2>1. n - 1 \in 0..size - 1
    BY <1>1
  <2>2. QED
    BY <1>7, <2>1 DEF Surjection
<1>9. QED
  BY <1>1, <1>2, <1>4, <1>8

RowType == [project : Nat, key : Key \cup {NONE}, count : Nat, cost : Nat]
GroupType == [project : Nat, keys : Seq(RowType), count : Nat, cost : Nat]
Figures == [project : Nat] \cup RowType \cup [count : Nat, cost : Nat]
             \cup [project : Nat, count : Nat, cost : Nat]
Kinds == {"title", "key", "none", "subtotal", "total"}
LineType == [page : Nat, y : Int, what : Kinds, of : Figures]

(* A row of the log has the time it was logged at, or none yet. *)
InvoiceTypeOK ==
  /\ layout \in Layouts
  /\ clock \in Nat
  /\ log \in [Requests -> [at : Nat \cup {NONE}, key : AllKeys \cup {NONE},
                           cost : Costs \cup {NONE}]]
  /\ answer \in Seq(RowType)
  /\ grouped \in 0..Len(answer)
  /\ groups \in Seq(GroupType)
  /\ current \in 1..Len(groups) + 2
  /\ listed \in Nat \cup {NONE}
  /\ sheet \in [page : Nat, y : Int, lines : Seq(LineType)]

(* The query answers with every key of a project it has a row of, once.    *)
AnswerOK ==
  /\ \A n \in DOMAIN answer :
       /\ answer[n].project \in Projects
       /\ answer[n].key = NONE => answer[n].count = 0 /\ answer[n].cost = 0
       /\ answer[n].key # NONE => answer[n].key \in KeysOf(answer[n].project)
       /\ \A k \in KeysOf(answer[n].project) :
            \E m \in DOMAIN answer : answer[m].project = answer[n].project /\ answer[m].key = k
  /\ \A n, m \in DOMAIN answer :
       answer[n].project = answer[m].project /\ answer[n].key = answer[m].key => n = m

Counts(rows) == [n \in DOMAIN rows |-> rows[n].count]
CostsOf(rows) == [n \in DOMAIN rows |-> rows[n].cost]

(* A group has the rows of its project, as far as they are put together,   *)
(* and what they come to.                                                  *)
GroupOK(rows, group, upto) ==
  /\ group.count = SumFunction(Counts(group.keys))
  /\ group.cost = SumFunction(CostsOf(group.keys))
  /\ \A i, j \in DOMAIN group.keys : group.keys[i] = group.keys[j] => i = j
  /\ \A i \in DOMAIN group.keys :
       \E n \in 1..upto : /\ rows[n] = group.keys[i]
                          /\ rows[n].project = group.project
                          /\ rows[n].key # NONE
  /\ \A n \in 1..upto : rows[n].project = group.project /\ rows[n].key # NONE
       => \E i \in DOMAIN group.keys : group.keys[i] = rows[n]

GatheredOK(rows, sofar, upto) ==
  /\ \A g, h \in DOMAIN sofar : sofar[g].project = sofar[h].project => g = h
  /\ \A g \in DOMAIN sofar :
       /\ GroupOK(rows, sofar[g], upto)
       /\ \E n \in 1..upto : rows[n].project = sofar[g].project
  /\ \A n \in 1..upto : \E g \in DOMAIN sofar : sofar[g].project = rows[n].project
  /\ SumFunction([n \in 1..upto |-> rows[n].count]) = SumFunction(Counts(sofar))
  /\ SumFunction([n \in 1..upto |-> rows[n].cost]) = SumFunction(CostsOf(sofar))

GroupsOK == GatheredOK(answer, groups, grouped)

(* Where the printing is. *)
CursorOK ==
  /\ listed # NONE => /\ current \in DOMAIN groups
                      /\ HasUsage(groups[current])
                      /\ listed <= Len(groups[current].keys)
  /\ listed # NONE \/ current # 1 \/ invoice # << >> =>
       answer # << >> /\ grouped = Len(answer)

(* What the printing knows of a sheet s when c is the project that is next *)
(* and l says how many of its keys are there.  The lines of a kind bear    *)
(* the given figures, each of them once.                                   *)
LinesOf(s, what) == {n \in DOMAIN s.lines : s.lines[n].what = what}

Bears(s, what, figures) ==
  /\ \A n \in LinesOf(s, what) : s.lines[n].of \in figures
  /\ \A figure \in figures : \E n \in LinesOf(s, what) : s.lines[n].of = figure
  /\ \A n, m \in LinesOf(s, what) : s.lines[n].of = s.lines[m].of => n = m

KeyDone(g, i, c, l) ==
  \/ g < c /\ HasUsage(groups[g])
  \/ g = c /\ l # NONE /\ i <= l

KeysDone(c, l) ==
  {figure \in RowType :
     \E g \in DOMAIN groups : \E i \in DOMAIN groups[g].keys :
       figure = Printed(groups[g].keys[i]) /\ KeyDone(g, i, c, l)}

SubtotalsDone(c) ==
  {figure \in Figures :
     \E g \in DOMAIN groups : /\ g < c /\ HasUsage(groups[g])
                              /\ figure = Printed(Subtotal(groups[g]))}

TotalsDone(c) == {figure \in {Printed(Total(answer))} : c > Len(groups) + 1}

(* Titles may repeat, but not that of a project that fits on a page. *)
TitlesOK(s, c, l) ==
  /\ \A n \in LinesOf(s, "title") :
       \E g \in DOMAIN groups : /\ s.lines[n].of.project = groups[g].project
                                /\ g < c \/ (g = c /\ l # NONE)
  /\ \A n, m \in LinesOf(s, "title") : \A g \in DOMAIN groups :
       /\ s.lines[n].of.project = groups[g].project
       /\ s.lines[m].of.project = groups[g].project
       /\ GroupHeight(groups[g]) <= 380
       => n = m

TitleOn(s, n, page, j) ==
  \E m \in LinesOf(s, "title") : m <= n /\ s.lines[m].page = page /\ s.lines[m].of.project = j

PagesOK(s) ==
  \A n \in DOMAIN s.lines :
    /\ s.lines[n].what \in {"title", "key", "subtotal", "total"}
    /\ s.lines[n].y >= 52
    /\ n > 1 => Apart(s.lines[n - 1], s.lines[n])
    /\ s.lines[n].what # "total" => TitleOn(s, n, s.lines[n].page, s.lines[n].of.project)

(* The next line has room below the last one, and on a page of its own.    *)
Below(s) ==
  s.lines # << >> => /\ s.lines[Len(s.lines)].page = s.page
                     /\ s.y <= s.lines[Len(s.lines)].y - 16
Free(s) == s.lines # << >> => Apart(s.lines[Len(s.lines)], [page |-> s.page, y |-> s.y])

(* What room is left: a small project has it for the rest of its keys.     *)
RoomOK(s, c, l) ==
  /\ c <= Len(groups) + 1 => Below(s)
  /\ l = NONE /\ c <= Len(groups) + 1 => s.y >= 62
  /\ l # NONE =>
       /\ s.y >= 84
       /\ GroupHeight(groups[c]) <= 380 => s.y >= 99 + 18 * Len(groups[c].keys) - 16 * l
       /\ TitleOn(s, Len(s.lines), s.page, groups[c].project)

PrintedOK ==
  /\ Bears(sheet, "key", KeysDone(current, listed))
  /\ Bears(sheet, "subtotal", SubtotalsDone(current))
  /\ Bears(sheet, "total", TotalsDone(current))
  /\ TitlesOK(sheet, current, listed)
  /\ PagesOK(sheet)
  /\ RoomOK(sheet, current, listed)

-----------------------------------------------------------------------------
(* The answer of the query.                                                *)

(* What a function makes of a finite set is finite. *)
LEMMA ImageFinite ==
  ASSUME NEW S, IsFiniteSet(S), NEW f
  PROVE  IsFiniteSet({f[x] : x \in S})
<1> DEFINE T == {f[x] : x \in S}
           g == [x \in S |-> f[x]]
<1>1. g \in Surjection(S, T)
  BY DEF Surjection
<1> HIDE DEF T, g
<1>2. IsFiniteSet(T)
  BY <1>1, FS_Surjection
<1>3. QED
  BY <1>2 DEF T

(* Multiples of a positive number are at least that far apart. *)
LEMMA Multiples ==
  ASSUME NEW a \in Nat, NEW b \in Nat, NEW l \in Nat, a < b
  PROVE  a * l + l <= b * l
<1>1. PICK c \in Nat : b = a + 1 + c
  <2>1. b - a - 1 \in Nat /\ b = a + 1 + (b - a - 1)
    OBVIOUS
  <2>2. QED
    BY <2>1
<1>2. b * l = a * l + l + c * l
  BY <1>1
<1>3. c * l \in Nat /\ a * l \in Nat
  OBVIOUS
<1>4. QED
  BY <1>2, <1>3

-----------------------------------------------------------------------------
(* Cents.  What is cut off a figure is less than a cent, so that the cents *)
(* of a sum are those of its parts but for one for each part more.         *)

(* What whole cents are left of so many units, and what is cut off. *)
LEMMA Quotient ==
  ASSUME NEW x \in Nat, NEW c \in Nat \ {0}
  PROVE  /\ x \div c \in Nat
         /\ x \div c <= x
         /\ \E r \in 0..c - 1 : x = (x \div c) * c + r
<1>1. x \div c \in Nat /\ x % c \in 0..c - 1 /\ x = c * (x \div c) + (x % c)
  OBVIOUS
<1>2. c * (x \div c) = (x \div c) * c
  BY <1>1
<1>3. x \div c <= (x \div c) * c
  BY <1>1
<1>4. QED
  BY <1>1, <1>2, <1>3

LEMMA CentsAre ==
  ASSUME NEW x \in Nat
  PROVE  /\ InCents(x) \in Nat
         /\ \E r \in 0..Cent - 1 : x + Carry = InCents(x) * Cent + r
<1>1. Cent \in Nat \ {0} /\ Carry \in Nat
  BY InvoiceAssumption
<1>2. x + Carry \in Nat
  BY <1>1
<1>3. QED
  BY <1>1, <1>2, Quotient DEF InCents

(* Nothing is no cents. *)
LEMMA NoCents == InCents(0) = 0
<1>1. Cent \in Nat \ {0} /\ Carry \in 0..Cent - 1
  BY InvoiceAssumption
<1>2. PICK q \in Nat : q = InCents(0)
  BY CentsAre
<1>3. PICK r \in 0..Cent - 1 : 0 + Carry = q * Cent + r
  BY <1>2, CentsAre
<1>4. 0 < q => Cent <= q * Cent
  BY <1>1, Multiples
<1>5. q * Cent \in Nat
  BY <1>1
<1>6. QED
  BY <1>1, <1>2, <1>3, <1>4, <1>5

(* The cents of two figures and those of their sum differ by one at most. *)
LEMMA CentsOfTwo ==
  ASSUME NEW x \in Nat, NEW y \in Nat
  PROVE  /\ InCents(x) \in Nat /\ InCents(y) \in Nat /\ InCents(x + y) \in Nat
         /\ InCents(x + y) <= InCents(x) + InCents(y) + 1
         /\ InCents(x) + InCents(y) <= InCents(x + y) + 1
<1>1. PICK c \in Nat \ {0} : c = Cent
  BY InvoiceAssumption
<1>2. PICK k \in 0..c - 1 : k = Carry
  BY <1>1, InvoiceAssumption
<1>3. x + y \in Nat
  OBVIOUS
<1>4. PICK p \in Nat, q \in Nat, t \in Nat :
        p = InCents(x) /\ q = InCents(y) /\ t = InCents(x + y)
  BY <1>3, CentsAre
<1>5. PICK r \in 0..c - 1 : x + k = p * c + r
  BY <1>1, <1>2, <1>4, CentsAre
<1>6. PICK s \in 0..c - 1 : y + k = q * c + s
  BY <1>1, <1>2, <1>4, CentsAre
<1>7. PICK u \in 0..c - 1 : x + y + k = t * c + u
  BY <1>1, <1>2, <1>3, <1>4, CentsAre
<1>8. p * c \in Nat /\ q * c \in Nat /\ t * c \in Nat /\ (p + q) * c = p * c + q * c
        /\ p + q \in Nat
  OBVIOUS
<1>9. (p + q) * c + r + s = t * c + k + u
  BY <1>5, <1>6, <1>7, <1>8
<1>10. (p + q + 1) * c = (p + q) * c + c /\ (t + 1) * c = t * c + c
         /\ p + q + 1 \in Nat /\ t + 1 \in Nat
  BY <1>8
<1>11. p + q + 1 < t => (p + q + 1) * c + c <= t * c
  BY <1>10, Multiples
<1>12. t + 1 < p + q => (t + 1) * c + c <= (p + q) * c
  BY <1>8, <1>10, Multiples
<1>13. t <= p + q + 1 /\ p + q <= t + 1
  BY <1>8, <1>9, <1>10, <1>11, <1>12
<1>14. QED
  BY <1>4, <1>13

(* Two numbers are the same, or differ by less than there are parts. *)
Close(a, b, parts) == a = b \/ (a < b + parts /\ b < a + parts)

(* The cents of the parts are close to those of the sum. *)
LEMMA CentsOfSum ==
  ASSUME NEW f, Summable(f), NEW h, DOMAIN h = DOMAIN f,
         \A x \in DOMAIN f : h[x] = InCents(f[x])
  PROVE  Close(SumFunction(h), InCents(SumFunction(f)), Cardinality(DOMAIN f))
<1> DEFINE C(u) == Close(SumIter(h)[u], InCents(SumIter(f)[u]), Cardinality(u))
           size == Cardinality(DOMAIN f)
           T == {n \in Nat : \A u \in SUBSET DOMAIN f : Cardinality(u) <= n => C(u)}
<1>1. Summable(h)
  BY CentsAre DEF Summable
<1>2. IsFiniteSet(DOMAIN f) /\ size \in Nat
  BY FS_CardinalityType DEF Summable
<1>3. ASSUME NEW u \in SUBSET DOMAIN f
      PROVE  /\ Cardinality(u) \in Nat /\ Cardinality(u) <= size
             /\ Cardinality(u) = 0 => u = {}
             /\ \A x \in u : Cardinality(u \ {x}) = Cardinality(u) - 1
  BY <1>2, FS_Subset, FS_CardinalityType, FS_RemoveElement, FS_EmptySet
<1>4. C({})
  <2>1. SumIter(h)[{}] = 0 /\ SumIter(f)[{}] = 0
    BY <1>1, SumParts
  <2>2. QED
    BY <2>1, NoCents DEF Close
<1>5. 0 \in T
  BY <1>3, <1>4
<1>6. ASSUME NEW n \in 1..size, n - 1 \in T
      PROVE  n \in T
  <2>1. n \in Nat
    BY <1>6
  <2>2. ASSUME NEW u \in SUBSET DOMAIN f, Cardinality(u) <= n
        PROVE  C(u)
    <3>1. CASE u = {}
      BY <3>1, <1>4
    <3>2. ASSUME NEW x \in u
          PROVE  C(u)
      <4>1. PICK v \in SUBSET DOMAIN f : v = u \ {x} /\ x \in DOMAIN f
        BY <3>2
      <4>2. Cardinality(v) = Cardinality(u) - 1 /\ Cardinality(u) \in Nat
              /\ Cardinality(v) \in Nat /\ Cardinality(v) <= n - 1
        BY <1>3, <2>1, <2>2, <3>2, <4>1
      <4>3. C(v)
        BY <1>6, <4>1, <4>2
      <4>4. PICK a \in Nat, b \in Nat : a = f[x] /\ b = SumIter(f)[v] /\ SumIter(f)[u] = a + b
        <5>1. f[x] \in Nat /\ SumIter(f)[v] \in Nat
          BY <4>1, SumParts DEF Summable
        <5>2. SumIter(f)[u] = f[x] + SumIter(f)[u \ {x}]
          BY <3>2, SumTaken
        <5>3. QED
          BY <4>1, <5>1, <5>2
      <4>5. PICK e \in Nat : e = SumIter(h)[v] /\ SumIter(h)[u] = InCents(a) + e
        <5>1. SumIter(h)[v] \in Nat
          BY <1>1, <4>1, SumParts
        <5>2. SumIter(h)[u] = h[x] + SumIter(h)[u \ {x}]
          BY <1>1, <3>2, SumTaken
        <5>3. QED
          BY <4>1, <4>4, <5>1, <5>2
      <4>6. PICK k \in Nat : k = Cardinality(v) /\ Cardinality(u) = k + 1
        BY <4>2
      <4>7. Close(e, InCents(b), k)
        BY <4>3, <4>4, <4>5, <4>6
      <4>8. /\ InCents(a) \in Nat /\ InCents(b) \in Nat /\ InCents(a + b) \in Nat
            /\ InCents(a + b) <= InCents(a) + InCents(b) + 1
            /\ InCents(a) + InCents(b) <= InCents(a + b) + 1
        BY CentsOfTwo
      <4>9. Close(InCents(a) + e, InCents(a + b), k + 1)
        <5>1. CASE v = {}
          <6>1. b = 0 /\ e = 0
            BY <1>1, <4>4, <4>5, <5>1, SumParts
          <6>2. InCents(a) + e = InCents(a) /\ a + b = a
            BY <4>8, <6>1
          <6>3. QED
            BY <6>2 DEF Close
        <5>2. CASE v # {}
          <6>1. k # 0
            BY <1>3, <4>1, <4>6, <5>2
          <6>2. e < InCents(b) + k /\ InCents(b) < e + k
            BY <4>7, <4>8, <6>1 DEF Close
          <6>3. QED
            BY <4>8, <6>2 DEF Close
        <5>3. QED
          BY <5>1, <5>2
      <4>10. QED
        BY <4>4, <4>5, <4>6, <4>9
    <3>3. QED
      BY <3>1, <3>2
  <2>3. QED
    BY <2>1, <2>2
<1>7. size \in T
  <2> HIDE DEF T, size
  <2>1. 0..size \subseteq T
    BY <1>2, <1>5, <1>6, Upwards
  <2>2. QED
    BY <1>2, <2>1
<1>8. C(DOMAIN f)
  BY <1>3, <1>7
<1>9. QED
  BY <1>1, <1>8, SumIs

(* What is printed of a figure: its number of requests, and its cents. *)
LEMMA PrintedIs ==
  ASSUME NEW figure,
         figure \in RowType \cup [count : Nat, cost : Nat]
                      \cup [project : Nat, count : Nat, cost : Nat]
  PROVE  /\ Printed(figure).count = figure.count
         /\ Printed(figure).cost = InCents(figure.cost)
         /\ figure \in RowType => /\ Printed(figure) \in RowType
                                  /\ Printed(figure).project = figure.project
                                  /\ Printed(figure).key = figure.key
         /\ figure \in [project : Nat, count : Nat, cost : Nat] =>
              /\ Printed(figure) \in [project : Nat, count : Nat, cost : Nat]
              /\ Printed(figure).project = figure.project
         /\ figure \in [count : Nat, cost : Nat] => Printed(figure) \in [count : Nat, cost : Nat]
<1>1. figure.cost \in Nat
  BY DEF RowType
<1>2. PICK c \in Nat : c = InCents(figure.cost)
  BY <1>1, CentsAre
<1>3. Printed(figure) = [figure EXCEPT !.cost = c]
  BY <1>2 DEF Printed
<1>4. QED
  BY <1>2, <1>3 DEF RowType

-----------------------------------------------------------------------------
(* The layout, and the rows of an answer.                                  *)

(* The projects are numbered, and have a name and a number of keys each. *)
LEMMA LayoutIs ==
  ASSUME InvoiceTypeOK
  PROVE  /\ Len(layout.names) \in Nat
         /\ Projects = 1..Len(layout.names)
         /\ IsFiniteSet(Projects)
         /\ \A j \in Projects : layout.names[j] \in Nat /\ layout.keys[j] \in Nat
<1>1. layout \in Layout
  BY InvoiceAssumption DEF InvoiceTypeOK
<1>2. layout.names \in Seq(Nat) /\ layout.keys \in Seq(Nat)
        /\ Len(layout.names) = Len(layout.keys)
  BY <1>1 DEF Layout
<1>3. Len(layout.names) \in Nat /\ Projects = 1..Len(layout.names)
  BY <1>2 DEF Projects
<1>4. IsFiniteSet(Projects)
  BY <1>3, FS_Interval
<1>5. QED
  BY <1>2, <1>3, <1>4

(* A project has as many keys as its layout says, all of them its own. *)
LEMMA KeysOfIs ==
  ASSUME InvoiceTypeOK, NEW j \in Projects
  PROVE  /\ IsFiniteSet(KeysOf(j))
         /\ Cardinality(KeysOf(j)) = layout.keys[j]
         /\ KeysOf(j) \subseteq Key
         /\ \A k \in KeysOf(j) : k.project = j /\ k # NONE
<1>1. PICK l \in Nat : l = Len(layout.names) /\ j \in 1..l
  BY LayoutIs
<1>2. PICK m \in Nat : m = layout.keys[j]
  BY LayoutIs
<1> DEFINE f == [n \in 0..m - 1 |-> [project |-> j, rank |-> n * l + j]]
<1>3. KeysOf(j) = {[project |-> j, rank |-> n * l + j] : n \in 0..m - 1}
  BY <1>1, <1>2 DEF KeysOf
<1>4. \A n \in 0..m - 1 : n * l + j \in Nat
  BY <1>1
<1>5. ASSUME NEW a \in 0..m - 1, NEW b \in 0..m - 1, a < b
      PROVE  a * l + j # b * l + j
  <2>1. a * l + l <= b * l
    BY <1>5, Multiples
  <2>2. a * l \in Nat /\ b * l \in Nat
    BY <1>1
  <2>3. QED
    BY <1>1, <2>1, <2>2
<1>6. f \in Bijection(0..m - 1, KeysOf(j))
  <2>1. \A a, b \in 0..m - 1 : f[a] = f[b] => a = b
    <3>1. ASSUME NEW a \in 0..m - 1, NEW b \in 0..m - 1, f[a] = f[b]
          PROVE  a = b
      <4>1. a * l + j = b * l + j
        BY <3>1
      <4>2. ~(a < b) /\ ~(b < a)
        BY <1>5, <4>1
      <4>3. QED
        BY <4>2
    <3>2. QED
      BY <3>1
  <2>2. f \in [0..m - 1 -> KeysOf(j)]
    BY <1>3
  <2>3. \A k \in KeysOf(j) : \E n \in 0..m - 1 : f[n] = k
    BY <1>3
  <2> HIDE DEF f
  <2>4. QED
    BY <2>1, <2>2, <2>3 DEF Bijection, Injection, Surjection, IsInjective
<1>7. IsFiniteSet(0..m - 1) /\ Cardinality(0..m - 1) = m
  BY FS_Interval
<1>8. IsFiniteSet(KeysOf(j)) /\ Cardinality(KeysOf(j)) = m
  <2> HIDE DEF f
  <2>1. ExistsBijection(0..m - 1, KeysOf(j))
    BY <1>6 DEF ExistsBijection
  <2>2. QED
    BY <1>7, <2>1, FS_Bijection
<1>9. KeysOf(j) \subseteq Key /\ \A k \in KeysOf(j) : k.project = j
  BY <1>1, <1>3, <1>4 DEF Key
<1>10. QED
  BY <1>2, <1>8, <1>9, InvoiceAssumption

(* Keys of different projects have different ranks. *)
LEMMA RankTells ==
  ASSUME InvoiceTypeOK, NEW i \in Projects, NEW j \in Projects,
         NEW p \in KeysOf(i), NEW q \in KeysOf(j), p.rank = q.rank
  PROVE  p = q
<1>1. PICK l \in Nat : l = Len(layout.names) /\ i \in 1..l /\ j \in 1..l
  BY LayoutIs
<1>2. layout.keys[i] \in Nat /\ layout.keys[j] \in Nat
  BY LayoutIs
<1>3. PICK a \in 0..layout.keys[i] - 1 : p = [project |-> i, rank |-> a * l + i]
  BY <1>1 DEF KeysOf
<1>4. PICK b \in 0..layout.keys[j] - 1 : q = [project |-> j, rank |-> b * l + j]
  BY <1>1 DEF KeysOf
<1>5. a * l + i = b * l + j
  BY <1>3, <1>4
<1>6. a \in Nat /\ b \in Nat
  BY <1>2
<1>7. a * l \in Nat /\ b * l \in Nat
  BY <1>6
<1>8. ~(a < b)
  <2>1. ASSUME a < b PROVE FALSE
    <3>1. a * l + l <= b * l
      BY <1>6, <2>1, Multiples
    <3>2. QED
      BY <3>1, <1>1, <1>5, <1>7
  <2>2. QED
    BY <2>1
<1>9. ~(b < a)
  <2>1. ASSUME b < a PROVE FALSE
    <3>1. b * l + l <= a * l
      BY <1>6, <2>1, Multiples
    <3>2. QED
      BY <3>1, <1>1, <1>5, <1>7
  <2>2. QED
    BY <2>1
<1>10. a = b
  BY <1>6, <1>8, <1>9
<1>11. i = j
  BY <1>1, <1>5, <1>7, <1>10
<1>12. QED
  BY <1>3, <1>4, <1>10, <1>11

(* The rows of the answer before they are ordered. *)
LEMMA CountedIs ==
  ASSUME InvoiceTypeOK, NEW w, NEW counted \in SUBSET InWindow(w)
  PROVE  /\ Cardinality(counted) \in Nat
         /\ SumFunction([r \in counted |-> CostOf(r)]) \in Nat
         /\ counted = {} => /\ Cardinality(counted) = 0
                            /\ SumFunction([r \in counted |-> CostOf(r)]) = 0
<1>1. counted \subseteq Requests
  BY DEF InWindow
<1>2. IsFiniteSet(counted)
  BY <1>1, InvoiceAssumption, FS_Subset
<1>3. \A r \in counted : CostOf(r) \in Nat
  <2>1. \A r \in Requests : log[r].cost \in Costs \cup {NONE}
    BY DEF InvoiceTypeOK
  <2>2. QED
    BY <1>1, <2>1, InvoiceAssumption DEF CostOf
<1> DEFINE f == [r \in counted |-> CostOf(r)]
<1>4. Summable(f) /\ DOMAIN f = counted
  BY <1>2, <1>3 DEF Summable
<1> HIDE DEF f
<1>5. SumFunction(f) \in Nat /\ (counted = {} => SumFunction(f) = 0)
  BY <1>4, SumNat
<1>6. QED
  BY <1>2, <1>5, FS_CardinalityType, FS_EmptySet DEF f

RowOf(p, j, k) ==
  Row(j, k, IF k = NONE THEN {} ELSE {r \in InWindow(Window(p)) : log[r].key = k})

(* A row of the answer is of its project and key; without a key it is empty. *)
LEMMA RowOfIs ==
  ASSUME InvoiceTypeOK, NEW p, NEW j \in Projects, NEW k \in KeysOf(j) \cup {NONE}
  PROVE  /\ RowOf(p, j, k) \in RowType
         /\ RowOf(p, j, k).project = j /\ RowOf(p, j, k).key = k
         /\ k = NONE => RowOf(p, j, k).count = 0 /\ RowOf(p, j, k).cost = 0
<1> DEFINE counted == IF k = NONE THEN {} ELSE {r \in InWindow(Window(p)) : log[r].key = k}
<1>1. counted \in SUBSET InWindow(Window(p)) /\ (k = NONE => counted = {})
  OBVIOUS
<1>2. RowOf(p, j, k) = Row(j, k, counted)
  BY DEF RowOf
<1> HIDE DEF counted
<1>3. j \in Nat /\ k \in Key \cup {NONE}
  BY LayoutIs, KeysOfIs
<1>4. QED
  BY <1>1, <1>2, <1>3, CountedIs DEF Row, RowType

(* The answer has a row of every key of the projects asked for. *)
LEMMA RowsAre ==
  ASSUME InvoiceTypeOK, NEW p, NEW asked \in SUBSET Projects
  PROVE  /\ IsFiniteSet(Rows(p, asked))
         /\ \A x \in Rows(p, asked) :
              /\ x \in RowType /\ x.project \in asked
              /\ x = RowOf(p, x.project, x.key)
              /\ IF KeysOf(x.project) = {} THEN x.key = NONE ELSE x.key \in KeysOf(x.project)
         /\ \A j \in asked : \A k \in KeysOf(j) : RowOf(p, j, k) \in Rows(p, asked)
<1> DEFINE Own(j) == IF KeysOf(j) = {} THEN {Row(j, NONE, {})}
                     ELSE {Row(j, k, {r \in InWindow(Window(p)) : log[r].key = k}) :
                             k \in KeysOf(j)}
<1>1. ASSUME NEW j \in asked, KeysOf(j) = {}
      PROVE  Own(j) = {RowOf(p, j, NONE)}
  BY <1>1 DEF RowOf
<1>2. ASSUME NEW j \in asked, KeysOf(j) # {}
      PROVE  Own(j) = {RowOf(p, j, k) : k \in KeysOf(j)}
  <2>1. \A k \in KeysOf(j) :
          RowOf(p, j, k) = Row(j, k, {r \in InWindow(Window(p)) : log[r].key = k})
    BY KeysOfIs DEF RowOf
  <2> HIDE DEF RowOf
  <2>2. QED
    BY <1>2, <2>1
<1>3. Rows(p, asked) = UNION {Own(j) : j \in asked}
  BY DEF Rows
<1> HIDE DEF Own
<1>4. ASSUME NEW x \in Rows(p, asked)
      PROVE  /\ x \in RowType /\ x.project \in asked
             /\ x = RowOf(p, x.project, x.key)
             /\ IF KeysOf(x.project) = {} THEN x.key = NONE ELSE x.key \in KeysOf(x.project)
  <2>1. PICK j \in asked : x \in Own(j)
    BY <1>3
  <2>2. CASE KeysOf(j) = {}
    <3>1. x = RowOf(p, j, NONE)
      BY <1>1, <2>1, <2>2
    <3>2. QED
      BY <2>2, <3>1, RowOfIs
  <2>3. CASE KeysOf(j) # {}
    <3>1. PICK k \in KeysOf(j) : x = RowOf(p, j, k)
      BY <1>2, <2>1, <2>3
    <3>2. QED
      BY <2>3, <3>1, RowOfIs
  <2>4. QED
    BY <2>2, <2>3
<1>5. ASSUME NEW j \in asked, NEW k \in KeysOf(j)
      PROVE  RowOf(p, j, k) \in Rows(p, asked)
  <2>1. RowOf(p, j, k) \in Own(j)
    BY <1>2
  <2>2. QED
    BY <1>3, <2>1
<1>6. IsFiniteSet(Rows(p, asked))
  <2> DEFINE own == [j \in asked |-> Own(j)]
  <2>1. IsFiniteSet(asked)
    BY LayoutIs, FS_Subset
  <2>2. ASSUME NEW j \in asked
        PROVE  IsFiniteSet(Own(j))
    <3>1. CASE KeysOf(j) = {}
      BY <1>1, <3>1, FS_Singleton
    <3>2. CASE KeysOf(j) # {}
      <4> DEFINE f == [k \in KeysOf(j) |-> RowOf(p, j, k)]
      <4>1. Own(j) = {f[k] : k \in KeysOf(j)}
        BY <1>2, <3>2
      <4> HIDE DEF f
      <4>2. IsFiniteSet(KeysOf(j))
        BY KeysOfIs
      <4>3. QED
        BY <4>1, <4>2, ImageFinite
    <3>3. QED
      BY <3>1, <3>2
  <2>3. {own[j] : j \in asked} = {Own(j) : j \in asked}
    OBVIOUS
  <2> HIDE DEF own
  <2>4. IsFiniteSet({own[j] : j \in asked})
    BY <2>1, ImageFinite
  <2>5. \A S \in {Own(j) : j \in asked} : IsFiniteSet(S)
    BY <2>2
  <2>6. QED
    BY <1>3, <2>3, <2>4, <2>5, FS_UNION
<1>7. QED
  BY <1>4, <1>5, <1>6

(* The order of the names, with NULLs last, tells any two rows apart. *)
LEMMA BeforeOrders ==
  ASSUME InvoiceTypeOK, NEW p, NEW asked \in SUBSET Projects
  PROVE  /\ \A x \in Rows(p, asked) : ~Before(x, x)
         /\ \A x, y, z \in Rows(p, asked) : Before(x, y) /\ Before(y, z) => Before(x, z)
         /\ \A x, y \in Rows(p, asked) : x = y \/ Before(x, y) \/ Before(y, x)
<1> DEFINE S == Rows(p, asked)
<1>1. ASSUME NEW x \in S
      PROVE  /\ x.project \in Projects /\ x.project \in Nat
             /\ layout.names[x.project] \in Nat
             /\ x = RowOf(p, x.project, x.key)
             /\ x.key # NONE => x.key \in KeysOf(x.project) /\ x.key.rank \in Nat
  <2>1. /\ x.project \in asked /\ x = RowOf(p, x.project, x.key)
        /\ x.key # NONE => x.key \in KeysOf(x.project)
    BY RowsAre
  <2>2. x.key # NONE => x.key.rank \in Nat
    BY <2>1, KeysOfIs DEF Key
  <2>3. QED
    BY <2>1, <2>2, LayoutIs
<1> HIDE DEF S
<1>2. ASSUME NEW x \in S
      PROVE  ~Before(x, x)
  BY <1>1 DEF Before
<1>3. ASSUME NEW x \in S, NEW y \in S, NEW z \in S, Before(x, y), Before(y, z)
      PROVE  Before(x, z)
  <2>1. /\ layout.names[x.project] \in Nat /\ layout.names[y.project] \in Nat
        /\ layout.names[z.project] \in Nat
        /\ x.project \in Nat /\ y.project \in Nat /\ z.project \in Nat
        /\ x.key # NONE => x.key.rank \in Nat
        /\ y.key # NONE => y.key.rank \in Nat
        /\ z.key # NONE => z.key.rank \in Nat
    BY <1>1
  <2>2. QED
    BY <1>3, <2>1 DEF Before
<1>4. ASSUME NEW x \in S, NEW y \in S, ~Before(x, y), ~Before(y, x)
      PROVE  x = y
  <2>1. layout.names[x.project] = layout.names[y.project]
    BY <1>1, <1>4 DEF Before
  <2>2. CASE x.key # NONE /\ y.key # NONE
    <3>1. x.key.rank = y.key.rank
      BY <1>1, <1>4, <2>1, <2>2 DEF Before
    <3>2. x.key = y.key
      BY <1>1, <2>2, <3>1, RankTells
    <3>3. x.project = y.project
      BY <1>1, <2>2, <3>2, KeysOfIs
    <3>4. QED
      BY <1>1, <3>2, <3>3
  <2>3. CASE x.key = NONE /\ y.key = NONE
    <3>1. x.project = y.project
      BY <1>1, <1>4, <2>1, <2>3 DEF Before
    <3>2. QED
      BY <1>1, <2>3, <3>1
  <2>4. CASE x.key = NONE /\ y.key # NONE
    BY <1>4, <2>1, <2>4 DEF Before
  <2>5. CASE x.key # NONE /\ y.key = NONE
    BY <1>4, <2>1, <2>5 DEF Before
  <2>6. QED
    BY <2>2, <2>3, <2>4, <2>5
<1>5. QED
  BY <1>2, <1>3, <1>4 DEF S

(* Ordered has every row of the set, once. *)
LEMMA OrderedIs ==
  ASSUME InvoiceTypeOK, NEW p, NEW asked \in SUBSET Projects,
         NEW f, f = Ordered(Rows(p, asked))
  PROVE  /\ f \in Seq(Rows(p, asked))
         /\ \A a, b \in DOMAIN f : f[a] = f[b] => a = b
         /\ \A x \in Rows(p, asked) : \E n \in DOMAIN f : f[n] = x
<1> DEFINE S == Rows(p, asked)
           R == {pair \in S \X S : Before(pair[1], pair[2])}
<1>1. \A x, y \in S : <<x, y>> \in R <=> Before(x, y)
  OBVIOUS
<1>2. /\ IsFiniteSet(S)
      /\ \A x \in S : <<x, x>> \notin R
      /\ \A x, y, z \in S : <<x, y>> \in R /\ <<y, z>> \in R => <<x, z>> \in R
      /\ \A x, y \in S : x = y \/ <<x, y>> \in R \/ <<y, x>> \in R
  <2>1. IsFiniteSet(S)
    BY RowsAre
  <2>2. /\ \A x \in S : ~Before(x, x)
        /\ \A x, y, z \in S : Before(x, y) /\ Before(y, z) => Before(x, z)
        /\ \A x, y \in S : x = y \/ Before(x, y) \/ Before(y, x)
    BY BeforeOrders
  <2> HIDE DEF S, R
  <2>3. QED
    BY <1>1, <2>1, <2>2
<1>3. ASSUME NEW x \in S
      PROVE  {o \in S : Before(o, x)} = {o \in S : <<o, x>> \in R}
  <2> HIDE DEF R, S
  <2>1. QED
    BY <1>1
<1> DEFINE d == [x \in S |-> {o \in S : <<o, x>> \in R}]
           PlaceOf(n) == CHOOSE x \in S : Cardinality({o \in S : Before(o, x)}) = n - 1
<1>4. f = [n \in 1..Cardinality(S) |-> PlaceOf(n)]
  BY Zenon DEF Ordered
<1>5. ASSUME NEW n, \E x \in S : Cardinality(d[x]) = n - 1
      PROVE  PlaceOf(n) \in S /\ Cardinality(d[PlaceOf(n)]) = n - 1
  <2>1. \A x \in S : d[x] = {o \in S : Before(o, x)}
    BY <1>3
  <2>2. \E x \in S : Cardinality({o \in S : Before(o, x)}) = n - 1
    BY <1>5, <2>1
  <2>3. PlaceOf(n) \in S /\ Cardinality({o \in S : Before(o, PlaceOf(n))}) = n - 1
    BY <2>2, Zenon
  <2> HIDE DEF d, PlaceOf
  <2>4. QED
    BY <2>1, <2>3
<1>6. /\ \A x \in S : d[x] \subseteq S
      /\ \A x, o \in S : o \in d[x] <=> <<o, x>> \in R
  <2> HIDE DEF R, S
  <2>1. QED
    OBVIOUS
<1> HIDE DEF S, R, PlaceOf, d
<1>7. /\ f = [n \in 1..Cardinality(S) |-> f[n]]
      /\ \A n \in 1..Cardinality(S) : f[n] = PlaceOf(n)
  BY <1>4
<1>8. /\ Cardinality(S) \in Nat
      /\ f \in [1..Cardinality(S) -> S]
      /\ \A a, b \in 1..Cardinality(S) : f[a] = f[b] => a = b
      /\ \A x \in S : \E n \in 1..Cardinality(S) : f[n] = x
  <2>1. /\ Cardinality(S) \in Nat
        /\ \A x \in S : Cardinality(d[x]) \in 0..Cardinality(S) - 1
        /\ \A x, y \in S : Cardinality(d[x]) = Cardinality(d[y]) => x = y
        /\ \A n \in 1..Cardinality(S) : \E x \in S : Cardinality(d[x]) = n - 1
    <3>1. IsFiniteSet(S)
      BY <1>2
    <3>2. \A x \in S : <<x, x>> \notin R
      BY <1>2
    <3>3. \A x, y, z \in S : <<x, y>> \in R /\ <<y, z>> \in R => <<x, z>> \in R
      BY <1>2
    <3>4. \A x, y \in S : x = y \/ <<x, y>> \in R \/ <<y, x>> \in R
      BY <1>2
    <3>5. Cardinality(S) \in Nat
      BY <1>6, <3>1, <3>2, <3>3, <3>4, Ranks
    <3>6. \A x \in S : Cardinality(d[x]) \in 0..Cardinality(S) - 1
      BY <1>6, <3>1, <3>2, <3>3, <3>4, Ranks
    <3>7. \A x, y \in S : Cardinality(d[x]) = Cardinality(d[y]) => x = y
      BY <1>6, <3>1, <3>2, <3>3, <3>4, Ranks
    <3>8. \A n \in 1..Cardinality(S) : \E x \in S : Cardinality(d[x]) = n - 1
      BY <1>6, <3>1, <3>2, <3>3, <3>4, Ranks
    <3>9. QED
      BY <3>5, <3>6, <3>7, <3>8
  <2>2. PICK size \in Nat : size = Cardinality(S)
    BY <2>1
  <2>3. \A n \in 1..size : f[n] \in S /\ Cardinality(d[f[n]]) = n - 1
    BY <1>5, <1>7, <2>1, <2>2
  <2>4. ASSUME NEW a \in 1..size, NEW b \in 1..size, f[a] = f[b]
        PROVE  a = b
    <3>1. a - 1 = b - 1
      BY <2>3, <2>4
    <3>2. QED
      BY <3>1
  <2>5. ASSUME NEW x \in S
        PROVE  \E n \in 1..size : f[n] = x
    <3>1. PICK n \in 1..size : n - 1 = Cardinality(d[x])
      <4>1. PICK m \in 0..size - 1 : m = Cardinality(d[x])
        BY <2>1, <2>2
      <4>2. m + 1 \in 1..size /\ (m + 1) - 1 = m
        OBVIOUS
      <4>3. QED
        BY <4>1, <4>2
    <3>2. f[n] = x
      BY <2>1, <2>3, <3>1
    <3>3. QED
      BY <3>2
  <2>6. f \in [1..size -> S]
    BY <1>7, <2>2, <2>3
  <2>7. QED
    BY <2>2, <2>4, <2>5, <2>6
<1>9. QED
  BY <1>8 DEF S

(* Export: the answer is complete, without repetitions. *)
LEMMA ExportGood ==
  ASSUME InvoiceTypeOK, NEW p, NEW asked \in SUBSET Projects \ {{}}, Export(p, asked)
  PROVE  answer' \in Seq(RowType) /\ AnswerOK'
<1> DEFINE S == Rows(p, asked)
<1>1. answer' = Ordered(S) /\ asked \in SUBSET Projects
  BY DEF Export
<1>2. /\ answer' \in Seq(S)
      /\ \A a, b \in DOMAIN answer' : answer'[a] = answer'[b] => a = b
      /\ \A x \in S : \E n \in DOMAIN answer' : answer'[n] = x
  BY <1>1, OrderedIs
<1>3. /\ \A x \in S :
           /\ x \in RowType /\ x.project \in asked /\ x.project \in Projects
           /\ x = RowOf(p, x.project, x.key)
           /\ IF KeysOf(x.project) = {} THEN x.key = NONE ELSE x.key \in KeysOf(x.project)
      /\ \A j \in asked : \A k \in KeysOf(j) : RowOf(p, j, k) \in S
  BY <1>1, RowsAre
<1> HIDE DEF S
<1>4. \A n \in DOMAIN answer' : answer'[n] \in S
  BY <1>2
<1>5. answer' \in Seq(RowType)
  BY <1>2, <1>3
<1>6. Projects' = Projects /\ \A j : KeysOf(j)' = KeysOf(j)
  BY DEF Export, logVars, Projects, KeysOf
<1>7. ASSUME NEW n \in DOMAIN answer'
      PROVE  /\ answer'[n].project \in Projects
             /\ answer'[n].key = NONE => answer'[n].count = 0 /\ answer'[n].cost = 0
             /\ answer'[n].key # NONE => answer'[n].key \in KeysOf(answer'[n].project)
             /\ \A k \in KeysOf(answer'[n].project) :
                  \E m \in DOMAIN answer' :
                    answer'[m].project = answer'[n].project /\ answer'[m].key = k
  <2> DEFINE x == answer'[n]
  <2>1. /\ x.project \in asked /\ x.project \in Projects
        /\ x = RowOf(p, x.project, x.key)
        /\ IF KeysOf(x.project) = {} THEN x.key = NONE ELSE x.key \in KeysOf(x.project)
    BY <1>3, <1>4
  <2> HIDE DEF x
  <2>2. x.key = NONE => x.count = 0 /\ x.cost = 0
    BY <2>1, RowOfIs
  <2>3. x.key # NONE => x.key \in KeysOf(x.project)
    BY <2>1
  <2>4. ASSUME NEW k \in KeysOf(x.project)
        PROVE  \E m \in DOMAIN answer' : answer'[m].project = x.project /\ answer'[m].key = k
    <3>1. RowOf(p, x.project, k) \in S
      BY <1>3, <2>1
    <3>2. PICK m \in DOMAIN answer' : answer'[m] = RowOf(p, x.project, k)
      BY <1>2, <3>1
    <3>3. answer'[m].project = x.project /\ answer'[m].key = k
      BY <2>1, <3>2, RowOfIs
    <3>4. QED
      BY <3>3
  <2>5. QED
    BY <2>1, <2>2, <2>3, <2>4 DEF x
<1>8. ASSUME NEW n \in DOMAIN answer', NEW m \in DOMAIN answer',
             answer'[n].project = answer'[m].project, answer'[n].key = answer'[m].key
      PROVE  n = m
  <2>1. answer'[n] = RowOf(p, answer'[n].project, answer'[n].key)
          /\ answer'[m] = RowOf(p, answer'[m].project, answer'[m].key)
    BY <1>3, <1>4
  <2>2. answer'[n] = answer'[m]
    BY <1>8, <2>1
  <2>3. QED
    BY <1>2, <2>2
<1>9. AnswerOK'
  BY <1>6, <1>7, <1>8 DEF AnswerOK
<1>10. QED
  BY <1>5, <1>9

-----------------------------------------------------------------------------
(* The rows are put together.                                              *)

(* The counts and costs of rows and of groups can be summed. *)
LEMMA CountsIs ==
  ASSUME NEW s, s \in Seq(RowType) \/ s \in Seq(GroupType)
  PROVE  /\ Summable(Counts(s)) /\ Summable(CostsOf(s))
         /\ DOMAIN Counts(s) = 1..Len(s) /\ DOMAIN CostsOf(s) = 1..Len(s)
         /\ \A n \in 1..Len(s) : Counts(s)[n] = s[n].count /\ CostsOf(s)[n] = s[n].cost
<1>1. PICK n \in Nat : n = Len(s)
  OBVIOUS
<1>2. DOMAIN s = 1..n /\ \A m \in 1..n : s[m].count \in Nat /\ s[m].cost \in Nat
  <2>1. DOMAIN s = 1..n
    BY <1>1
  <2>2. \A m \in 1..n : s[m] \in RowType \/ s[m] \in GroupType
    BY <2>1
  <2>3. \A m \in 1..n : s[m].count \in Nat /\ s[m].cost \in Nat
    BY <2>2 DEF RowType, GroupType
  <2>4. QED
    BY <2>1, <2>3
<1>3. IsFiniteSet(1..n)
  BY FS_Interval
<1>4. QED
  BY <1>1, <1>2, <1>3 DEF Counts, CostsOf, Summable

(* What Append does, place by place. *)
LEMMA AppendIs ==
  ASSUME NEW T, NEW s \in Seq(T), NEW x \in T
  PROVE  /\ Append(s, x) \in Seq(T)
         /\ Len(s) \in Nat /\ DOMAIN s = 1..Len(s)
         /\ Len(Append(s, x)) = Len(s) + 1
         /\ DOMAIN Append(s, x) = 1..Len(s) + 1
         /\ \A n \in 1..Len(s) : Append(s, x)[n] = s[n]
         /\ Append(s, x)[Len(s) + 1] = x
  OBVIOUS

(* AddRow adds the figures of a row, and the row if it is of a key. *)
LEMMA AddRowIs ==
  ASSUME NEW base \in GroupType, NEW rw \in RowType
  PROVE  /\ AddRow(base, rw) \in GroupType
         /\ AddRow(base, rw).project = base.project
         /\ AddRow(base, rw).count = base.count + rw.count
         /\ AddRow(base, rw).cost = base.cost + rw.cost
         /\ AddRow(base, rw).keys = IF rw.key = NONE THEN base.keys ELSE Append(base.keys, rw)
<1>1. /\ base.count \in Nat /\ base.cost \in Nat /\ rw.count \in Nat /\ rw.cost \in Nat
      /\ base.keys \in Seq(RowType)
  BY DEF GroupType, RowType
<1>2. Append(base.keys, rw) \in Seq(RowType)
  BY <1>1, AppendIs
<1> DEFINE c == base.count + rw.count
           d == base.cost + rw.cost
           ks == IF rw.key = NONE THEN base.keys ELSE Append(base.keys, rw)
<1>3. c \in Nat /\ d \in Nat /\ ks \in Seq(RowType)
  BY <1>1, <1>2
<1>4. AddRow(base, rw) = [base EXCEPT !.count = c, !.cost = d, !.keys = ks]
  BY Zenon DEF AddRow
<1> HIDE DEF c, d, ks
<1>5. AddRow(base, rw) \in GroupType
  BY <1>3, <1>4 DEF GroupType
<1>6. /\ AddRow(base, rw).project = base.project
      /\ AddRow(base, rw).count = c /\ AddRow(base, rw).cost = d
      /\ AddRow(base, rw).keys = ks
  BY <1>4 DEF GroupType
<1>7. QED
  BY <1>5, <1>6 DEF c, d, ks

(* A row goes to the group of its project, which is a new one if need be.  *)
NewGroup(j) == [project |-> j, keys |-> << >>, count |-> 0, cost |-> 0]

(* Gather changes the group of the row, or appends it, and no other. *)
LEMMA GatherIs ==
  ASSUME NEW sofar \in Seq(GroupType), NEW rw \in RowType,
         \A g, h \in DOMAIN sofar : sofar[g].project = sofar[h].project => g = h
  PROVE  \E g \in 1..Len(sofar) + 1, base \in GroupType :
           /\ Gather(sofar, rw) \in Seq(GroupType)
           /\ DOMAIN Gather(sofar, rw) = DOMAIN sofar \cup {g}
           /\ Gather(sofar, rw)[g] = AddRow(base, rw)
           /\ base.project = rw.project
           /\ \A h \in DOMAIN sofar : h # g =>
                Gather(sofar, rw)[h] = sofar[h] /\ sofar[h].project # rw.project
           /\ \/ g \in DOMAIN sofar /\ base = sofar[g]
              \/ g \notin DOMAIN sofar /\ base = NewGroup(rw.project)
<1>1. PICK l \in Nat : l = Len(sofar) /\ DOMAIN sofar = 1..l
  OBVIOUS
<1>2. CASE Place(sofar, rw) = {}
  <2> DEFINE base == NewGroup(rw.project)
             new == AddRow(base, rw)
  <2>1. base \in GroupType /\ base.project = rw.project
    BY DEF NewGroup, GroupType, RowType
  <2>2. Gather(sofar, rw) = Append(sofar, new)
    BY <1>2 DEF Gather, NewGroup
  <2>3. new \in GroupType
    BY <2>1, AddRowIs
  <2>4. \A h \in DOMAIN sofar : sofar[h].project # rw.project
    BY <1>2 DEF Place
  <2> HIDE DEF new, base
  <2>5. /\ Append(sofar, new) \in Seq(GroupType)
        /\ DOMAIN Append(sofar, new) = 1..l + 1
        /\ \A n \in 1..l : Append(sofar, new)[n] = sofar[n]
        /\ Append(sofar, new)[l + 1] = new
    BY <1>1, <2>3, AppendIs
  <2>6. 1..l + 1 = 1..l \cup {l + 1} /\ l + 1 \notin 1..l
    OBVIOUS
  <2>7. /\ Gather(sofar, rw) \in Seq(GroupType)
        /\ DOMAIN Gather(sofar, rw) = DOMAIN sofar \cup {l + 1}
        /\ Gather(sofar, rw)[l + 1] = AddRow(base, rw)
        /\ \A h \in DOMAIN sofar : h # l + 1 =>
             Gather(sofar, rw)[h] = sofar[h] /\ sofar[h].project # rw.project
        /\ l + 1 \notin DOMAIN sofar /\ base = NewGroup(rw.project)
    BY <1>1, <2>2, <2>4, <2>5, <2>6 DEF new, base
  <2>8. QED
    BY <1>1, <2>1, <2>7
<1>3. ASSUME NEW g \in Place(sofar, rw)
      PROVE  /\ g \in 1..l + 1 /\ sofar[g] \in GroupType
             /\ Gather(sofar, rw) \in Seq(GroupType)
             /\ DOMAIN Gather(sofar, rw) = DOMAIN sofar \cup {g}
             /\ Gather(sofar, rw)[g] = AddRow(sofar[g], rw)
             /\ sofar[g].project = rw.project
             /\ \A h \in DOMAIN sofar : h # g =>
                  Gather(sofar, rw)[h] = sofar[h] /\ sofar[h].project # rw.project
             /\ g \in DOMAIN sofar
  <2>1. g \in DOMAIN sofar /\ sofar[g].project = rw.project /\ sofar[g] \in GroupType
    BY DEF Place
  <2>2. \A h \in DOMAIN sofar : h \in Place(sofar, rw) <=> h = g
    BY <2>1 DEF Place
  <2>3. Gather(sofar, rw) = [n \in DOMAIN sofar |->
          IF n \in Place(sofar, rw) THEN AddRow(sofar[n], rw) ELSE sofar[n]]
    BY <1>3 DEF Gather
  <2>4. AddRow(sofar[g], rw) \in GroupType
    BY <2>1, AddRowIs
  <2> HIDE DEF AddRow
  <2>5. \A h \in DOMAIN sofar : Gather(sofar, rw)[h] =
          IF h = g THEN AddRow(sofar[g], rw) ELSE sofar[h]
    BY <2>2, <2>3
  <2>6. \A h \in 1..l : Gather(sofar, rw)[h] \in GroupType
    BY <1>1, <2>4, <2>5
  <2>7. Gather(sofar, rw) \in [1..l -> GroupType]
    BY <1>1, <2>3, <2>6
  <2>8. Gather(sofar, rw) \in Seq(GroupType)
    BY <2>7
  <2>9. QED
    BY <1>1, <2>1, <2>2, <2>3, <2>5, <2>8 DEF Place
<1>4. QED
  <2>1. CASE Place(sofar, rw) = {}
    BY <1>2, <2>1
  <2>2. CASE Place(sofar, rw) # {}
    <3>1. PICK g : g \in Place(sofar, rw)
      BY <2>2
    <3>2. QED
      BY <1>1, <1>3, <3>1
  <2>3. QED
    BY <2>1, <2>2

(* A row is new to its group, and its group has it then. *)
LEMMA AddRowGood ==
  ASSUME answer \in Seq(RowType), AnswerOK, NEW m \in Nat, m + 1 <= Len(answer),
         NEW base \in GroupType, GroupOK(answer, base, m),
         base.project = answer[m + 1].project
  PROVE  GroupOK(answer, AddRow(base, answer[m + 1]), m + 1)
<1> DEFINE rw == answer[m + 1]
           new == AddRow(base, rw)
           old == base.keys
<1>1. m + 1 \in DOMAIN answer /\ rw \in RowType
  OBVIOUS
<1>2. /\ new.project = base.project
      /\ new.count = base.count + rw.count /\ new.cost = base.cost + rw.cost
      /\ new.keys = IF rw.key = NONE THEN old ELSE Append(old, rw)
  BY <1>1, AddRowIs
<1>3. /\ old \in Seq(RowType) /\ base.count \in Nat /\ base.cost \in Nat
      /\ rw.count \in Nat /\ rw.cost \in Nat
  BY <1>1 DEF GroupType, RowType
<1>4. /\ base.count = SumFunction(Counts(old)) /\ base.cost = SumFunction(CostsOf(old))
      /\ \A i, j \in DOMAIN old : old[i] = old[j] => i = j
      /\ \A i \in DOMAIN old :
           \E n \in 1..m : /\ answer[n] = old[i]
                           /\ answer[n].project = base.project
                           /\ answer[n].key # NONE
      /\ \A n \in 1..m : answer[n].project = base.project /\ answer[n].key # NONE
           => \E i \in DOMAIN old : old[i] = answer[n]
  BY DEF GroupOK
<1>5. \A n \in 1..m + 1 : n \in 1..m \/ n = m + 1
  OBVIOUS
<1>6. 1..m \subseteq 1..m + 1 /\ m + 1 \in 1..m + 1
  OBVIOUS
<1> HIDE DEF new, old
<1>7. CASE rw.key = NONE
  <2>1. rw.count = 0 /\ rw.cost = 0
    BY <1>1, <1>7 DEF AnswerOK
  <2>2. new.keys = old /\ new.count = base.count /\ new.cost = base.cost
    BY <1>2, <1>3, <1>7, <2>1
  <2>3. \A i \in DOMAIN old :
          \E n \in 1..m + 1 : /\ answer[n] = old[i]
                              /\ answer[n].project = base.project
                              /\ answer[n].key # NONE
    BY <1>4, <1>6
  <2>4. \A n \in 1..m + 1 : answer[n].project = base.project /\ answer[n].key # NONE
           => \E i \in DOMAIN old : old[i] = answer[n]
    BY <1>4, <1>5, <1>7
  <2>5. new.count = SumFunction(Counts(new.keys)) /\ new.cost = SumFunction(CostsOf(new.keys))
    BY <1>4, <2>2
  <2>6. \A i, j \in DOMAIN new.keys : new.keys[i] = new.keys[j] => i = j
    BY <1>4, <2>2
  <2>7. GroupOK(answer, new, m + 1)
    <3>1. \A i \in DOMAIN new.keys :
            \E n \in 1..m + 1 : /\ answer[n] = new.keys[i]
                                /\ answer[n].project = new.project
                                /\ answer[n].key # NONE
      BY <1>2, <2>2, <2>3
    <3>2. \A n \in 1..m + 1 : answer[n].project = new.project /\ answer[n].key # NONE
            => \E i \in DOMAIN new.keys : new.keys[i] = answer[n]
      BY <1>2, <2>2, <2>4
    <3>3. QED
      BY <2>5, <2>6, <3>1, <3>2 DEF GroupOK
  <2>8. QED
    BY <2>7 DEF new
<1>8. CASE rw.key # NONE
  <2>1. new.keys = Append(old, rw)
    BY <1>2, <1>8
  <2> DEFINE longer == Append(old, rw)
  <2>2. PICK l \in Nat : l = Len(old)
    BY <1>3
  <2>3. /\ longer \in Seq(RowType) /\ Len(longer) = l + 1
        /\ DOMAIN old = 1..l /\ DOMAIN longer = 1..l + 1
        /\ \A i \in 1..l : longer[i] = old[i]
        /\ longer[l + 1] = rw
    BY <1>1, <1>3, <2>2, AppendIs
  <2> HIDE DEF rw, longer
  <2>4. \A i \in 1..l : old[i] # rw
    <3> SUFFICES ASSUME NEW i \in 1..l, old[i] = rw PROVE FALSE
      OBVIOUS
    <3>1. PICK n \in 1..m : answer[n] = rw
      BY <1>4, <2>3
    <3>2. n \in DOMAIN answer /\ n # m + 1
      OBVIOUS
    <3>3. answer[m + 1] = rw
      BY DEF rw
    <3>4. n = m + 1
      BY <1>1, <3>1, <3>2, <3>3 DEF AnswerOK
    <3>5. QED
      BY <3>2, <3>4
  <2>5. \A i \in 1..l + 1 : i \in 1..l \/ i = l + 1
    OBVIOUS
  <2>6. \A i, j \in 1..l + 1 : longer[i] = longer[j] => i = j
    <3>1. \A i, j \in 1..l : old[i] = old[j] => i = j
      BY <1>4, <2>3
    <3>2. \A i, j \in 1..l : longer[i] = longer[j] => i = j
      BY <2>3, <3>1
    <3>3. \A i \in 1..l : longer[i] # longer[l + 1]
      BY <2>3, <2>4
    <3>4. QED
      BY <2>5, <3>2, <3>3
  <2>7. \A i \in 1..l + 1 :
          \E n \in 1..m + 1 : /\ answer[n] = longer[i]
                              /\ answer[n].project = base.project
                              /\ answer[n].key # NONE
    <3>1. \A i \in 1..l :
            \E n \in 1..m + 1 : /\ answer[n] = longer[i]
                                /\ answer[n].project = base.project
                                /\ answer[n].key # NONE
      BY <1>4, <1>6, <2>3
    <3>2. /\ answer[m + 1] = longer[l + 1]
          /\ answer[m + 1].project = base.project
          /\ answer[m + 1].key # NONE
      BY <1>8, <2>3 DEF rw
    <3>3. QED
      BY <1>6, <2>5, <3>1, <3>2
  <2>8. \A n \in 1..m + 1 : answer[n].project = base.project /\ answer[n].key # NONE
          => \E i \in 1..l + 1 : longer[i] = answer[n]
    <3>1. 1..l \subseteq 1..l + 1 /\ l + 1 \in 1..l + 1
      OBVIOUS
    <3>2. \A n \in 1..m : answer[n].project = base.project /\ answer[n].key # NONE
            => \E i \in 1..l : longer[i] = answer[n]
      BY <1>4, <2>3
    <3>3. longer[l + 1] = answer[m + 1]
      BY <2>3 DEF rw
    <3>4. QED
      BY <1>5, <3>1, <3>2, <3>3
  <2>9. /\ Summable(Counts(old)) /\ Summable(CostsOf(old))
        /\ Summable(Counts(longer)) /\ Summable(CostsOf(longer))
        /\ DOMAIN Counts(old) = 1..l /\ DOMAIN CostsOf(old) = 1..l
        /\ DOMAIN Counts(longer) = 1..l + 1 /\ DOMAIN CostsOf(longer) = 1..l + 1
        /\ \A i \in 1..l : /\ Counts(longer)[i] = Counts(old)[i]
                           /\ CostsOf(longer)[i] = CostsOf(old)[i]
        /\ Counts(longer)[l + 1] = rw.count /\ CostsOf(longer)[l + 1] = rw.cost
    <3>1. l + 1 \in 1..l + 1 /\ 1..l \subseteq 1..l + 1
      OBVIOUS
    <3>2. /\ Summable(Counts(old)) /\ Summable(CostsOf(old))
          /\ DOMAIN Counts(old) = 1..l /\ DOMAIN CostsOf(old) = 1..l
          /\ \A i \in 1..l : Counts(old)[i] = old[i].count /\ CostsOf(old)[i] = old[i].cost
      BY <1>3, <2>2, CountsIs
    <3>3. /\ Summable(Counts(longer)) /\ Summable(CostsOf(longer))
          /\ DOMAIN Counts(longer) = 1..l + 1 /\ DOMAIN CostsOf(longer) = 1..l + 1
          /\ \A i \in 1..l + 1 :
               Counts(longer)[i] = longer[i].count /\ CostsOf(longer)[i] = longer[i].cost
      BY <2>3, CountsIs
    <3>4. QED
      BY <2>3, <3>1, <3>2, <3>3
  <2>10. SumFunction(Counts(longer)) = SumFunction(Counts(old)) + rw.count
    <3> DEFINE f == Counts(old)
               h == Counts(longer)
    <3> HIDE DEF f, h
    <3>1. /\ Summable(f) /\ Summable(h) /\ DOMAIN f = 1..l /\ DOMAIN h = 1..l + 1
          /\ \A i \in 1..l : h[i] = f[i]
          /\ h[l + 1] = rw.count
      BY <2>9 DEF f, h
    <3>2. SumFunction(h) = SumFunction(f) + rw.count
      BY <1>3, <3>1, SumAppended DEF rw
    <3>3. QED
      BY <3>2 DEF f, h
  <2>11. SumFunction(CostsOf(longer)) = SumFunction(CostsOf(old)) + rw.cost
    <3> DEFINE f == CostsOf(old)
               h == CostsOf(longer)
    <3> HIDE DEF f, h
    <3>1. /\ Summable(f) /\ Summable(h) /\ DOMAIN f = 1..l /\ DOMAIN h = 1..l + 1
          /\ \A i \in 1..l : h[i] = f[i]
          /\ h[l + 1] = rw.cost
      BY <2>9 DEF f, h
    <3>2. SumFunction(h) = SumFunction(f) + rw.cost
      BY <1>3, <3>1, SumAppended DEF rw
    <3>3. QED
      BY <3>2 DEF f, h
  <2>12. new.keys = longer /\ DOMAIN longer = 1..l + 1
    BY <2>1, <2>3 DEF longer
  <2>13. /\ new.count = SumFunction(Counts(longer))
         /\ new.cost = SumFunction(CostsOf(longer))
    BY <1>2, <1>4, <2>10, <2>11
  <2>14. GroupOK(answer, new, m + 1)
    <3>1. \A i \in DOMAIN new.keys :
            \E n \in 1..m + 1 : /\ answer[n] = new.keys[i]
                                /\ answer[n].project = new.project
                                /\ answer[n].key # NONE
      BY <1>2, <2>7, <2>12
    <3>2. \A n \in 1..m + 1 : answer[n].project = new.project /\ answer[n].key # NONE
            => \E i \in DOMAIN new.keys : new.keys[i] = answer[n]
      BY <1>2, <2>8, <2>12
    <3>3. \A i, j \in DOMAIN new.keys : new.keys[i] = new.keys[j] => i = j
      BY <2>6, <2>12
    <3>4. new.count = SumFunction(Counts(new.keys)) /\ new.cost = SumFunction(CostsOf(new.keys))
      BY <2>12, <2>13
    <3>5. QED
      BY <3>1, <3>2, <3>3, <3>4 DEF GroupOK
  <2>15. QED
    BY <2>14 DEF new, rw
<1>9. QED
  BY <1>7, <1>8

(* The row of another project leaves a group right. *)
LEMMA OtherGood ==
  ASSUME NEW rows, NEW m \in Nat, NEW other, GroupOK(rows, other, m),
         other.project # rows[m + 1].project
  PROVE  GroupOK(rows, other, m + 1)
<1>1. \A n \in 1..m + 1 : n \in 1..m \/ n = m + 1
  OBVIOUS
<1>2. 1..m \subseteq 1..m + 1
  OBVIOUS
<1>3. \A i \in DOMAIN other.keys :
        \E n \in 1..m + 1 : /\ rows[n] = other.keys[i]
                            /\ rows[n].project = other.project
                            /\ rows[n].key # NONE
  BY <1>2 DEF GroupOK
<1>4. \A n \in 1..m + 1 : rows[n].project = other.project /\ rows[n].key # NONE
        => \E i \in DOMAIN other.keys : other.keys[i] = rows[n]
  BY <1>1 DEF GroupOK
<1>5. QED
  BY <1>3, <1>4 DEF GroupOK

(* A group without rows is right before its first one. *)
LEMMA NewGood ==
  ASSUME NEW rows, NEW m \in Nat, NEW j, \A n \in 1..m : rows[n].project # j
  PROVE  GroupOK(rows, NewGroup(j), m)
<1> DEFINE none == << >>
<1>1. none \in Seq(RowType) /\ DOMAIN none = {} /\ Len(none) = 0
  OBVIOUS
<1>2. NewGroup(j).keys = none /\ NewGroup(j).count = 0 /\ NewGroup(j).cost = 0
        /\ NewGroup(j).project = j
  BY DEF NewGroup
<1> HIDE DEF none
<1>3. /\ Summable(Counts(none)) /\ Summable(CostsOf(none))
      /\ DOMAIN Counts(none) = 1..0 /\ DOMAIN CostsOf(none) = 1..0
  BY <1>1, CountsIs
<1>4. SumFunction(Counts(none)) = 0 /\ SumFunction(CostsOf(none)) = 0
  <2>1. 1..0 = {}
    OBVIOUS
  <2>2. QED
    BY <1>3, <2>1, SumNat
<1>5. QED
  BY <1>1, <1>2, <1>4 DEF GroupOK

(* The counts that were put together so far are those of the groups. *)
LEMMA GatherGood ==
  ASSUME answer \in Seq(RowType), AnswerOK, NEW m \in Nat, m + 1 <= Len(answer),
         NEW sofar \in Seq(GroupType), GatheredOK(answer, sofar, m)
  PROVE  /\ Gather(sofar, answer[m + 1]) \in Seq(GroupType)
         /\ GatheredOK(answer, Gather(sofar, answer[m + 1]), m + 1)
<1> DEFINE rw == answer[m + 1]
           next == Gather(sofar, rw)
<1>1. m + 1 \in DOMAIN answer /\ rw \in RowType
  OBVIOUS
<1>2. /\ \A g, h \in DOMAIN sofar : sofar[g].project = sofar[h].project => g = h
      /\ \A g \in DOMAIN sofar :
           /\ GroupOK(answer, sofar[g], m)
           /\ \E n \in 1..m : answer[n].project = sofar[g].project
      /\ \A n \in 1..m : \E g \in DOMAIN sofar : sofar[g].project = answer[n].project
  BY Zenon DEF GatheredOK
<1>3. PICK g \in 1..Len(sofar) + 1, base \in GroupType :
        /\ next \in Seq(GroupType)
        /\ DOMAIN next = DOMAIN sofar \cup {g}
        /\ next[g] = AddRow(base, rw)
        /\ base.project = rw.project
        /\ \A h \in DOMAIN sofar : h # g =>
             next[h] = sofar[h] /\ sofar[h].project # rw.project
        /\ \/ g \in DOMAIN sofar /\ base = sofar[g]
           \/ g \notin DOMAIN sofar /\ base = NewGroup(rw.project)
  BY <1>1, <1>2, GatherIs
<1> HIDE DEF next
<1>4. GroupOK(answer, base, m)
  <2>1. CASE g \in DOMAIN sofar /\ base = sofar[g]
    BY <1>2, <2>1
  <2>2. CASE g \notin DOMAIN sofar /\ base = NewGroup(rw.project)
    <3>1. \A n \in 1..m : answer[n].project # rw.project
      BY <1>2, <1>3, <2>2
    <3>2. QED
      BY <2>2, <3>1, NewGood
  <2>3. QED
    BY <1>3, <2>1, <2>2
<1>5. GroupOK(answer, next[g], m + 1)
  BY <1>3, <1>4, AddRowGood
<1>6. /\ next[g].project = rw.project
      /\ next[g].count = base.count + rw.count /\ next[g].cost = base.cost + rw.cost
      /\ base.count \in Nat /\ base.cost \in Nat /\ rw.count \in Nat /\ rw.cost \in Nat
  <2>1. /\ AddRow(base, rw).project = base.project
        /\ AddRow(base, rw).count = base.count + rw.count
        /\ AddRow(base, rw).cost = base.cost + rw.cost
    BY <1>1, <1>3, AddRowIs
  <2>2. base.count \in Nat /\ base.cost \in Nat
    BY DEF GroupType
  <2>3. rw.count \in Nat /\ rw.cost \in Nat
    BY <1>1 DEF RowType
  <2>4. QED
    BY <1>3, <2>1, <2>2, <2>3
<1>7. \A h \in DOMAIN next : h # g => h \in DOMAIN sofar
  BY <1>3
<1>8. 1..m \subseteq 1..m + 1 /\ m + 1 \in 1..m + 1
        /\ \A n \in 1..m + 1 : n \in 1..m \/ n = m + 1
  OBVIOUS
<1> HIDE DEF rw
<1>9. \A h, k \in DOMAIN next : next[h].project = next[k].project => h = k
  BY <1>2, <1>3, <1>6, <1>7
<1>10. ASSUME NEW h \in DOMAIN next
       PROVE  /\ GroupOK(answer, next[h], m + 1)
              /\ \E n \in 1..m + 1 : answer[n].project = next[h].project
  <2>1. CASE h = g
    BY <1>5, <1>6, <1>8, <2>1 DEF rw
  <2>2. CASE h # g
    <3>1. /\ next[h] = sofar[h] /\ sofar[h].project # rw.project
          /\ GroupOK(answer, sofar[h], m)
          /\ \E n \in 1..m : answer[n].project = sofar[h].project
      BY <1>2, <1>3, <1>7, <2>2
    <3>2. GroupOK(answer, sofar[h], m + 1)
      BY <3>1, OtherGood DEF rw
    <3>3. QED
      BY <1>8, <3>1, <3>2
  <2>3. QED
    BY <2>1, <2>2
<1>11. ASSUME NEW n \in 1..m + 1
       PROVE  \E h \in DOMAIN next : next[h].project = answer[n].project
  <2>1. CASE n = m + 1
    BY <1>3, <1>6, <2>1 DEF rw
  <2>2. CASE n \in 1..m
    <3>1. PICK h \in DOMAIN sofar : sofar[h].project = answer[n].project
      BY <1>2, <2>2
    <3>2. h \in DOMAIN next /\ next[h].project = sofar[h].project
      BY <1>3, <1>6, <3>1
    <3>3. QED
      BY <3>1, <3>2
  <2>3. QED
    BY <1>8, <2>1, <2>2
<1>12. PICK l \in Nat, k \in Nat :
         /\ DOMAIN sofar = 1..l /\ l = Len(sofar) /\ DOMAIN next = 1..k /\ k = Len(next)
  BY <1>3
<1>13. /\ Summable(Counts(sofar)) /\ Summable(CostsOf(sofar))
       /\ Summable(Counts(next)) /\ Summable(CostsOf(next))
       /\ DOMAIN Counts(sofar) = DOMAIN sofar /\ DOMAIN CostsOf(sofar) = DOMAIN sofar
       /\ DOMAIN Counts(next) = DOMAIN next /\ DOMAIN CostsOf(next) = DOMAIN next
       /\ \A h \in DOMAIN sofar :
            Counts(sofar)[h] = sofar[h].count /\ CostsOf(sofar)[h] = sofar[h].cost
       /\ \A h \in DOMAIN next :
            Counts(next)[h] = next[h].count /\ CostsOf(next)[h] = next[h].cost
  BY <1>3, <1>12, CountsIs
<1>14. DOMAIN sofar \ {g} = DOMAIN next \ {g}
  BY <1>3
<1>15. ASSUME NEW f, Summable(f), NEW h, Summable(h), DOMAIN f = DOMAIN sofar,
              DOMAIN h = DOMAIN next, \A x \in DOMAIN sofar \ {g} : f[x] = h[x],
              NEW was \in Nat, NEW more \in Nat, h[g] = was + more,
              g \in DOMAIN sofar => f[g] = was,
              g \notin DOMAIN sofar => was = 0
       PROVE  SumFunction(h) = SumFunction(f) + more
  <2>1. PICK rest \in Nat :
          /\ SumFunction(f) = IF g \in DOMAIN f THEN f[g] + rest ELSE rest
          /\ SumFunction(h) = IF g \in DOMAIN h THEN h[g] + rest ELSE rest
    <3>1. DOMAIN f \ {g} = DOMAIN h \ {g}
      BY <1>14, <1>15
    <3>2. \A x \in DOMAIN f \ {g} : f[x] = h[x]
      BY <1>15
    <3>3. QED
      BY <1>15, <3>1, <3>2, SumSplit
  <2>2. g \in DOMAIN h
    BY <1>3, <1>15
  <2>3. CASE g \in DOMAIN sofar
    BY <1>15, <2>1, <2>2, <2>3
  <2>4. CASE g \notin DOMAIN sofar
    BY <1>15, <2>1, <2>2, <2>4
  <2>5. QED
    BY <2>3, <2>4
<1>16. g \notin DOMAIN sofar => base.count = 0 /\ base.cost = 0
  BY <1>3 DEF NewGroup
<1>17. SumFunction(Counts(next)) = SumFunction(Counts(sofar)) + rw.count
  <2> DEFINE f == Counts(sofar)
             h == Counts(next)
  <2>1. /\ Summable(f) /\ Summable(h)
        /\ DOMAIN f = DOMAIN sofar /\ DOMAIN h = DOMAIN next
    BY <1>13
  <2>2. \A x \in DOMAIN sofar \ {g} : f[x] = h[x]
    BY <1>3, <1>13
  <2>3. /\ h[g] = base.count + rw.count
        /\ g \in DOMAIN sofar => f[g] = base.count
    BY <1>3, <1>6, <1>13
  <2> HIDE DEF f, h
  <2>4. SumFunction(h) = SumFunction(f) + rw.count
    BY <1>6, <1>15, <1>16, <2>1, <2>2, <2>3
  <2>5. QED
    BY <2>4 DEF f, h
<1>18. SumFunction(CostsOf(next)) = SumFunction(CostsOf(sofar)) + rw.cost
  <2> DEFINE f == CostsOf(sofar)
             h == CostsOf(next)
  <2>1. /\ Summable(f) /\ Summable(h)
        /\ DOMAIN f = DOMAIN sofar /\ DOMAIN h = DOMAIN next
    BY <1>13
  <2>2. \A x \in DOMAIN sofar \ {g} : f[x] = h[x]
    BY <1>3, <1>13
  <2>3. /\ h[g] = base.cost + rw.cost
        /\ g \in DOMAIN sofar => f[g] = base.cost
    BY <1>3, <1>6, <1>13
  <2> HIDE DEF f, h
  <2>4. SumFunction(h) = SumFunction(f) + rw.cost
    BY <1>6, <1>15, <1>16, <2>1, <2>2, <2>3
  <2>5. QED
    BY <2>4 DEF f, h
<1> DEFINE CountsTo(u) == [n \in 1..u |-> answer[n].count]
           CostsTo(u) == [n \in 1..u |-> answer[n].cost]
<1>19. \A n \in 1..m + 1 : answer[n].count \in Nat /\ answer[n].cost \in Nat
  <2>1. \A n \in 1..m + 1 : answer[n] \in RowType
    OBVIOUS
  <2>2. QED
    BY <2>1 DEF RowType
<1>20. /\ Summable(CountsTo(m)) /\ Summable(CountsTo(m + 1))
       /\ Summable(CostsTo(m)) /\ Summable(CostsTo(m + 1))
  <2>1. IsFiniteSet(1..m) /\ IsFiniteSet(1..m + 1)
    BY FS_Interval
  <2>2. QED
    BY <1>8, <1>19, <2>1 DEF Summable
<1>21. SumFunction(CountsTo(m + 1)) = SumFunction(CountsTo(m)) + rw.count
  <2> DEFINE f == CountsTo(m)
             h == CountsTo(m + 1)
  <2>1. /\ DOMAIN f = 1..m /\ DOMAIN h = 1..m + 1 /\ \A n \in 1..m : h[n] = f[n]
        /\ h[m + 1] = rw.count
    BY <1>8 DEF rw
  <2> HIDE DEF f, h
  <2>2. Summable(f) /\ Summable(h)
    BY <1>20 DEF f, h
  <2>3. SumFunction(h) = SumFunction(f) + rw.count
    BY <1>6, <2>1, <2>2, SumAppended
  <2>4. QED
    BY <2>3 DEF f, h
<1>22. SumFunction(CostsTo(m + 1)) = SumFunction(CostsTo(m)) + rw.cost
  <2> DEFINE f == CostsTo(m)
             h == CostsTo(m + 1)
  <2>1. /\ DOMAIN f = 1..m /\ DOMAIN h = 1..m + 1 /\ \A n \in 1..m : h[n] = f[n]
        /\ h[m + 1] = rw.cost
    BY <1>8 DEF rw
  <2> HIDE DEF f, h
  <2>2. Summable(f) /\ Summable(h)
    BY <1>20 DEF f, h
  <2>3. SumFunction(h) = SumFunction(f) + rw.cost
    BY <1>6, <2>1, <2>2, SumAppended
  <2>4. QED
    BY <2>3 DEF f, h
<1>23. /\ SumFunction(CountsTo(m)) = SumFunction(Counts(sofar))
       /\ SumFunction(CostsTo(m)) = SumFunction(CostsOf(sofar))
  BY Zenon DEF GatheredOK
<1> HIDE DEF CountsTo, CostsTo
<1>24. /\ SumFunction(CountsTo(m + 1)) = SumFunction(Counts(next))
       /\ SumFunction(CostsTo(m + 1)) = SumFunction(CostsOf(next))
  BY <1>17, <1>18, <1>21, <1>22, <1>23
<1>25. GatheredOK(answer, next, m + 1)
  BY <1>9, <1>10, <1>11, <1>24, Zenon DEF GatheredOK, CountsTo, CostsTo
<1>26. QED
  BY <1>3, <1>25 DEF next, rw

SheetType == [page : Nat, y : Int, lines : Seq(LineType)]

-----------------------------------------------------------------------------
(* The printing.                                                           *)

(* A line is put at the end of the lines. *)
LEMMA PutIs ==
  ASSUME NEW s \in SheetType, NEW what \in Kinds, NEW of \in Figures,
         NEW drop \in Nat, NEW height \in Nat, NEW t, t = PutLine(s, what, of, drop, height)
  PROVE  /\ t \in SheetType
         /\ t.page = s.page /\ t.y = s.y - height
         /\ Len(s.lines) \in Nat /\ DOMAIN s.lines = 1..Len(s.lines)
         /\ DOMAIN t.lines = 1..Len(s.lines) + 1
         /\ Len(t.lines) = Len(s.lines) + 1
         /\ \A n \in 1..Len(s.lines) : t.lines[n] = s.lines[n]
         /\ t.lines[Len(s.lines) + 1].page = s.page
         /\ t.lines[Len(s.lines) + 1].y = s.y - drop
         /\ t.lines[Len(s.lines) + 1].what = what
         /\ t.lines[Len(s.lines) + 1].of = of
<1> DEFINE line == [page |-> s.page, y |-> s.y - drop, what |-> what, of |-> of]
           longer == Append(s.lines, line)
<1>1. s.page \in Nat /\ s.y \in Int /\ s.lines \in Seq(LineType)
  BY DEF SheetType
<1>2. s.y - drop \in Int /\ s.y - height \in Int
  BY <1>1
<1>3. line \in LineType /\ line.page = s.page /\ line.y = s.y - drop
      /\ line.what = what /\ line.of = of
  BY <1>1, <1>2 DEF LineType
<1> HIDE DEF line
<1>4. /\ longer \in Seq(LineType)
      /\ Len(s.lines) \in Nat /\ DOMAIN s.lines = 1..Len(s.lines)
      /\ Len(longer) = Len(s.lines) + 1
      /\ DOMAIN longer = 1..Len(s.lines) + 1
      /\ \A n \in 1..Len(s.lines) : longer[n] = s.lines[n]
      /\ longer[Len(s.lines) + 1] = line
  BY <1>1, <1>3, AppendIs
<1> HIDE DEF longer
<1>5. t = [page |-> s.page, y |-> s.y - height, lines |-> longer]
  BY DEF PutLine, longer, line
<1>6. t.page = s.page /\ t.y = s.y - height /\ t.lines = longer /\ t \in SheetType
  BY <1>1, <1>2, <1>4, <1>5 DEF SheetType
<1>7. QED
  BY <1>3, <1>4, <1>6

(* A sheet with one more line is a sheet. *)
LEMMA PutSheet ==
  ASSUME NEW s \in SheetType, NEW what \in Kinds, NEW of \in Figures,
         NEW drop \in Nat, NEW height \in Nat
  PROVE  PutLine(s, what, of, drop, height) \in SheetType
<1>1. PICK t : t = PutLine(s, what, of, drop, height)
  OBVIOUS
<1>2. t \in SheetType
  BY <1>1, PutIs
<1>3. QED
  BY <1>1, <1>2

(* Which lines are of a kind when a line is put. *)
LEMMA LinesPut ==
  ASSUME NEW s \in SheetType, NEW what \in Kinds, NEW of \in Figures,
         NEW drop \in Nat, NEW height \in Nat, NEW t, t = PutLine(s, what, of, drop, height),
         NEW kind
  PROVE  /\ Len(s.lines) + 1 \notin LinesOf(s, kind)
         /\ LinesOf(t, kind) = IF kind = what THEN LinesOf(s, kind) \cup {Len(s.lines) + 1}
                               ELSE LinesOf(s, kind)
         /\ \A n \in LinesOf(s, kind) : t.lines[n] = s.lines[n] /\ n \in 1..Len(s.lines)
<1>1. PICK l \in Nat : l = Len(s.lines)
  BY PutIs
<1>2. DOMAIN s.lines = 1..l /\ DOMAIN t.lines = 1..l + 1
  BY <1>1, PutIs
<1>3. \A n \in 1..l : t.lines[n] = s.lines[n]
  BY <1>1, PutIs
<1>4. t.lines[l + 1].what = what
  BY <1>1, PutIs
<1>5. \A n \in 1..l + 1 : n \in 1..l \/ n = l + 1
  OBVIOUS
<1>6. l + 1 \notin 1..l /\ l + 1 \in 1..l + 1 /\ 1..l \subseteq 1..l + 1
  OBVIOUS
<1>7. QED
  BY <1>1, <1>2, <1>3, <1>4, <1>5, <1>6 DEF LinesOf

(* A line of another kind leaves the lines of a kind. *)
LEMMA LinesStay ==
  ASSUME NEW s \in SheetType, NEW what \in Kinds, NEW of \in Figures,
         NEW drop \in Nat, NEW height \in Nat, NEW t, t = PutLine(s, what, of, drop, height),
         NEW kind, kind # what
  PROVE  LinesOf(t, kind) = LinesOf(s, kind) /\ \A n \in LinesOf(s, kind) : t.lines[n] = s.lines[n]
BY LinesPut

(* A line of another kind leaves what the lines of a kind bear. *)
LEMMA BearsOther ==
  ASSUME NEW s \in SheetType, NEW what \in Kinds, NEW of \in Figures,
         NEW drop \in Nat, NEW height \in Nat, NEW t, t = PutLine(s, what, of, drop, height),
         NEW kind, kind # what, NEW figures, Bears(s, kind, figures)
  PROVE  Bears(t, kind, figures)
<1>1. LinesOf(t, kind) = LinesOf(s, kind) /\ \A n \in LinesOf(s, kind) : t.lines[n] = s.lines[n]
  BY LinesStay
<1>2. QED
  BY <1>1 DEF Bears

(* A new figure is borne once. *)
LEMMA BearsMore ==
  ASSUME NEW s \in SheetType, NEW what \in Kinds, NEW of \in Figures,
         NEW drop \in Nat, NEW height \in Nat, NEW t, t = PutLine(s, what, of, drop, height),
         NEW figures, Bears(s, what, figures), of \notin figures
  PROVE  Bears(t, what, figures \cup {of})
<1>1. PICK z : /\ z = Len(s.lines) + 1
               /\ LinesOf(t, what) = LinesOf(s, what) \cup {z}
               /\ z \notin LinesOf(s, what)
               /\ \A n \in LinesOf(s, what) : t.lines[n] = s.lines[n]
               /\ t.lines[z].of = of
  BY LinesPut, PutIs
<1>2. QED
  BY <1>1 DEF Bears

(* A title is there for the lines that follow. *)
LEMMA TitleStays ==
  ASSUME NEW s \in SheetType, NEW what \in Kinds, NEW of \in Figures,
         NEW drop \in Nat, NEW height \in Nat, NEW t, t = PutLine(s, what, of, drop, height),
         NEW n \in Nat, NEW page, NEW j, TitleOn(s, n, page, j)
  PROVE  TitleOn(t, n, page, j) /\ TitleOn(t, Len(t.lines), page, j)
<1>1. PICK m \in LinesOf(s, "title") :
        m <= n /\ s.lines[m].page = page /\ s.lines[m].of.project = j
  BY DEF TitleOn
<1>2. m \in LinesOf(t, "title") /\ t.lines[m] = s.lines[m] /\ m \in 1..Len(s.lines)
  BY LinesPut
<1>3. Len(t.lines) = Len(s.lines) + 1 /\ Len(s.lines) \in Nat
  BY PutIs
<1>4. m <= Len(t.lines)
  BY <1>2, <1>3
<1>5. QED
  BY <1>1, <1>2, <1>4 DEF TitleOn

(* A title that is put is on the page. *)
LEMMA TitlePut ==
  ASSUME NEW s \in SheetType, NEW j \in Nat, NEW t, t = Title(s, j)
  PROVE  TitleOn(t, Len(t.lines), t.page, j)
<1> DEFINE of == [project |-> j]
<1>1. of \in Figures /\ of.project = j
  BY DEF Figures
<1> HIDE DEF of
<1>2. t = PutLine(s, "title", of, 0, 21)
  BY DEF Title, of
<1>3. "title" \in Kinds /\ 0 \in Nat /\ 21 \in Nat
  BY DEF Kinds
<1> DEFINE z == Len(s.lines) + 1
<1>4. Len(t.lines) = z /\ Len(s.lines) \in Nat /\ t.page = s.page
  BY <1>1, <1>2, <1>3, PutIs
<1>5. t.lines[z].page = s.page /\ t.lines[z].of = of
  BY <1>1, <1>2, <1>3, PutIs
<1>6. z \in LinesOf(t, "title")
  BY <1>1, <1>2, <1>3, LinesPut
<1>7. /\ z <= Len(t.lines)
      /\ t.lines[z].page = t.page
      /\ t.lines[z].of.project = j
  BY <1>1, <1>4, <1>5
<1> HIDE DEF z
<1>8. QED
  BY <1>6, <1>7 DEF TitleOn

(* Where there is room, a line leaves the pages right. *)
LEMMA PagesPut ==
  ASSUME NEW s \in SheetType, NEW what \in {"title", "key", "subtotal", "total"},
         NEW of \in Figures, NEW drop \in Nat, NEW height \in Nat,
         NEW t, t = PutLine(s, what, of, drop, height),
         PagesOK(s), Free(s), s.y >= 52 + drop,
         what # "total" => TitleOn(t, Len(t.lines), t.page, of.project)
  PROVE  /\ PagesOK(t)
         /\ height >= drop + 16 => Below(t)
<1>1. what \in Kinds
  BY DEF Kinds
<1>2. s.page \in Nat /\ s.y \in Int /\ s.lines \in Seq(LineType)
  BY DEF SheetType
<1>3. PICK l \in Nat : l = Len(s.lines)
  BY <1>1, PutIs
<1>4. DOMAIN s.lines = 1..l /\ DOMAIN t.lines = 1..l + 1 /\ Len(t.lines) = l + 1
  BY <1>1, <1>3, PutIs
<1>5. \A n \in 1..l : t.lines[n] = s.lines[n]
  BY <1>1, <1>3, PutIs
<1>6. t.lines[l + 1].page = s.page /\ t.lines[l + 1].y = s.y - drop
  BY <1>1, <1>3, PutIs
<1>7. t.lines[l + 1].what = what /\ t.lines[l + 1].of = of
  BY <1>1, <1>3, PutIs
<1>8. t.page = s.page /\ t.y = s.y - height
  BY <1>1, PutIs
<1>9. /\ l = Len(s.lines) /\ Len(t.lines) = l + 1
      /\ DOMAIN s.lines = 1..l /\ DOMAIN t.lines = 1..l + 1
      /\ \A n \in 1..l : t.lines[n] = s.lines[n]
      /\ t.lines[l + 1].page = s.page
      /\ t.lines[l + 1].y = s.y - drop
      /\ t.lines[l + 1].what = what
      /\ t.lines[l + 1].of = of
      /\ t.page = s.page /\ t.y = s.y - height
  BY <1>3, <1>4, <1>5, <1>6, <1>7, <1>8
<1>10. ASSUME NEW n \in DOMAIN t.lines
       PROVE  /\ t.lines[n].what \in {"title", "key", "subtotal", "total"}
              /\ t.lines[n].y >= 52
              /\ n > 1 => Apart(t.lines[n - 1], t.lines[n])
              /\ t.lines[n].what # "total" => TitleOn(t, n, t.lines[n].page, t.lines[n].of.project)
  <2>1. CASE n \in 1..l
    <3>1. t.lines[n] = s.lines[n]
      BY <1>9, <2>1
    <3>2. n > 1 => n - 1 \in 1..l /\ t.lines[n - 1] = s.lines[n - 1]
      BY <1>9, <2>1
    <3>3. /\ s.lines[n].what \in {"title", "key", "subtotal", "total"}
          /\ s.lines[n].y >= 52
          /\ n > 1 => Apart(s.lines[n - 1], s.lines[n])
          /\ s.lines[n].what # "total" => TitleOn(s, n, s.lines[n].page, s.lines[n].of.project)
      BY <1>9, <2>1 DEF PagesOK
    <3>4. n \in Nat
      BY <2>1
    <3>5. s.lines[n].what # "total" => TitleOn(t, n, s.lines[n].page, s.lines[n].of.project)
      BY <1>1, <3>3, <3>4, TitleStays
    <3>6. QED
      BY <3>1, <3>2, <3>3, <3>5
  <2>2. CASE n = l + 1
    <3>1. n > 1 => l \in 1..l /\ n - 1 = l /\ t.lines[l] = s.lines[l] /\ s.lines # << >>
      BY <1>2, <1>9, <2>2
    <3>2. n > 1 => Apart(s.lines[l], [page |-> s.page, y |-> s.y])
      BY <1>9, <3>1 DEF Free
    <3>3. n > 1 => s.lines[l].page \in Nat /\ s.lines[l].y \in Int
      <4>1. n > 1 => s.lines[l] \in LineType
        BY <1>2, <1>9, <3>1
      <4>2. QED
        BY <4>1 DEF LineType
    <3>4. n > 1 => Apart(s.lines[l], t.lines[l + 1])
      <4>1. t.lines[l + 1].page = s.page /\ t.lines[l + 1].y = s.y - drop
        BY <1>9
      <4> SUFFICES ASSUME n > 1 PROVE Apart(s.lines[l], t.lines[l + 1])
        OBVIOUS
      <4>2. \/ s.page = s.lines[l].page + 1
            \/ s.page = s.lines[l].page /\ s.y <= s.lines[l].y - 16
        BY <3>2 DEF Apart
      <4>3. s.y <= s.lines[l].y - 16 => s.y - drop <= s.lines[l].y - 16
        <5>1. s.y \in Int /\ s.lines[l].y \in Int
          BY <1>2, <3>3
        <5>2. QED
          BY <5>1
      <4>4. QED
        BY <4>1, <4>2, <4>3 DEF Apart
    <3>5. n > 1 => Apart(t.lines[n - 1], t.lines[n])
      BY <2>2, <3>1, <3>4
    <3>6. t.lines[n].y >= 52
      BY <1>2, <1>9, <2>2
    <3>7. t.lines[n].what # "total" => TitleOn(t, n, t.lines[n].page, t.lines[n].of.project)
      BY <1>9, <2>2
    <3>8. t.lines[n].what \in {"title", "key", "subtotal", "total"}
      BY <1>9, <2>2
    <3>9. QED
      BY <3>5, <3>6, <3>7, <3>8
  <2>3. QED
    BY <1>9, <2>1, <2>2
<1>11. PagesOK(t)
  BY <1>10 DEF PagesOK
<1>12. height >= drop + 16 => Below(t)
  BY <1>2, <1>9 DEF Below
<1>13. QED
  BY <1>11, <1>12

(* A new page is free, and so is a page with room below its last line.     *)
LEMMA FreeIs ==
  ASSUME NEW s \in SheetType, Below(s)
  PROVE  /\ Free(s)
         /\ \A t \in SheetType : t.lines = s.lines /\ t.page = s.page + 1 => Free(t)
<1>1. s.page \in Nat /\ s.y \in Int /\ s.lines \in Seq(LineType)
  BY DEF SheetType
<1>2. s.lines # << >> => s.lines[Len(s.lines)] \in LineType
  BY <1>1
<1>3. Free(s)
  BY <1>1, <1>2 DEF Free, Below, Apart, LineType
<1>4. ASSUME NEW t \in SheetType, t.lines = s.lines, t.page = s.page + 1
      PROVE  Free(t)
  BY <1>1, <1>2, <1>4 DEF Free, Below, Apart, LineType
<1>5. QED
  BY <1>3, <1>4

(* A new page has its first line at the top and the lines so far. *)
LEMMA NewPageIs ==
  ASSUME NEW s \in SheetType, NEW t, t = NewPage(s)
  PROVE  t \in SheetType /\ t.page = s.page + 1 /\ t.y = 463 /\ t.lines = s.lines
<1>1. s.page \in Nat /\ s.page + 1 \in Nat /\ 463 \in Int /\ s.lines \in Seq(LineType)
  BY DEF SheetType
<1>2. QED
  BY <1>1 DEF NewPage, SheetType

InvoiceInvariant ==
  InvoiceTypeOK /\ AnswerOK /\ GroupsOK /\ CursorOK /\ PrintedOK

(* The types of the groups, the cursor and the sheet. *)
LEMMA StateIs ==
  ASSUME InvoiceTypeOK
  PROVE  /\ sheet \in SheetType
         /\ Len(groups) \in Nat /\ DOMAIN groups = 1..Len(groups)
         /\ \A g \in DOMAIN groups :
              /\ groups[g] \in GroupType /\ groups[g].project \in Nat
              /\ groups[g].count \in Nat /\ groups[g].cost \in Nat
              /\ groups[g].keys \in Seq(RowType)
              /\ Len(groups[g].keys) \in Nat
              /\ DOMAIN groups[g].keys = 1..Len(groups[g].keys)
              /\ groups[g].keys = << >> <=> Len(groups[g].keys) = 0
         /\ current \in 1..Len(groups) + 2
         /\ listed \in Nat \cup {NONE} /\ NONE \notin Nat
<1>1. groups \in Seq(GroupType)
  BY DEF InvoiceTypeOK
<1>2. Len(groups) \in Nat /\ DOMAIN groups = 1..Len(groups)
  BY <1>1
<1>3. ASSUME NEW g \in DOMAIN groups
      PROVE  /\ groups[g] \in GroupType /\ groups[g].project \in Nat
             /\ groups[g].count \in Nat /\ groups[g].cost \in Nat
             /\ groups[g].keys \in Seq(RowType)
             /\ Len(groups[g].keys) \in Nat
             /\ DOMAIN groups[g].keys = 1..Len(groups[g].keys)
             /\ groups[g].keys = << >> <=> Len(groups[g].keys) = 0
  <2>1. groups[g] \in GroupType
    BY <1>1, <1>2
  <2>2. /\ groups[g].project \in Nat
        /\ groups[g].count \in Nat /\ groups[g].cost \in Nat
        /\ groups[g].keys \in Seq(RowType)
    BY <2>1 DEF GroupType
  <2>3. QED
    BY <2>1, <2>2
<1>4. QED
  BY <1>2, <1>3, InvoiceAssumption DEF InvoiceTypeOK, SheetType

(* What is known of each group. *)
LEMMA GroupsAre ==
  ASSUME GroupsOK, NEW g \in DOMAIN groups
  PROVE  /\ \A h \in DOMAIN groups : groups[g].project = groups[h].project => g = h
         /\ GroupOK(answer, groups[g], grouped)
         /\ \E n \in 1..grouped : answer[n].project = groups[g].project
BY Zenon DEF GroupsOK, GatheredOK

(* Where there is usage there are keys: the branch without is never taken. *)
LEMMA UsageHasKeys ==
  ASSUME InvoiceTypeOK, GroupsOK, NEW g \in DOMAIN groups, HasUsage(groups[g])
  PROVE  groups[g].keys # << >>
<1> DEFINE keys == groups[g].keys
<1>1. keys \in Seq(RowType) /\ (keys = << >> => Len(keys) = 0)
  BY StateIs
<1>2. groups[g].count = SumFunction(Counts(keys)) /\ groups[g].cost = SumFunction(CostsOf(keys))
  BY GroupsAre DEF GroupOK
<1> HIDE DEF keys
<1>3. /\ Summable(Counts(keys)) /\ Summable(CostsOf(keys))
      /\ DOMAIN Counts(keys) = 1..Len(keys) /\ DOMAIN CostsOf(keys) = 1..Len(keys)
  BY <1>1, CountsIs
<1>4. 1..0 = {}
  OBVIOUS
<1>5. keys = << >> => SumFunction(Counts(keys)) = 0 /\ SumFunction(CostsOf(keys)) = 0
  BY <1>1, <1>3, <1>4, SumNat
<1>6. QED
  BY <1>2, <1>5 DEF HasUsage, keys

(* Every key that is put together is a row of the answer, of its project. *)
LEMMA KeyIsRow ==
  ASSUME InvoiceTypeOK, GroupsOK,
         NEW g \in DOMAIN groups, NEW i \in DOMAIN groups[g].keys
  PROVE  /\ groups[g].keys[i] \in RowType
         /\ groups[g].keys[i].project = groups[g].project
         /\ \E n \in DOMAIN answer : answer[n] = groups[g].keys[i] /\ n \in 1..grouped
         /\ Printed(groups[g].keys[i]) \in RowType
         /\ Printed(groups[g].keys[i]).project = groups[g].project
         /\ Printed(groups[g].keys[i]).key = groups[g].keys[i].key
<1>1. groups[g].keys[i] \in RowType
  BY StateIs
<1>2. \E n \in 1..grouped : answer[n] = groups[g].keys[i]
                            /\ answer[n].project = groups[g].project
  BY GroupsAre DEF GroupOK
<1>3. 1..grouped \subseteq DOMAIN answer
  BY DEF InvoiceTypeOK
<1>4. QED
  BY <1>1, <1>2, <1>3, PrintedIs

(* A key is on the invoice for one project only, and once. *)
LEMMA KeysDiffer ==
  ASSUME InvoiceTypeOK, AnswerOK, GroupsOK,
         NEW g \in DOMAIN groups, NEW i \in DOMAIN groups[g].keys,
         NEW h \in DOMAIN groups, NEW k \in DOMAIN groups[h].keys,
         Printed(groups[g].keys[i]) = Printed(groups[h].keys[k])
  PROVE  g = h /\ i = k
<1>1. /\ groups[g].project = groups[h].project
      /\ groups[g].keys[i].key = groups[h].keys[k].key
  BY KeyIsRow
<1>2. g = h
  BY <1>1, GroupsAre
<1>3. PICK a \in DOMAIN answer, b \in DOMAIN answer :
        answer[a] = groups[g].keys[i] /\ answer[b] = groups[h].keys[k]
  BY KeyIsRow
<1>4. answer[a].project = answer[b].project /\ answer[a].key = answer[b].key
  BY <1>1, <1>3, KeyIsRow
<1>5. a = b
  BY <1>4 DEF AnswerOK
<1>6. groups[g].keys[i] = groups[g].keys[k]
  BY <1>2, <1>3, <1>5
<1>7. QED
  BY <1>2, <1>6, GroupsAre DEF GroupOK

(* With the title of a project there is room for as much as was looked at. *)
LEMMA TitleRoom ==
  ASSUME NEW s \in SheetType, NEW group \in GroupType, Below(s), PagesOK(s), s.y >= 62,
         NEW there, there = IF StartsNewPage(s, group) THEN NewPage(s) ELSE s,
         NEW t, t = Title(there, group.project)
  PROVE  /\ t \in SheetType
         /\ there \in SheetType /\ there.lines = s.lines
         /\ PagesOK(t) /\ Below(t) /\ t.y >= 84
         /\ GroupHeight(group) <= 380 => t.y >= 99 + 18 * Len(group.keys)
         /\ TitleOn(t, Len(t.lines), t.page, group.project)
<1> DEFINE of == [project |-> group.project]
<1>1. group.project \in Nat /\ of \in Figures /\ of.project = group.project
      /\ Len(group.keys) \in Nat /\ (group.keys = << >> => Len(group.keys) = 0)
  BY DEF Figures, GroupType
<1>2. /\ there \in SheetType /\ there.lines = s.lines
      /\ there.y = IF StartsNewPage(s, group) THEN 463 ELSE s.y
      /\ Free(there)
  <2>1. CASE StartsNewPage(s, group)
    <3>1. there = NewPage(s)
      BY <2>1
    <3>2. there \in SheetType /\ there.lines = s.lines /\ there.y = 463
            /\ there.page = s.page + 1
      BY <3>1, NewPageIs
    <3>3. Free(there)
      BY <3>2, FreeIs
    <3>4. QED
      BY <2>1, <3>2, <3>3
  <2>2. CASE ~StartsNewPage(s, group)
    <3>1. there = s
      BY <2>2
    <3>2. QED
      BY <2>2, <3>1, FreeIs
  <2>3. QED
    BY <2>1, <2>2
<1>3. PagesOK(there)
  BY <1>2 DEF PagesOK, TitleOn, LinesOf
<1>4. there.y >= 110 /\ (GroupHeight(group) <= 380 => there.y >= 120 + 18 * Len(group.keys))
  <2>1. PICK l \in Nat : l = Len(group.keys)
    BY <1>1
  <2>2. GroupHeight(group) >= 44 + 18 * l /\ GroupHeight(group) \in Nat
    BY <1>1, <2>1 DEF GroupHeight
  <2>3. s.y \in Int
    BY DEF SheetType
  <2>4. CASE StartsNewPage(s, group)
    BY <1>2, <2>1, <2>2, <2>4
  <2>5. CASE ~StartsNewPage(s, group)
    BY <1>2, <2>1, <2>2, <2>3, <2>5 DEF StartsNewPage
  <2>6. QED
    BY <2>4, <2>5
<1> HIDE DEF of
<1>5. t = PutLine(there, "title", of, 0, 21)
  BY DEF Title, of
<1>6. "title" \in Kinds /\ 0 \in Nat /\ 21 \in Nat
  BY DEF Kinds
<1>7. t \in SheetType /\ t.y = there.y - 21 /\ t.page = there.page
  BY <1>1, <1>2, <1>5, <1>6, PutIs
<1>8. TitleOn(t, Len(t.lines), t.page, group.project)
  BY <1>1, <1>2, TitlePut
<1>9. there.y >= 52 + 0 /\ 21 >= 0 + 16 /\ there.y \in Int
  BY <1>2, <1>4 DEF SheetType
<1>10. PagesOK(t) /\ Below(t)
  BY <1>1, <1>2, <1>3, <1>5, <1>6, <1>8, <1>9, PagesPut
<1>11. t.y >= 84 /\ (GroupHeight(group) <= 380 => t.y >= 99 + 18 * Len(group.keys))
  BY <1>1, <1>4, <1>7, <1>9
<1>12. QED
  BY <1>2, <1>7, <1>8, <1>10, <1>11

(* The keys that are done are told by KeyDone. *)
LEMMA KeysDoneSame ==
  ASSUME NEW c, NEW l, NEW d, NEW m,
         \A g \in DOMAIN groups : \A i \in DOMAIN groups[g].keys :
           KeyDone(g, i, c, l) <=> KeyDone(g, i, d, m)
  PROVE  KeysDone(c, l) = KeysDone(d, m)
BY DEF KeysDone

(* The keys that are done, from one action to the next.                    *)
LEMMA KeysDoneTitle ==
  ASSUME InvoiceTypeOK, NEW c
  PROVE  KeysDone(c, 0) = KeysDone(c, NONE)
<1>1. ASSUME NEW g \in DOMAIN groups, NEW i \in DOMAIN groups[g].keys
      PROVE  KeyDone(g, i, c, 0) <=> KeyDone(g, i, c, NONE)
  <2>1. i \in 1..Len(groups[g].keys) /\ Len(groups[g].keys) \in Nat
    BY StateIs
  <2>2. ~(i <= 0)
    BY <2>1
  <2>3. QED
    BY <2>2 DEF KeyDone
<1>2. QED
  BY <1>1, KeysDoneSame

(* When a project is left, its keys are done if it has usage. *)
LEMMA KeysDonePassed ==
  ASSUME InvoiceTypeOK, NEW c \in 1..Len(groups) + 1,
         NEW l \in Nat \cup {NONE},
         c \in DOMAIN groups =>
           IF HasUsage(groups[c]) THEN l = Len(groups[c].keys) ELSE l = NONE
  PROVE  /\ KeysDone(c + 1, NONE) = KeysDone(c, l)
         /\ c \notin DOMAIN groups \/ ~HasUsage(groups[c]) =>
              SubtotalsDone(c + 1) = SubtotalsDone(c)
<1>1. ASSUME NEW g \in DOMAIN groups
      PROVE  g < c + 1 <=> g < c \/ g = c
  BY StateIs
<1>2. ASSUME NEW g \in DOMAIN groups, NEW i \in DOMAIN groups[g].keys
      PROVE  KeyDone(g, i, c + 1, NONE) <=> KeyDone(g, i, c, l)
  <2>1. CASE g = c /\ HasUsage(groups[c])
    <3>1. /\ i \in 1..Len(groups[g].keys) /\ Len(groups[g].keys) \in Nat
          /\ g \in Nat /\ NONE \notin Nat
      BY StateIs
    <3>2. i <= l /\ l # NONE
      BY <2>1, <3>1
    <3>3. QED
      BY <1>1, <2>1, <3>2 DEF KeyDone
  <2>2. CASE g = c /\ ~HasUsage(groups[c])
    BY <1>1, <2>2, StateIs DEF KeyDone
  <2>3. CASE g # c
    BY <1>1, <2>3 DEF KeyDone
  <2>4. QED
    BY <2>1, <2>2, <2>3
<1>3. KeysDone(c + 1, NONE) = KeysDone(c, l)
  BY <1>2, KeysDoneSame
<1>4. ASSUME c \notin DOMAIN groups \/ ~HasUsage(groups[c])
      PROVE  SubtotalsDone(c + 1) = SubtotalsDone(c)
  BY <1>1, <1>4 DEF SubtotalsDone
<1>5. QED
  BY <1>3, <1>4

(* The next key of a project is a new one. *)
LEMMA KeysDoneKey ==
  ASSUME InvoiceTypeOK, AnswerOK, GroupsOK, NEW c \in DOMAIN groups, NEW l \in Nat,
         l < Len(groups[c].keys), NEW key, key = Printed(groups[c].keys[l + 1])
  PROVE  /\ key \in RowType
         /\ key \notin KeysDone(c, l)
         /\ KeysDone(c, l + 1) = KeysDone(c, l) \cup {key}
<1>1. /\ Len(groups[c].keys) \in Nat /\ DOMAIN groups[c].keys = 1..Len(groups[c].keys)
      /\ groups[c].keys \in Seq(RowType) /\ c \in Nat /\ NONE \notin Nat
  BY StateIs
<1> DEFINE z == l + 1
<1>2. z \in DOMAIN groups[c].keys /\ z \in Nat /\ z # NONE /\ l # NONE
  BY <1>1
<1>3. key \in RowType
  BY <1>2, KeyIsRow
<1>4. KeyDone(c, z, c, z) /\ ~KeyDone(c, z, c, l)
  BY <1>1, <1>2 DEF KeyDone
<1>5. ASSUME NEW g \in DOMAIN groups, NEW i \in DOMAIN groups[g].keys
      PROVE  KeyDone(g, i, c, z) <=> KeyDone(g, i, c, l) \/ (g = c /\ i = z)
  <2>1. CASE g = c
    <3>1. i \in 1..Len(groups[c].keys)
      BY <1>1, <1>5, <2>1
    <3>2. i <= z <=> i <= l \/ i = z
      BY <1>1, <3>1
    <3>3. QED
      BY <1>2, <2>1, <3>2, <1>1 DEF KeyDone
  <2>2. CASE g # c
    BY <2>2 DEF KeyDone
  <2>3. QED
    BY <2>1, <2>2
<1> HIDE DEF z
<1>6. key = Printed(groups[c].keys[z])
  BY DEF z
<1>7. ASSUME NEW g \in DOMAIN groups, NEW i \in DOMAIN groups[g].keys,
             key = Printed(groups[g].keys[i])
      PROVE  g = c /\ i = z
  BY <1>2, <1>6, <1>7, KeysDiffer
<1>8. key \notin KeysDone(c, l)
  BY <1>4, <1>7 DEF KeysDone
<1>9. KeysDone(c, z) = KeysDone(c, l) \cup {key}
  BY <1>2, <1>3, <1>4, <1>5, <1>6, <1>7 DEF KeysDone
<1>10. QED
  BY <1>3, <1>8, <1>9 DEF z

(* The subtotal of a project is a new one. *)
LEMMA SubtotalsDoneNext ==
  ASSUME InvoiceTypeOK, GroupsOK, NEW c \in DOMAIN groups, HasUsage(groups[c]),
         NEW sum, sum = Printed(Subtotal(groups[c]))
  PROVE  /\ sum \in Figures /\ sum.project = groups[c].project
         /\ sum.count = groups[c].count /\ sum.cost = InCents(groups[c].cost)
         /\ sum \notin SubtotalsDone(c)
         /\ SubtotalsDone(c + 1) = SubtotalsDone(c) \cup {sum}
<1>1. ASSUME NEW g \in DOMAIN groups
      PROVE  g < c + 1 <=> g < c \/ g = c
  BY StateIs
<1>2. ASSUME NEW g \in DOMAIN groups
      PROVE  /\ Printed(Subtotal(groups[g])) \in Figures
             /\ Printed(Subtotal(groups[g])).project = groups[g].project
             /\ Printed(Subtotal(groups[g])).count = groups[g].count
             /\ Printed(Subtotal(groups[g])).cost = InCents(groups[g].cost)
  <2>1. PICK figure : figure = Subtotal(groups[g])
    OBVIOUS
  <2>2. /\ figure \in [project : Nat, count : Nat, cost : Nat]
        /\ figure.project = groups[g].project
        /\ figure.count = groups[g].count /\ figure.cost = groups[g].cost
    BY <2>1, StateIs DEF Subtotal
  <2>3. /\ Printed(figure) \in [project : Nat, count : Nat, cost : Nat]
        /\ Printed(figure).project = figure.project
        /\ Printed(figure).count = figure.count
        /\ Printed(figure).cost = InCents(figure.cost)
    BY <2>2, PrintedIs
  <2>4. Printed(figure) \in Figures
    BY <2>3 DEF Figures
  <2>5. QED
    BY <2>1, <2>2, <2>3, <2>4
<1>3. ASSUME NEW g \in DOMAIN groups, sum = Printed(Subtotal(groups[g]))
      PROVE  g = c
  <2>1. groups[g].project = groups[c].project
    BY <1>2, <1>3
  <2>2. QED
    BY <2>1, GroupsAre
<1>4. ~(c < c)
  BY StateIs
<1>5. sum \notin SubtotalsDone(c)
  BY <1>3, <1>4 DEF SubtotalsDone
<1>6. SubtotalsDone(c + 1) = SubtotalsDone(c) \cup {sum}
  BY <1>1, <1>2 DEF SubtotalsDone
<1>7. QED
  BY <1>2, <1>5, <1>6

(* The total is a figure, and is done at the end. *)
LEMMA TotalsDoneIs ==
  ASSUME InvoiceTypeOK
  PROVE  /\ Printed(Total(answer)) \in Figures
         /\ Printed(Total(answer)).count = SumFunction(Counts(answer))
         /\ Printed(Total(answer)).cost = InCents(SumFunction(CostsOf(answer)))
         /\ \A c \in 1..Len(groups) + 1 : TotalsDone(c) = {}
         /\ TotalsDone(Len(groups) + 2) = {Printed(Total(answer))}
<1>1. answer \in Seq(RowType)
  BY DEF InvoiceTypeOK
<1>2. Summable(Counts(answer)) /\ Summable(CostsOf(answer))
  BY <1>1, CountsIs
<1>3. PICK n \in Nat, c \in Nat :
        n = SumFunction(Counts(answer)) /\ c = SumFunction(CostsOf(answer))
  BY <1>2, SumNat
<1>4. Total(answer) = [count |-> n, cost |-> c]
  BY <1>3, Zenon DEF Total, Counts, CostsOf
<1>5. PICK figure : figure = Total(answer)
  OBVIOUS
<1>6. /\ figure \in [count : Nat, cost : Nat]
      /\ figure.count = n /\ figure.cost = c
  BY <1>4, <1>5
<1>7. /\ Printed(figure) \in [count : Nat, cost : Nat]
      /\ Printed(figure).count = n
      /\ Printed(figure).cost = InCents(c)
  BY <1>6, PrintedIs
<1>8. Printed(figure) \in Figures
  BY <1>7 DEF Figures
<1>9. Len(groups) \in Nat
  BY StateIs
<1>10. QED
  BY <1>3, <1>5, <1>7, <1>8, <1>9 DEF TotalsDone

(* The titles are right when the printing goes on. *)
LEMMA TitlesMove ==
  ASSUME InvoiceTypeOK, NEW s, NEW c \in Nat, NEW l, TitlesOK(s, c, l), NEW d \in Nat, NEW m,
         c < d \/ (c = d /\ (l # NONE => m # NONE))
  PROVE  TitlesOK(s, d, m)
<1>1. ASSUME NEW g \in DOMAIN groups, g < c \/ (g = c /\ l # NONE)
      PROVE  g < d \/ (g = d /\ m # NONE)
  <2>1. g \in Nat
    BY StateIs
  <2>2. QED
    BY <1>1, <2>1
<1>2. QED
  BY <1>1 DEF TitlesOK

(* A line that is no title leaves the titles right. *)
LEMMA TitlesOther ==
  ASSUME InvoiceTypeOK, NEW s \in SheetType, NEW what \in Kinds, NEW of \in Figures,
         NEW drop \in Nat, NEW height \in Nat, NEW t, t = PutLine(s, what, of, drop, height),
         what # "title", NEW c, NEW l, TitlesOK(s, c, l)
  PROVE  TitlesOK(t, c, l)
<1>1. PICK kind : kind = "title" /\ kind # what
  OBVIOUS
<1>2. LinesOf(t, kind) = LinesOf(s, kind) /\ \A n \in LinesOf(s, kind) : t.lines[n] = s.lines[n]
  BY <1>1, LinesStay
<1>3. QED
  BY <1>1, <1>2 DEF TitlesOK

(* The title of a project is put once, or again if it is a large one. *)
LEMMA TitlesTitle ==
  ASSUME InvoiceTypeOK, GroupsOK, NEW s \in SheetType, NEW c \in DOMAIN groups,
         NEW l, TitlesOK(s, c, l),
         l = NONE \/ ~(GroupHeight(groups[c]) <= 380),
         NEW t, t = Title(s, groups[c].project), NEW m, m # NONE
  PROVE  TitlesOK(t, c, m)
<1> DEFINE of == [project |-> groups[c].project]
           z == Len(s.lines) + 1
<1>1. of \in Figures /\ of.project = groups[c].project
  BY StateIs DEF Figures
<1> HIDE DEF of
<1>2. t = PutLine(s, "title", of, 0, 21)
  BY DEF Title, of
<1>3. "title" \in Kinds /\ 0 \in Nat /\ 21 \in Nat
  BY DEF Kinds
<1>4. /\ z \notin LinesOf(s, "title")
      /\ LinesOf(t, "title") = LinesOf(s, "title") \cup {z}
      /\ \A n \in LinesOf(s, "title") : t.lines[n] = s.lines[n]
  BY <1>1, <1>2, <1>3, LinesPut
<1>5. t.lines[z].of = of
  BY <1>1, <1>2, <1>3, PutIs
<1> HIDE DEF z
<1>6. ASSUME NEW n \in LinesOf(t, "title")
      PROVE  \E g \in DOMAIN groups : /\ t.lines[n].of.project = groups[g].project
                                      /\ g < c \/ (g = c /\ m # NONE)
  <2>1. CASE n = z
    BY <1>1, <1>5, <2>1
  <2>2. CASE n \in LinesOf(s, "title")
    <3>1. PICK g \in DOMAIN groups : /\ s.lines[n].of.project = groups[g].project
                                     /\ g < c \/ (g = c /\ l # NONE)
      BY <2>2 DEF TitlesOK
    <3>2. QED
      BY <1>4, <2>2, <3>1
  <2>3. QED
    BY <1>4, <2>1, <2>2
<1>7. ASSUME NEW n \in LinesOf(s, "title"), NEW g \in DOMAIN groups,
             s.lines[n].of.project = groups[g].project,
             GroupHeight(groups[g]) <= 380
      PROVE  groups[g].project # groups[c].project
  <2>1. PICK h \in DOMAIN groups : /\ s.lines[n].of.project = groups[h].project
                                   /\ h < c \/ (h = c /\ l # NONE)
    BY DEF TitlesOK
  <2>2. h = g
    BY <1>7, <2>1, GroupsAre
  <2>3. g # c
    <3>1. ~(c < c)
      BY StateIs
    <3>2. QED
      BY <1>7, <2>1, <2>2, <3>1
  <2>4. QED
    BY <2>3, GroupsAre
<1>8. ASSUME NEW n \in LinesOf(t, "title"), NEW o \in LinesOf(t, "title"),
             NEW g \in DOMAIN groups,
             t.lines[n].of.project = groups[g].project,
             t.lines[o].of.project = groups[g].project,
             GroupHeight(groups[g]) <= 380
      PROVE  n = o
  <2>1. CASE n \in LinesOf(s, "title") /\ o \in LinesOf(s, "title")
    BY <1>4, <1>8, <2>1 DEF TitlesOK
  <2>2. CASE n \in LinesOf(s, "title") /\ o = z
    BY <1>1, <1>4, <1>5, <1>7, <1>8, <2>2
  <2>3. CASE n = z /\ o \in LinesOf(s, "title")
    BY <1>1, <1>4, <1>5, <1>7, <1>8, <2>3
  <2>4. QED
    BY <1>4, <2>1, <2>2, <2>3
<1>9. QED
  BY <1>6, <1>8 DEF TitlesOK

(* What a step of the printing has to show. *)
LEMMA PrintedNext ==
  ASSUME Printing,
         Bears(sheet', "key", KeysDone(current', listed')),
         Bears(sheet', "subtotal", SubtotalsDone(current')),
         Bears(sheet', "total", TotalsDone(current')),
         TitlesOK(sheet', current', listed'),
         PagesOK(sheet'),
         RoomOK(sheet', current', listed')
  PROVE  PrintedOK'
<1>1. groups' = groups /\ answer' = answer
  BY DEF Printing
<1>2. /\ KeysDone(current, listed)' = KeysDone(current', listed')
      /\ SubtotalsDone(current)' = SubtotalsDone(current')
      /\ TotalsDone(current)' = TotalsDone(current')
  BY <1>1 DEF KeysDone, KeyDone, SubtotalsDone, TotalsDone
<1>3. TitlesOK(sheet, current, listed)' /\ RoomOK(sheet, current, listed)'
  BY <1>1 DEF TitlesOK, RoomOK
<1>4. QED
  BY <1>2, <1>3 DEF PrintedOK

(* A project without usage is skipped. *)
LEMMA SkipProjectGood ==
  ASSUME InvoiceInvariant, SkipProject
  PROVE  /\ sheet' \in SheetType /\ current' \in 1..Len(groups) + 2
         /\ listed' \in Nat \cup {NONE} /\ CursorOK' /\ PrintedOK'
<1> USE DEF InvoiceInvariant
<1>1. PICK n \in DOMAIN groups : Reached(n) /\ ~HasUsage(groups[n])
  BY DEF SkipProject
<1>2. /\ current = n /\ listed = NONE /\ n \in 1..Len(groups) /\ Len(groups) \in Nat
      /\ current' = n + 1 /\ listed' = NONE /\ sheet' = sheet /\ NONE \notin Nat
      /\ sheet \in SheetType
  BY <1>1, StateIs DEF Reached, SkipProject
<1>3. Printing /\ answer # << >> /\ grouped = Len(answer)
      /\ answer' = answer /\ grouped' = grouped /\ groups' = groups
  BY DEF SkipProject, Printing
<1>4. n \in 1..Len(groups) + 1 /\ n + 1 \in 1..Len(groups) + 1 /\ n + 1 \in 1..Len(groups) + 2
      /\ n \in Nat /\ n + 1 \in Nat /\ n < n + 1
  BY <1>2
<1>5. /\ KeysDone(n + 1, NONE) = KeysDone(n, NONE)
      /\ SubtotalsDone(n + 1) = SubtotalsDone(n)
  BY <1>1, <1>4, KeysDonePassed
<1>6. TotalsDone(n + 1) = {} /\ TotalsDone(n) = {}
  BY <1>4, TotalsDoneIs
<1>7. TitlesOK(sheet, n + 1, NONE)
  BY <1>2, <1>4, TitlesMove DEF PrintedOK
<1>8. RoomOK(sheet, n + 1, NONE)
  BY <1>2, <1>4 DEF PrintedOK, RoomOK
<1>9. PrintedOK'
  BY <1>2, <1>3, <1>5, <1>6, <1>7, <1>8, PrintedNext DEF PrintedOK
<1>10. CursorOK'
  BY <1>2, <1>3 DEF CursorOK
<1>11. QED
  BY <1>2, <1>4, <1>9, <1>10

(* A title leaves the keys, the subtotals and the total. *)
LEMMA BearsTitle ==
  ASSUME NEW s \in SheetType, NEW j \in Nat, NEW t, t = Title(s, j),
         NEW keys, NEW sums, NEW totals,
         Bears(s, "key", keys), Bears(s, "subtotal", sums), Bears(s, "total", totals)
  PROVE  Bears(t, "key", keys) /\ Bears(t, "subtotal", sums) /\ Bears(t, "total", totals)
<1> DEFINE of == [project |-> j]
<1>1. of \in Figures
  BY DEF Figures
<1>2. t = PutLine(s, "title", of, 0, 21)
  BY DEF Title
<1> HIDE DEF of
<1>3. "title" \in Kinds /\ 0 \in Nat /\ 21 \in Nat
  BY DEF Kinds
<1>4. "key" # "title" /\ "subtotal" # "title" /\ "total" # "title"
  OBVIOUS
<1>5. Bears(t, "key", keys)
  BY <1>1, <1>2, <1>3, <1>4, BearsOther
<1>6. Bears(t, "subtotal", sums)
  BY <1>1, <1>2, <1>3, <1>4, BearsOther
<1>7. Bears(t, "total", totals)
  BY <1>1, <1>2, <1>3, <1>4, BearsOther
<1>8. QED
  BY <1>5, <1>6, <1>7

(* The room for l of k keys, with what 18 and 16 half millimetres leave.   *)
LEMMA RoomOfKeys ==
  ASSUME NEW y \in Int, NEW k \in Nat, NEW l \in Nat, l < k
  PROVE  y >= 99 + 18 * k - 16 * l =>
           y >= 100 /\ y - 16 >= 99 + 18 * k - 16 * (l + 1)
OBVIOUS

(* PrintTitle keeps what the printing knows. *)
LEMMA TitleGood ==
  ASSUME InvoiceInvariant, PrintTitle
  PROVE  /\ sheet' \in SheetType /\ current' \in 1..Len(groups) + 2
         /\ listed' \in Nat \cup {NONE} /\ CursorOK' /\ PrintedOK'
<1> USE DEF InvoiceInvariant
<1>1. PICK n \in DOMAIN groups :
        /\ Reached(n) /\ HasUsage(groups[n])
        /\ sheet' = Title(IF StartsNewPage(sheet, groups[n]) THEN NewPage(sheet) ELSE sheet,
                          groups[n].project)
  BY DEF PrintTitle
<1>2. /\ current = n /\ listed = NONE /\ n \in 1..Len(groups) /\ Len(groups) \in Nat
      /\ current' = n /\ listed' = 0 /\ NONE \notin Nat
      /\ sheet \in SheetType /\ groups[n] \in GroupType /\ Len(groups[n].keys) \in Nat
  BY <1>1, StateIs DEF Reached, PrintTitle
<1>3. /\ Printing /\ answer # << >> /\ grouped = Len(answer)
      /\ answer' = answer /\ grouped' = grouped /\ groups' = groups
  BY DEF PrintTitle, Printing
<1>4. /\ n \in 1..Len(groups) + 1 /\ n \in 1..Len(groups) + 2 /\ n \in Nat
      /\ n <= Len(groups) + 1 /\ 0 # NONE /\ 0 \in Nat
  BY <1>2
<1>5. /\ Bears(sheet, "key", KeysDone(n, NONE)) /\ Bears(sheet, "subtotal", SubtotalsDone(n))
      /\ Bears(sheet, "total", TotalsDone(n)) /\ TitlesOK(sheet, n, NONE)
      /\ PagesOK(sheet) /\ Below(sheet) /\ sheet.y >= 62
  BY <1>2, <1>4 DEF PrintedOK, RoomOK
<1> DEFINE there == IF StartsNewPage(sheet, groups[n]) THEN NewPage(sheet) ELSE sheet
<1>6. sheet' = Title(there, groups[n].project)
  BY <1>1
<1> HIDE DEF there
<1>7. /\ there \in SheetType /\ there.lines = sheet.lines
      /\ sheet' \in SheetType /\ PagesOK(sheet') /\ Below(sheet') /\ sheet'.y >= 84
      /\ TitleOn(sheet', Len(sheet'.lines), sheet'.page, groups[n].project)
  BY <1>2, <1>5, <1>6, TitleRoom DEF there
<1>8. GroupHeight(groups[n]) <= 380 => sheet'.y >= 99 + 18 * Len(groups[n].keys)
  BY <1>2, <1>5, <1>6, TitleRoom DEF there
<1>9. /\ Bears(there, "key", KeysDone(n, NONE)) /\ Bears(there, "subtotal", SubtotalsDone(n))
      /\ Bears(there, "total", TotalsDone(n))
  BY <1>5, <1>7 DEF Bears, LinesOf
<1>10. /\ Bears(sheet', "key", KeysDone(n, NONE)) /\ Bears(sheet', "subtotal", SubtotalsDone(n))
       /\ Bears(sheet', "total", TotalsDone(n))
  BY <1>6, <1>7, <1>9, BearsTitle, StateIs
<1>11. KeysDone(n, 0) = KeysDone(n, NONE)
  BY KeysDoneTitle
<1>12. TitlesOK(there, n, NONE)
  BY <1>5, <1>7 DEF TitlesOK, LinesOf
<1>13. TitlesOK(sheet', n, 0)
  BY <1>4, <1>6, <1>7, <1>12, TitlesTitle
<1>14. RoomOK(sheet', n, 0)
  BY <1>2, <1>4, <1>7, <1>8 DEF RoomOK
<1>15. PrintedOK'
  BY <1>2, <1>3, <1>7, <1>10, <1>11, <1>13, <1>14, PrintedNext
<1>16. CursorOK'
  BY <1>1, <1>2, <1>3 DEF CursorOK
<1>17. QED
  BY <1>2, <1>4, <1>7, <1>15, <1>16

(* PrintKey does, on the page or under the title of a new one. *)
LEMMA KeyGood ==
  ASSUME InvoiceInvariant, PrintKey
  PROVE  /\ sheet' \in SheetType /\ current' \in 1..Len(groups) + 2
         /\ listed' \in Nat \cup {NONE} /\ CursorOK' /\ PrintedOK'
<1> USE DEF InvoiceInvariant
<1> DEFINE group == groups[current]
           key == Printed(group.keys[listed + 1])
           there == IF sheet.y < 100 THEN Title(NewPage(sheet), group.project) ELSE sheet
<1>1. /\ Printing /\ listed # NONE /\ listed < Len(group.keys)
      /\ sheet' = PutLine(there, "key", key, 0, 16)
      /\ listed' = listed + 1 /\ current' = current
  BY DEF PrintKey
<1> HIDE DEF there, key
<1>2. /\ answer # << >> /\ grouped = Len(answer)
      /\ answer' = answer /\ grouped' = grouped /\ groups' = groups
  BY <1>1 DEF Printing
<1>3. current \in DOMAIN groups /\ HasUsage(group)
  BY <1>1 DEF CursorOK
<1>4. /\ current \in 1..Len(groups) + 2 /\ Len(groups) \in Nat
      /\ current \in 1..Len(groups)
      /\ listed \in Nat /\ NONE \notin Nat /\ sheet \in SheetType
      /\ group \in GroupType /\ group.project \in Nat /\ Len(group.keys) \in Nat
  BY <1>1, <1>3, StateIs
<1>5. /\ current <= Len(groups) + 1 /\ current \in Nat
      /\ listed + 1 \in Nat /\ listed + 1 # NONE /\ listed + 1 <= Len(group.keys)
  BY <1>1, <1>4
<1>6. /\ Bears(sheet, "key", KeysDone(current, listed))
      /\ Bears(sheet, "subtotal", SubtotalsDone(current))
      /\ Bears(sheet, "total", TotalsDone(current)) /\ TitlesOK(sheet, current, listed)
      /\ PagesOK(sheet) /\ Below(sheet) /\ sheet.y >= 84
      /\ TitleOn(sheet, Len(sheet.lines), sheet.page, group.project)
  BY <1>1, <1>5 DEF PrintedOK, RoomOK
<1>7. GroupHeight(group) <= 380 => sheet.y >= 99 + 18 * Len(group.keys) - 16 * listed
  BY <1>1 DEF PrintedOK, RoomOK
<1>8. sheet.y \in Int
  BY <1>4 DEF SheetType
(* The sheet the key is put on. *)
<1>9. /\ there \in SheetType
      /\ Bears(there, "key", KeysDone(current, listed))
      /\ Bears(there, "subtotal", SubtotalsDone(current))
      /\ Bears(there, "total", TotalsDone(current)) /\ TitlesOK(there, current, listed)
      /\ PagesOK(there) /\ Free(there) /\ there.y >= 100
      /\ TitleOn(there, Len(there.lines), there.page, group.project)
      /\ GroupHeight(group) <= 380 => there.y >= 99 + 18 * Len(group.keys) - 16 * listed
  <2>1. CASE ~(sheet.y < 100)
    <3>1. there = sheet
      BY <2>1 DEF there
    <3>2. Free(sheet) /\ sheet.y >= 100
      BY <1>4, <1>6, <1>8, <2>1, FreeIs
    <3>3. QED
      BY <1>4, <1>6, <1>7, <3>1, <3>2
  <2>2. CASE sheet.y < 100
    <3> DEFINE blank == NewPage(sheet)
               of == [project |-> group.project]
    <3>1. there = Title(blank, group.project)
      BY <2>2 DEF there
    <3>2. blank \in SheetType /\ blank.page = sheet.page + 1 /\ blank.y = 463
            /\ blank.lines = sheet.lines
      BY <1>4, NewPageIs
    <3> HIDE DEF blank
    <3>3. Free(blank)
      BY <1>4, <1>6, <3>2, FreeIs
    <3>4. of \in Figures
      BY <1>4 DEF Figures
    <3>5. there = PutLine(blank, "title", of, 0, 21)
      BY <3>1 DEF Title
    <3> HIDE DEF of
    <3>6. "title" \in Kinds /\ 0 \in Nat /\ 21 \in Nat
      BY DEF Kinds
    <3>7. /\ Bears(blank, "key", KeysDone(current, listed))
          /\ Bears(blank, "subtotal", SubtotalsDone(current))
          /\ Bears(blank, "total", TotalsDone(current))
      BY <1>6, <3>2 DEF Bears, LinesOf
    <3>8. /\ Bears(there, "key", KeysDone(current, listed))
          /\ Bears(there, "subtotal", SubtotalsDone(current))
          /\ Bears(there, "total", TotalsDone(current))
      BY <1>4, <3>1, <3>2, <3>7, BearsTitle
    <3>9. there \in SheetType /\ there.y = 463 - 21
      <4>1. there \in SheetType
        BY <3>2, <3>4, <3>5, <3>6, PutIs
      <4>2. there.y = blank.y - 21
        BY <3>2, <3>4, <3>5, <3>6, PutIs
      <4>3. QED
        BY <3>2, <4>1, <4>2
    <3>10. TitleOn(there, Len(there.lines), there.page, group.project)
      BY <1>4, <3>1, <3>2, TitlePut
    <3>11. PagesOK(blank) /\ TitlesOK(blank, current, listed)
      BY <1>6, <3>2 DEF PagesOK, TitleOn, LinesOf, TitlesOK
    <3>12. ~(GroupHeight(group) <= 380)
      BY <1>1, <1>4, <1>7, <1>8, <2>2, RoomOfKeys
    <3>13. TitlesOK(there, current, listed)
      BY <1>1, <1>3, <3>1, <3>2, <3>11, <3>12, TitlesTitle
    <3>14. blank.y >= 52 + 0 /\ 21 >= 0 + 16
      BY <3>2
    <3>15. of.project = group.project
      BY DEF of
    <3>16. PagesOK(there) /\ Below(there)
      BY <3>2, <3>3, <3>4, <3>5, <3>6, <3>10, <3>11, <3>14, <3>15, PagesPut
    <3>17. Free(there)
      BY <3>9, <3>16, FreeIs
    <3>18. QED
      BY <3>8, <3>9, <3>10, <3>12, <3>13, <3>16, <3>17
  <2>3. QED
    BY <2>1, <2>2
<1>10. /\ key \in RowType /\ key \notin KeysDone(current, listed)
       /\ KeysDone(current, listed + 1) = KeysDone(current, listed) \cup {key}
  BY <1>1, <1>3, <1>4, KeysDoneKey DEF key
<1>11. key \in Figures /\ "key" \in Kinds /\ 0 \in Nat /\ 16 \in Nat
  BY <1>10 DEF Figures, Kinds
<1>12. Bears(sheet', "key", KeysDone(current, listed + 1))
  BY <1>1, <1>9, <1>10, <1>11, BearsMore
<1>13. /\ Bears(sheet', "subtotal", SubtotalsDone(current))
       /\ Bears(sheet', "total", TotalsDone(current))
  BY <1>1, <1>9, <1>11, BearsOther
<1>14. TitlesOK(sheet', current, listed)
  BY <1>1, <1>9, <1>11, TitlesOther
<1>15. TitlesOK(sheet', current, listed + 1)
  BY <1>5, <1>14, TitlesMove
<1>16. sheet' \in SheetType /\ sheet'.y = there.y - 16 /\ sheet'.page = there.page
  BY <1>1, <1>9, <1>11, PutIs
<1>17. Len(there.lines) \in Nat
  BY <1>1, <1>9, <1>11, PutIs
<1>18. TitleOn(sheet', Len(sheet'.lines), sheet'.page, group.project)
  BY <1>1, <1>9, <1>11, <1>16, <1>17, TitleStays
<1>19. key.project = group.project
  <2>1. listed + 1 \in DOMAIN group.keys
    BY <1>1, <1>3, <1>4, <1>5, StateIs
  <2>2. QED
    BY <1>3, <2>1, KeyIsRow DEF key
<1>20. there.y >= 52 + 0 /\ 16 >= 0 + 16 /\ there.y \in Int
  BY <1>9 DEF SheetType
<1>21. PagesOK(sheet') /\ Below(sheet')
  BY <1>1, <1>9, <1>11, <1>18, <1>19, <1>20, PagesPut
<1>22. /\ sheet'.y >= 84
       /\ GroupHeight(group) <= 380 => sheet'.y >= 99 + 18 * Len(group.keys) - 16 * (listed + 1)
  <2>1. sheet'.y >= 84
    BY <1>9, <1>16, <1>20
  <2>2. GroupHeight(group) <= 380 => there.y - 16 >= 99 + 18 * Len(group.keys) - 16 * (listed + 1)
    BY <1>1, <1>4, <1>9, <1>20, RoomOfKeys
  <2>3. QED
    BY <1>16, <2>1, <2>2
<1>23. RoomOK(sheet', current, listed + 1)
  BY <1>5, <1>18, <1>21, <1>22 DEF RoomOK
<1>24. PrintedOK'
  BY <1>1, <1>12, <1>13, <1>15, <1>21, <1>23, PrintedNext
<1>25. CursorOK'
  BY <1>1, <1>2, <1>3, <1>5 DEF CursorOK
<1>26. QED
  BY <1>1, <1>4, <1>5, <1>16, <1>24, <1>25

(* PrintSubtotal does, and there are keys above it. *)
LEMMA SubtotalGood ==
  ASSUME InvoiceInvariant, PrintSubtotal
  PROVE  /\ sheet' \in SheetType /\ current' \in 1..Len(groups) + 2
         /\ listed' \in Nat \cup {NONE} /\ CursorOK' /\ PrintedOK'
<1> USE DEF InvoiceInvariant
<1> DEFINE group == groups[current]
           sum == Printed(Subtotal(group))
<1>1. /\ Printing /\ listed # NONE /\ listed = Len(group.keys)
      /\ sheet' = PutLine(IF group.keys = << >> THEN PutLine(sheet, "none", sum, 0, 18) ELSE sheet,
                          "subtotal", sum, 2, 22)
      /\ current' = current + 1 /\ listed' = NONE
  BY DEF PrintSubtotal
<1> HIDE DEF sum
<1>2. /\ answer # << >> /\ grouped = Len(answer)
      /\ answer' = answer /\ grouped' = grouped /\ groups' = groups
  BY <1>1 DEF Printing
<1>3. current \in DOMAIN groups /\ HasUsage(group)
  BY <1>1 DEF CursorOK
<1>4. /\ current \in 1..Len(groups) /\ Len(groups) \in Nat
      /\ listed \in Nat /\ NONE \notin Nat /\ sheet \in SheetType
      /\ group \in GroupType /\ group.project \in Nat /\ Len(group.keys) \in Nat
  BY <1>1, <1>3, StateIs
<1>5. /\ current \in 1..Len(groups) + 1 /\ current <= Len(groups) + 1 /\ current \in Nat
      /\ current + 1 \in 1..Len(groups) + 1 /\ current + 1 \in 1..Len(groups) + 2
      /\ current + 1 \in Nat /\ current < current + 1
  BY <1>4
<1>6. group.keys # << >>
  BY <1>3, UsageHasKeys
<1>7. sheet' = PutLine(sheet, "subtotal", sum, 2, 22)
  BY <1>1, <1>6
<1>8. /\ Bears(sheet, "key", KeysDone(current, listed))
      /\ Bears(sheet, "subtotal", SubtotalsDone(current))
      /\ Bears(sheet, "total", TotalsDone(current)) /\ TitlesOK(sheet, current, listed)
      /\ PagesOK(sheet) /\ Below(sheet) /\ sheet.y >= 84
      /\ TitleOn(sheet, Len(sheet.lines), sheet.page, group.project)
  BY <1>1, <1>5 DEF PrintedOK, RoomOK
<1>9. /\ sum \in Figures /\ sum.project = group.project
      /\ sum \notin SubtotalsDone(current)
      /\ SubtotalsDone(current + 1) = SubtotalsDone(current) \cup {sum}
  BY <1>3, SubtotalsDoneNext DEF sum
<1>10. "subtotal" \in Kinds /\ 2 \in Nat /\ 22 \in Nat
  BY DEF Kinds
<1>11. Bears(sheet', "subtotal", SubtotalsDone(current + 1))
  BY <1>4, <1>7, <1>8, <1>9, <1>10, BearsMore
<1>12. Bears(sheet', "key", KeysDone(current, listed))
  BY <1>4, <1>7, <1>8, <1>9, <1>10, BearsOther
<1>13. Bears(sheet', "total", TotalsDone(current))
  BY <1>4, <1>7, <1>8, <1>9, <1>10, BearsOther
<1>14. KeysDone(current + 1, NONE) = KeysDone(current, listed)
  BY <1>1, <1>3, <1>4, <1>5, KeysDonePassed
<1>15. TotalsDone(current + 1) = {} /\ TotalsDone(current) = {}
  BY <1>5, TotalsDoneIs
<1>16. TitlesOK(sheet', current, listed)
  BY <1>4, <1>7, <1>8, <1>9, <1>10, TitlesOther
<1>17. TitlesOK(sheet', current + 1, NONE)
  BY <1>5, <1>16, TitlesMove
<1>18. sheet' \in SheetType /\ sheet'.y = sheet.y - 22 /\ sheet'.page = sheet.page
  BY <1>4, <1>7, <1>9, <1>10, PutIs
<1>19. Len(sheet.lines) \in Nat
  BY <1>4, <1>7, <1>9, <1>10, PutIs
<1>20. TitleOn(sheet', Len(sheet'.lines), sheet'.page, group.project)
  BY <1>4, <1>7, <1>8, <1>9, <1>10, <1>18, <1>19, TitleStays
<1>21. sheet.y >= 52 + 2 /\ 22 >= 2 + 16 /\ sheet.y \in Int /\ Free(sheet)
  <2>1. sheet.y \in Int
    BY <1>4 DEF SheetType
  <2>2. Free(sheet)
    BY <1>4, <1>8, FreeIs
  <2>3. QED
    BY <1>8, <2>1, <2>2
<1>22. PagesOK(sheet') /\ Below(sheet')
  BY <1>4, <1>7, <1>8, <1>9, <1>10, <1>20, <1>21, PagesPut
<1>23. RoomOK(sheet', current + 1, NONE)
  BY <1>8, <1>18, <1>21, <1>22 DEF RoomOK
<1>24. PrintedOK'
  BY <1>1, <1>11, <1>12, <1>13, <1>14, <1>15, <1>17, <1>22, <1>23, PrintedNext
<1>25. CursorOK'
  BY <1>1, <1>2 DEF CursorOK
<1>26. QED
  BY <1>1, <1>4, <1>5, <1>18, <1>24, <1>25

(* PrintTotal does, on the page or on a new one. *)
LEMMA TotalGood ==
  ASSUME InvoiceInvariant, PrintTotal
  PROVE  /\ sheet' \in SheetType /\ current' \in 1..Len(groups) + 2
         /\ listed' \in Nat \cup {NONE} /\ CursorOK' /\ PrintedOK'
<1> USE DEF InvoiceInvariant
<1> DEFINE there == IF sheet.y < 90 THEN [NewPage(sheet) EXCEPT !.y = 490] ELSE sheet
           sum == Printed(Total(answer))
           last == Len(groups) + 1
<1>1. /\ Printing /\ listed = NONE /\ current = last
      /\ sheet' = PutLine(there, "total", sum, 12, 12)
      /\ current' = current + 1 /\ listed' = listed
  BY DEF PrintTotal, Reached
<1> HIDE DEF there, sum
<1>2. /\ answer # << >> /\ grouped = Len(answer)
      /\ answer' = answer /\ grouped' = grouped /\ groups' = groups
  BY <1>1 DEF Printing
<1>3. /\ last \in 1..Len(groups) + 1 /\ last <= Len(groups) + 1 /\ last \in Nat
      /\ last + 1 \in 1..Len(groups) + 2 /\ last + 1 = Len(groups) + 2
      /\ last + 1 \in Nat /\ last < last + 1 /\ ~(last + 1 <= Len(groups) + 1)
      /\ last \notin DOMAIN groups
  BY StateIs
<1>4. NONE \notin Nat /\ sheet \in SheetType
  BY StateIs
<1> HIDE DEF last
<1>5. /\ Bears(sheet, "key", KeysDone(last, NONE))
      /\ Bears(sheet, "subtotal", SubtotalsDone(last))
      /\ Bears(sheet, "total", TotalsDone(last)) /\ TitlesOK(sheet, last, NONE)
      /\ PagesOK(sheet) /\ Below(sheet)
  BY <1>1, <1>3 DEF PrintedOK, RoomOK
<1>6. /\ there \in SheetType /\ there.lines = sheet.lines /\ Free(there) /\ there.y >= 90
  <2>1. CASE sheet.y < 90
    <3>1. there = [NewPage(sheet) EXCEPT !.y = 490]
      BY <2>1 DEF there
    <3>2. there \in SheetType /\ there.page = sheet.page + 1 /\ there.y = 490
            /\ there.lines = sheet.lines
      <4>1. PICK u : u = NewPage(sheet)
        OBVIOUS
      <4>2. u \in SheetType /\ u.page = sheet.page + 1 /\ u.lines = sheet.lines
        BY <1>4, <4>1, NewPageIs
      <4>3. there = [u EXCEPT !.y = 490] /\ 490 \in Int
        BY <3>1, <4>1
      <4>4. /\ [u EXCEPT !.y = 490] \in SheetType
            /\ [u EXCEPT !.y = 490].page = u.page
            /\ [u EXCEPT !.y = 490].y = 490
            /\ [u EXCEPT !.y = 490].lines = u.lines
        BY <4>2, <4>3 DEF SheetType
      <4>5. QED
        BY <4>2, <4>3, <4>4
    <3>3. Free(there)
      BY <1>4, <1>5, <3>2, FreeIs
    <3>4. QED
      BY <3>2, <3>3
  <2>2. CASE ~(sheet.y < 90)
    <3>1. there = sheet
      BY <2>2 DEF there
    <3>2. sheet.y \in Int
      BY <1>4 DEF SheetType
    <3>3. Free(sheet)
      BY <1>4, <1>5, FreeIs
    <3>4. QED
      BY <1>4, <2>2, <3>1, <3>2, <3>3
  <2>3. QED
    BY <2>1, <2>2
<1>7. /\ Bears(there, "key", KeysDone(last, NONE))
      /\ Bears(there, "subtotal", SubtotalsDone(last))
      /\ Bears(there, "total", TotalsDone(last))
  BY <1>5, <1>6 DEF Bears, LinesOf
<1>8. PagesOK(there) /\ TitlesOK(there, last, NONE)
  BY <1>5, <1>6 DEF PagesOK, TitleOn, LinesOf, TitlesOK
<1>9. /\ sum \in Figures /\ TotalsDone(last) = {} /\ TotalsDone(last + 1) = {} \cup {sum}
  <2>1. Printed(Total(answer)) \in Figures /\ TotalsDone(Len(groups) + 2) = {Printed(Total(answer))}
    BY TotalsDoneIs
  <2>2. TotalsDone(last) = {}
    BY <1>3, TotalsDoneIs
  <2>3. sum = Printed(Total(answer))
    BY DEF sum
  <2>4. TotalsDone(last + 1) = {sum} /\ {sum} = {} \cup {sum}
    BY <1>3, <2>1, <2>3
  <2>5. QED
    BY <2>1, <2>2, <2>3, <2>4
<1>10. "total" \in Kinds /\ 12 \in Nat
  BY DEF Kinds
<1>11. Bears(sheet', "total", TotalsDone(last + 1))
  <2>1. Bears(there, "total", {})
    BY <1>7, <1>9
  <2>2. PICK t : t = PutLine(there, "total", sum, 12, 12)
    OBVIOUS
  <2>3. sum \notin {}
    OBVIOUS
  <2>4. Bears(t, "total", {} \cup {sum})
    BY <1>6, <1>9, <1>10, <2>1, <2>2, <2>3, BearsMore
  <2>5. QED
    BY <1>1, <1>9, <2>2, <2>4
<1>12. Bears(sheet', "key", KeysDone(last, NONE))
  BY <1>1, <1>6, <1>7, <1>9, <1>10, BearsOther
<1>13. Bears(sheet', "subtotal", SubtotalsDone(last))
  BY <1>1, <1>6, <1>7, <1>9, <1>10, BearsOther
<1>14. /\ KeysDone(last + 1, NONE) = KeysDone(last, NONE)
       /\ SubtotalsDone(last + 1) = SubtotalsDone(last)
  BY <1>3, KeysDonePassed
<1>15. TitlesOK(sheet', last, NONE)
  BY <1>1, <1>6, <1>8, <1>9, <1>10, TitlesOther
<1>16. TitlesOK(sheet', last + 1, NONE)
  BY <1>3, <1>15, TitlesMove
<1>17. sheet' \in SheetType
  <2>1. there \in SheetType
    BY <1>6
  <2>2. sum \in Figures
    BY <1>9
  <2>3. PutLine(there, "total", sum, 12, 12) \in SheetType
    BY <1>10, <2>1, <2>2, PutSheet
  <2>4. QED
    BY <1>1, <2>3
<1>18. there.y >= 52 + 12
  <2>1. there.y \in Int
    BY <1>6 DEF SheetType
  <2>2. QED
    BY <1>6, <2>1
<1>19. PagesOK(sheet')
  BY <1>1, <1>6, <1>8, <1>9, <1>10, <1>18, PagesPut
<1>20. RoomOK(sheet', last + 1, NONE)
  BY <1>3 DEF RoomOK
<1>21. PrintedOK'
  BY <1>1, <1>11, <1>12, <1>13, <1>14, <1>16, <1>19, <1>20, PrintedNext
<1>22. CursorOK'
  BY <1>1, <1>2 DEF CursorOK
<1>23. QED
  BY <1>1, <1>3, <1>17, <1>21, <1>22

(* What is logged and charged; the layout stays. *)
LEMMA LogGood ==
  ASSUME InvoiceTypeOK, InvoiceNext
  PROVE  /\ layout' \in Layouts /\ clock' \in Nat /\ layout' = layout
         /\ log' \in [Requests -> [at : Nat \cup {NONE}, key : AllKeys \cup {NONE},
                                   cost : Costs \cup {NONE}]]'
<1>1. layout' = layout
  BY DEF InvoiceNext, Tick, InsertLog, Charge, Export, GroupRow, SkipProject, PrintTitle,
         PrintKey, PrintSubtotal, PrintTotal, Printing, logVars
<1>2. AllKeys' = AllKeys
  BY <1>1 DEF AllKeys, KeysOf, Projects
<1> DEFINE Logged == [at : Nat \cup {NONE}, key : AllKeys \cup {NONE},
                      cost : Costs \cup {NONE}]
<1>3. layout \in Layouts /\ clock \in Nat /\ log \in [Requests -> Logged]
  BY DEF InvoiceTypeOK
<1>4. layout' \in Layouts /\ clock' \in Nat /\ log' \in [Requests -> Logged]
  <2>1. CASE Tick
    BY <1>1, <1>3, <2>1 DEF Tick
  <2>2. ASSUME NEW r \in Requests, InsertLog(r)
        PROVE  layout' \in Layouts /\ clock' \in Nat /\ log' \in [Requests -> Logged]
    <3>1. PICK k \in UsedKeys : log' = [log EXCEPT ![r].at = clock, ![r].key = k]
      BY <2>2 DEF InsertLog
    <3>2. k \in AllKeys
      BY <3>1 DEF UsedKeys
    <3>3. log' = [log EXCEPT ![r] = [@ EXCEPT !.at = clock, !.key = k]]
      BY <1>3, <3>1
    <3>4. [log[r] EXCEPT !.at = clock, !.key = k] \in Logged
      BY <1>3, <3>2
    <3>5. QED
      BY <1>1, <1>3, <2>2, <3>3, <3>4 DEF InsertLog
  <2>3. ASSUME NEW r \in Requests, Charge(r)
        PROVE  layout' \in Layouts /\ clock' \in Nat /\ log' \in [Requests -> Logged]
    <3>1. PICK c \in Costs : log' = [log EXCEPT ![r].cost = c]
      BY <2>3 DEF Charge
    <3>2. [log[r] EXCEPT !.cost = c] \in Logged
      BY <1>3
    <3>3. QED
      BY <1>1, <1>3, <2>3, <3>1, <3>2 DEF Charge
  <2>4. CASE UNCHANGED logVars
    BY <1>3, <2>4 DEF logVars
  <2>5. QED
    BY <2>1, <2>2, <2>3, <2>4
       DEF InvoiceNext, Export, GroupRow, SkipProject, PrintTitle,
           PrintKey, PrintSubtotal, PrintTotal, Printing
<1>5. QED
  BY <1>1, <1>2, <1>4

(* Before the printing there is nothing to say of it. *)
LEMMA UnprintedGood ==
  ASSUME current' = 1, listed' = NONE, sheet' \in SheetType, sheet'.lines = << >>,
         sheet'.y >= 62, Len(groups') \in Nat, DOMAIN groups' = 1..Len(groups')
  PROVE  CursorOK' /\ PrintedOK' /\ current' \in 1..Len(groups') + 2
<1>1. \A g \in DOMAIN groups' : ~(g < 1) /\ g \in Nat
  OBVIOUS
<1>2. KeysDone(current, listed)' = {}
  BY <1>1 DEF KeysDone, KeyDone
<1>3. SubtotalsDone(current)' = {}
  BY <1>1 DEF SubtotalsDone
<1>4. TotalsDone(current)' = {}
  BY DEF TotalsDone
<1>5. DOMAIN sheet'.lines = {}
  OBVIOUS
<1>6. \A kind : LinesOf(sheet', kind) = {}
  BY <1>5 DEF LinesOf
<1>7. /\ Bears(sheet', "key", {}) /\ Bears(sheet', "subtotal", {}) /\ Bears(sheet', "total", {})
  BY <1>6 DEF Bears
<1>8. TitlesOK(sheet, current, listed)'
  BY <1>6 DEF TitlesOK
<1>9. PagesOK(sheet')
  BY <1>5 DEF PagesOK
<1>10. RoomOK(sheet, current, listed)'
  BY DEF RoomOK, Below
<1>11. CursorOK'
  BY DEF CursorOK, invoice
<1>12. PrintedOK'
  BY <1>2, <1>3, <1>4, <1>7, <1>8, <1>9, <1>10 DEF PrintedOK
<1>13. current' \in 1..Len(groups') + 2
  OBVIOUS
<1>14. QED
  BY <1>11, <1>12, <1>13

(* Until all rows are put together, nothing is printed. *)
LEMMA UnprintedIs ==
  ASSUME InvoiceInvariant, answer = << >> \/ grouped < Len(answer), UNCHANGED printVars
  PROVE  /\ current' = 1 /\ listed' = NONE /\ sheet' \in SheetType /\ sheet'.lines = << >>
         /\ sheet'.y >= 62
<1> USE DEF InvoiceInvariant
<1>1. grouped \in 0..Len(answer) /\ answer \in Seq(RowType)
  BY DEF InvoiceTypeOK
<1>2. ~(answer # << >> /\ grouped = Len(answer))
  BY <1>1
<1>3. current = 1 /\ listed = NONE /\ sheet.lines = << >>
  BY <1>2 DEF CursorOK, invoice
<1>4. sheet.y >= 62 /\ sheet \in SheetType
  <2>1. sheet \in SheetType
    BY StateIs
  <2>2. current <= Len(groups) + 1
    BY <1>3, StateIs
  <2>3. sheet.y >= 62
    BY <1>3, <2>2 DEF PrintedOK, RoomOK
  <2>4. QED
    BY <2>1, <2>3
<1>5. QED
  BY <1>3, <1>4 DEF printVars

(* The answer and what is put together, when they stay. *)
LEMMA AnswerStays ==
  ASSUME InvoiceInvariant, layout' = layout, answer' = answer
  PROVE  answer' \in Seq(RowType) /\ AnswerOK'
<1>1. AnswerOK /\ InvoiceTypeOK
  BY DEF InvoiceInvariant
<1>2. Projects' = Projects /\ \A j : KeysOf(j)' = KeysOf(j)
  BY DEF Projects, KeysOf
<1>3. AnswerOK'
  BY <1>1, <1>2 DEF AnswerOK
<1>4. QED
  BY <1>1, <1>3 DEF InvoiceTypeOK

(* What is put together, when it stays. *)
LEMMA GroupsStay ==
  ASSUME InvoiceInvariant, answer' = answer, grouped' = grouped, groups' = groups
  PROVE  grouped' \in 0..Len(answer') /\ groups' \in Seq(GroupType) /\ GroupsOK'
<1>1. GroupsOK'
  BY DEF InvoiceInvariant, GroupsOK
<1>2. QED
  BY <1>1 DEF InvoiceInvariant, InvoiceTypeOK

(* A row of the answer is put together with those before. *)
LEMMA GroupRowGood ==
  ASSUME InvoiceInvariant, GroupRow
  PROVE  /\ answer' = answer /\ grouped' \in 0..Len(answer')
         /\ groups' \in Seq(GroupType) /\ GroupsOK'
<1> USE DEF InvoiceInvariant
<1>1. /\ answer \in Seq(RowType) /\ grouped \in 0..Len(answer) /\ groups \in Seq(GroupType)
      /\ Len(answer) \in Nat
  BY DEF InvoiceTypeOK
<1>2. /\ grouped < Len(answer) /\ grouped' = grouped + 1 /\ answer' = answer
      /\ groups' = Gather(groups, answer[grouped + 1])
  BY DEF GroupRow
<1>3. grouped \in Nat /\ grouped + 1 <= Len(answer) /\ grouped + 1 \in 0..Len(answer)
  BY <1>1, <1>2
<1>4. GatheredOK(answer, groups, grouped)
  BY DEF GroupsOK
<1>5. Gather(groups, answer[grouped + 1]) \in Seq(GroupType)
  BY <1>1, <1>3, <1>4, GatherGood
<1>6. GatheredOK(answer, Gather(groups, answer[grouped + 1]), grouped + 1)
  BY <1>1, <1>3, <1>4, GatherGood
<1>7. GatheredOK(answer', groups', grouped')
  BY <1>2, <1>6
<1>8. QED
  BY <1>2, <1>3, <1>5, <1>7 DEF GroupsOK

(* Of an empty answer nothing is put together. *)
LEMMA NoneGathered ==
  ASSUME NEW rows, NEW sofar, sofar = << >>
  PROVE  GatheredOK(rows, sofar, 0)
<1>1. DOMAIN sofar = {} /\ 1..0 = {} /\ sofar \in Seq(RowType) /\ Len(sofar) = 0
  OBVIOUS
<1>2. /\ Summable(Counts(sofar)) /\ Summable(CostsOf(sofar))
      /\ DOMAIN Counts(sofar) = 1..0 /\ DOMAIN CostsOf(sofar) = 1..0
  BY <1>1, CountsIs
<1>3. SumFunction(Counts(sofar)) = 0 /\ SumFunction(CostsOf(sofar)) = 0
  BY <1>1, <1>2, SumNat
<1> DEFINE counts == [n \in 1..0 |-> rows[n].count]
           costs == [n \in 1..0 |-> rows[n].cost]
<1>4. IsFiniteSet({}) /\ DOMAIN counts = {} /\ DOMAIN costs = {}
  BY <1>1, FS_EmptySet
<1>5. Summable(counts) /\ Summable(costs)
  BY <1>4 DEF Summable
<1> HIDE DEF counts, costs
<1>6. SumFunction(counts) = 0 /\ SumFunction(costs) = 0
  BY <1>4, <1>5, SumNat
<1>7. \A g \in DOMAIN sofar : FALSE
  BY <1>1
<1>8. \A n \in 1..0 : FALSE
  BY <1>1
<1>9. QED
  BY <1>3, <1>6, <1>7, <1>8, Zenon DEF GatheredOK, counts, costs

-----------------------------------------------------------------------------
(* The invariant is inductive.                                             *)

(* The invariant holds at the start, *)
LEMMA InvoiceStarts == InvoiceInit => InvoiceInvariant
<1> SUFFICES ASSUME InvoiceInit PROVE InvoiceInvariant
  OBVIOUS
<1>1. /\ layout \in Layouts /\ clock = 0
      /\ log = [r \in Requests |-> [at |-> NONE, key |-> NONE, cost |-> NONE]]
      /\ answer = << >> /\ grouped = 0 /\ groups = << >>
      /\ current = 1 /\ listed = NONE
      /\ sheet = [page |-> 1, y |-> 342, lines |-> << >>]
  BY DEF InvoiceInit
<1>2. /\ answer \in Seq(RowType) /\ Len(answer) = 0 /\ DOMAIN answer = {}
      /\ groups \in Seq(GroupType) /\ Len(groups) = 0 /\ DOMAIN groups = {}
  BY <1>1
<1>3. sheet \in SheetType /\ sheet.y = 342 /\ sheet.lines = << >> /\ DOMAIN sheet.lines = {}
  <2>1. << >> \in Seq(LineType) /\ 1 \in Nat /\ 342 \in Int
    OBVIOUS
  <2>2. QED
    BY <1>1, <2>1 DEF SheetType
<1>4. log \in [Requests -> [at : Nat \cup {NONE}, key : AllKeys \cup {NONE},
                            cost : Costs \cup {NONE}]]
  BY <1>1
<1>5. InvoiceTypeOK
  BY <1>1, <1>2, <1>3, <1>4 DEF InvoiceTypeOK, SheetType
<1>6. AnswerOK
  BY <1>2 DEF AnswerOK
<1>7. GroupsOK
  BY <1>1, NoneGathered DEF GroupsOK
<1>8. CursorOK
  BY <1>1, <1>3 DEF CursorOK, invoice
<1>9. KeysDone(current, listed) = {} /\ SubtotalsDone(current) = {}
  BY <1>2 DEF KeysDone, SubtotalsDone
<1>10. TotalsDone(current) = {}
  BY <1>1, <1>2 DEF TotalsDone
<1>11. \A kind : LinesOf(sheet, kind) = {}
  BY <1>3 DEF LinesOf
<1>12. /\ Bears(sheet, "key", {}) /\ Bears(sheet, "subtotal", {}) /\ Bears(sheet, "total", {})
  BY <1>11 DEF Bears
<1>13. TitlesOK(sheet, current, listed)
  BY <1>11 DEF TitlesOK
<1>14. PagesOK(sheet)
  BY <1>3 DEF PagesOK
<1>15. RoomOK(sheet, current, listed)
  BY <1>1, <1>3 DEF RoomOK, Below
<1>16. PrintedOK
  BY <1>9, <1>10, <1>12, <1>13, <1>14, <1>15 DEF PrintedOK
<1>17. QED
  BY <1>5, <1>6, <1>7, <1>8, <1>16 DEF InvoiceInvariant

(* each action keeps it, *)
LEMMA InvoiceStep ==
  ASSUME InvoiceInvariant, InvoiceNext
  PROVE  InvoiceInvariant'
<1> USE DEF InvoiceInvariant
<1>1. /\ layout' \in Layouts /\ clock' \in Nat /\ layout' = layout
      /\ log' \in [Requests -> [at : Nat \cup {NONE}, key : AllKeys \cup {NONE},
                                cost : Costs \cup {NONE}]]'
  BY LogGood
<1> DEFINE Answered == answer' \in Seq(RowType) /\ AnswerOK'
           Gathered == grouped' \in 0..Len(answer') /\ groups' \in Seq(GroupType) /\ GroupsOK'
           Laid == /\ current' \in 1..Len(groups') + 2 /\ listed' \in Nat \cup {NONE}
                   /\ sheet' \in SheetType /\ CursorOK' /\ PrintedOK'
           Put == /\ sheet' \in SheetType /\ current' \in 1..Len(groups) + 2
                  /\ listed' \in Nat \cup {NONE} /\ CursorOK' /\ PrintedOK'
<1>2. ASSUME answer = << >> \/ grouped < Len(answer), UNCHANGED printVars, Gathered
      PROVE  Laid
  <2>1. Len(groups') \in Nat /\ DOMAIN groups' = 1..Len(groups')
    BY <1>2
  <2>2. /\ current' = 1 /\ listed' = NONE /\ sheet' \in SheetType /\ sheet'.lines = << >>
        /\ sheet'.y >= 62
    BY <1>2, UnprintedIs
  <2>3. CursorOK' /\ PrintedOK' /\ current' \in 1..Len(groups') + 2
    BY <2>1, <2>2, UnprintedGood
  <2>4. QED
    BY <2>2, <2>3
<1> HIDE DEF Answered, Gathered, Laid, Put
<1>3. ASSUME BeforeExport, answer' = answer
      PROVE  Answered /\ Gathered /\ Laid
  <2>1. /\ answer = << >> /\ UNCHANGED printVars
        /\ grouped' = grouped /\ groups' = groups
    BY <1>3 DEF BeforeExport
  <2>2. Answered
    BY <1>1, <1>3, AnswerStays DEF Answered
  <2>3. Gathered
    BY <1>3, <2>1, GroupsStay DEF Gathered
  <2>4. QED
    BY <1>2, <2>1, <2>2, <2>3
<1>4. ASSUME NEW p \in Exports, NEW asked \in SUBSET Projects \ {{}}, Export(p, asked)
      PROVE  Answered /\ Gathered /\ Laid
  <2>1. /\ answer = << >> /\ UNCHANGED printVars
        /\ grouped' = grouped /\ groups' = groups
    BY <1>4 DEF Export, BeforeExport
  <2>2. Answered
    BY <1>4, ExportGood DEF Answered
  <2>3. grouped = 0 /\ groups \in Seq(GroupType)
    BY <2>1 DEF InvoiceTypeOK
  <2>4. groups = << >>
    <3>1. \A g \in DOMAIN groups : FALSE
      <4>1. \A g \in DOMAIN groups : \E n \in 1..grouped : TRUE
        BY GroupsAre
      <4>2. 1..0 = {}
        OBVIOUS
      <4>3. QED
        BY <2>3, <4>1, <4>2
    <3>2. Len(groups) \in Nat /\ DOMAIN groups = 1..Len(groups)
      BY <2>3
    <3>3. Len(groups) = 0
      <4>1. 1 \notin 1..Len(groups)
        BY <3>1, <3>2
      <4>2. QED
        BY <3>2, <4>1
    <3>4. QED
      BY <2>3, <3>3, EmptySeq
  <2>5. GroupsOK'
    BY <2>1, <2>3, <2>4, NoneGathered DEF GroupsOK
  <2>6. 0 \in 0..Len(answer')
    BY <2>2 DEF Answered
  <2>7. Gathered
    BY <2>1, <2>3, <2>5, <2>6 DEF Gathered
  <2>8. QED
    BY <1>2, <2>1, <2>2, <2>7
<1>5. ASSUME GroupRow
      PROVE  Answered /\ Gathered /\ Laid
  <2>1. /\ answer' = answer /\ Gathered
    BY <1>5, GroupRowGood DEF Gathered
  <2>2. Answered
    BY <1>1, <2>1, AnswerStays DEF Answered
  <2>3. grouped < Len(answer) /\ UNCHANGED printVars
    BY <1>5 DEF GroupRow
  <2>4. QED
    BY <1>2, <2>1, <2>2, <2>3
<1>6. ASSUME Printing, Put
      PROVE  Answered /\ Gathered /\ Laid
  <2>1. answer' = answer /\ grouped' = grouped /\ groups' = groups
    BY <1>6 DEF Printing
  <2>2. Answered
    BY <1>1, <2>1, AnswerStays DEF Answered
  <2>3. Gathered
    BY <2>1, GroupsStay DEF Gathered
  <2>4. Laid
    BY <1>6, <2>1 DEF Put, Laid
  <2>5. QED
    BY <2>2, <2>3, <2>4
<1>7. ASSUME SkipProject
      PROVE  Answered /\ Gathered /\ Laid
  <2>1. Printing
    BY <1>7 DEF SkipProject
  <2>2. Put
    BY <1>7, SkipProjectGood DEF Put
  <2>3. QED
    BY <1>6, <2>1, <2>2
<1>8. ASSUME PrintTitle
      PROVE  Answered /\ Gathered /\ Laid
  <2>1. Printing
    BY <1>8 DEF PrintTitle
  <2>2. Put
    BY <1>8, TitleGood DEF Put
  <2>3. QED
    BY <1>6, <2>1, <2>2
<1>9. ASSUME PrintKey
      PROVE  Answered /\ Gathered /\ Laid
  <2>1. Printing
    BY <1>9 DEF PrintKey
  <2>2. Put
    BY <1>9, KeyGood DEF Put
  <2>3. QED
    BY <1>6, <2>1, <2>2
<1>10. ASSUME PrintSubtotal
       PROVE  Answered /\ Gathered /\ Laid
  <2>1. Printing
    BY <1>10 DEF PrintSubtotal
  <2>2. Put
    BY <1>10, SubtotalGood DEF Put
  <2>3. QED
    BY <1>6, <2>1, <2>2
<1>11. ASSUME PrintTotal
       PROVE  Answered /\ Gathered /\ Laid
  <2>1. Printing
    BY <1>11 DEF PrintTotal
  <2>2. Put
    BY <1>11, TotalGood DEF Put
  <2>3. QED
    BY <1>6, <2>1, <2>2
<1>12. Answered /\ Gathered /\ Laid
  <2>1. ASSUME Tick
        PROVE  Answered /\ Gathered /\ Laid
    BY <1>3, <2>1 DEF Tick
  <2>2. ASSUME NEW r \in Requests, InsertLog(r) \/ Charge(r)
        PROVE  Answered /\ Gathered /\ Laid
    BY <1>3, <2>2 DEF InsertLog, Charge
  <2>3. QED
    BY <1>4, <1>5, <1>7, <1>8, <1>9, <1>10, <1>11, <2>1, <2>2 DEF InvoiceNext
<1>13. InvoiceTypeOK'
  BY <1>1, <1>12 DEF InvoiceTypeOK, SheetType, Answered, Gathered, Laid
<1>14. QED
  BY <1>12, <1>13 DEF Answered, Gathered, Laid

(* and so does a step that changes nothing. *)
LEMMA InvoiceUnchanged ==
  ASSUME InvoiceInvariant, UNCHANGED invoiceVars
  PROVE  InvoiceInvariant'
<1>1. /\ layout' = layout /\ log' = log /\ clock' = clock /\ answer' = answer
      /\ grouped' = grouped /\ groups' = groups /\ current' = current
      /\ listed' = listed /\ sheet' = sheet
  BY DEF invoiceVars, logVars, printVars
<1>2. InvoiceTypeOK'
  <2>1. AllKeys' = AllKeys
    BY <1>1 DEF AllKeys, KeysOf, Projects
  <2>2. QED
    BY <1>1, <2>1 DEF InvoiceInvariant, InvoiceTypeOK
<1>3. AnswerOK' /\ GroupsOK'
  BY <1>1, AnswerStays, GroupsStay
<1>4. CursorOK'
  BY <1>1 DEF InvoiceInvariant, CursorOK, invoice
<1>5. /\ KeysDone(current, listed)' = KeysDone(current, listed)
      /\ SubtotalsDone(current)' = SubtotalsDone(current)
      /\ TotalsDone(current)' = TotalsDone(current)
      /\ TitlesOK(sheet, current, listed)' <=> TitlesOK(sheet, current, listed)
      /\ RoomOK(sheet, current, listed)' <=> RoomOK(sheet, current, listed)
  BY <1>1 DEF KeysDone, KeyDone, SubtotalsDone, TotalsDone, TitlesOK, RoomOK
<1>6. PrintedOK'
  BY <1>1, <1>5 DEF InvoiceInvariant, PrintedOK
<1>7. QED
  BY <1>2, <1>3, <1>4, <1>6 DEF InvoiceInvariant

(* So it always holds. *)
LEMMA InvoiceInductive == InvoiceSpec => []InvoiceInvariant
<1>1. InvoiceInvariant /\ [InvoiceNext]_invoiceVars => InvoiceInvariant'
  BY InvoiceStep, InvoiceUnchanged
<1>2. QED
  BY <1>1, InvoiceStarts, PTL DEF InvoiceSpec

(***************************************************************************)
(* The types, which are a part of it: what the query answers are rows of   *)
(* the keys there are, the cursor of the printing never leaves the groups  *)
(* and the place on the page is a number (generate_org_invoice_pdf).       *)
(***************************************************************************)
THEOREM InvoiceTypeCorrect == InvoiceSpec => []InvoiceTypeOK
<1>1. InvoiceInvariant => InvoiceTypeOK
  BY DEF InvoiceInvariant
<1>2. QED
  BY <1>1, InvoiceInductive, PTL

-----------------------------------------------------------------------------
(* What follows from it.                                                   *)

(* The lines of a kind are finitely many lines of the sheet. *)
LEMMA LinesAre ==
  ASSUME InvoiceInvariant
  PROVE  /\ \A what : Lines(what) = LinesOf(sheet, what)
         /\ \A n : Figure(n) = sheet.lines[n].of
         /\ \A what : IsFiniteSet(Lines(what)) /\ Lines(what) \subseteq DOMAIN invoice
         /\ DOMAIN invoice = 1..Len(invoice) /\ Len(invoice) \in Nat
         /\ \A n \in DOMAIN invoice : invoice[n] \in LineType
<1>1. invoice \in Seq(LineType)
  BY StateIs DEF InvoiceInvariant, SheetType, invoice
<1>2. DOMAIN invoice = 1..Len(invoice) /\ Len(invoice) \in Nat
      /\ \A n \in DOMAIN invoice : invoice[n] \in LineType
  BY <1>1
<1>3. IsFiniteSet(DOMAIN invoice)
  BY <1>2, FS_Interval
<1>4. \A what : Lines(what) \subseteq DOMAIN invoice
  BY DEF Lines
<1>5. \A what : IsFiniteSet(Lines(what))
  BY <1>3, <1>4, FS_Subset
<1>6. \A what : Lines(what) = LinesOf(sheet, what)
  BY DEF Lines, LinesOf, invoice
<1>7. \A n : Figure(n) = sheet.lines[n].of
  BY DEF Figure, invoice
<1>8. QED
  BY <1>2, <1>4, <1>5, <1>6, <1>7

OwnKeys(j) == {n \in Lines("key") : Figure(n).project = j}

(* The lines of a project that is done are its keys. *)
LEMMA OwnLines ==
  ASSUME InvoiceInvariant, NEW g \in DOMAIN groups, g < current, HasUsage(groups[g]),
         NEW own, own = OwnKeys(groups[g].project)
  PROVE  /\ \A n \in own : \E i \in DOMAIN groups[g].keys : Figure(n) = Printed(groups[g].keys[i])
         /\ \A i \in DOMAIN groups[g].keys : \E n \in own : Figure(n) = Printed(groups[g].keys[i])
         /\ \A n, m \in own : Figure(n) = Figure(m) => n = m
<1> USE DEF InvoiceInvariant
<1>1. Bears(sheet, "key", KeysDone(current, listed))
  BY DEF PrintedOK
<1>2. /\ \A n \in Lines("key") : Figure(n) \in KeysDone(current, listed)
      /\ \A figure \in KeysDone(current, listed) : \E n \in Lines("key") : Figure(n) = figure
      /\ \A n, m \in Lines("key") : Figure(n) = Figure(m) => n = m
  BY <1>1, LinesAre DEF Bears
<1>3. ASSUME NEW h \in DOMAIN groups, NEW i \in DOMAIN groups[h].keys
      PROVE  /\ Printed(groups[h].keys[i]).project = groups[h].project
             /\ Printed(groups[h].keys[i]) \in RowType
  BY KeyIsRow
<1>4. ASSUME NEW n \in own
      PROVE  \E i \in DOMAIN groups[g].keys : Figure(n) = Printed(groups[g].keys[i])
  <2>1. PICK h \in DOMAIN groups :
          \E i \in DOMAIN groups[h].keys : Figure(n) = Printed(groups[h].keys[i])
    BY <1>2 DEF KeysDone, OwnKeys
  <2>2. h = g
    BY <1>3, <2>1, GroupsAre DEF OwnKeys
  <2>3. QED
    BY <2>1, <2>2
<1>5. ASSUME NEW i \in DOMAIN groups[g].keys
      PROVE  \E n \in own : Figure(n) = Printed(groups[g].keys[i])
  <2>1. Printed(groups[g].keys[i]) \in KeysDone(current, listed)
    BY <1>3 DEF KeysDone, KeyDone
  <2>2. PICK n \in Lines("key") : Figure(n) = Printed(groups[g].keys[i])
    BY <1>2, <2>1
  <2>3. n \in own
    BY <1>3, <2>2 DEF OwnKeys
  <2>4. QED
    BY <2>2, <2>3
<1>6. \A n, m \in own : Figure(n) = Figure(m) => n = m
  <2>1. own \subseteq Lines("key")
    BY DEF OwnKeys
  <2>2. QED
    BY <1>2, <2>1
<1>7. QED
  BY <1>4, <1>5, <1>6

(* The figures of lines come to those of what they are the lines of.       *)
LEMMA FiguresCome ==
  ASSUME NEW lines, IsFiniteSet(lines), NEW f, DOMAIN f = lines, NEW sums, Summable(sums),
         NEW m, \A x \in lines : m[x] \in DOMAIN sums,
         \A x, y \in lines : m[x] = m[y] => x = y,
         \A x \in lines : f[x] = sums[m[x]],
         \A z \in DOMAIN sums : (\A x \in lines : m[x] # z) => sums[z] = 0
  PROVE  SumFunction(f) = SumFunction(sums)
<1>1. Summable(f)
  BY DEF Summable
<1>2. QED
  BY <1>1, SumAlong

(* What is printed of some parts comes to what is printed of their sum. *)
LEMMA LinesCome ==
  ASSUME NEW lines, IsFiniteSet(lines),
         NEW counts, Summable(counts), NEW costs, Summable(costs),
         DOMAIN costs = DOMAIN counts,
         NEW m, \A x \in lines : m[x] \in DOMAIN counts,
         \A x, y \in lines : m[x] = m[y] => x = y,
         \A x \in lines : /\ Figure(x).count = counts[m[x]]
                          /\ Figure(x).cost = InCents(costs[m[x]]),
         \A z \in DOMAIN counts : (\A x \in lines : m[x] # z) => counts[z] = 0 /\ costs[z] = 0,
         NEW sum, sum.count = SumFunction(counts), sum.cost = InCents(SumFunction(costs))
  PROVE  ComesTo(lines, sum)
<1> DEFINE f == [n \in lines |-> Figure(n).count]
           e == [n \in lines |-> costs[m[n]]]
           h == [n \in lines |-> Figure(n).cost]
<1>1. /\ DOMAIN f = lines /\ \A x \in lines : f[x] = counts[m[x]]
      /\ DOMAIN e = lines /\ \A x \in lines : e[x] = costs[m[x]]
      /\ DOMAIN h = lines /\ \A x \in lines : h[x] = InCents(e[x])
  OBVIOUS
<1> HIDE DEF f, e, h
<1>2. SumFunction(f) = SumFunction(counts)
  BY <1>1, FiguresCome
<1>3. SumFunction(e) = SumFunction(costs)
  <2>1. /\ \A x \in lines : m[x] \in DOMAIN costs
        /\ \A z \in DOMAIN costs : (\A x \in lines : m[x] # z) => costs[z] = 0
    OBVIOUS
  <2>2. QED
    BY <1>1, <2>1, FiguresCome
<1>4. Summable(e)
  BY <1>1 DEF Summable
<1>5. Close(SumFunction(h), InCents(SumFunction(e)), Cardinality(lines))
  <2>1. DOMAIN h = DOMAIN e /\ \A x \in DOMAIN e : h[x] = InCents(e[x])
    BY <1>1
  <2>2. Close(SumFunction(h), InCents(SumFunction(e)), Cardinality(DOMAIN e))
    BY <1>4, <2>1, CentsOfSum
  <2>3. QED
    BY <1>1, <2>2
<1>6. Close(SumFunction(h), sum.cost, Cardinality(lines))
  BY <1>3, <1>5
<1>7. SumFunction(f) = sum.count
  BY <1>2
<1>8. QED
  BY <1>6, <1>7 DEF ComesTo, Close, f, h

(* The rows of a project come to its group. *)
LEMMA RowsCome ==
  ASSUME InvoiceInvariant, NEW g \in DOMAIN groups, grouped = Len(answer),
         NEW rows, rows = {a \in DOMAIN answer : answer[a].project = groups[g].project}
  PROVE  /\ groups[g].count = SumFunction([n \in rows |-> answer[n].count])
         /\ groups[g].cost = SumFunction([n \in rows |-> answer[n].cost])
<1> USE DEF InvoiceInvariant
<1> DEFINE keys == groups[g].keys
           counted == [n \in rows |-> answer[n].count]
           spent == [n \in rows |-> answer[n].cost]
           m == [i \in DOMAIN keys |-> CHOOSE n \in rows : answer[n] = keys[i]]
           counts == Counts(keys)
           costs == CostsOf(keys)
<1>1. /\ answer \in Seq(RowType) /\ DOMAIN answer = 1..grouped
      /\ keys \in Seq(RowType) /\ DOMAIN keys = 1..Len(keys)
  BY StateIs DEF InvoiceTypeOK
<1>2. rows \subseteq DOMAIN answer /\ IsFiniteSet(rows)
  <2>1. IsFiniteSet(DOMAIN answer)
    <3>1. PICK l \in Nat : l = Len(answer) /\ DOMAIN answer = 1..l
      BY <1>1
    <3>2. QED
      BY <3>1, FS_Interval
  <2>2. QED
    BY <2>1, FS_Subset
<1>3. GroupOK(answer, groups[g], grouped)
  BY GroupsAre
<1>4. /\ groups[g].count = SumFunction(counts)
      /\ groups[g].cost = SumFunction(costs)
      /\ \A i, k \in DOMAIN keys : keys[i] = keys[k] => i = k
      /\ \A i \in DOMAIN keys : \E n \in rows : answer[n] = keys[i]
      /\ \A n \in rows : answer[n].key # NONE => \E i \in DOMAIN keys : keys[i] = answer[n]
  BY <1>1, <1>3 DEF GroupOK
<1>5. \A i \in DOMAIN keys : m[i] \in rows /\ answer[m[i]] = keys[i]
  BY <1>4
<1> HIDE DEF m
<1>6. \A i, k \in DOMAIN keys : m[i] = m[k] => i = k
  BY <1>4, <1>5
<1>7. ASSUME NEW n \in rows, \A i \in DOMAIN keys : m[i] # n
      PROVE  answer[n].count = 0 /\ answer[n].cost = 0
  <2>1. answer[n].key = NONE
    <3> SUFFICES ASSUME answer[n].key # NONE
                 PROVE  FALSE
      OBVIOUS
    <3>1. PICK i \in DOMAIN keys : keys[i] = answer[n]
      BY <1>4
    <3>2. m[i] \in DOMAIN answer /\ n \in DOMAIN answer /\ answer[m[i]] = answer[n]
      BY <1>2, <1>5, <3>1
    <3>3. m[i] = n
      BY <3>2 DEF AnswerOK
    <3>4. QED
      BY <1>7, <3>3
  <2>2. QED
    BY <1>2, <2>1 DEF AnswerOK
<1>8. /\ DOMAIN counts = DOMAIN keys /\ DOMAIN costs = DOMAIN keys
      /\ \A i \in DOMAIN keys : counts[i] = keys[i].count /\ costs[i] = keys[i].cost
      /\ Summable(counts) /\ Summable(costs)
  BY <1>1, CountsIs
<1> HIDE DEF keys, counts, costs
<1>9. /\ DOMAIN counted = rows /\ DOMAIN spent = rows
      /\ \A n \in rows : counted[n] = answer[n].count /\ spent[n] = answer[n].cost
  OBVIOUS
<1> HIDE DEF counted, spent
<1>10. \A n \in rows : answer[n].count \in Nat /\ answer[n].cost \in Nat
  <2>1. \A n \in rows : answer[n] \in RowType
    BY <1>1, <1>2
  <2>2. QED
    BY <2>1 DEF RowType
<1>11. Summable(counted) /\ Summable(spent)
  BY <1>2, <1>9, <1>10 DEF Summable
<1>12. IsFiniteSet(DOMAIN keys)
  BY <1>8 DEF Summable
<1>13. SumFunction(counts) = SumFunction(counted)
  <2>1. /\ \A i \in DOMAIN keys : m[i] \in DOMAIN counted /\ counts[i] = counted[m[i]]
        /\ \A z \in DOMAIN counted : (\A i \in DOMAIN keys : m[i] # z) => counted[z] = 0
    BY <1>5, <1>7, <1>8, <1>9
  <2>2. QED
    BY <1>6, <1>8, <1>11, <1>12, <2>1, FiguresCome
<1>14. SumFunction(costs) = SumFunction(spent)
  <2>1. /\ \A i \in DOMAIN keys : m[i] \in DOMAIN spent /\ costs[i] = spent[m[i]]
        /\ \A z \in DOMAIN spent : (\A i \in DOMAIN keys : m[i] # z) => spent[z] = 0
    BY <1>5, <1>7, <1>8, <1>9
  <2>2. DOMAIN costs = DOMAIN keys
    BY <1>8
  <2>3. Summable(spent)
    BY <1>11
  <2>4. QED
    BY <1>6, <1>12, <2>1, <2>2, <2>3, FiguresCome
<1>15. QED
  BY <1>4, <1>13, <1>14 DEF counted, spent

(* The keys of a project that is done come to its subtotal and are there   *)
(* all of them.                                                            *)
LEMMA KeysCome ==
  ASSUME InvoiceInvariant, NEW g \in DOMAIN groups, g < current, HasUsage(groups[g]),
         grouped = Len(answer),
         NEW own, own = OwnKeys(groups[g].project),
         NEW sum, sum.count = groups[g].count, sum.cost = InCents(groups[g].cost)
  PROVE  /\ {Figure(n).key : n \in own} = KeysOf(groups[g].project)
         /\ Cardinality(own) = layout.keys[groups[g].project]
         /\ ComesTo(own, sum)
<1> DEFINE keys == groups[g].keys
           j == groups[g].project
<1>1. /\ \A n \in own : \E i \in DOMAIN keys : Figure(n) = Printed(keys[i])
      /\ \A i \in DOMAIN keys : \E n \in own : Figure(n) = Printed(keys[i])
      /\ \A n, m \in own : Figure(n) = Figure(m) => n = m
  BY OwnLines
<1> USE DEF InvoiceInvariant
<1>2. IsFiniteSet(own)
  <2>1. own \subseteq Lines("key")
    BY DEF OwnKeys
  <2>2. QED
    BY <2>1, LinesAre, FS_Subset
<1>3. keys \in Seq(RowType)
  BY StateIs
<1>4. GroupOK(answer, groups[g], grouped)
  BY GroupsAre
<1>5. /\ \A i \in DOMAIN keys : \E n \in 1..grouped : answer[n] = keys[i] /\ keys[i].key # NONE
      /\ \A n \in 1..grouped : answer[n].project = j /\ answer[n].key # NONE
           => \E i \in DOMAIN keys : keys[i] = answer[n]
  BY <1>4 DEF GroupOK
<1>6. DOMAIN answer = 1..grouped
  BY DEF InvoiceTypeOK
<1>7. j \in Projects
  BY <1>6, GroupsAre DEF AnswerOK
<1>8. \A i \in DOMAIN keys : /\ keys[i] \in RowType /\ keys[i].project = j
                             /\ Printed(keys[i]).key = keys[i].key
  BY KeyIsRow
<1>9. \A i, k \in DOMAIN keys : Printed(keys[i]) = Printed(keys[k]) => i = k
  BY KeysDiffer
<1>10. \A n \in own : Figure(n).key \in KeysOf(j)
  <2>1. \A i \in DOMAIN keys : keys[i].key \in KeysOf(j)
    BY <1>5, <1>6, <1>8 DEF AnswerOK
  <2>2. QED
    BY <1>1, <1>8, <2>1
<1>11. \A k \in KeysOf(j) : \E n \in own : Figure(n).key = k
  <2> SUFFICES ASSUME NEW k \in KeysOf(j)
               PROVE  \E n \in own : Figure(n).key = k
    OBVIOUS
  <2>1. PICK a \in DOMAIN answer : answer[a].project = j /\ answer[a].key = k
    <3>1. PICK b \in DOMAIN answer : answer[b].project = j
      BY <1>6, GroupsAre
    <3>2. \A n \in DOMAIN answer : \A l \in KeysOf(answer[n].project) :
            \E m \in DOMAIN answer : answer[m].project = answer[n].project /\ answer[m].key = l
      BY Zenon DEF AnswerOK
    <3>3. QED
      BY <3>1, <3>2
  <2>2. k # NONE
    BY <1>7, KeysOfIs
  <2>3. PICK i \in DOMAIN keys : keys[i] = answer[a]
    BY <1>5, <1>6, <2>1, <2>2
  <2>4. QED
    BY <1>1, <1>8, <2>1, <2>3
<1>12. \A n, m \in own : Figure(n).key = Figure(m).key => n = m
  <2> SUFFICES ASSUME NEW n \in own, NEW m \in own, Figure(n).key = Figure(m).key
               PROVE  n = m
    OBVIOUS
  <2>1. PICK i \in DOMAIN keys, k \in DOMAIN keys :
          Figure(n) = Printed(keys[i]) /\ Figure(m) = Printed(keys[k])
    BY <1>1
  <2>2. keys[i].key = keys[k].key /\ keys[i].project = keys[k].project
    BY <1>8, <2>1
  <2>3. PICK a \in DOMAIN answer, b \in DOMAIN answer : answer[a] = keys[i] /\ answer[b] = keys[k]
    BY <1>5, <1>6
  <2>4. a = b
    BY <2>2, <2>3 DEF AnswerOK
  <2>5. QED
    BY <1>1, <2>1, <2>3, <2>4
<1>13. {Figure(n).key : n \in own} = KeysOf(j)
  BY <1>10, <1>11
<1>14. Cardinality(own) = layout.keys[j]
  <2> DEFINE f == [n \in own |-> Figure(n).key]
  <2>1. /\ \A n, m \in own : f[n] = f[m] => n = m
        /\ f \in [own -> KeysOf(j)]
        /\ \A k \in KeysOf(j) : \E n \in own : f[n] = k
    BY <1>10, <1>11, <1>12
  <2> HIDE DEF f
  <2>2. ExistsBijection(own, KeysOf(j))
    BY <2>1 DEF ExistsBijection, Bijection, Injection, Surjection, IsInjective
  <2>3. Cardinality(own) = Cardinality(KeysOf(j))
    BY <1>2, <2>2, FS_Bijection
  <2>4. QED
    BY <1>7, <2>3, KeysOfIs
<1>15. ComesTo(own, sum)
  <2> DEFINE m == [n \in own |-> CHOOSE i \in DOMAIN keys : Figure(n) = Printed(keys[i])]
             counts == Counts(keys)
             costs == CostsOf(keys)
  <2>1. \A n \in own : m[n] \in DOMAIN keys /\ Figure(n) = Printed(keys[m[n]])
    BY <1>1
  <2> HIDE DEF m
  <2>2. DOMAIN keys = 1..Len(keys)
    BY <1>3
  <2>3. /\ DOMAIN counts = DOMAIN keys /\ DOMAIN costs = DOMAIN keys
        /\ \A i \in DOMAIN keys : counts[i] = keys[i].count /\ costs[i] = keys[i].cost
        /\ Summable(counts) /\ Summable(costs)
    BY <1>3, <2>2, CountsIs
  <2> HIDE DEF counts, costs
  <2>4. \A x, y \in own : m[x] = m[y] => x = y
    BY <1>1, <2>1
  <2>5. \A z \in DOMAIN keys : \E x \in own : m[x] = z
    BY <1>1, <1>9, <2>1
  <2>6. \A x \in own : /\ Figure(x).count = counts[m[x]]
                       /\ Figure(x).cost = InCents(costs[m[x]])
    <3> SUFFICES ASSUME NEW x \in own
                 PROVE  /\ Figure(x).count = counts[m[x]]
                        /\ Figure(x).cost = InCents(costs[m[x]])
      OBVIOUS
    <3>1. PICK i \in DOMAIN keys : i = m[x] /\ Figure(x) = Printed(keys[i])
      BY <2>1
    <3>2. Printed(keys[i]).count = keys[i].count /\ Printed(keys[i]).cost = InCents(keys[i].cost)
      BY <1>8, PrintedIs
    <3>3. QED
      BY <2>3, <3>1, <3>2
  <2>7. sum.count = SumFunction(counts) /\ sum.cost = InCents(SumFunction(costs))
    BY <1>4 DEF GroupOK, counts, costs
  <2>8. /\ \A x \in own : m[x] \in DOMAIN counts
        /\ \A z \in DOMAIN counts : (\A x \in own : m[x] # z) => counts[z] = 0 /\ costs[z] = 0
    BY <2>1, <2>3, <2>5
  <2>9. Summable(counts) /\ Summable(costs) /\ DOMAIN costs = DOMAIN counts
    BY <2>3
  <2>10. QED
    BY <1>2, <2>4, <2>6, <2>7, <2>8, <2>9, LinesCome
<1>16. QED
  BY <1>13, <1>14, <1>15

(* The subtotals come to the total. *)
LEMMA SubtotalsCome ==
  ASSUME InvoiceInvariant, current > Len(groups), grouped = Len(answer),
         NEW subs, subs = Lines("subtotal"),
         NEW sum, sum.count = SumFunction(Counts(answer)),
         sum.cost = InCents(SumFunction(CostsOf(answer)))
  PROVE  ComesTo(subs, sum)
<1> USE DEF InvoiceInvariant
<1>1. /\ \A n \in subs : Figure(n) \in SubtotalsDone(current)
      /\ \A figure \in SubtotalsDone(current) : \E n \in subs : Figure(n) = figure
      /\ \A n, m \in subs : Figure(n) = Figure(m) => n = m
  BY LinesAre DEF PrintedOK, Bears
<1>2. IsFiniteSet(subs)
  BY LinesAre
<1>3. groups \in Seq(GroupType) /\ DOMAIN groups = 1..Len(groups) /\ Len(groups) \in Nat
      /\ current \in Nat
  BY StateIs DEF InvoiceTypeOK
<1> DEFINE m == [n \in subs |-> CHOOSE g \in DOMAIN groups :
                                  HasUsage(groups[g]) /\ Figure(n) = Printed(Subtotal(groups[g]))]
           counts == Counts(groups)
           costs == CostsOf(groups)
<1>4. \A n \in subs : /\ m[n] \in DOMAIN groups /\ HasUsage(groups[m[n]])
                      /\ Figure(n) = Printed(Subtotal(groups[m[n]]))
  <2>1. \A n \in subs : \E g \in DOMAIN groups :
          HasUsage(groups[g]) /\ Figure(n) = Printed(Subtotal(groups[g]))
    BY <1>1 DEF SubtotalsDone
  <2>2. QED
    BY <2>1
<1> HIDE DEF m
<1>5. \A n \in subs : /\ Figure(n).project = groups[m[n]].project
                      /\ Figure(n).count = groups[m[n]].count
                      /\ Figure(n).cost = InCents(groups[m[n]].cost)
  BY <1>4, SubtotalsDoneNext
<1>6. /\ DOMAIN counts = DOMAIN groups /\ DOMAIN costs = DOMAIN groups
      /\ \A g \in DOMAIN groups : counts[g] = groups[g].count /\ costs[g] = groups[g].cost
      /\ Summable(counts) /\ Summable(costs)
  BY <1>3, CountsIs
<1> HIDE DEF counts, costs
<1>7. \A x, y \in subs : m[x] = m[y] => x = y
  BY <1>1, <1>4
<1>8. \A x \in subs : /\ Figure(x).count = counts[m[x]]
                      /\ Figure(x).cost = InCents(costs[m[x]])
  BY <1>4, <1>5, <1>6
<1>9. \A g \in DOMAIN groups : (\A x \in subs : m[x] # g) => ~HasUsage(groups[g])
  <2> SUFFICES ASSUME NEW g \in DOMAIN groups, HasUsage(groups[g])
               PROVE  \E x \in subs : m[x] = g
    OBVIOUS
  <2>1. g < current
    BY <1>3
  <2>2. Printed(Subtotal(groups[g])) \in SubtotalsDone(current)
    BY <2>1, SubtotalsDoneNext DEF SubtotalsDone
  <2>3. PICK x \in subs : Figure(x) = Printed(Subtotal(groups[g]))
    BY <1>1, <2>2
  <2>4. groups[m[x]].project = groups[g].project
    BY <1>5, <2>3, SubtotalsDoneNext
  <2>5. m[x] = g
    BY <1>4, <2>4, GroupsAre
  <2>6. QED
    BY <2>5
<1>10. \A z \in DOMAIN counts : (\A x \in subs : m[x] # z) => counts[z] = 0 /\ costs[z] = 0
  BY <1>6, <1>9 DEF HasUsage
<1>11. SumFunction(Counts(answer)) = SumFunction(counts)
         /\ SumFunction(CostsOf(answer)) = SumFunction(costs)
  <2>1. DOMAIN answer = 1..grouped
    BY DEF InvoiceTypeOK
  <2>2. /\ SumFunction([n \in 1..grouped |-> answer[n].count]) = SumFunction(counts)
        /\ SumFunction([n \in 1..grouped |-> answer[n].cost]) = SumFunction(costs)
    BY Zenon DEF GroupsOK, GatheredOK, counts, costs
  <2>3. QED
    BY <2>1, <2>2 DEF Counts, CostsOf
<1>12. sum.count = SumFunction(counts) /\ sum.cost = InCents(SumFunction(costs))
  BY <1>11
<1>13. \A x \in subs : m[x] \in DOMAIN counts
  BY <1>4, <1>6
<1>14. Summable(counts) /\ Summable(costs) /\ DOMAIN costs = DOMAIN counts
  BY <1>6
<1>15. QED
  BY <1>2, <1>7, <1>8, <1>10, <1>12, <1>13, <1>14, LinesCome

(* Where the invariant holds, the figures agree, *)
LEMMA AddsUpNow == ASSUME InvoiceInvariant PROVE AddsUp
<1> USE DEF InvoiceInvariant
<1>1. \A what : \A n \in Lines(what) : n \in DOMAIN invoice
  BY LinesAre
<1>2. ASSUME NEW n \in DOMAIN invoice
      PROVE  grouped = Len(answer)
  <2>1. invoice # << >>
    OBVIOUS
  <2>2. QED
    BY <2>1 DEF CursorOK
<1>3. ASSUME NEW m \in Lines("subtotal")
      PROVE  \E g \in DOMAIN groups : /\ g < current /\ HasUsage(groups[g])
                                      /\ Figure(m) = Printed(Subtotal(groups[g]))
                                      /\ Figure(m).project = groups[g].project
                                      /\ Figure(m).count = groups[g].count
                                      /\ Figure(m).cost = InCents(groups[g].cost)
  <2>1. Figure(m) \in SubtotalsDone(current)
    BY LinesAre DEF PrintedOK, Bears
  <2>2. PICK g \in DOMAIN groups : /\ g < current /\ HasUsage(groups[g])
                                   /\ Figure(m) = Printed(Subtotal(groups[g]))
    BY <2>1 DEF SubtotalsDone
  <2>3. QED
    BY <2>2, SubtotalsDoneNext
<1>4. ASSUME NEW m \in Lines("subtotal"), NEW n \in Lines("subtotal"),
             Figure(n).project = Figure(m).project
      PROVE  m = n
  <2>1. PICK g \in DOMAIN groups : /\ Figure(m) = Printed(Subtotal(groups[g]))
                                   /\ Figure(m).project = groups[g].project
    BY <1>3
  <2>2. PICK h \in DOMAIN groups : /\ Figure(n) = Printed(Subtotal(groups[h]))
                                   /\ Figure(n).project = groups[h].project
    BY <1>3
  <2>3. g = h
    BY <1>4, <2>1, <2>2, GroupsAre
  <2>4. Figure(m) = Figure(n)
    BY <2>1, <2>2, <2>3
  <2>5. QED
    BY <2>4, LinesAre DEF PrintedOK, Bears
<1>5. ASSUME NEW m \in Lines("subtotal"), NEW project, project = Figure(m).project,
             NEW own, own = {n \in Lines("key") : Figure(n).project = project}
      PROVE  /\ {Figure(n).key : n \in own} = KeysOf(project)
             /\ Cardinality(own) = layout.keys[project]
             /\ IsSumOf(Figure(m), {a \in DOMAIN answer : answer[a].project = project})
             /\ ComesTo(own, Figure(m))
  <2>1. PICK g \in DOMAIN groups : /\ g < current /\ HasUsage(groups[g])
                                   /\ project = groups[g].project
                                   /\ Figure(m).count = groups[g].count
                                   /\ Figure(m).cost = InCents(groups[g].cost)
    BY <1>3, <1>5
  <2>2. grouped = Len(answer)
    BY <1>1, <1>2
  <2>3. own = OwnKeys(groups[g].project)
    BY <1>5, <2>1 DEF OwnKeys
  <2>4. /\ {Figure(n).key : n \in own} = KeysOf(groups[g].project)
        /\ Cardinality(own) = layout.keys[groups[g].project]
        /\ ComesTo(own, Figure(m))
    BY <2>1, <2>2, <2>3, KeysCome
  <2>5. IsSumOf(Figure(m), {a \in DOMAIN answer : answer[a].project = project})
    <3>1. PICK rows : rows = {a \in DOMAIN answer : answer[a].project = groups[g].project}
      OBVIOUS
    <3>2. /\ groups[g].count = SumFunction([n \in rows |-> answer[n].count])
          /\ groups[g].cost = SumFunction([n \in rows |-> answer[n].cost])
      BY <2>2, <3>1, RowsCome
    <3>3. IsSumOf(Figure(m), rows)
      BY <2>1, <3>2 DEF IsSumOf
    <3>4. QED
      BY <2>1, <3>1, <3>3
  <2>6. QED
    BY <2>1, <2>4, <2>5
<1>6. ASSUME NEW m \in Lines("total")
      PROVE  IsSumOf(Figure(m), DOMAIN answer) /\ ComesTo(Lines("subtotal"), Figure(m))
  <2>1. Figure(m) \in TotalsDone(current)
    BY LinesAre DEF PrintedOK, Bears
  <2>2. Figure(m) = Printed(Total(answer)) /\ current > Len(groups)
    BY <2>1, StateIs DEF TotalsDone
  <2>3. grouped = Len(answer)
    BY <1>1, <1>2
  <2>4. /\ Figure(m).count = SumFunction(Counts(answer))
        /\ Figure(m).cost = InCents(SumFunction(CostsOf(answer)))
    BY <2>2, TotalsDoneIs
  <2>5. ComesTo(Lines("subtotal"), Figure(m))
    BY <2>2, <2>3, <2>4, SubtotalsCome
  <2>6. IsSumOf(Figure(m), DOMAIN answer)
    BY <2>4 DEF IsSumOf, Counts, CostsOf
  <2>7. QED
    BY <2>5, <2>6
<1>7. ASSUME NEW n \in Lines("key")
      PROVE  \E a \in DOMAIN answer : Figure(n) = Printed(answer[a])
  <2>1. Figure(n) \in KeysDone(current, listed)
    BY LinesAre DEF PrintedOK, Bears
  <2>2. PICK g \in DOMAIN groups : \E i \in DOMAIN groups[g].keys :
          Figure(n) = Printed(groups[g].keys[i])
    BY <2>1 DEF KeysDone
  <2>3. PICK i \in DOMAIN groups[g].keys : Figure(n) = Printed(groups[g].keys[i])
    BY <2>2
  <2>4. PICK a \in DOMAIN answer : answer[a] = groups[g].keys[i]
    BY KeyIsRow
  <2>5. QED
    BY <2>3, <2>4
<1>8. QED
  BY <1>4, <1>5, <1>6, <1>7 DEF AddsUp

(***************************************************************************)
(* The figures of an invoice agree, whatever the projects, their names and *)
(* the requests (the grouping of export_usage_report and                   *)
(* generate_org_invoice_pdf).                                              *)
(***************************************************************************)
THEOREM InvoiceAddsUp == InvoiceSpec => []AddsUp
<1>1. InvoiceInvariant => AddsUp
  BY AddsUpNow
<1>2. QED
  BY <1>1, InvoiceInductive, PTL

(* A project of up to 18 keys is one that a page has room for. *)
LEMMA FewKeysFit ==
  ASSUME InvoiceInvariant, grouped = Len(answer), NEW g \in DOMAIN groups,
         layout.keys[groups[g].project] <= 18
  PROVE  GroupHeight(groups[g]) <= 380
<1> USE DEF InvoiceInvariant
<1> DEFINE keys == groups[g].keys
           j == groups[g].project
<1>1. GroupOK(answer, groups[g], grouped)
  BY GroupsAre
<1>2. DOMAIN answer = 1..grouped
  BY DEF InvoiceTypeOK
<1>3. j \in Projects
  BY <1>2, GroupsAre DEF AnswerOK
<1>4. PICK l \in Nat : l = Len(keys) /\ DOMAIN keys = 1..l /\ (keys = << >> <=> l = 0)
  BY StateIs
<1>5. \A i \in 1..l : \E n \in 1..grouped : answer[n] = keys[i] /\ answer[n].project = j
                                            /\ answer[n].key # NONE
  BY <1>1, <1>4 DEF GroupOK
<1>6. \A i, k \in 1..l : keys[i] = keys[k] => i = k
  BY <1>1, <1>4 DEF GroupOK
<1> HIDE DEF keys, j
<1>7. \A i \in 1..l : keys[i].key \in KeysOf(j)
  BY <1>2, <1>5 DEF AnswerOK
<1>8. \A i, k \in 1..l : keys[i].key = keys[k].key => i = k
  <2> SUFFICES ASSUME NEW i \in 1..l, NEW k \in 1..l, keys[i].key = keys[k].key
               PROVE  i = k
    OBVIOUS
  <2>1. PICK a \in DOMAIN answer : answer[a] = keys[i] /\ answer[a].project = j
    BY <1>2, <1>5
  <2>2. PICK b \in DOMAIN answer : answer[b] = keys[k] /\ answer[b].project = j
    BY <1>2, <1>5
  <2>3. a = b
    BY <2>1, <2>2 DEF AnswerOK
  <2>4. QED
    BY <1>6, <2>1, <2>2, <2>3
<1>9. l <= layout.keys[j]
  <2> DEFINE f == [i \in 1..l |-> keys[i].key]
  <2>1. f \in [1..l -> KeysOf(j)] /\ \A i, k \in 1..l : f[i] = f[k] => i = k
    BY <1>7, <1>8
  <2> HIDE DEF f
  <2>2. f \in Injection(1..l, KeysOf(j))
    BY <2>1 DEF Injection, IsInjective
  <2>3. IsFiniteSet(KeysOf(j)) /\ Cardinality(KeysOf(j)) = layout.keys[j]
    BY <1>3, KeysOfIs
  <2>4. Cardinality(1..l) <= Cardinality(KeysOf(j))
    BY <2>2, <2>3, FS_Injection
  <2>5. Cardinality(1..l) = l
    BY FS_Interval
  <2>6. QED
    BY <2>3, <2>4, <2>5
<1>10. l <= 18
  <2>1. layout.keys[j] \in Nat /\ layout.keys[j] <= 18
    BY <1>3, LayoutIs DEF j
  <2>2. QED
    BY <1>9, <2>1
<1>11. QED
  BY <1>4, <1>10 DEF GroupHeight, keys

(* Where the invariant holds, the pages are right. *)
LEMMA ReadableNow == ASSUME InvoiceInvariant PROVE Readable
<1> USE DEF InvoiceInvariant
<1>1. ASSUME NEW n \in DOMAIN invoice, NEW line, line = invoice[n],
             NEW titles,
             titles = {m \in Lines("title") : Figure(m).project = line.of.project}
      PROVE  /\ line.y >= Footer + 16
             /\ n > 1 => Apart(invoice[n - 1], line)
             /\ line.what # "total" =>
                  /\ \E m \in titles : m <= n /\ invoice[m].page = line.page
                  /\ layout.keys[line.of.project] <= 18 => Cardinality(titles) = 1
  <2>1. /\ line.y >= 52
        /\ n > 1 => Apart(invoice[n - 1], line)
        /\ line.what # "total" => TitleOn(sheet, n, line.page, line.of.project)
    BY <1>1 DEF PrintedOK, PagesOK, invoice
  <2>2. line.y >= Footer + 16
    BY <2>1 DEF Footer
  <2>3. ASSUME line.what # "total"
        PROVE  \E m \in titles : m <= n /\ invoice[m].page = line.page
    BY <1>1, <2>1, <2>3, LinesAre DEF TitleOn, invoice
  <2>4. ASSUME line.what # "total", layout.keys[line.of.project] <= 18
        PROVE  Cardinality(titles) = 1
    <3>1. PICK m \in titles : TRUE
      BY <2>3, <2>4
    <3>2. PICK g \in DOMAIN groups : Figure(m).project = groups[g].project
      BY <1>1, <3>1, LinesAre DEF PrintedOK, TitlesOK
    <3>3. line.of.project = groups[g].project
      BY <1>1, <3>1, <3>2
    <3>4. grouped = Len(answer)
      <4>1. invoice # << >>
        BY <1>1
      <4>2. QED
        BY <4>1 DEF CursorOK
    <3>5. GroupHeight(groups[g]) <= 380
      BY <2>4, <3>3, <3>4, FewKeysFit
    <3>6. \A o \in titles : o = m
      BY <1>1, <3>3, <3>5, LinesAre DEF PrintedOK, TitlesOK
    <3>7. titles = {m}
      BY <3>6
    <3>8. QED
      BY <3>7, FS_Singleton
  <2>5. QED
    BY <2>1, <2>2, <2>3, <2>4
<1>2. QED
  BY <1>1 DEF Readable

(***************************************************************************)
(* Whatever the projects, the lines of an invoice are apart from each      *)
(* other and the footer, under the title of their project, and a project   *)
(* of up to 18 keys is not torn apart (generate_org_invoice_pdf).          *)
(***************************************************************************)
THEOREM InvoiceReadable == InvoiceSpec => []Readable
<1>1. InvoiceInvariant => Readable
  BY ReadableNow
<1>2. QED
  BY <1>1, InvoiceInductive, PTL

-----------------------------------------------------------------------------
(* The periods.                                                            *)

(* The window of a period is the instants of its seconds. *)
LEMMA WindowOfSeconds ==
  ASSUME NEW p \in Periods
  PROVE  /\ FirstSecond(p) \in Int /\ LastSecond(p) \in Int
         /\ Window(p).start = 2 * FirstSecond(p)
         /\ Window(p).end = 2 * (LastSecond(p) + 1)
<1> USE InvoiceAssumption
<1>1. CASE p \in Months
  <2>1. PICK m \in 0..(Days \div MonthDays) - 1 : p = [month |-> m]
    BY <1>1 DEF Months
  <2>2. IsMonth(p) /\ p.month = m
    BY <2>1 DEF IsMonth
  <2>3. /\ m * MonthDays * DaySeconds \in Int
        /\ (m + 1) * MonthDays * DaySeconds \in Int
    BY <2>1
  <2>4. QED
    BY <2>2, <2>3 DEF FirstSecond, LastSecond, Window, Instant
<1>2. CASE p \in Customs
  <2>1. p.start \in Texts /\ p.end \in Texts /\ ~IsMonth(p)
    BY <1>2 DEF Customs, IsMonth
  <2>2. ASSUME NEW t \in Texts
        PROVE  /\ t.day * DaySeconds \in Int
               /\ t.second # NONE => t.second \in Int
    BY DEF Texts
  <2>3. QED
    BY <2>1, <2>2 DEF FirstSecond, LastSecond, Window, Instant, StartTime, EndExclusive
<1>3. QED
  BY <1>1, <1>2 DEF Periods

(***************************************************************************)
(* The invoices for two periods that follow one another count a request    *)
(* once between them (parse_report_time_range, the query's bounds).        *)
(***************************************************************************)
THEOREM InvoiceBilledOnce == InvoiceSpec => []BilledOnce
<1>1. InvoiceTypeOK => BilledOnce
  <2> SUFFICES ASSUME InvoiceTypeOK, NEW p \in Consecutive
               PROVE  /\ InWindow(p.one) \cap InWindow(p.next) = {}
                      /\ InWindow(p.one) \cup InWindow(p.next) =
                           {r \in Requests : log[r].at # NONE
                                              /\ log[r].at \div 2 \in p.seconds}
    BY DEF BilledOnce
  <2>0. PICK one \in Periods, two \in Periods :
          /\ Accepted(one) /\ Accepted(two)
          /\ LastSecond(one) + 1 = FirstSecond(two)
          /\ p = [one |-> Window(one), next |-> Window(two),
                  seconds |-> FirstSecond(one)..LastSecond(two)]
    BY DEF Consecutive
  <2> DEFINE a == FirstSecond(one)
             b == FirstSecond(two)
             c == LastSecond(two)
  <2>1. /\ a \in Int /\ b \in Int /\ c \in Int
        /\ Window(one).start = 2 * a /\ Window(one).end = 2 * b
        /\ Window(two).start = 2 * b /\ Window(two).end = 2 * (c + 1)
    BY <2>0, WindowOfSeconds
  <2>2. 2 * a < 2 * b /\ 2 * b < 2 * (c + 1)
    BY <2>0, <2>1 DEF Accepted
  <2> HIDE DEF a, b, c
  <2>3. ASSUME NEW r \in Requests, log[r].at # NONE
        PROVE  /\ ~(log[r].at < 2 * b /\ 2 * b <= log[r].at)
               /\ \/ 2 * a <= log[r].at /\ log[r].at < 2 * b
                  \/ 2 * b <= log[r].at /\ log[r].at < 2 * (c + 1)
                  <=> log[r].at \div 2 \in a..c
    <3>1. PICK t \in Nat : t = log[r].at
      BY <2>3 DEF InvoiceTypeOK
    <3>2. QED
      BY <2>1, <2>2, <3>1
  <2>4. QED
    BY <2>0, <2>1, <2>3 DEF InWindow, a, c
<1>2. QED
  BY <1>1, InvoiceTypeCorrect, PTL
===============================================================================
