----------------------------- MODULE RequestsProofs -----------------------------
(***************************************************************************)
(* Theorems about Requests and their proofs, for conversations of any       *)
(* length with any calls.                                                  *)
(*                                                                         *)
(* The inductive invariant is Held (what was said so far says the same      *)
(* translated) and Kempt (what was said so far keeps the provider's order   *)
(* as it keeps the client's), pair by pair.  Every message that a client    *)
(* may add is taken through the conversion, and through the reading of both *)
(* sides, once; how folds and joined sequences take one element more is     *)
(* proved before that, for all of them together.                           *)
(***************************************************************************)
EXTENDS Requests, NaturalsInduction, FiniteSetTheorems, SequenceTheorems,
        WellFoundedInduction, TLAPS

-----------------------------------------------------------------------------
(***************************************************************************)
(* Sequences and folds.  The lemmas are proved for the operators the model  *)
(* folds with, told apart by a name, because no lemma can range over        *)
(* operators.                                                              *)
(***************************************************************************)
Do(t, a, x) ==
  CASE t = "join" -> a \o x [] t = "tell" -> Tell(a, x) [] t = "push" -> PushMessage(a, x)
    [] t = "single" -> Took(FALSE, a, x) [] t = "batch" -> Took(TRUE, a, x)

\* A sequence of any elements: no set has to be named that they are in.
IsSeq(s) == Len(s) \in Nat /\ s = [i \in 1..Len(s) |-> s[i]]

\* What the fold computes of a set of positions, from the last to the first.
FoldEq(t, b, s, D, g) ==
  [S \in SUBSET D |-> IF S = {} THEN b ELSE Do(t, g[S \ {Max(S)}], s[Max(S)])]

IsFold(t, b, s, n, g) == g = FoldEq(t, b, s, 1..n, g)

\* The fold of FoldLeft, as a function of the positions taken so far.
Fold(t, b, s) == LET f == CHOOSE f : f = FoldEq(t, b, s, DOMAIN s, f) IN f[DOMAIN s]

LEMMA LeastNatural ==
  ASSUME NEW N, N \subseteq Nat, N # {}
  PROVE  \E k \in N : \A m \in N : k <= m
<1> DEFINE R == OpToRel(<, Nat)
<1>1. IsWellFoundedOn(R, Nat)
  BY NatLessThanWellFounded
<1>2. \A m \in Nat, k \in Nat : m < k => <<m, k>> \in R
  BY DEF OpToRel
<1> HIDE DEF R
<1>3. PICK k \in N : \A m \in N : <<m, k>> \notin R
  BY <1>1, WFMin
<1>4. \A m \in N : ~(m < k)
  BY <1>2, <1>3
<1> QED BY <1>4

LEMMA Inductive ==
  ASSUME NEW N, 0 \in N, \A k \in Nat : k \in N => k + 1 \in N
  PROVE  Nat \subseteq N
<1> DEFINE B == Nat \ N
<1> SUFFICES ASSUME B # {} PROVE FALSE
  OBVIOUS
<1>1. PICK k \in B : \A m \in B : k <= m
  <2>1. B \subseteq Nat
    OBVIOUS
  <2> HIDE DEF B
  <2> QED BY <2>1, LeastNatural
<1>2. k # 0 /\ k \in Nat /\ k - 1 \in Nat /\ k - 1 \notin B
  BY <1>1
<1>3. (k - 1) + 1 \in N
  BY <1>2
<1> QED BY <1>2, <1>3

LEMMA MaxOfNumbers ==
  ASSUME NEW n \in Nat, NEW S \in SUBSET (1..n), S # {}
  PROVE  Max(S) \in S /\ \A y \in S : y <= Max(S)
<1> DEFINE N == {k \in Nat : \A y \in S : y <= k}
<1>1. n \in N /\ N \subseteq Nat
  OBVIOUS
<1>2. PICK k \in N : \A m \in N : k <= m
  <2> HIDE DEF N
  <2> QED BY <1>1, LeastNatural
<1>3. k \in S
  <2> SUFFICES ASSUME k \notin S PROVE FALSE
    OBVIOUS
  <2>1. \A y \in S : y \in Nat /\ y <= k - 1 /\ y >= 1
    OBVIOUS
  <2>2. k \in Nat /\ k >= 1
    <3>1. PICK y \in S : y \in Nat /\ y >= 1 /\ y <= k
      BY <2>1
    <3> QED BY <3>1
  <2>3. k - 1 \in N
    BY <2>1, <2>2
  <2> QED BY <1>2, <2>2, <2>3
<1>4. \A y \in S : k >= y
  OBVIOUS
<1>5. \E x \in S : \A y \in S : x >= y
  BY <1>3, <1>4
<1> QED BY <1>5 DEF Max

LEMMA FoldExists ==
  ASSUME NEW t, NEW b, NEW s, NEW n \in Nat
  PROVE  \E g : g = FoldEq(t, b, s, 1..n, g)
<1> DEFINE Good == {k \in Nat : \E g : g = FoldEq(t, b, s, 1..k, g)}
<1>1. 0 \in Good
  <2> DEFINE g == [S \in SUBSET (1..0) |-> b]
  <2>1. \A S \in SUBSET (1..0) : S = {}
    OBVIOUS
  <2>2. g = FoldEq(t, b, s, 1..0, g)
    BY <2>1 DEF FoldEq
  <2> QED BY <2>2
<1>2. ASSUME NEW k \in Nat, k \in Good PROVE k + 1 \in Good
  <2>1. PICK g : g = FoldEq(t, b, s, 1..k, g)
    BY <1>2
  <2> DEFINE h == FoldEq(t, b, s, 1..(k + 1), g)
  <2>2. ASSUME NEW S \in SUBSET (1..(k + 1)), S # {}
        PROVE  S \ {Max(S)} \in SUBSET (1..k)
    <3>1. k + 1 \in Nat
      OBVIOUS
    <3>2. Max(S) \in S /\ \A y \in S : y <= Max(S)
      BY <2>2, <3>1, MaxOfNumbers
    <3>3. \A y \in S \ {Max(S)} : y \in 1..(k + 1) /\ y <= Max(S) /\ y # Max(S)
            /\ Max(S) \in 1..(k + 1)
      BY <3>2
    <3>4. \A y \in S \ {Max(S)} : y \in 1..k
      BY <3>3
    <3> QED BY <3>4
  <2>3. \A S \in SUBSET (1..k) : S \in SUBSET (1..(k + 1))
    OBVIOUS
  <2>4. \A S \in SUBSET (1..k) : h[S] = g[S]
    <3>1. \A S \in SUBSET (1..k) :
            g[S] = IF S = {} THEN b ELSE Do(t, g[S \ {Max(S)}], s[Max(S)])
      BY <2>1 DEF FoldEq
    <3> QED BY <2>3, <3>1 DEF FoldEq
  <2>5. ASSUME NEW S \in SUBSET (1..(k + 1))
        PROVE  h[S] = IF S = {} THEN b ELSE Do(t, h[S \ {Max(S)}], s[Max(S)])
    <3>1. h[S] = IF S = {} THEN b ELSE Do(t, g[S \ {Max(S)}], s[Max(S)])
      BY DEF FoldEq
    <3> HIDE DEF h
    <3> QED BY <2>2, <2>4, <3>1
  <2>6. h = [S \in SUBSET (1..(k + 1)) |-> h[S]]
    BY DEF FoldEq
  <2> HIDE DEF h
  <2>7. h = FoldEq(t, b, s, 1..(k + 1), h)
    BY <2>5, <2>6 DEF FoldEq
  <2> QED BY <2>7
<1>3. Nat \subseteq Good
  <2> HIDE DEF Good
  <2> QED BY <1>1, <1>2, Inductive
<1> QED BY <1>3

\* The fold, one element more at a time.
Grows(t, b, s, n, g) ==
  /\ g[{}] = b
  /\ \A k \in Nat : k + 1 <= n => g[1..(k + 1)] = Do(t, g[1..k], s[k + 1])

LEMMA FoldSteps ==
  ASSUME NEW t, NEW b, NEW s, NEW n \in Nat, NEW g, IsFold(t, b, s, n, g)
  PROVE  Grows(t, b, s, n, g)
<1>1. \A S \in SUBSET (1..n) :
         g[S] = IF S = {} THEN b ELSE Do(t, g[S \ {Max(S)}], s[Max(S)])
  BY DEF IsFold, FoldEq
<1>2. ASSUME NEW k \in Nat, k + 1 <= n PROVE g[1..(k + 1)] = Do(t, g[1..k], s[k + 1])
  <2> DEFINE S == 1..(k + 1)
  <2>1. k + 1 \in S /\ S \in SUBSET (1..n)
    BY <1>2
  <2>2. Max(S) \in S /\ \A y \in S : y <= Max(S)
    <3> HIDE DEF S
    <3> QED BY <2>1, MaxOfNumbers
  <2>3. Max(S) = k + 1
    <3>1. k + 1 <= Max(S) /\ Max(S) \in S
      BY <2>1, <2>2
    <3> QED BY <3>1
  <2>4. S \ {k + 1} = 1..k
    OBVIOUS
  <2>5. S # {}
    BY <2>1
  <2> HIDE DEF S
  <2>6. g[S] = Do(t, g[S \ {k + 1}], s[k + 1])
    BY <1>1, <2>1, <2>3, <2>5
  <2> QED BY <2>4, <2>6 DEF S
<1>3. g[{}] = b
  BY <1>1
<1> QED BY <1>2, <1>3 DEF Grows

LEMMA FoldIs ==
  ASSUME NEW t, NEW b, NEW s, IsSeq(s)
  PROVE  \E g : IsFold(t, b, s, Len(s), g) /\ Fold(t, b, s) = g[1..Len(s)]
<1> DEFINE g == CHOOSE g : g = FoldEq(t, b, s, 1..Len(s), g)
<1>1. DOMAIN s = 1..Len(s) /\ Len(s) \in Nat
  BY DEF IsSeq
<1>2. g = FoldEq(t, b, s, 1..Len(s), g)
  BY <1>1, FoldExists
<1>3. Fold(t, b, s) = g[1..Len(s)]
  BY <1>1 DEF Fold
<1> HIDE DEF g
<1> QED BY <1>2, <1>3 DEF IsFold

LEMMA FoldEmpty ==
  ASSUME NEW t, NEW b
  PROVE  Fold(t, b, <<>>) = b
<1>1. IsSeq(<<>>) /\ Len(<<>>) = 0 /\ 1..0 = {}
  BY DEF IsSeq
<1>2. PICK g : IsFold(t, b, <<>>, 0, g) /\ Fold(t, b, <<>>) = g[1..0]
  BY <1>1, FoldIs
<1>3. g[{}] = b
  <2>1. PICK s : IsFold(t, b, s, 0, g)
    BY <1>2
  <2>2. Grows(t, b, s, 0, g)
    BY <2>1, FoldSteps
  <2> QED BY <2>2 DEF Grows
<1> QED BY <1>1, <1>2, <1>3

LEMMA AppendIsSeq ==
  ASSUME NEW s, IsSeq(s), NEW x
  PROVE  /\ IsSeq(Append(s, x)) /\ Len(Append(s, x)) = Len(s) + 1
         /\ Append(s, x)[Len(s) + 1] = x
         /\ \A i \in 1..Len(s) : Append(s, x)[i] = s[i]
<1> DEFINE S == {s[i] : i \in 1..Len(s)} \cup {x}
<1>1. s \in Seq(S) /\ x \in S
  <2>1. Len(s) \in Nat /\ s = [i \in 1..Len(s) |-> s[i]]
    BY DEF IsSeq
  <2>2. s \in [1..Len(s) -> S]
    BY <2>1
  <2> HIDE DEF S
  <2>3. s \in Seq(S)
    BY <2>1, <2>2, IsASeq
  <2> QED BY <2>3 DEF S
<1> HIDE DEF S
<1>2. /\ Append(s, x) \in Seq(S) /\ Len(Append(s, x)) = Len(s) + 1
      /\ Append(s, x)[Len(s) + 1] = x
      /\ \A i \in 1..Len(s) : Append(s, x)[i] = s[i]
  BY <1>1, AppendProperties
<1>3. IsSeq(Append(s, x))
  <2>1. \A q \in Seq(S) : Len(q) \in Nat /\ q = [i \in 1..Len(q) |-> q[i]]
    BY LenProperties
  <2> QED BY <1>2, <2>1 DEF IsSeq
<1> QED BY <1>2, <1>3

LEMMA FoldAppend ==
  ASSUME NEW t, NEW b, NEW s, IsSeq(s), NEW x
  PROVE  Fold(t, b, Append(s, x)) = Do(t, Fold(t, b, s), x)
<1> DEFINE n == Len(s)
           q == Append(s, x)
<1>1. n \in Nat /\ IsSeq(q) /\ Len(q) = n + 1 /\ q[n + 1] = x /\ \A i \in 1..n : q[i] = s[i]
  BY AppendIsSeq DEF IsSeq
<1> HIDE DEF q
<1>2. PICK g : IsFold(t, b, s, n, g) /\ Fold(t, b, s) = g[1..n]
  BY FoldIs
<1>3. PICK h : IsFold(t, b, q, n + 1, h) /\ Fold(t, b, q) = h[1..(n + 1)]
  BY <1>1, FoldIs
<1> HIDE DEF n
<1>4. n + 1 \in Nat
  BY <1>1
<1>5. g[{}] = b /\ \A k \in Nat : k + 1 <= n => g[1..(k + 1)] = Do(t, g[1..k], s[k + 1])
  <2>1. Grows(t, b, s, n, g)
    BY <1>1, <1>2, FoldSteps
  <2> QED BY <2>1 DEF Grows
<1>6. h[{}] = b /\ \A k \in Nat : k + 1 <= n + 1 => h[1..(k + 1)] = Do(t, h[1..k], q[k + 1])
  <2>1. PICK m \in Nat : m = n + 1
    BY <1>4
  <2>2. IsFold(t, b, q, m, h)
    BY <1>3, <2>1
  <2>3. Grows(t, b, q, m, h)
    BY <2>2, FoldSteps
  <2> QED BY <2>1, <2>3 DEF Grows
<1> DEFINE Same == {k \in Nat : k <= n => g[1..k] = h[1..k]}
<1>7. 0 \in Same
  <2>1. 1..0 = {}
    OBVIOUS
  <2> QED BY <1>5, <1>6, <2>1
<1>8. ASSUME NEW k \in Nat, k \in Same PROVE k + 1 \in Same
  <2> SUFFICES ASSUME k + 1 <= n PROVE g[1..(k + 1)] = h[1..(k + 1)]
    OBVIOUS
  <2>1. g[1..k] = h[1..k]
    BY <1>1, <1>8
  <2>2. q[k + 1] = s[k + 1]
    BY <1>1
  <2>3. k + 1 <= n + 1
    BY <1>1
  <2> QED BY <1>5, <1>6, <2>1, <2>2, <2>3
<1>9. n \in Same
  <2>1. Nat \subseteq Same
    <3> HIDE DEF Same
    <3> QED BY <1>7, <1>8, Inductive
  <2> QED BY <1>1, <2>1
<1>10. g[1..n] = h[1..n]
  BY <1>1, <1>9
<1>11. h[1..(n + 1)] = Do(t, h[1..n], q[n + 1])
  BY <1>1, <1>6
<1> QED BY <1>1, <1>2, <1>3, <1>10, <1>11 DEF q

LEMMA ConcatIsSeq ==
  ASSUME NEW s, IsSeq(s), NEW q, IsSeq(q)
  PROVE  /\ IsSeq(s \o q) /\ Len(s \o q) = Len(s) + Len(q)
         /\ \A i \in 1..Len(s) : (s \o q)[i] = s[i]
         /\ \A i \in 1..Len(q) : (s \o q)[Len(s) + i] = q[i]
<1> DEFINE S == {s[i] : i \in 1..Len(s)} \cup {q[i] : i \in 1..Len(q)}
<1>1. s \in Seq(S) /\ q \in Seq(S)
  <2>1. /\ Len(s) \in Nat /\ s = [i \in 1..Len(s) |-> s[i]]
        /\ Len(q) \in Nat /\ q = [i \in 1..Len(q) |-> q[i]]
    BY DEF IsSeq
  <2>2. s \in [1..Len(s) -> S] /\ q \in [1..Len(q) -> S]
    BY <2>1
  <2> HIDE DEF S
  <2>3. s \in Seq(S) /\ q \in Seq(S)
    BY <2>1, <2>2, IsASeq
  <2> QED BY <2>3 DEF S
<1> HIDE DEF S
<1>2. s \o q \in Seq(S) /\ Len(s \o q) = Len(s) + Len(q) /\ Len(s) \in Nat /\ Len(q) \in Nat
  BY <1>1, ConcatProperties, LenProperties
<1>3. IsSeq(s \o q)
  <2>1. \A z \in Seq(S) : Len(z) \in Nat /\ z = [i \in 1..Len(z) |-> z[i]]
    BY LenProperties
  <2> QED BY <1>2, <2>1 DEF IsSeq
<1>4. \A i \in 1..(Len(s) + Len(q)) :
         (s \o q)[i] = IF i <= Len(s) THEN s[i] ELSE q[i - Len(s)]
  BY <1>1, ConcatProperties
<1>5. ASSUME NEW i \in 1..Len(s) PROVE (s \o q)[i] = s[i]
  <2>1. i \in 1..(Len(s) + Len(q)) /\ i <= Len(s)
    BY <1>2
  <2> QED BY <1>4, <2>1
<1>6. ASSUME NEW i \in 1..Len(q) PROVE (s \o q)[Len(s) + i] = q[i]
  <2>1. Len(s) + i \in 1..(Len(s) + Len(q)) /\ ~(Len(s) + i <= Len(s))
          /\ (Len(s) + i) - Len(s) = i
    BY <1>2
  <2> QED BY <1>4, <2>1
<1> QED BY <1>2, <1>3, <1>5, <1>6

LEMMA FoldConcat ==
  ASSUME NEW t, NEW b, NEW s, IsSeq(s), NEW q, IsSeq(q)
  PROVE  Fold(t, b, s \o q) = Fold(t, Fold(t, b, s), q)
<1>1. PICK w : w = s \o q
  OBVIOUS
<1>2. PICK n \in Nat, l \in Nat : n = Len(s) /\ l = Len(q)
  BY DEF IsSeq
<1>3. /\ IsSeq(w) /\ Len(w) = n + l
      /\ \A i \in 1..n : w[i] = s[i]
      /\ \A i \in 1..l : w[n + i] = q[i]
  BY <1>1, <1>2, ConcatIsSeq
<1>4. PICK m \in Nat : m = n + l
  BY <1>2
<1>5. PICK g : IsFold(t, b, s, n, g) /\ Fold(t, b, s) = g[1..n]
  BY <1>2, FoldIs
<1>6. PICK c, h : c = g[1..n] /\ IsFold(t, c, q, l, h) /\ Fold(t, c, q) = h[1..l]
  <2>1. PICK c : c = g[1..n]
    OBVIOUS
  <2>2. \E h : IsFold(t, c, q, l, h) /\ Fold(t, c, q) = h[1..l]
    BY <1>2, FoldIs
  <2> QED BY <2>1, <2>2
<1>7. PICK f : IsFold(t, b, w, m, f) /\ Fold(t, b, w) = f[1..m]
  BY <1>3, <1>4, FoldIs
<1>8. g[{}] = b /\ \A k \in Nat : k + 1 <= n => g[1..(k + 1)] = Do(t, g[1..k], s[k + 1])
  <2>1. Grows(t, b, s, n, g)
    BY <1>5, FoldSteps
  <2> QED BY <2>1 DEF Grows
<1>9. h[{}] = c /\ \A k \in Nat : k + 1 <= l => h[1..(k + 1)] = Do(t, h[1..k], q[k + 1])
  <2>1. IsFold(t, c, q, l, h)
    BY <1>6
  <2>2. Grows(t, c, q, l, h)
    BY <2>1, FoldSteps
  <2> QED BY <2>2 DEF Grows
<1>10. f[{}] = b /\ \A k \in Nat : k + 1 <= m => f[1..(k + 1)] = Do(t, f[1..k], w[k + 1])
  <2>1. IsFold(t, b, w, m, f)
    BY <1>7
  <2>2. Grows(t, b, w, m, f)
    BY <2>1, FoldSteps
  <2> QED BY <2>2 DEF Grows
<1>11. 1..0 = {}
  OBVIOUS
<1>12. f[1..n] = g[1..n]
  <2> DEFINE Same == {k \in Nat : k <= n => f[1..k] = g[1..k]}
  <2>1. 0 \in Same
    BY <1>8, <1>10, <1>11
  <2>2. ASSUME NEW k \in Nat, k \in Same PROVE k + 1 \in Same
    <3> SUFFICES ASSUME k + 1 <= n PROVE f[1..(k + 1)] = g[1..(k + 1)]
      OBVIOUS
    <3>1. f[1..k] = g[1..k]
      BY <2>2
    <3>2. w[k + 1] = s[k + 1] /\ k + 1 <= m
      BY <1>3, <1>4
    <3> QED BY <1>8, <1>10, <3>1, <3>2
  <2>3. Nat \subseteq Same
    <3> HIDE DEF Same
    <3> QED BY <2>1, <2>2, Inductive
  <2> QED BY <2>3
<1>13. f[1..(n + l)] = h[1..l]
  <2> DEFINE Same == {k \in Nat : k <= l => f[1..(n + k)] = h[1..k]}
  <2>1. 0 \in Same
    <3>1. n + 0 = n
      OBVIOUS
    <3> QED BY <1>6, <1>9, <1>11, <1>12, <3>1
  <2>2. ASSUME NEW k \in Nat, k \in Same PROVE k + 1 \in Same
    <3> SUFFICES ASSUME k + 1 <= l PROVE f[1..(n + (k + 1))] = h[1..(k + 1)]
      OBVIOUS
    <3>1. f[1..(n + k)] = h[1..k]
      BY <2>2
    <3>2. w[(n + k) + 1] = q[k + 1] /\ (n + k) + 1 <= m /\ n + k \in Nat
            /\ n + (k + 1) = (n + k) + 1
      <4>1. k + 1 \in 1..l /\ n + (k + 1) = (n + k) + 1
        OBVIOUS
      <4>2. w[n + (k + 1)] = q[k + 1]
        BY <1>3, <4>1
      <4>3. (n + k) + 1 <= m /\ n + k \in Nat
        BY <1>4
      <4> QED BY <4>1, <4>2, <4>3
    <3>3. f[1..((n + k) + 1)] = Do(t, f[1..(n + k)], w[(n + k) + 1])
      BY <1>10, <3>2
    <3> QED BY <1>9, <3>1, <3>2, <3>3
  <2>3. Nat \subseteq Same
    <3> HIDE DEF Same
    <3> QED BY <2>1, <2>2, Inductive
  <2> QED BY <2>3
<1> QED BY <1>1, <1>4, <1>5, <1>6, <1>7, <1>13

LEMMA TableIsSeq ==
  ASSUME NEW n \in Nat, NEW q, q = [k \in 1..n |-> q[k]]
  PROVE  IsSeq(q) /\ Len(q) = n
<1> DEFINE S == {q[k] : k \in 1..n}
<1>1. q \in [1..n -> S]
  OBVIOUS
<1> HIDE DEF S
<1>2. q \in Seq(S)
  BY <1>1, IsASeq
<1>3. Len(q) \in Nat /\ DOMAIN q = 1..Len(q)
  BY <1>2, LenProperties
<1>4. Len(q) = n
  <2>1. DOMAIN q = 1..n
    BY <1>1
  <2> QED BY <1>3, <2>1
<1> QED BY <1>4 DEF IsSeq

(***************************************************************************)
(* Names for the operations on sequences, kept from being expanded: what    *)
(* follows reasons with the equations below alone.                         *)
(***************************************************************************)
Nil == <<>>
One(x) == <<x>>
App(s, x) == Append(s, x)
s ++ q == s \o q
Size(s) == Len(s)
At(s, i) == s[i]

LEMMA SizeIs ==
  ASSUME NEW s, IsSeq(s)
  PROVE  Size(s) \in Nat
  BY DEF IsSeq, Size

LEMMA ConcatAt ==
  ASSUME NEW s, IsSeq(s), NEW q, IsSeq(q)
  PROVE  /\ IsSeq(s ++ q) /\ Size(s ++ q) = Size(s) + Size(q)
         /\ \A i \in 1..Size(s) : At(s ++ q, i) = At(s, i)
         /\ \A i \in 1..Size(q) : At(s ++ q, Size(s) + i) = At(q, i)
  BY ConcatIsSeq DEF Size, At, ++

LEMMA AppendAt ==
  ASSUME NEW s, IsSeq(s), NEW x
  PROVE  /\ IsSeq(App(s, x)) /\ Size(App(s, x)) = Size(s) + 1
         /\ At(App(s, x), Size(s) + 1) = x
         /\ \A i \in 1..Size(s) : At(App(s, x), i) = At(s, i)
  BY AppendIsSeq DEF Size, At, App

\* Sequences are equal that have the same elements.
LEMMA SeqEq ==
  ASSUME NEW s, IsSeq(s), NEW q, IsSeq(q), Size(s) = Size(q),
         \A i \in 1..Size(s) : At(s, i) = At(q, i)
  PROVE  s = q
<1>1. PICK n : n = Len(s) /\ n = Len(q)
  BY DEF Size
<1>2. \A i \in 1..n : s[i] = q[i]
  BY <1>1 DEF Size, At
<1>3. s = [i \in 1..n |-> s[i]] /\ q = [i \in 1..n |-> q[i]]
  BY <1>1 DEF IsSeq
<1>4. [i \in 1..n |-> s[i]] = [i \in 1..n |-> q[i]]
  BY <1>2
<1> QED BY <1>3, <1>4

LEMMA NoneIsSeq == IsSeq(Nil) /\ Size(Nil) = 0
  BY DEF IsSeq, Size, Nil

LEMMA FoldNil ==
  ASSUME NEW t, NEW b
  PROVE  Fold(t, b, Nil) = b
  BY FoldEmpty DEF Nil

LEMMA FoldApp ==
  ASSUME NEW t, NEW b, NEW s, IsSeq(s), NEW x
  PROVE  Fold(t, b, App(s, x)) = Do(t, Fold(t, b, s), x)
  BY FoldAppend DEF App

LEMMA FoldCat ==
  ASSUME NEW t, NEW b, NEW s, IsSeq(s), NEW q, IsSeq(q)
  PROVE  Fold(t, b, s ++ q) = Fold(t, Fold(t, b, s), q)
  BY FoldConcat DEF ++

LEMMA DoJoin == \A a, x : Do("join", a, x) = a ++ x
  BY DEF Do, ++

LEMMA EmptySize ==
  ASSUME NEW s, IsSeq(s)
  PROVE  s = Nil <=> Size(s) = 0
<1>1. ASSUME Size(s) = 0 PROVE s = Nil
  BY <1>1, NoneIsSeq, SeqEq
<1> QED BY <1>1, NoneIsSeq

LEMMA OneIs ==
  ASSUME NEW x
  PROVE  /\ IsSeq(One(x)) /\ Size(One(x)) = 1 /\ At(One(x), 1) = x
         /\ One(x) = App(Nil, x) /\ One(x) # Nil
<1>1. One(x) = App(Nil, x)
  BY DEF One, App, Nil
<1>2. /\ IsSeq(App(Nil, x)) /\ Size(App(Nil, x)) = 0 + 1
      /\ At(App(Nil, x), 0 + 1) = x
  BY NoneIsSeq, AppendAt
<1>3. IsSeq(One(x)) /\ Size(One(x)) = 0 + 1 /\ At(One(x), 0 + 1) = x
  BY <1>1, <1>2
<1>4. Size(One(x)) = 1 /\ At(One(x), 1) = x
  BY <1>3
<1>5. One(x) # Nil
  BY DEF One, Nil
<1> QED BY <1>1, <1>3, <1>4, <1>5

LEMMA EmptyConcat ==
  ASSUME NEW s, IsSeq(s)
  PROVE  s ++ Nil = s /\ Nil ++ s = s
<1>1. PICK e : e = Nil
  OBVIOUS
<1>2. IsSeq(e) /\ Size(e) = 0
  BY <1>1, NoneIsSeq
<1>3. PICK a, b : a = s ++ e /\ b = e ++ s
  OBVIOUS
<1>4. PICK n \in Nat : n = Size(s)
  BY SizeIs
<1>5. /\ IsSeq(a) /\ Size(a) = n + 0 /\ \A i \in 1..n : At(a, i) = At(s, i)
      /\ IsSeq(b) /\ Size(b) = 0 + n /\ \A i \in 1..n : At(b, 0 + i) = At(s, i)
  BY <1>2, <1>3, <1>4, ConcatAt
<1>6. Size(a) = n /\ Size(b) = n /\ \A i \in 1..n : At(b, i) = At(s, i)
  BY <1>5
<1>7. a = s /\ b = s
  BY <1>4, <1>5, <1>6, SeqEq
<1> QED BY <1>1, <1>3, <1>7

LEMMA ConcatAssoc ==
  ASSUME NEW s, IsSeq(s), NEW q, IsSeq(q), NEW r, IsSeq(r)
  PROVE  (s ++ q) ++ r = s ++ (q ++ r)
<1>1. PICK n \in Nat, m \in Nat, l \in Nat : n = Size(s) /\ m = Size(q) /\ l = Size(r)
  BY SizeIs
<1>2. PICK a, b : a = s ++ q /\ b = q ++ r
  OBVIOUS
<1>3. /\ IsSeq(a) /\ Size(a) = n + m
      /\ \A i \in 1..n : At(a, i) = At(s, i)
      /\ \A i \in 1..m : At(a, n + i) = At(q, i)
      /\ IsSeq(b) /\ Size(b) = m + l
      /\ \A i \in 1..m : At(b, i) = At(q, i)
      /\ \A i \in 1..l : At(b, m + i) = At(r, i)
  BY <1>1, <1>2, ConcatAt
<1>4. PICK c, d : c = a ++ r /\ d = s ++ b
  OBVIOUS
<1>5. /\ IsSeq(c) /\ Size(c) = (n + m) + l
      /\ \A i \in 1..(n + m) : At(c, i) = At(a, i)
      /\ \A i \in 1..l : At(c, (n + m) + i) = At(r, i)
      /\ IsSeq(d) /\ Size(d) = n + (m + l)
      /\ \A i \in 1..n : At(d, i) = At(s, i)
      /\ \A i \in 1..(m + l) : At(d, n + i) = At(b, i)
  BY <1>1, <1>3, <1>4, ConcatAt
<1>6. ASSUME NEW i \in 1..(n + m + l) PROVE At(c, i) = At(d, i)
  <2>1. CASE i <= n
    BY <1>3, <1>5, <2>1
  <2>2. CASE i > n /\ i <= n + m
    <3>1. PICK j \in 1..m : i = n + j
      <4>1. i - n \in 1..m /\ i = n + (i - n)
        BY <2>2
      <4> QED BY <4>1
    <3> QED BY <1>3, <1>5, <3>1
  <2>3. CASE i > n + m
    <3>1. PICK j \in 1..l : i = (n + m) + j /\ i = n + (m + j) /\ m + j \in 1..(m + l)
      <4>1. PICK j : j = i - (n + m)
        OBVIOUS
      <4>2. j \in 1..l /\ i = (n + m) + j /\ i = n + (m + j) /\ m + j \in 1..(m + l)
        BY <2>3, <4>1
      <4> QED BY <4>2
    <3> QED BY <1>3, <1>5, <3>1
  <2> QED BY <2>1, <2>2, <2>3
<1>7. Size(c) = n + m + l /\ Size(d) = n + m + l
  BY <1>5
<1>8. c = d
  BY <1>5, <1>6, <1>7, SeqEq
<1> QED BY <1>2, <1>4, <1>8

LEMMA AppIsCat ==
  ASSUME NEW s, IsSeq(s), NEW x
  PROVE  App(s, x) = s ++ One(x)
<1>1. PICK n \in Nat : n = Size(s)
  BY SizeIs
<1>2. PICK o : o = One(x)
  OBVIOUS
<1>3. IsSeq(o) /\ Size(o) = 1 /\ At(o, 1) = x
  BY <1>2, OneIs
<1>4. PICK a, b : a = App(s, x) /\ b = s ++ o
  OBVIOUS
<1>5. IsSeq(a) /\ Size(a) = n + 1 /\ At(a, n + 1) = x /\ \A i \in 1..n : At(a, i) = At(s, i)
  BY <1>1, <1>4, AppendAt
<1>6. /\ IsSeq(b) /\ Size(b) = n + 1 /\ \A i \in 1..n : At(b, i) = At(s, i)
      /\ \A i \in 1..1 : At(b, n + i) = At(o, i)
  BY <1>1, <1>3, <1>4, ConcatAt
<1>7. ASSUME NEW i \in 1..(n + 1) PROVE At(a, i) = At(b, i)
  BY <1>3, <1>5, <1>6
<1>8. a = b
  BY <1>1, <1>5, <1>6, <1>7, SeqEq
<1> QED BY <1>2, <1>4, <1>8

LEMMA TwoIs ==
  ASSUME NEW x, NEW y
  PROVE  <<x, y>> = One(x) ++ One(y)
<1>1. <<x, y>> = App(One(x), y)
  BY DEF One, App
<1>2. App(One(x), y) = One(x) ++ One(y)
  BY OneIs, AppIsCat
<1> QED BY <1>1, <1>2

\* A table of two parts.
LEMMA TableIs ==
  ASSUME NEW n \in Nat, NEW q, q = [k \in 1..n |-> q[k]]
  PROVE  IsSeq(q) /\ Size(q) = n
  BY TableIsSeq DEF Size

LEMMA TableConcat ==
  ASSUME NEW p, IsSeq(p), NEW q, IsSeq(q), NEW r, IsSeq(r), Size(r) = Size(p) + Size(q),
         \A k \in 1..Size(p) : At(r, k) = At(p, k),
         \A k \in 1..Size(q) : At(r, Size(p) + k) = At(q, k)
  PROVE  r = p ++ q
<1>1. PICK n \in Nat, m \in Nat : n = Size(p) /\ m = Size(q)
  BY SizeIs
<1>2. PICK a : a = p ++ q
  OBVIOUS
<1>3. /\ IsSeq(a) /\ Size(a) = n + m /\ \A k \in 1..n : At(a, k) = At(p, k)
      /\ \A k \in 1..m : At(a, n + k) = At(q, k)
  BY <1>1, <1>2, ConcatAt
<1>4. Size(r) = n + m /\ \A k \in 1..n : At(r, k) = At(p, k)
  BY <1>1
<1>5. \A k \in 1..m : At(r, n + k) = At(q, k)
  BY <1>1
<1>6. ASSUME NEW k \in 1..(n + m) PROVE At(a, k) = At(r, k)
  <2>1. CASE k <= n
    BY <1>3, <1>4, <2>1
  <2>2. CASE k > n
    <3>1. PICK j \in 1..m : k = n + j
      <4>1. k - n \in 1..m /\ k = n + (k - n)
        BY <2>2
      <4> QED BY <4>1
    <3> QED BY <1>3, <1>5, <3>1
  <2> QED BY <2>1, <2>2
<1>7. a = r
  BY <1>1, <1>3, <1>4, <1>6, SeqEq
<1> QED BY <1>2, <1>7

LEMMA FoldUnique ==
  ASSUME NEW t, NEW b, NEW s, IsSeq(s), NEW g, g = FoldEq(t, b, s, DOMAIN s, g)
  PROVE  Fold(t, b, s) = g[DOMAIN s]
<1>1. PICK n \in Nat : n = Len(s) /\ DOMAIN s = 1..n
  BY DEF IsSeq
<1>2. PICK h : IsFold(t, b, s, n, h) /\ Fold(t, b, s) = h[1..n]
  BY <1>1, FoldIs
<1>3. IsFold(t, b, s, n, g)
  BY <1>1 DEF IsFold
<1>4. g[{}] = b /\ \A k \in Nat : k + 1 <= n => g[1..(k + 1)] = Do(t, g[1..k], s[k + 1])
  <2>1. Grows(t, b, s, n, g)
    BY <1>3, FoldSteps
  <2> QED BY <2>1 DEF Grows
<1>5. h[{}] = b /\ \A k \in Nat : k + 1 <= n => h[1..(k + 1)] = Do(t, h[1..k], s[k + 1])
  <2>1. Grows(t, b, s, n, h)
    BY <1>2, FoldSteps
  <2> QED BY <2>1 DEF Grows
<1> DEFINE Same == {k \in Nat : k <= n => g[1..k] = h[1..k]}
<1>6. 0 \in Same
  <2>1. 1..0 = {}
    OBVIOUS
  <2> QED BY <1>4, <1>5, <2>1
<1>7. ASSUME NEW k \in Nat, k \in Same PROVE k + 1 \in Same
  <2> SUFFICES ASSUME k + 1 <= n PROVE g[1..(k + 1)] = h[1..(k + 1)]
    OBVIOUS
  <2>1. g[1..k] = h[1..k]
    BY <1>7
  <2> QED BY <1>4, <1>5, <2>1
<1>8. n \in Same
  <2>1. Nat \subseteq Same
    <3> HIDE DEF Same
    <3> QED BY <1>6, <1>7, Inductive
  <2> QED BY <2>1
<1> QED BY <1>1, <1>2, <1>8

LEMMA TurnsIsFold ==
  ASSUME NEW reading, IsSeq(reading)
  PROVE  Turns(reading) = Fold("tell", <<>>, reading)
<1> DEFINE D == DOMAIN reading
           Eq(f) == [S \in SUBSET D |-> IF S = {} THEN <<>> ELSE Tell(f[S \ {Max(S)}], reading[Max(S)])]
           c == CHOOSE f : f = Eq(f)
<1>1. Turns(reading) = c[D]
  BY DEF Turns, FoldLeft, MapThenFoldSet
<1>2. \A f : FoldEq("tell", <<>>, reading, D, f) = Eq(f)
  BY DEF FoldEq, Do
<1>3. \E f : f = FoldEq("tell", <<>>, reading, D, f)
  <2>1. PICK n \in Nat : D = 1..n
    BY DEF IsSeq
  <2> QED BY <2>1, FoldExists
<1>4. c = Eq(c)
  <2>1. \E f : f = Eq(f)
    <3> HIDE DEF Eq
    <3> QED BY <1>2, <1>3
  <2> HIDE DEF Eq
  <2> QED BY <2>1
<1>5. c = FoldEq("tell", <<>>, reading, D, c)
  <2> HIDE DEF Eq, c
  <2> QED BY <1>2, <1>4
<1> HIDE DEF c
<1> QED BY <1>1, <1>5, FoldUnique

LEMMA PushIsFold ==
  ASSUME NEW msgs, IsSeq(msgs)
  PROVE  FoldLeft(PushMessage, <<>>, msgs) = Fold("push", <<>>, msgs)
<1> DEFINE D == DOMAIN msgs
           Eq(f) == [S \in SUBSET D |-> IF S = {} THEN <<>> ELSE PushMessage(f[S \ {Max(S)}], msgs[Max(S)])]
           c == CHOOSE f : f = Eq(f)
<1>1. FoldLeft(PushMessage, <<>>, msgs) = c[D]
  BY DEF FoldLeft, MapThenFoldSet
<1>2. \A f : FoldEq("push", <<>>, msgs, D, f) = Eq(f)
  BY DEF FoldEq, Do
<1>3. \E f : f = FoldEq("push", <<>>, msgs, D, f)
  <2>1. PICK n \in Nat : D = 1..n
    BY DEF IsSeq
  <2> QED BY <2>1, FoldExists
<1>4. c = Eq(c)
  <2>1. \E f : f = Eq(f)
    <3> HIDE DEF Eq
    <3> QED BY <1>2, <1>3
  <2> HIDE DEF Eq
  <2> QED BY <2>1
<1>5. c = FoldEq("push", <<>>, msgs, D, c)
  <2> HIDE DEF Eq, c
  <2> QED BY <1>2, <1>4
<1> HIDE DEF c
<1> QED BY <1>1, <1>5, FoldUnique

\* Where the answering of calls starts.
Start == [open |-> {}, answered |-> FALSE, ok |-> TRUE]

LEMMA SinglyIsFold ==
  ASSUME NEW steps, IsSeq(steps)
  PROVE  Answering(steps, FALSE) = Fold("single", Start, steps)
<1> DEFINE D == DOMAIN steps
           Eq(f) == [S \in SUBSET D |-> IF S = {} THEN Start ELSE Took(FALSE, f[S \ {Max(S)}], steps[Max(S)])]
           c == CHOOSE f : f = Eq(f)
<1>1. Answering(steps, FALSE) = c[D]
  BY DEF Answering, FoldLeft, MapThenFoldSet, Start
<1>2. \A f : FoldEq("single", Start, steps, D, f) = Eq(f)
  BY DEF FoldEq, Do
<1>3. \E f : f = FoldEq("single", Start, steps, D, f)
  <2>1. PICK n \in Nat : D = 1..n
    BY DEF IsSeq
  <2> QED BY <2>1, FoldExists
<1>4. c = Eq(c)
  <2>1. \E f : f = Eq(f)
    <3> HIDE DEF Eq
    <3> QED BY <1>2, <1>3
  <2> HIDE DEF Eq
  <2> QED BY <2>1
<1>5. c = FoldEq("single", Start, steps, D, c)
  <2> HIDE DEF Eq, c
  <2> QED BY <1>2, <1>4
<1> HIDE DEF c
<1> QED BY <1>1, <1>5, FoldUnique

LEMMA BatchedIsFold ==
  ASSUME NEW steps, IsSeq(steps)
  PROVE  Answering(steps, TRUE) = Fold("batch", Start, steps)
<1> DEFINE D == DOMAIN steps
           Eq(f) == [S \in SUBSET D |-> IF S = {} THEN Start ELSE Took(TRUE, f[S \ {Max(S)}], steps[Max(S)])]
           c == CHOOSE f : f = Eq(f)
<1>1. Answering(steps, TRUE) = c[D]
  BY DEF Answering, FoldLeft, MapThenFoldSet, Start
<1>2. \A f : FoldEq("batch", Start, steps, D, f) = Eq(f)
  BY DEF FoldEq, Do
<1>3. \E f : f = FoldEq("batch", Start, steps, D, f)
  <2>1. PICK n \in Nat : D = 1..n
    BY DEF IsSeq
  <2> QED BY <2>1, FoldExists
<1>4. c = Eq(c)
  <2>1. \E f : f = Eq(f)
    <3> HIDE DEF Eq
    <3> QED BY <1>2, <1>3
  <2> HIDE DEF Eq
  <2> QED BY <2>1
<1>5. c = FoldEq("batch", Start, steps, D, c)
  <2> HIDE DEF Eq, c
  <2> QED BY <1>2, <1>4
<1> HIDE DEF c
<1> QED BY <1>1, <1>5, FoldUnique

AllSeqs(ss) == IsSeq(ss) /\ \A i \in 1..Size(ss) : IsSeq(At(ss, i))

LEMMA FlattenIs ==
  ASSUME NEW ss, AllSeqs(ss)
  PROVE  FlattenSeq(ss) = Fold("join", Nil, ss)
<1>1. PICK n \in Nat : n = Size(ss)
  BY SizeIs DEF AllSeqs
<1>2. IsSeq(ss) /\ n = Len(ss) /\ \A i \in 1..n : IsSeq(ss[i])
  BY <1>1 DEF AllSeqs, Size, At
<1>3. PICK g : IsFold("join", Nil, ss, n, g) /\ Fold("join", Nil, ss) = g[1..n]
  BY <1>2, FoldIs
<1>4. g[{}] = Nil /\ \A k \in Nat : k + 1 <= n => g[1..(k + 1)] = g[1..k] ++ ss[k + 1]
  <2>1. Grows("join", Nil, ss, n, g)
    BY <1>1, <1>3, FoldSteps
  <2> QED BY <2>1, DoJoin DEF Grows
<1>5. CASE n = 0
  <2>1. ss = Nil /\ Len(ss) = 0
    BY <1>1, <1>2, <1>5, EmptySize DEF Size
  <2>2. FlattenSeq(ss) = ss
    BY <2>1 DEF FlattenSeq
  <2>3. 1..n = {}
    BY <1>5
  <2> QED BY <1>3, <1>4, <2>1, <2>2, <2>3
<1>6. CASE n # 0
  <2> DEFINE Flat(f) == [i \in 1..n |-> IF i = 1 THEN ss[i] ELSE f[i - 1] \o ss[i]]
             h == [i \in 1..n |-> g[1..i]]
             c == CHOOSE f : f = Flat(f)
  <2>1. \A i \in 1..n : h[i] = IF i = 1 THEN ss[i] ELSE h[i - 1] ++ ss[i]
    <3> SUFFICES ASSUME NEW i \in 1..n PROVE h[i] = IF i = 1 THEN ss[i] ELSE h[i - 1] ++ ss[i]
      OBVIOUS
    <3>1. PICK k \in Nat : i = k + 1
      <4>1. i - 1 \in Nat /\ i = (i - 1) + 1
        OBVIOUS
      <4> QED BY <4>1
    <3>2. g[1..i] = g[1..k] ++ ss[i]
      <4>1. k + 1 <= n
        BY <3>1
      <4>2. g[1..(k + 1)] = g[1..k] ++ ss[k + 1]
        BY <1>4, <4>1
      <4> QED BY <3>1, <4>2
    <3>3. CASE k = 0
      <4>1. 1..k = {}
        BY <3>3
      <4>2. ss[i] = Nil ++ ss[i]
        BY <1>2, EmptyConcat
      <4>3. i = 1
        BY <3>1, <3>3
      <4> QED BY <1>4, <3>2, <4>1, <4>2, <4>3
    <3>4. CASE k # 0
      <4>1. i # 1 /\ i - 1 = k /\ k \in 1..n
        BY <3>1, <3>4
      <4> QED BY <3>2, <4>1
    <3> QED BY <3>3, <3>4
  <2>2. h = Flat(h)
    <3>1. h = [i \in 1..n |-> h[i]]
      OBVIOUS
    <3> HIDE DEF h
    <3> QED BY <2>1, <3>1 DEF ++
  <2>3. c = Flat(c)
    <3> HIDE DEF h
    <3> QED BY <2>2
  <2>4. FlattenSeq(ss) = c[n]
    BY <1>2, <1>6 DEF FlattenSeq
  <2>5. \A i \in 1..n : c[i] = IF i = 1 THEN ss[i] ELSE c[i - 1] ++ ss[i]
    <3> HIDE DEF c
    <3> QED BY <2>3 DEF ++
  <2> HIDE DEF c, h
  <2> DEFINE Same == {k \in Nat : k + 1 <= n => c[k + 1] = h[k + 1]}
  <2>6. 0 \in Same
    BY <1>1, <1>6, <2>1, <2>5
  <2>7. ASSUME NEW k \in Nat, k \in Same PROVE k + 1 \in Same
    <3> SUFFICES ASSUME (k + 1) + 1 <= n PROVE c[(k + 1) + 1] = h[(k + 1) + 1]
      OBVIOUS
    <3>1. PICK i : i = (k + 1) + 1
      OBVIOUS
    <3>2. i \in 1..n /\ i # 1 /\ i - 1 = k + 1 /\ k + 1 <= n
      BY <3>1
    <3>3. c[k + 1] = h[k + 1]
      BY <2>7, <3>2
    <3>4. c[i] = c[i - 1] ++ ss[i] /\ h[i] = h[i - 1] ++ ss[i]
      BY <2>1, <2>5, <3>2
    <3> QED BY <3>1, <3>2, <3>3, <3>4
  <2>8. c[n] = h[n]
    <3>1. Nat \subseteq Same
      <4> HIDE DEF Same
      <4> QED BY <2>6, <2>7, Inductive
    <3>2. n - 1 \in Nat /\ (n - 1) + 1 = n
      BY <1>6
    <3>3. n - 1 \in Same
      BY <3>1, <3>2
    <3> QED BY <3>2, <3>3
  <2>9. h[n] = g[1..n]
    BY <1>6 DEF h
  <2> QED BY <1>3, <2>4, <2>8, <2>9
<1> QED BY <1>5, <1>6

LEMMA JoinIsSeq ==
  ASSUME NEW a, IsSeq(a), NEW ss, AllSeqs(ss)
  PROVE  IsSeq(Fold("join", a, ss)) /\ Fold("join", a, ss) = a ++ Fold("join", Nil, ss)
<1>1. PICK n \in Nat : n = Size(ss)
  BY SizeIs DEF AllSeqs
<1>2. IsSeq(ss) /\ n = Len(ss) /\ \A i \in 1..n : IsSeq(ss[i])
  BY <1>1 DEF AllSeqs, Size, At
<1>3. PICK g : IsFold("join", a, ss, n, g) /\ Fold("join", a, ss) = g[1..n]
  BY <1>2, FoldIs
<1>4. g[{}] = a /\ \A k \in Nat : k + 1 <= n => g[1..(k + 1)] = g[1..k] ++ ss[k + 1]
  <2>1. Grows("join", a, ss, n, g)
    BY <1>1, <1>3, FoldSteps
  <2> QED BY <2>1, DoJoin DEF Grows
<1>5. PICK h : IsFold("join", Nil, ss, n, h) /\ Fold("join", Nil, ss) = h[1..n]
  BY <1>2, FoldIs
<1>6. h[{}] = Nil /\ \A k \in Nat : k + 1 <= n => h[1..(k + 1)] = h[1..k] ++ ss[k + 1]
  <2>1. Grows("join", Nil, ss, n, h)
    BY <1>1, <1>5, FoldSteps
  <2> QED BY <2>1, DoJoin DEF Grows
<1> DEFINE Same == {k \in Nat : k <= n => IsSeq(h[1..k]) /\ IsSeq(g[1..k])
             /\ g[1..k] = a ++ h[1..k]}
<1>7. 0 \in Same
  <2>1. 1..0 = {}
    OBVIOUS
  <2> QED BY <1>4, <1>6, <2>1, EmptyConcat, NoneIsSeq
<1>8. ASSUME NEW k \in Nat, k \in Same PROVE k + 1 \in Same
  <2> SUFFICES ASSUME k + 1 <= n
               PROVE  IsSeq(h[1..(k + 1)]) /\ IsSeq(g[1..(k + 1)])
                        /\ g[1..(k + 1)] = a ++ h[1..(k + 1)]
    OBVIOUS
  <2>1. PICK x, y, z : x = g[1..k] /\ y = h[1..k] /\ z = ss[k + 1]
    OBVIOUS
  <2>2. IsSeq(y) /\ IsSeq(x) /\ x = a ++ y
    <3>1. k <= n
      BY <1>1
    <3> QED BY <1>8, <2>1, <3>1
  <2>3. IsSeq(z) /\ g[1..(k + 1)] = x ++ z /\ h[1..(k + 1)] = y ++ z
    <3>1. g[1..(k + 1)] = g[1..k] ++ ss[k + 1] /\ h[1..(k + 1)] = h[1..k] ++ ss[k + 1]
      BY <1>4, <1>6
    <3>2. k + 1 \in 1..n
      BY <1>1
    <3>3. IsSeq(ss[k + 1])
      BY <1>2, <3>2
    <3> QED BY <2>1, <3>1, <3>3
  <2>4. IsSeq(x ++ z) /\ IsSeq(y ++ z) /\ x ++ z = a ++ (y ++ z)
    BY <2>2, <2>3, ConcatAt, ConcatAssoc
  <2> QED BY <2>3, <2>4
<1>9. n \in Same
  <2>1. Nat \subseteq Same
    <3> HIDE DEF Same
    <3> QED BY <1>7, <1>8, Inductive
  <2> QED BY <1>1, <2>1
<1> QED BY <1>1, <1>3, <1>5, <1>9

\* Flattening.
LEMMA FlattenConcat ==
  ASSUME NEW ss, AllSeqs(ss), NEW tt, AllSeqs(tt)
  PROVE  /\ AllSeqs(ss ++ tt) /\ IsSeq(FlattenSeq(ss)) /\ IsSeq(FlattenSeq(tt))
         /\ FlattenSeq(ss ++ tt) = FlattenSeq(ss) ++ FlattenSeq(tt)
<1>1. AllSeqs(ss ++ tt)
  <2>0. PICK u : u = ss ++ tt
    OBVIOUS
  <2>1. PICK n \in Nat, m \in Nat : n = Size(ss) /\ m = Size(tt) /\ u = ss ++ tt
    BY <2>0, SizeIs DEF AllSeqs
  <2>2. /\ IsSeq(u) /\ Size(u) = n + m
        /\ \A i \in 1..n : At(u, i) = At(ss, i)
        /\ \A i \in 1..m : At(u, n + i) = At(tt, i)
    BY <2>1, ConcatAt DEF AllSeqs
  <2>3. ASSUME NEW i \in 1..(n + m) PROVE IsSeq(At(u, i))
    <3>1. CASE i <= n
      BY <2>1, <2>2, <3>1 DEF AllSeqs
    <3>2. CASE i > n
      <4>1. PICK j \in 1..m : i = n + j
        <5>1. i - n \in 1..m /\ i = n + (i - n)
          BY <3>2
        <5> QED BY <5>1
      <4> QED BY <2>1, <2>2, <4>1 DEF AllSeqs
    <3> QED BY <3>1, <3>2
  <2> QED BY <2>1, <2>2, <2>3 DEF AllSeqs
<1>2. IsSeq(Fold("join", Nil, ss)) /\ IsSeq(Fold("join", Nil, tt))
  BY NoneIsSeq, JoinIsSeq
<1>3. Fold("join", Nil, ss ++ tt) = Fold("join", Fold("join", Nil, ss), tt)
  BY FoldCat DEF AllSeqs
<1>4. Fold("join", Fold("join", Nil, ss), tt) = Fold("join", Nil, ss) ++ Fold("join", Nil, tt)
  BY <1>2, JoinIsSeq
<1> QED BY <1>1, <1>2, <1>3, <1>4, FlattenIs

LEMMA FlattenOne ==
  ASSUME NEW s, IsSeq(s)
  PROVE  AllSeqs(One(s)) /\ FlattenSeq(One(s)) = s
<1>1. AllSeqs(One(s))
  BY OneIs DEF AllSeqs
<1>2. Fold("join", Nil, One(s)) = Nil ++ s
  <2>1. IsSeq(Nil) /\ One(s) = App(Nil, s)
    BY NoneIsSeq, OneIs
  <2>2. Fold("join", Nil, App(Nil, s)) = Do("join", Fold("join", Nil, Nil), s)
    BY <2>1, FoldApp
  <2> QED BY <2>1, <2>2, FoldNil, DoJoin
<1> QED BY <1>1, <1>2, FlattenIs, EmptyConcat

LEMMA FoldOne ==
  ASSUME NEW t, NEW b, NEW x
  PROVE  Fold(t, b, One(x)) = Do(t, b, x)
<1>1. IsSeq(Nil) /\ One(x) = App(Nil, x)
  BY NoneIsSeq, OneIs
<1>2. Fold(t, b, App(Nil, x)) = Do(t, Fold(t, b, Nil), x)
  BY <1>1, FoldApp
<1> QED BY <1>1, <1>2, FoldNil

LEMMA FlattenNone == AllSeqs(Nil) /\ FlattenSeq(Nil) = Nil
<1>1. AllSeqs(Nil)
  BY NoneIsSeq DEF AllSeqs
<1> QED BY <1>1, FlattenIs, FoldNil

(***************************************************************************)
(* Sequences made element by element, told apart by a name n and what it    *)
(* depends on, p.                                                          *)
(***************************************************************************)
Make(n, p, x) ==
  CASE n = "one"    -> <<x>>
    [] n = "none"   -> <<>>
    [] n = "read"   -> ReadOne(p, x)
    [] n = "says"   -> SaysBlock(p, x)
    [] n = "of"     -> IF x.type \in p THEN <<x>> ELSE <<>>
    [] n = "signed" -> IF x.sig # <<>> THEN <<x>> ELSE <<>>
    [] n = "shown"  -> IF x.text # <<>> \/ x.mark THEN <<x>> ELSE <<>>
    [] n = "role"   -> IF x.role = p THEN <<x>> ELSE <<>>
    [] n = "text"   -> x.text
    [] n = "typed"  -> <<p.type, x, p.mark>>
    [] n = "prompt" -> IF x.who = "system" THEN x.what ELSE <<>>
    [] n = "piece"  -> SystemPiece(x)
    [] n = "sys"    -> IF x.role = "system" THEN x.content ELSE <<>>
    [] n = "shape"  -> Typed(x)
    [] n = "use"    -> ToolUse(x)
    [] n = "call"   -> [id |-> x.id, args |-> x.text]
    [] n = "result" -> [Message("tool", OneText(x.text)) EXCEPT !.id = x.id]
    [] n = "apart"  -> TakenApart(x)
    [] n = "item"   -> ItemMessages(x)
    [] n = "step"   -> StepOf(p, x)

Each(n, p, s) == [k \in DOMAIN s |-> Make(n, p, s[k])]
Flat(n, p, s) == FlattenSeq(Each(n, p, s))

LEMMA SizeDomain ==
  ASSUME NEW s, IsSeq(s)
  PROVE  DOMAIN s = 1..Size(s)
  BY DEF IsSeq, Size

LEMMA EachIs ==
  ASSUME NEW n, NEW p, NEW s, IsSeq(s)
  PROVE  /\ IsSeq(Each(n, p, s)) /\ Size(Each(n, p, s)) = Size(s)
         /\ \A i \in 1..Size(s) : At(Each(n, p, s), i) = Make(n, p, At(s, i))
<1>1. PICK l \in Nat : l = Size(s)
  BY SizeIs
<1>2. PICK e : e = Each(n, p, s)
  OBVIOUS
<1>3. e = [k \in 1..l |-> Make(n, p, s[k])]
  BY <1>1, <1>2, SizeDomain DEF Each
<1>4. e = [k \in 1..l |-> e[k]]
  BY <1>3
<1>5. IsSeq(e) /\ Size(e) = l
  BY <1>4, TableIs
<1>6. \A k \in 1..l : At(e, k) = Make(n, p, At(s, k))
  BY <1>3 DEF At
<1> QED BY <1>1, <1>2, <1>5, <1>6

LEMMA EachConcat ==
  ASSUME NEW n, NEW p, NEW s, IsSeq(s), NEW q, IsSeq(q)
  PROVE  Each(n, p, s ++ q) = Each(n, p, s) ++ Each(n, p, q)
<1>0. PICK r : r = s ++ q
  OBVIOUS
<1>1. PICK l \in Nat, m \in Nat : l = Size(s) /\ m = Size(q) /\ r = s ++ q
  BY <1>0, SizeIs
<1>2. /\ IsSeq(r) /\ Size(r) = l + m
      /\ \A i \in 1..l : At(r, i) = At(s, i)
      /\ \A i \in 1..m : At(r, l + i) = At(q, i)
  BY <1>1, ConcatAt
<1>3. PICK a, b, c : a = Each(n, p, s) /\ b = Each(n, p, q) /\ c = Each(n, p, r)
  OBVIOUS
<1>4. /\ IsSeq(a) /\ Size(a) = l /\ \A i \in 1..l : At(a, i) = Make(n, p, At(s, i))
      /\ IsSeq(b) /\ Size(b) = m /\ \A i \in 1..m : At(b, i) = Make(n, p, At(q, i))
  BY <1>1, <1>3, EachIs
<1>5. IsSeq(c) /\ Size(c) = l + m /\ \A i \in 1..(l + m) : At(c, i) = Make(n, p, At(r, i))
  BY <1>2, <1>3, EachIs
<1>6. \A i \in 1..Size(a) : At(c, i) = At(a, i)
  BY <1>2, <1>4, <1>5
<1>7. \A i \in 1..Size(b) : At(c, Size(a) + i) = At(b, i)
  BY <1>2, <1>4, <1>5
<1>8. IsSeq(a) /\ IsSeq(b) /\ IsSeq(c) /\ Size(c) = Size(a) + Size(b)
  BY <1>4, <1>5
<1>9. c = a ++ b
  BY <1>6, <1>7, <1>8, TableConcat
<1> QED BY <1>1, <1>3, <1>9

LEMMA EachNone ==
  ASSUME NEW n, NEW p
  PROVE  Each(n, p, Nil) = Nil
  BY NoneIsSeq, EachIs, EmptySize

LEMMA EachOne ==
  ASSUME NEW n, NEW p, NEW x
  PROVE  Each(n, p, One(x)) = One(Make(n, p, x))
<1>1. PICK e : e = Each(n, p, One(x))
  OBVIOUS
<1>2. IsSeq(e) /\ Size(e) = 1 /\ \A i \in 1..1 : At(e, i) = Make(n, p, At(One(x), i))
  BY <1>1, OneIs, EachIs
<1>3. \A i \in 1..1 : At(e, i) = At(One(Make(n, p, x)), i)
  BY <1>2, OneIs
<1>4. e = One(Make(n, p, x))
  BY <1>2, <1>3, OneIs, SeqEq
<1> QED BY <1>1, <1>4

\* Every element makes a sequence, so that the joined one can be taken apart.
Fits(n, p, s) == IsSeq(s) /\ \A i \in 1..Size(s) : IsSeq(Make(n, p, At(s, i)))

LEMMA FitsConcat ==
  ASSUME NEW n, NEW p, NEW s, Fits(n, p, s), NEW q, Fits(n, p, q)
  PROVE  Fits(n, p, s ++ q)
<1>0. PICK r : r = s ++ q
  OBVIOUS
<1>1. PICK l \in Nat, m \in Nat : l = Size(s) /\ m = Size(q) /\ r = s ++ q
  BY <1>0, SizeIs DEF Fits
<1>2. /\ IsSeq(r) /\ Size(r) = l + m
      /\ \A i \in 1..l : At(r, i) = At(s, i)
      /\ \A i \in 1..m : At(r, l + i) = At(q, i)
  BY <1>1, ConcatAt DEF Fits
<1>3. ASSUME NEW i \in 1..(l + m) PROVE IsSeq(Make(n, p, At(r, i)))
  <2>1. CASE i <= l
    BY <1>1, <1>2, <2>1 DEF Fits
  <2>2. CASE i > l
    <3>1. PICK j \in 1..m : i = l + j
      <4>1. i - l \in 1..m /\ i = l + (i - l)
        BY <2>2
      <4> QED BY <4>1
    <3> QED BY <1>1, <1>2, <3>1 DEF Fits
  <2> QED BY <2>1, <2>2
<1> QED BY <1>1, <1>2, <1>3 DEF Fits

LEMMA FitsFew ==
  ASSUME NEW n, NEW p
  PROVE  Fits(n, p, Nil) /\ \A x : IsSeq(Make(n, p, x)) => Fits(n, p, One(x))
  BY NoneIsSeq, OneIs DEF Fits

LEMMA EachFits ==
  ASSUME NEW n, NEW p, NEW s, Fits(n, p, s)
  PROVE  AllSeqs(Each(n, p, s))
  BY EachIs DEF AllSeqs, Fits

LEMMA FlatConcat ==
  ASSUME NEW n, NEW p, NEW s, Fits(n, p, s), NEW q, Fits(n, p, q)
  PROVE  /\ Flat(n, p, s ++ q) = Flat(n, p, s) ++ Flat(n, p, q)
         /\ IsSeq(Flat(n, p, s)) /\ IsSeq(Flat(n, p, q)) /\ Fits(n, p, s ++ q)
<1>1. Each(n, p, s ++ q) = Each(n, p, s) ++ Each(n, p, q)
  BY EachConcat DEF Fits
<1>2. AllSeqs(Each(n, p, s)) /\ AllSeqs(Each(n, p, q))
  BY EachFits
<1> QED BY <1>1, <1>2, FlattenConcat, FitsConcat DEF Flat

LEMMA FlatNone ==
  ASSUME NEW n, NEW p
  PROVE  Flat(n, p, Nil) = Nil /\ Fits(n, p, Nil)
  BY EachNone, FlattenNone, FitsFew DEF Flat

LEMMA FlatOne ==
  ASSUME NEW n, NEW p, NEW x, IsSeq(Make(n, p, x))
  PROVE  Flat(n, p, One(x)) = Make(n, p, x) /\ Fits(n, p, One(x))
  BY EachOne, FlattenOne, FitsFew DEF Flat

LEMMA FlatAppend ==
  ASSUME NEW n, NEW p, NEW s, Fits(n, p, s), NEW x, IsSeq(Make(n, p, x))
  PROVE  /\ Flat(n, p, App(s, x)) = Flat(n, p, s) ++ Make(n, p, x)
         /\ IsSeq(Flat(n, p, s)) /\ Fits(n, p, App(s, x))
<1>1. App(s, x) = s ++ One(x)
  BY AppIsCat DEF Fits
<1>2. Flat(n, p, One(x)) = Make(n, p, x) /\ Fits(n, p, One(x))
  BY FlatOne
<1>3. /\ Flat(n, p, s ++ One(x)) = Flat(n, p, s) ++ Flat(n, p, One(x))
      /\ IsSeq(Flat(n, p, s)) /\ Fits(n, p, s ++ One(x))
  BY <1>2, FlatConcat
<1> QED BY <1>1, <1>2, <1>3

LEMMA EachAppend ==
  ASSUME NEW n, NEW p, NEW s, IsSeq(s), NEW x
  PROVE  Each(n, p, App(s, x)) = App(Each(n, p, s), Make(n, p, x))
<1>1. App(s, x) = s ++ One(x)
  BY AppIsCat
<1>2. Each(n, p, s ++ One(x)) = Each(n, p, s) ++ Each(n, p, One(x))
  BY OneIs, EachConcat
<1>3. App(Each(n, p, s), Make(n, p, x)) = Each(n, p, s) ++ One(Make(n, p, x))
  BY EachIs, AppIsCat
<1> QED BY <1>1, <1>2, <1>3, EachOne

\* A sequence that is not empty has a last element.
LEMMA SplitLast ==
  ASSUME NEW s, IsSeq(s), s # Nil
  PROVE  \E f : IsSeq(f) /\ s = App(f, Last(s)) /\ Size(s) = Size(f) + 1
<1>1. PICK n \in Nat : n = Size(s) /\ n # 0
  BY SizeIs, EmptySize
<1>2. PICK m \in Nat : n = m + 1
  <2>1. n - 1 \in Nat /\ n = (n - 1) + 1
    BY <1>1
  <2> QED BY <2>1
<1>3. PICK f : f = [i \in 1..m |-> s[i]]
  OBVIOUS
<1>4. IsSeq(f) /\ Size(f) = m
  <2>1. f = [i \in 1..m |-> f[i]]
    BY <1>3
  <2> QED BY <2>1, TableIs
<1>5. \A i \in 1..m : At(f, i) = At(s, i)
  BY <1>3 DEF At
<1>6. Last(s) = At(s, m + 1)
  BY <1>1, <1>2 DEF Last, At, Size
<1>7. PICK a : a = App(f, Last(s))
  OBVIOUS
<1>8. /\ IsSeq(a) /\ Size(a) = m + 1 /\ At(a, m + 1) = Last(s)
      /\ \A i \in 1..m : At(a, i) = At(f, i)
  BY <1>4, <1>7, AppendAt
<1>9. \A i \in 1..(m + 1) : At(a, i) = At(s, i)
  BY <1>5, <1>6, <1>8
<1>10. a = s
  BY <1>1, <1>2, <1>8, <1>9, SeqEq
<1> QED BY <1>1, <1>2, <1>4, <1>7, <1>10

LEMMA LastOfAppend ==
  ASSUME NEW f, IsSeq(f), NEW x
  PROVE  Last(App(f, x)) = x /\ App(f, x) # Nil
<1>0. PICK a : a = App(f, x)
  OBVIOUS
<1>1. PICK n \in Nat : a = App(f, x) /\ n = Size(f)
  BY <1>0, SizeIs
<1>2. IsSeq(a) /\ Size(a) = n + 1 /\ At(a, n + 1) = x
  BY <1>1, AppendAt
<1>3. Last(a) = At(a, Size(a))
  BY DEF Last, At, Size
<1>4. a # Nil
  BY <1>2, NoneIsSeq
<1> QED BY <1>1, <1>2, <1>3, <1>4

LEMMA FlatSame ==
  ASSUME NEW n, NEW p, NEW s, IsSeq(s), NEW m, NEW q, NEW t, IsSeq(t), Size(s) = Size(t),
         \A i \in 1..Size(s) : Make(n, p, At(s, i)) = Make(m, q, At(t, i))
  PROVE  Each(n, p, s) = Each(m, q, t) /\ Flat(n, p, s) = Flat(m, q, t)
<1>1. PICK a, b : a = Each(n, p, s) /\ b = Each(m, q, t)
  OBVIOUS
<1>2. PICK l \in Nat : l = Size(s) /\ l = Size(t)
  BY SizeIs
<1>3. /\ IsSeq(a) /\ Size(a) = l /\ \A i \in 1..l : At(a, i) = Make(n, p, At(s, i))
      /\ IsSeq(b) /\ Size(b) = l /\ \A i \in 1..l : At(b, i) = Make(m, q, At(t, i))
  BY <1>1, <1>2, EachIs
<1>4. \A i \in 1..l : At(a, i) = At(b, i)
  BY <1>2, <1>3
<1>5. a = b
  BY <1>2, <1>3, <1>4, SeqEq
<1> QED BY <1>1, <1>5 DEF Flat

\* The elements one by one are the sequence.
LEMMA FlatSingles ==
  ASSUME NEW s, IsSeq(s)
  PROVE  Flat("one", 0, s) = s
<1> DEFINE Good == {k \in Nat : \A t : IsSeq(t) /\ Size(t) = k => Fits("one", 0, t)
             /\ Flat("one", 0, t) = t}
<1>1. 0 \in Good
  BY FlatNone, EmptySize
<1>2. ASSUME NEW k \in Nat, k \in Good PROVE k + 1 \in Good
  <2> SUFFICES ASSUME NEW t, IsSeq(t), Size(t) = k + 1
               PROVE  Fits("one", 0, t) /\ Flat("one", 0, t) = t
    OBVIOUS
  <2>1. t # Nil
    BY NoneIsSeq
  <2>2. PICK f, l : IsSeq(f) /\ t = App(f, l) /\ Size(t) = Size(f) + 1
    BY <2>1, SplitLast
  <2>3. Size(f) = k
    BY <2>2, SizeIs
  <2>4. Fits("one", 0, f) /\ Flat("one", 0, f) = f
    BY <1>2, <2>2, <2>3
  <2>5. Make("one", 0, l) = One(l)
    BY DEF Make, One
  <2>6. Flat("one", 0, App(f, l)) = f ++ One(l) /\ Fits("one", 0, App(f, l))
    <3>1. IsSeq(Make("one", 0, l))
      BY <2>5, OneIs
    <3>2. Flat("one", 0, App(f, l)) = f ++ Make("one", 0, l) /\ Fits("one", 0, App(f, l))
      BY <2>4, <3>1, FlatAppend
    <3> QED BY <2>5, <3>2
  <2> QED BY <2>2, <2>6, AppIsCat
<1>3. Nat \subseteq Good
  <2> HIDE DEF Good
  <2> QED BY <1>1, <1>2, Inductive
<1> QED BY <1>3, SizeIs

\* What keeps every element keeps the sequence.
LEMMA FlatAll ==
  ASSUME NEW n, NEW p, NEW s, IsSeq(s), \A i \in 1..Size(s) : Make(n, p, At(s, i)) = One(At(s, i))
  PROVE  Flat(n, p, s) = s
<1>1. \A x : Make("one", 0, x) = One(x)
  BY DEF Make, One
<1>2. Flat(n, p, s) = Flat("one", 0, s)
  BY <1>1, FlatSame
<1> QED BY <1>2, FlatSingles

LEMMA FlatOnes ==
  ASSUME NEW n, NEW p, NEW s, IsSeq(s), NEW m, NEW q,
         \A i \in 1..Size(s) : Make(n, p, At(s, i)) = One(Make(m, q, At(s, i)))
  PROVE  Flat(n, p, s) = Each(m, q, s)
<1>1. \A x : Make("one", 0, x) = One(x)
  BY DEF Make, One
<1>2. PICK e : e = Each(m, q, s)
  OBVIOUS
<1>3. /\ IsSeq(e) /\ Size(e) = Size(s)
      /\ \A i \in 1..Size(s) : At(e, i) = Make(m, q, At(s, i))
  BY <1>2, EachIs
<1>4. \A i \in 1..Size(s) : Make(n, p, At(s, i)) = Make("one", 0, At(e, i))
  BY <1>1, <1>3
<1>5. Flat(n, p, s) = Flat("one", 0, e)
  BY <1>3, <1>4, FlatSame
<1> QED BY <1>2, <1>3, <1>5, FlatSingles

LEMMA FlatNothing ==
  ASSUME NEW n, NEW p, NEW s, IsSeq(s), \A i \in 1..Size(s) : Make(n, p, At(s, i)) = Nil
  PROVE  Flat(n, p, s) = Nil
<1> DEFINE Good == {k \in Nat : \A t : IsSeq(t) /\ Size(t) = k => Fits("none", 0, t)
             /\ Flat("none", 0, t) = Nil}
<1>1. 0 \in Good
  BY FlatNone, EmptySize
<1>2. ASSUME NEW k \in Nat, k \in Good PROVE k + 1 \in Good
  <2> SUFFICES ASSUME NEW t, IsSeq(t), Size(t) = k + 1
               PROVE  Fits("none", 0, t) /\ Flat("none", 0, t) = Nil
    OBVIOUS
  <2>1. t # Nil
    BY NoneIsSeq
  <2>2. PICK f, l : IsSeq(f) /\ t = App(f, l) /\ Size(t) = Size(f) + 1
    BY <2>1, SplitLast
  <2>3. Size(f) = k
    BY <2>2, SizeIs
  <2>4. Fits("none", 0, f) /\ Flat("none", 0, f) = Nil
    BY <1>2, <2>2, <2>3
  <2>5. Make("none", 0, l) = Nil
    BY DEF Make, Nil
  <2>6. Flat("none", 0, App(f, l)) = Nil ++ Nil /\ Fits("none", 0, App(f, l))
    BY <2>4, <2>5, NoneIsSeq, FlatAppend
  <2> QED BY <2>2, <2>6, NoneIsSeq, EmptyConcat
<1>3. Nat \subseteq Good
  <2> HIDE DEF Good
  <2> QED BY <1>1, <1>2, Inductive
<1>4. Flat("none", 0, s) = Nil
  BY <1>3, SizeIs
<1>5. \A x : Make("none", 0, x) = Nil
  BY DEF Make, Nil
<1> QED BY <1>4, <1>5, FlatSame

\* Sequences over a set.
In(s, S) == IsSeq(s) /\ \A i \in 1..Size(s) : At(s, i) \in S

LEMMA InNone ==
  ASSUME NEW S
  PROVE  In(Nil, S)
  BY NoneIsSeq DEF In

LEMMA InOne ==
  ASSUME NEW S, NEW x \in S
  PROVE  In(One(x), S)
  BY OneIs DEF In

LEMMA InConcat ==
  ASSUME NEW S, NEW s, In(s, S), NEW q, In(q, S)
  PROVE  In(s ++ q, S)
<1>0. PICK r : r = s ++ q
  OBVIOUS
<1>1. PICK l \in Nat, m \in Nat : l = Size(s) /\ m = Size(q) /\ r = s ++ q
  BY <1>0, SizeIs DEF In
<1>2. /\ IsSeq(r) /\ Size(r) = l + m
      /\ \A i \in 1..l : At(r, i) = At(s, i)
      /\ \A i \in 1..m : At(r, l + i) = At(q, i)
  BY <1>1, ConcatAt DEF In
<1>3. ASSUME NEW i \in 1..(l + m) PROVE At(r, i) \in S
  <2>1. CASE i <= l
    BY <1>1, <1>2, <2>1 DEF In
  <2>2. CASE i > l
    <3>1. PICK j \in 1..m : i = l + j
      <4>1. i - l \in 1..m /\ i = l + (i - l)
        BY <2>2
      <4> QED BY <4>1
    <3> QED BY <1>1, <1>2, <3>1 DEF In
  <2> QED BY <2>1, <2>2
<1> QED BY <1>1, <1>2, <1>3 DEF In

LEMMA InAppend ==
  ASSUME NEW S, NEW s, In(s, S), NEW x \in S
  PROVE  In(App(s, x), S) /\ IsSeq(s)
<1>1. App(s, x) = s ++ One(x)
  BY AppIsCat DEF In
<1> QED BY <1>1, InOne, InConcat DEF In

LEMMA FoldIdle ==
  ASSUME NEW t, NEW a, NEW s, IsSeq(s), \A i \in 1..Size(s) : Do(t, a, At(s, i)) = a
  PROVE  Fold(t, a, s) = a
<1> DEFINE Good == {k \in Nat : \A q : IsSeq(q) /\ Size(q) = k
             /\ (\A i \in 1..k : Do(t, a, At(q, i)) = a)
                                       => Fold(t, a, q) = a}
<1>1. 0 \in Good
  BY FoldNil, EmptySize
<1>2. ASSUME NEW k \in Nat, k \in Good PROVE k + 1 \in Good
  <2> SUFFICES ASSUME NEW q, IsSeq(q), Size(q) = k + 1,
                        \A i \in 1..(k + 1) : Do(t, a, At(q, i)) = a
               PROVE  Fold(t, a, q) = a
    OBVIOUS
  <2>1. q # Nil
    BY NoneIsSeq
  <2>2. PICK f, l : IsSeq(f) /\ q = App(f, l) /\ Size(q) = Size(f) + 1
    BY <2>1, SplitLast
  <2>3. Size(f) = k
    BY <2>2, SizeIs
  <2>4. At(q, k + 1) = l /\ \A i \in 1..k : At(q, i) = At(f, i)
    BY <2>2, <2>3, AppendAt
  <2>5. Fold(t, a, f) = a
    <3>1. \A i \in 1..k : Do(t, a, At(f, i)) = a
      BY <2>4
    <3> QED BY <1>2, <2>2, <2>3, <3>1
  <2>6. Do(t, a, l) = a
    BY <2>4
  <2> QED BY <2>2, <2>5, <2>6, FoldApp
<1>3. Nat \subseteq Good
  <2> HIDE DEF Good
  <2> QED BY <1>1, <1>2, Inductive
<1> QED BY <1>3, SizeIs

(***************************************************************************)
(* The operators of the model by these names.                              *)
(***************************************************************************)
LEMMA FlatIs ==
  ASSUME NEW n, NEW p, NEW s, NEW e, e = [k \in DOMAIN s |-> Make(n, p, s[k])]
  PROVE  FlattenSeq(e) = Flat(n, p, s)
  BY DEF Flat, Each

LEMMA OfTypeIs ==
  ASSUME NEW types, NEW s
  PROVE  OfType(types, s) = Flat("of", types, s)
<1> DEFINE D == {k \in DOMAIN s : s[k].type \in types}
<1>1. [k \in DOMAIN s |-> IF k \in D THEN <<s[k]>> ELSE <<>>] = Each("of", types, s)
  <2>1. \A k \in DOMAIN s : (IF k \in D THEN <<s[k]>> ELSE <<>>) = Make("of", types, s[k])
    BY DEF Make
  <2> HIDE DEF D
  <2> QED BY <2>1 DEF Each
<1> QED BY <1>1 DEF OfType, Kept, Flat

LEMMA OfRoleIs ==
  ASSUME NEW role, NEW s
  PROVE  OfRole(role, s) = Flat("role", role, s)
<1> DEFINE D == {k \in DOMAIN s : s[k].role = role}
<1>1. [k \in DOMAIN s |-> IF k \in D THEN <<s[k]>> ELSE <<>>] = Each("role", role, s)
  <2>1. \A k \in DOMAIN s : (IF k \in D THEN <<s[k]>> ELSE <<>>) = Make("role", role, s[k])
    BY DEF Make
  <2> HIDE DEF D
  <2> QED BY <2>1 DEF Each
<1> QED BY <1>1 DEF OfRole, Kept, Flat

LEMMA JoinedIs ==
  ASSUME NEW s
  PROVE  Joined(s) = Flat("text", 0, s)
<1>1. [k \in DOMAIN s |-> s[k].text] = Each("text", 0, s)
  BY DEF Each, Make
<1> QED BY <1>1 DEF Joined, Flat

LEMMA SaysBlocksIs ==
  ASSUME NEW who, NEW s
  PROVE  SaysBlocks(who, s) = Each("says", who, s)
  BY DEF SaysBlocks, Each, Make

LEMMA SystemPiecesIs ==
  ASSUME NEW msgs
  PROVE  SystemPieces(msgs) = Each("piece", 0, Flat("role", "system", msgs))
  BY OfRoleIs DEF SystemPieces, Each, Make

LEMMA SystemPromptIs ==
  ASSUME NEW r
  PROVE  SystemPrompt(r) = Flat("prompt", 0, r)
<1>1. [k \in DOMAIN r |-> IF r[k].who = "system" THEN r[k].what ELSE <<>>] = Each("prompt", 0, r)
  BY DEF Each, Make
<1> QED BY <1>1 DEF SystemPrompt, Flat

LEMMA TypedIs ==
  ASSUME NEW b
  PROVE  Typed(b) = Each("typed", b, b.text)
  BY DEF Typed, Each, Make

LEMMA ReadBodyIs ==
  ASSUME NEW protocol, NEW b
  PROVE  ReadBody(protocol, b) = Each("says", "system", b.sys) ++ Flat("read", protocol, b.msgs)
<1>1. [k \in DOMAIN b.msgs |-> ReadOne(protocol, b.msgs[k])] = Each("read", protocol, b.msgs)
  BY DEF Each, Make
<1>2. FlattenSeq([k \in DOMAIN b.msgs |-> ReadOne(protocol, b.msgs[k])]) = Flat("read", protocol, b.msgs)
  BY <1>1 DEF Flat
<1> QED BY <1>2, SaysBlocksIs DEF ReadBody, ++

LEMMA ToOpenAiIs ==
  ASSUME NEW b
  PROVE  /\ AnthropicToOpenAi(b).msgs = SystemMessage(b.sys) ++ Flat("apart", 0, b.msgs)
         /\ AnthropicToOpenAi(b).sys = Nil
         /\ AnthropicToOpenAi(b).set = [b.set EXCEPT !.usage = b.set.stream]
         /\ ResponsesToOpenAi(b).msgs = SystemMessage(b.sys) ++ Flat("item", 0, b.msgs)
         /\ ResponsesToOpenAi(b).sys = Nil
         /\ ResponsesToOpenAi(b).set = [b.set EXCEPT !.usage = b.set.stream, !.tools = @ \cap {"function"}]
<1>1. [k \in DOMAIN b.msgs |-> TakenApart(b.msgs[k])] = Each("apart", 0, b.msgs)
  BY DEF Each, Make
<1>2. [k \in DOMAIN b.msgs |-> ItemMessages(b.msgs[k])] = Each("item", 0, b.msgs)
  BY DEF Each, Make
<1>3. FlattenSeq([k \in DOMAIN b.msgs |-> TakenApart(b.msgs[k])]) = Flat("apart", 0, b.msgs)
  BY <1>1 DEF Flat
<1>4. FlattenSeq([k \in DOMAIN b.msgs |-> ItemMessages(b.msgs[k])]) = Flat("item", 0, b.msgs)
  BY <1>2 DEF Flat
<1>5. AnthropicToOpenAi(b).msgs = SystemMessage(b.sys) ++ Flat("apart", 0, b.msgs)
  BY <1>3 DEF AnthropicToOpenAi, ++
<1>6. ResponsesToOpenAi(b).msgs = SystemMessage(b.sys) ++ Flat("item", 0, b.msgs)
  BY <1>4 DEF ResponsesToOpenAi, ++
<1>7. AnthropicToOpenAi(b).sys = Nil /\ ResponsesToOpenAi(b).sys = Nil
  BY DEF AnthropicToOpenAi, ResponsesToOpenAi, Nil
<1>8. AnthropicToOpenAi(b).set = [b.set EXCEPT !.usage = b.set.stream]
  BY DEF AnthropicToOpenAi
<1>9. ResponsesToOpenAi(b).set = [b.set EXCEPT !.usage = b.set.stream, !.tools = @ \cap {"function"}]
  BY DEF ResponsesToOpenAi
<1> QED BY <1>5, <1>6, <1>7, <1>8, <1>9

LEMMA ToAnthropicIs ==
  ASSUME NEW b, IsSeq(b.msgs)
  PROVE  /\ OpenAiToAnthropic(b).msgs = Fold("push", Nil, b.msgs)
         /\ OpenAiToAnthropic(b).sys = SystemBlocks(b.msgs)
         /\ OpenAiToAnthropic(b).set = [b.set EXCEPT !.usage = FALSE, !.max = IF @ = 0 THEN DefaultMax ELSE @]
<1>1. OpenAiToAnthropic(b).msgs = FoldLeft(PushMessage, <<>>, b.msgs)
  BY DEF OpenAiToAnthropic
<1>2. OpenAiToAnthropic(b).sys = SystemBlocks(b.msgs)
  BY DEF OpenAiToAnthropic
<1>3. OpenAiToAnthropic(b).set = [b.set EXCEPT !.usage = FALSE, !.max = IF @ = 0 THEN DefaultMax ELSE @]
  BY DEF OpenAiToAnthropic
<1> QED BY <1>1, <1>2, <1>3, PushIsFold DEF Nil

(***************************************************************************)
(* Contents.                                                               *)
(***************************************************************************)
Frags == {One(n) : n \in Nat}
Parts == [type : {"text", "image"}, id : {NoCall}, text : Frags, sig : {Nil}, mark : BOOLEAN]
Texts == [type : {"text"}, id : {NoCall}, text : Frags, sig : {Nil}, mark : BOOLEAN]
Plains == [type : {"text"}, id : {NoCall}, text : Frags, sig : {Nil}, mark : {FALSE}]

LEMMA FragIs ==
  ASSUME NEW f \in Frags
  PROVE  IsSeq(f) /\ f # Nil /\ f # <<>>
<1>1. PICK n \in Nat : f = One(n)
  BY DEF Frags
<1>2. IsSeq(f) /\ f # Nil
  BY <1>1, OneIs
<1> QED BY <1>2 DEF Nil

LEMMA ContentAll ==
  ASSUME NEW c, In(c, Parts)
  PROVE  Content(c) = c
<1>1. \A i \in 1..Size(c) : Make("of", {"text", "image"}, At(c, i)) = One(At(c, i))
  BY DEF Make, One, In, Parts
<1>2. Flat("of", {"text", "image"}, c) = c
  BY <1>1, FlatAll DEF In
<1> QED BY <1>2, OfTypeIs DEF Content

LEMMA TextAll ==
  ASSUME NEW c, In(c, Texts)
  PROVE  OfType({"text"}, c) = c /\ In(c, Parts)
<1>1. \A i \in 1..Size(c) : Make("of", {"text"}, At(c, i)) = One(At(c, i))
  BY DEF Make, One, In, Texts
<1>2. Flat("of", {"text"}, c) = c
  BY <1>1, FlatAll DEF In
<1>3. In(c, Parts)
  BY DEF In, Texts, Parts
<1> QED BY <1>2, <1>3, OfTypeIs

LEMMA PlainIsText ==
  ASSUME NEW c, In(c, Plains)
  PROVE  In(c, Texts)
  BY DEF In, Texts, Plains

LEMMA MarkedIs ==
  ASSUME NEW c, IsSeq(c)
  PROVE  Marked(c) <=> \E i \in 1..Size(c) : At(c, i).mark
  BY SizeDomain DEF Marked, At

LEMMA PlainIsUnmarked ==
  ASSUME NEW c, In(c, Plains)
  PROVE  ~Marked(c)
<1>1. \A i \in 1..Size(c) : ~At(c, i).mark
  BY DEF In, Plains
<1> QED BY <1>1, MarkedIs DEF In

LEMMA TextIs ==
  ASSUME NEW f \in Frags
  PROVE  /\ Text(f) \in Plains /\ Text(f) \in Parts /\ Text(f) \in Texts
         /\ [Text(f) EXCEPT !.mark = TRUE] \in Texts /\ [Text(f) EXCEPT !.mark = TRUE] \in Parts
         /\ [Text(f) EXCEPT !.mark = TRUE].mark
         /\ Block("image", NoCall, f) \in Parts
  BY DEF Text, Block, Plains, Parts, Texts, Nil

LEMMA PlainIs ==
  ASSUME NEW b \in Plains
  PROVE  b = Text(b.text) /\ b.text \in Frags
  BY DEF Text, Block, Plains, Nil

LEMMA OneTextIs ==
  ASSUME NEW f \in Frags
  PROVE  OneText(f) = One(Text(f))
<1>1. f # <<>>
  BY FragIs
<1> QED BY <1>1 DEF OneText, One

LEMMA JoinedOne ==
  ASSUME NEW b, IsSeq(b.text)
  PROVE  Joined(One(b)) = b.text
<1>1. Make("text", 0, b) = b.text
  BY DEF Make
<1> QED BY <1>1, FlatOne, JoinedIs

LEMMA ContentTextOne ==
  ASSUME NEW b \in Texts
  PROVE  ContentText(One(b)) = b.text /\ b.text \in Frags
<1>1. In(One(b), Texts)
  BY InOne
<1>2. OfType({"text"}, One(b)) = One(b)
  BY <1>1, TextAll
<1>3. b.text \in Frags
  BY DEF Texts
<1>4. Joined(One(b)) = b.text
  BY <1>3, FragIs, JoinedOne
<1> QED BY <1>2, <1>3, <1>4 DEF ContentText

LEMMA ContentTextNone ==
  ContentText(Nil) = Nil /\ Joined(Nil) = Nil /\ OneText(Nil) = Nil /\ ~Marked(Nil)
    /\ Content(Nil) = Nil
<1>1. OfType({"text"}, Nil) = Nil /\ OfType({"text", "image"}, Nil) = Nil
  BY FlatNone, OfTypeIs
<1>2. Joined(Nil) = Nil
  BY FlatNone, JoinedIs
<1>3. OneText(Nil) = Nil
  BY DEF OneText, Nil
<1>4. ~Marked(Nil)
  BY NoneIsSeq, MarkedIs
<1> QED BY <1>1, <1>2, <1>3, <1>4 DEF ContentText, Content

\* The contents clients give to a system message.
SystemContent(c) == In(c, Texts) /\ (Marked(c) \/ \E t \in Plains : c = One(t))

LEMMA ShownIs ==
  ASSUME NEW s
  PROVE  Kept(s, {k \in DOMAIN s : s[k].text # <<>> \/ s[k].mark}) = Flat("shown", 0, s)
<1> DEFINE D == {k \in DOMAIN s : s[k].text # <<>> \/ s[k].mark}
<1>1. [k \in DOMAIN s |-> IF k \in D THEN <<s[k]>> ELSE <<>>] = Each("shown", 0, s)
  <2>1. \A k \in DOMAIN s : (IF k \in D THEN <<s[k]>> ELSE <<>>) = Make("shown", 0, s[k])
    BY DEF Make
  <2> HIDE DEF D
  <2> QED BY <2>1 DEF Each
<1> QED BY <1>1 DEF Kept, Flat

\* Such a content is its own piece of the system prompt.
LEMMA PieceIs ==
  ASSUME NEW m, SystemContent(m.content)
  PROVE  SystemPiece(m) = m.content
<1> DEFINE c == m.content
<1>1. In(c, Texts)
  BY DEF SystemContent
<1>2. OfType({"text"}, c) = c
  BY <1>1, TextAll
<1>3. CASE Marked(c)
  <2>1. \A i \in 1..Size(c) : Make("shown", 0, At(c, i)) = One(At(c, i))
    <3> SUFFICES ASSUME NEW i \in 1..Size(c) PROVE Make("shown", 0, At(c, i)) = One(At(c, i))
      OBVIOUS
    <3>1. At(c, i).text \in Frags
      BY <1>1 DEF In, Texts
    <3>2. At(c, i).text # <<>>
      BY <3>1, FragIs
    <3> QED BY <3>2 DEF Make, One
  <2>2. Flat("shown", 0, c) = c
    BY <1>1, <2>1, FlatAll DEF In
  <2>3. SystemPiece(m) = Kept(c, {k \in DOMAIN c : c[k].text # <<>> \/ c[k].mark})
    BY <1>2, <1>3 DEF SystemPiece
  <2> QED BY <2>2, <2>3, ShownIs
<1>4. CASE ~Marked(c)
  <2>1. PICK t \in Plains : c = One(t)
    BY <1>4 DEF SystemContent
  <2>2. SystemPiece(m) = OneText(ContentText(c))
    BY <1>4 DEF SystemPiece
  <2>3. t \in Texts /\ t = Text(t.text)
    BY PlainIs, TextIs
  <2>4. ContentText(c) = t.text /\ t.text \in Frags
    BY <2>1, <2>3, ContentTextOne
  <2>5. OneText(t.text) = One(Text(t.text))
    BY <2>4, OneTextIs
  <2> QED BY <2>1, <2>2, <2>3, <2>4, <2>5
<1> QED BY <1>3, <1>4

\* Texts without a mark are read alike apart and joined.
LEMMA ShapeOfPlains ==
  ASSUME NEW s, In(s, Plains)
  PROVE  /\ Fits("shape", 0, s) /\ Fits("text", 0, s)
         /\ Flat("shape", 0, s) = Each("typed", [type |-> "text", mark |-> FALSE], Flat("text", 0, s))
<1> DEFINE u == [type |-> "text", mark |-> FALSE]
           Same(t) == /\ Fits("shape", 0, t) /\ Fits("text", 0, t)
                      /\ Flat("shape", 0, t) = Each("typed", u, Flat("text", 0, t))
           Good == {k \in Nat : \A t : In(t, Plains) /\ Size(t) = k => Same(t)}
<1>1. 0 \in Good
  <2>1. Same(Nil)
    BY FlatNone, EachNone
  <2> HIDE DEF Same
  <2> QED BY <2>1, EmptySize DEF In
<1>2. ASSUME NEW k \in Nat, k \in Good PROVE k + 1 \in Good
  <2> SUFFICES ASSUME NEW t, In(t, Plains), Size(t) = k + 1 PROVE Same(t)
    OBVIOUS
  <2>1. IsSeq(t) /\ t # Nil
    BY NoneIsSeq DEF In
  <2>2. PICK f, l : IsSeq(f) /\ t = App(f, l) /\ Size(t) = Size(f) + 1
    BY <2>1, SplitLast
  <2>3. Size(f) = k
    BY <2>2, SizeIs
  <2>4. In(f, Plains) /\ l \in Plains
    <3>1. At(t, k + 1) = l /\ \A i \in 1..k : At(t, i) = At(f, i)
      BY <2>2, <2>3, AppendAt
    <3>2. \A i \in 1..(k + 1) : At(t, i) \in Plains
      BY DEF In
    <3>3. l \in Plains /\ \A i \in 1..k : At(f, i) \in Plains
      BY <3>1, <3>2
    <3> QED BY <2>2, <2>3, <3>3 DEF In
  <2>5. Same(f)
    <3> HIDE DEF Same
    <3> QED BY <1>2, <2>3, <2>4
  <2>6. Make("text", 0, l) = l.text /\ IsSeq(l.text)
    <3>1. l.text \in Frags
      BY <2>4 DEF Plains
    <3>2. Make("text", 0, l) = l.text
      BY DEF Make
    <3> QED BY <3>1, <3>2, FragIs
  <2>7. Make("shape", 0, l) = Each("typed", u, l.text)
    <3>1. Make("shape", 0, l) = Each("typed", l, l.text)
      BY TypedIs DEF Make
    <3>2. l.type = "text" /\ l.mark = FALSE
      BY <2>4 DEF Plains
    <3>3. \A x : Make("typed", l, x) = Make("typed", u, x)
      BY <3>2 DEF Make
    <3>4. Each("typed", l, l.text) = Each("typed", u, l.text)
      BY <3>3 DEF Each
    <3> QED BY <3>1, <3>4
  <2>8. IsSeq(Make("shape", 0, l))
    BY <2>6, <2>7, EachIs
  <2>9. /\ Flat("shape", 0, App(f, l)) = Flat("shape", 0, f) ++ Make("shape", 0, l)
        /\ Fits("shape", 0, App(f, l))
    BY <2>5, <2>8, FlatAppend
  <2>10. /\ Flat("text", 0, App(f, l)) = Flat("text", 0, f) ++ l.text
         /\ IsSeq(Flat("text", 0, f)) /\ Fits("text", 0, App(f, l))
    BY <2>5, <2>6, FlatAppend
  <2>11. Each("typed", u, Flat("text", 0, f) ++ l.text)
           = Each("typed", u, Flat("text", 0, f)) ++ Each("typed", u, l.text)
    BY <2>6, <2>10, EachConcat
  <2> HIDE DEF u
  <2> QED BY <2>2, <2>5, <2>7, <2>9, <2>10, <2>11
<1>3. Nat \subseteq Good
  <2> HIDE DEF Good
  <2> QED BY <1>1, <1>2, Inductive
<1>4. Same(s)
  <2> HIDE DEF Same
  <2> QED BY <1>3, SizeIs DEF In
<1> QED BY <1>4

LEMMA JoinedPlains ==
  ASSUME NEW s, In(s, Plains)
  PROVE  Flat("shape", 0, OneText(Joined(s))) = Flat("shape", 0, s) /\ IsSeq(OneText(Joined(s)))
<1> DEFINE u == [type |-> "text", mark |-> FALSE]
<1>1. PICK j : j = Joined(s)
  OBVIOUS
<1>2. j = Flat("text", 0, s) /\ IsSeq(j) /\ Flat("shape", 0, s) = Each("typed", u, j)
  <2>1. Fits("text", 0, s) /\ Flat("shape", 0, s) = Each("typed", u, Flat("text", 0, s))
    BY ShapeOfPlains
  <2>2. IsSeq(Flat("text", 0, s))
    BY <2>1, FlatNone, FlatConcat
  <2> HIDE DEF u
  <2> QED BY <1>1, <2>1, <2>2, JoinedIs
<1>3. CASE j = <<>>
  <2>1. OneText(j) = Nil
    BY <1>3 DEF OneText, Nil
  <2>2. Each("typed", u, j) = Nil
    BY <1>3, EachNone DEF Nil
  <2> QED BY <1>1, <1>2, <2>1, <2>2, FlatNone, NoneIsSeq
<1>4. CASE j # <<>>
  <2>1. OneText(j) = One(Text(j))
    BY <1>4 DEF OneText, One
  <2>2. Make("shape", 0, Text(j)) = Each("typed", u, j)
    <3>1. Make("shape", 0, Text(j)) = Each("typed", Text(j), Text(j).text)
      BY TypedIs DEF Make
    <3>2. Text(j).text = j /\ Text(j).type = "text" /\ Text(j).mark = FALSE
      BY DEF Text, Block
    <3>3. \A x : Make("typed", Text(j), x) = Make("typed", u, x)
      BY <3>2 DEF Make
    <3>4. Each("typed", Text(j), j) = Each("typed", u, j)
      BY <3>3 DEF Each
    <3> QED BY <3>1, <3>2, <3>4
  <2>3. IsSeq(Each("typed", u, j))
    BY <1>2, EachIs
  <2> HIDE DEF u
  <2>4. Flat("shape", 0, One(Text(j))) = Each("typed", u, j)
    BY <2>2, <2>3, FlatOne
  <2> QED BY <1>1, <1>2, <2>1, <2>4, OneIs
<1> QED BY <1>3, <1>4

LEMMA FlatIsSeq ==
  ASSUME NEW n, NEW p, NEW s, Fits(n, p, s)
  PROVE  IsSeq(Flat(n, p, s))
  BY FlatNone, FlatConcat

LEMMA TypedIsSeq ==
  ASSUME NEW b, IsSeq(b.text)
  PROVE  IsSeq(Typed(b))
  BY EachIs, TypedIs

\* Contents of texts and images.
Readable(s) ==
  IsSeq(s) /\ \A i \in 1..Size(s) : At(s, i).type \in {"text", "image"} /\ IsSeq(At(s, i).text)

LEMMA PartsReadable ==
  ASSUME NEW s, In(s, Parts)
  PROVE  Readable(s)
  BY FragIs DEF Readable, In, Parts

\* What the system says is read as its prompt, and is no turn.
LEMMA SystemSays ==
  ASSUME NEW s, Readable(s)
  PROVE  /\ Fits("prompt", 0, Each("says", "system", s)) /\ Fits("shape", 0, s)
         /\ Flat("prompt", 0, Each("says", "system", s)) = Flat("shape", 0, s)
         /\ \A T : Fold("tell", T, Each("says", "system", s)) = T
<1>1. PICK e : e = Each("says", "system", s)
  OBVIOUS
<1>2. IsSeq(e) /\ Size(e) = Size(s) /\ \A i \in 1..Size(s) : At(e, i) = Make("says", "system", At(s, i))
  BY <1>1, EachIs DEF Readable
<1>3. \A b : b.type \in {"text", "image"} =>
              /\ Make("says", "system", b) = Says("system", "content", Typed(b))
              /\ Make("prompt", 0, Says("system", "content", Typed(b))) = Typed(b)
              /\ Make("shape", 0, b) = Typed(b)
  BY DEF Make, SaysBlock, Says
<1>4. \A i \in 1..Size(s) : /\ At(e, i) = Says("system", "content", Typed(At(s, i)))
                            /\ Make("prompt", 0, At(e, i)) = Typed(At(s, i))
                            /\ Make("shape", 0, At(s, i)) = Typed(At(s, i))
                            /\ IsSeq(Typed(At(s, i)))
  BY <1>2, <1>3, TypedIsSeq DEF Readable
<1>5. Fits("prompt", 0, e) /\ Fits("shape", 0, s)
  BY <1>2, <1>4 DEF Fits, Readable
<1>6. Flat("prompt", 0, e) = Flat("shape", 0, s)
  <2>1. \A i \in 1..Size(e) : Make("prompt", 0, At(e, i)) = Make("shape", 0, At(s, i))
    BY <1>2, <1>4
  <2> QED BY <1>2, <2>1, FlatSame DEF Readable
<1>7. ASSUME NEW T PROVE Fold("tell", T, e) = T
  <2>1. \A x : x.who = "system" => Do("tell", T, x) = T
    BY DEF Do, Tell
  <2>2. \A i \in 1..Size(e) : At(e, i).who = "system"
    BY <1>2, <1>4 DEF Says
  <2>3. \A i \in 1..Size(e) : Do("tell", T, At(e, i)) = T
    BY <2>1, <2>2
  <2> QED BY <1>2, <2>3, FoldIdle
<1> QED BY <1>1, <1>5, <1>6, <1>7

BlockTypes == {"text", "image", "thinking", "tool_use", "tool_result"}
Blocky(s) == IsSeq(s) /\ \A i \in 1..Size(s) : At(s, i).type \in BlockTypes

LEMMA SpeakerSays ==
  ASSUME NEW s, Blocky(s), NEW who, who # "system"
  PROVE  Fits("prompt", 0, Each("says", who, s))
           /\ Flat("prompt", 0, Each("says", who, s)) = Nil
<1>1. PICK e : e = Each("says", who, s)
  OBVIOUS
<1>2. IsSeq(e) /\ Size(e) = Size(s) /\ \A i \in 1..Size(s) : At(e, i) = Make("says", who, At(s, i))
  BY <1>1, EachIs DEF Blocky
<1>3. \A b : b.type \in BlockTypes => SaysBlock(who, b).who = who
  <2> SUFFICES ASSUME NEW b, b.type \in BlockTypes PROVE SaysBlock(who, b).who = who
    OBVIOUS
  <2>1. CASE b.type \in {"text", "image"}
    BY <2>1 DEF SaysBlock, Says
  <2>2. CASE b.type = "thinking"
    BY <2>2 DEF SaysBlock, Says
  <2>3. CASE b.type = "tool_use"
    BY <2>3 DEF SaysBlock, Says
  <2>4. CASE b.type = "tool_result"
    BY <2>4 DEF SaysBlock, Says
  <2> QED BY <2>1, <2>2, <2>3, <2>4 DEF BlockTypes
<1>4. \A x : x.who = who => Make("prompt", 0, x) = Nil
  BY DEF Make, Nil
<1>5. \A b : Make("says", who, b) = SaysBlock(who, b)
  BY DEF Make
<1>6. \A i \in 1..Size(e) : Make("prompt", 0, At(e, i)) = Nil
  <2> SUFFICES ASSUME NEW i \in 1..Size(s) PROVE Make("prompt", 0, At(e, i)) = Nil
    BY <1>2
  <2>1. At(e, i) = SaysBlock(who, At(s, i)) /\ At(s, i).type \in BlockTypes
    BY <1>2, <1>5 DEF Blocky
  <2> QED BY <1>3, <1>4, <2>1
<1>7. Fits("prompt", 0, e)
  BY <1>2, <1>6, NoneIsSeq DEF Fits
<1>8. Flat("prompt", 0, e) = Nil
  BY <1>2, <1>6, FlatNothing
<1> QED BY <1>1, <1>7, <1>8

-----------------------------------------------------------------------------
(***************************************************************************)
(* push_blocks.                                                            *)
(***************************************************************************)
Turn(r, c) == [role |-> r, content |-> c]

LEMMA TurnIs ==
  ASSUME NEW r, NEW c
  PROVE  Turn(r, c).role = r /\ Turn(r, c).content = c
  BY DEF Turn

Sides == {"user", "assistant"}
IsTurn(x) == \E r, c : r \in Sides /\ IsSeq(c) /\ x = Turn(r, c)
Spoken(P) == IsSeq(P) /\ \A i \in 1..Size(P) : IsTurn(At(P, i))

LEMMA SpokenAppend ==
  ASSUME NEW P, Spoken(P), NEW r \in Sides, NEW c, IsSeq(c)
  PROVE  Spoken(App(P, Turn(r, c)))
<1>0. IsTurn(Turn(r, c))
  BY DEF IsTurn
<1>9. PICK a : a = App(P, Turn(r, c))
  OBVIOUS
<1>1. PICK n \in Nat : n = Size(P) /\ a = App(P, Turn(r, c))
  BY <1>9, SizeIs DEF Spoken
<1>2. IsSeq(a) /\ Size(a) = n + 1 /\ At(a, n + 1) = Turn(r, c)
        /\ \A i \in 1..n : At(a, i) = At(P, i)
  BY <1>1, AppendAt DEF Spoken
<1>3. ASSUME NEW i \in 1..(n + 1) PROVE IsTurn(At(a, i))
  <2>1. CASE i = n + 1
    BY <1>0, <1>2, <2>1
  <2>2. CASE i # n + 1
    <3>1. i \in 1..n
      BY <2>2
    <3> QED BY <1>1, <1>2, <3>1 DEF Spoken
  <2> QED BY <2>1, <2>2
<1> QED BY <1>1, <1>2, <1>3 DEF Spoken

LEMMA SpokenLast ==
  ASSUME NEW P, Spoken(P), P # Nil
  PROVE  \E f, r, c : r \in Sides /\ Spoken(f) /\ IsSeq(c) /\ P = App(f, Turn(r, c))
           /\ Last(P) = Turn(r, c)
<1>1. PICK f : IsSeq(f) /\ P = App(f, Last(P)) /\ Size(P) = Size(f) + 1
  BY SplitLast DEF Spoken
<1>0. PICK l : l = Last(P)
  OBVIOUS
<1>2. PICK n \in Nat : n = Size(f) /\ l = Last(P)
  BY <1>0, <1>1, SizeIs
<1>3. At(P, n + 1) = l /\ \A i \in 1..n : At(P, i) = At(f, i)
  BY <1>1, <1>2, AppendAt
<1>4. \A i \in 1..(n + 1) : IsTurn(At(P, i))
  BY <1>1, <1>2 DEF Spoken
<1>5. Spoken(f)
  <2>1. \A i \in 1..n : IsTurn(At(f, i))
    BY <1>3, <1>4
  <2> QED BY <1>1, <1>2, <2>1 DEF Spoken
<1>6. PICK r, c : r \in Sides /\ IsSeq(c) /\ l = Turn(r, c)
  <2>1. n + 1 \in 1..(n + 1)
    OBVIOUS
  <2>2. IsTurn(l)
    BY <1>3, <1>4, <2>1
  <2> QED BY <2>2 DEF IsTurn
<1>7. P = App(f, Turn(r, c)) /\ Last(P) = Turn(r, c)
  BY <1>1, <1>2, <1>6
<1> QED BY <1>5, <1>6, <1>7

Extended(P, blocks) == [P EXCEPT ![Len(P)].content = @ \o blocks]

LEMMA ChangeLast ==
  ASSUME NEW f, IsSeq(f), NEW r, NEW c, NEW blocks, NEW P, P = App(f, Turn(r, c))
  PROVE  Extended(P, blocks) = App(f, Turn(r, c ++ blocks))
<1>0. PICK a, b : b = App(f, Turn(r, c ++ blocks)) /\ a = Extended(P, blocks)
  OBVIOUS
<1>1. PICK n \in Nat, l \in Nat :
         /\ n = Size(f) /\ l = n + 1
         /\ b = App(f, Turn(r, c ++ blocks)) /\ a = Extended(P, blocks)
  BY <1>0, SizeIs
<1>2. /\ IsSeq(P) /\ Size(P) = n + 1 /\ At(P, n + 1) = Turn(r, c)
      /\ \A i \in 1..n : At(P, i) = At(f, i)
  BY <1>1, AppendAt
<1>3. /\ IsSeq(b) /\ Size(b) = n + 1 /\ At(b, n + 1) = Turn(r, c ++ blocks)
      /\ \A i \in 1..n : At(b, i) = At(f, i)
  BY <1>1, AppendAt
<1>4. DOMAIN P = 1..l /\ Len(P) = l /\ l \in Nat
  <2>1. Size(P) = l
    BY <1>1, <1>2
  <2>2. DOMAIN P = 1..l
    BY <1>2, <2>1, SizeDomain
  <2> QED BY <1>1, <2>1, <2>2 DEF Size
<1>5. a = [i \in 1..l |-> IF i = l THEN [P[i] EXCEPT !.content = @ \o blocks] ELSE P[i]]
  BY <1>1, <1>4 DEF Extended
<1>6. IsSeq(a) /\ Size(a) = l
  <2>1. a = [i \in 1..l |-> a[i]]
    BY <1>5
  <2> QED BY <1>4, <2>1, TableIs
<1>7. \A i \in 1..n : At(a, i) = At(P, i)
  BY <1>1, <1>5 DEF At
<1>8. At(a, l) = Turn(r, c ++ blocks)
  <2>1. P[l] = Turn(r, c)
    BY <1>1, <1>2 DEF At
  <2>2. a[l] = [P[l] EXCEPT !.content = @ \o blocks]
    <3>1. l \in 1..l
      BY <1>1
    <3> QED BY <1>5, <3>1
  <2>3. [Turn(r, c) EXCEPT !.content = @ \o blocks] = Turn(r, c ++ blocks)
    <3>1. PICK d : d = c \o blocks
      OBVIOUS
    <3>2. [[role |-> r, content |-> c] EXCEPT !.content = d] = [role |-> r, content |-> d]
      OBVIOUS
    <3>3. [role |-> r, content |-> c].content = c
      OBVIOUS
    <3>4. [Turn(r, c) EXCEPT !.content = @ \o blocks] = [Turn(r, c) EXCEPT !.content = d]
      BY <3>1, <3>3 DEF Turn
    <3> QED BY <3>1, <3>2, <3>4 DEF Turn, ++
  <2> QED BY <2>1, <2>2, <2>3 DEF At
<1>9. ASSUME NEW i \in 1..(n + 1) PROVE At(a, i) = At(b, i)
  <2>1. CASE i = n + 1
    BY <1>1, <1>3, <1>8, <2>1
  <2>2. CASE i # n + 1
    <3>1. i \in 1..n
      BY <2>2
    <3> QED BY <1>2, <1>3, <1>7, <3>1
  <2> QED BY <2>1, <2>2
<1>10. Size(a) = n + 1
  BY <1>1, <1>6
<1>11. a = b
  BY <1>3, <1>6, <1>9, <1>10, SeqEq
<1> QED BY <1>1, <1>11

LEMMA ReadTurn ==
  ASSUME NEW r, NEW c, IsSeq(c)
  PROVE  Make("read", "anthropic", Turn(r, c)) = Each("says", r, c) /\ IsSeq(Each("says", r, c))
  BY SaysBlocksIs, EachIs, TurnIs DEF Make, ReadOne

\* The blocks pushed are read after what is there.
LEMMA PushIsRead ==
  ASSUME NEW P, Spoken(P), Fits("read", "anthropic", P), NEW role \in Sides, NEW blocks,
           IsSeq(blocks)
  PROVE  /\ Spoken(PushBlocks(P, role, blocks))
              /\ Fits("read", "anthropic", PushBlocks(P, role, blocks))
         /\ Flat("read", "anthropic", PushBlocks(P, role, blocks))
              = Flat("read", "anthropic", P) ++ Each("says", role, blocks)
<1>0. IsSeq(Flat("read", "anthropic", P))
  BY FlatIsSeq
<1>1. CASE blocks = Nil
  <2>1. PushBlocks(P, role, blocks) = P
    BY <1>1 DEF PushBlocks, Nil
  <2>2. Each("says", role, blocks) = Nil
    BY <1>1, EachNone
  <2> QED BY <1>0, <2>1, <2>2, EmptyConcat
<1>2. CASE blocks # Nil /\ P # Nil /\ Last(P).role = role
  <2>1. PICK f, r, c : r \in Sides /\ Spoken(f) /\ IsSeq(c) /\ P = App(f, Turn(r, c))
               /\ Last(P) = Turn(r, c)
    BY <1>2, SpokenLast
  <2>2. r = role
    BY <1>2, <2>1, TurnIs
  <2>3. PushBlocks(P, role, blocks) = Extended(P, blocks)
    BY <1>2 DEF PushBlocks, Nil, Extended
  <2>4. PushBlocks(P, role, blocks) = App(f, Turn(r, c ++ blocks))
    <3>1. IsSeq(f) /\ P = App(f, Turn(r, c))
      BY <2>1 DEF Spoken
    <3>2. Extended(P, blocks) = App(f, Turn(r, c ++ blocks))
      BY <3>1, ChangeLast
    <3> QED BY <2>3, <3>2
  <2>5. IsSeq(c ++ blocks)
    BY <2>1, ConcatAt
  <2>6. Fits("read", "anthropic", f)
    <3>1. PICK n \in Nat : n = Size(f)
      BY <2>1, SizeIs DEF Spoken
    <3>2. Size(P) = n + 1 /\ \A i \in 1..n : At(P, i) = At(f, i)
      BY <2>1, <3>1, AppendAt DEF Spoken
    <3>3. \A i \in 1..(n + 1) : IsSeq(Make("read", "anthropic", At(P, i)))
      BY <3>2 DEF Fits
    <3>4. \A i \in 1..n : IsSeq(Make("read", "anthropic", At(f, i)))
      BY <3>2, <3>3
    <3> QED BY <2>1, <3>1, <3>4 DEF Fits, Spoken
  <2>7. /\ Make("read", "anthropic", Turn(r, c ++ blocks)) = Each("says", r, c ++ blocks)
        /\ IsSeq(Each("says", r, c ++ blocks))
        /\ Make("read", "anthropic", Turn(r, c)) = Each("says", r, c)
             /\ IsSeq(Each("says", r, c))
    BY <2>1, <2>5, ReadTurn
  <2>8. /\ Flat("read", "anthropic", App(f, Turn(r, c ++ blocks)))
             = Flat("read", "anthropic", f) ++ Each("says", r, c ++ blocks)
        /\ Fits("read", "anthropic", App(f, Turn(r, c ++ blocks)))
        /\ IsSeq(Flat("read", "anthropic", f))
    BY <2>6, <2>7, FlatAppend
  <2>9. Flat("read", "anthropic", P) = Flat("read", "anthropic", f) ++ Each("says", r, c)
    BY <2>1, <2>6, <2>7, FlatAppend
  <2>10. Each("says", r, c ++ blocks) = Each("says", r, c) ++ Each("says", r, blocks)
    BY <2>1, EachConcat
  <2>11. IsSeq(Each("says", r, blocks))
    BY EachIs
  <2>12. Spoken(App(f, Turn(r, c ++ blocks)))
    BY <2>1, <2>5, SpokenAppend
  <2>13. Flat("read", "anthropic", f) ++ (Each("says", r, c) ++ Each("says", r, blocks))
           = (Flat("read", "anthropic", f) ++ Each("says", r, c)) ++ Each("says", r, blocks)
    BY <2>7, <2>8, <2>11, ConcatAssoc
  <2> QED BY <2>2, <2>4, <2>8, <2>9, <2>10, <2>12, <2>13
<1>3. CASE blocks # Nil /\ ~(P # Nil /\ Last(P).role = role)
  <2>1. PushBlocks(P, role, blocks) = App(P, Turn(role, blocks))
    BY <1>3 DEF PushBlocks, Nil, App, Turn
  <2>2. Make("read", "anthropic", Turn(role, blocks)) = Each("says", role, blocks)
          /\ IsSeq(Each("says", role, blocks))
    BY ReadTurn
  <2>3. /\ Flat("read", "anthropic", App(P, Turn(role, blocks)))
             = Flat("read", "anthropic", P) ++ Each("says", role, blocks)
        /\ Fits("read", "anthropic", App(P, Turn(role, blocks)))
    BY <2>2, FlatAppend
  <2>4. Spoken(App(P, Turn(role, blocks)))
    BY SpokenAppend
  <2> QED BY <2>1, <2>3, <2>4
<1> QED BY <1>1, <1>2, <1>3

(***************************************************************************)
(* OpenAI -> Anthropic: a conversation and what it is turned into.          *)
(***************************************************************************)
Pushed(msgs) == Fold("push", Nil, msgs)
Asked(msgs)  == Flat("read", "openai", msgs)
Told(msgs)   == Flat("read", "anthropic", Pushed(msgs))
Sys(msgs)    == Flat("sys", 0, msgs)
SysMsgs(msgs) == Flat("role", "system", msgs)
MarkedSys(msgs) ==
  \E i \in 1..Size(msgs) : At(msgs, i).role = "system" /\ Marked(At(msgs, i).content)

Fitting(msgs) ==
  /\ IsSeq(msgs) /\ Fits("read", "openai", msgs) /\ Fits("role", "system", msgs)
       /\ Fits("sys", 0, msgs)
  /\ Fits("piece", 0, SysMsgs(msgs)) /\ Fits("prompt", 0, Asked(msgs))
  /\ Fits("read", "anthropic", Pushed(msgs)) /\ Fits("prompt", 0, Told(msgs))
\* The system messages, read as the system field of an anthropic body.
PromptKept(msgs) ==
  /\ Flat("piece", 0, SysMsgs(msgs)) = Sys(msgs)
  /\ In(Sys(msgs), Texts) /\ (MarkedSys(msgs) \/ In(Sys(msgs), Plains))
  /\ Flat("prompt", 0, Asked(msgs)) = Flat("shape", 0, Sys(msgs))
  /\ Flat("prompt", 0, Told(msgs)) = Nil
\* What the others say, read in turns.
TurnsKept(msgs) ==
  /\ Spoken(Pushed(msgs))
  /\ Fold("tell", Nil, Told(msgs)) = Fold("tell", Nil, Asked(msgs))
\* An openai conversation is read as the anthropic one made of it.
Faithful(msgs) == Fitting(msgs) /\ PromptKept(msgs) /\ TurnsKept(msgs)

Side(m) == IF m.role = "assistant" THEN "assistant" ELSE "user"

\* What the messages of a conversation are like.
Prompting(m) ==
  m.role = "system" /\ SystemContent(m.content)
    /\ ReadMessage(m) = Each("says", "system", m.content)
Speaking(m) ==
  /\ m.role # "system" /\ Blocky(BlocksOf(m))
  /\ ReadMessage(m) = Each("says", Side(m), BlocksOf(m))

LEMMA FaithfulStart == Faithful(Nil)
<1>1. Pushed(Nil) = Nil
  BY FoldNil DEF Pushed
<1>2. Asked(Nil) = Nil /\ Told(Nil) = Nil /\ Sys(Nil) = Nil /\ SysMsgs(Nil) = Nil
  BY <1>1, FlatNone DEF Asked, Told, Sys, SysMsgs
<1>3. Fitting(Nil)
  BY <1>1, <1>2, FlatNone, NoneIsSeq DEF Fitting
<1>4. PromptKept(Nil)
  BY <1>2, FlatNone, InNone DEF PromptKept
<1>5. TurnsKept(Nil)
  <2>1. Spoken(Nil)
    BY NoneIsSeq DEF Spoken
  <2> QED BY <1>1, <1>2, <2>1 DEF TurnsKept
<1> QED BY <1>3, <1>4, <1>5 DEF Faithful

LEMMA MarkedSysAppend ==
  ASSUME NEW msgs, IsSeq(msgs), NEW m
  PROVE  MarkedSys(App(msgs, m)) <=> MarkedSys(msgs) \/ (m.role = "system" /\ Marked(m.content))
<1>0. PICK a : a = App(msgs, m)
  OBVIOUS
<1>1. PICK n \in Nat : n = Size(msgs)
  BY SizeIs
<1>2. Size(a) = n + 1 /\ At(a, n + 1) = m /\ \A i \in 1..n : At(a, i) = At(msgs, i)
  BY <1>0, <1>1, AppendAt
<1>3. MarkedSys(a) <=> \E i \in 1..(n + 1) : At(a, i).role = "system"
        /\ Marked(At(a, i).content)
  BY <1>2 DEF MarkedSys
<1>4. MarkedSys(msgs) <=> \E i \in 1..n : At(msgs, i).role = "system"
        /\ Marked(At(msgs, i).content)
  BY <1>1 DEF MarkedSys
<1>5. ASSUME MarkedSys(a) PROVE MarkedSys(msgs) \/ (m.role = "system" /\ Marked(m.content))
  <2>1. PICK i \in 1..(n + 1) : At(a, i).role = "system" /\ Marked(At(a, i).content)
    BY <1>3, <1>5
  <2>2. CASE i = n + 1
    BY <1>2, <2>1, <2>2
  <2>3. CASE i # n + 1
    <3>1. i \in 1..n
      BY <2>3
    <3> QED BY <1>2, <1>4, <2>1, <3>1
  <2> QED BY <2>2, <2>3
<1>6. ASSUME MarkedSys(msgs) \/ (m.role = "system" /\ Marked(m.content)) PROVE MarkedSys(a)
  <2>1. CASE MarkedSys(msgs)
    <3>1. PICK i \in 1..n : At(msgs, i).role = "system" /\ Marked(At(msgs, i).content)
      BY <1>4, <2>1
    <3>2. i \in 1..(n + 1) /\ At(a, i) = At(msgs, i)
      BY <1>2
    <3> QED BY <1>3, <3>1, <3>2
  <2>2. CASE m.role = "system" /\ Marked(m.content)
    <3>1. n + 1 \in 1..(n + 1)
      OBVIOUS
    <3> QED BY <1>2, <1>3, <2>2, <3>1
  <2> QED BY <1>6, <2>1, <2>2
<1> QED BY <1>0, <1>5, <1>6

LEMMA PromptingStep ==
  ASSUME NEW msgs, Faithful(msgs), NEW m, Prompting(m)
  PROVE  Faithful(App(msgs, m))
<1> DEFINE c == m.content
<1>1. In(c, Texts) /\ In(c, Parts) /\ IsSeq(c) /\ (Marked(c) \/ In(c, Plains))
  <2>1. In(c, Texts)
    BY DEF Prompting, SystemContent
  <2>2. \A t \in Plains : In(One(t), Plains)
    BY InOne
  <2> QED BY <2>1, <2>2, TextAll DEF Prompting, SystemContent, In
<1>2. /\ Make("read", "openai", m) = Each("says", "system", c)
           /\ IsSeq(Each("says", "system", c))
      /\ Make("role", "system", m) = One(m) /\ IsSeq(One(m))
      /\ Make("sys", 0, m) = c /\ Make("piece", 0, m) = c
  <2>1. Make("read", "openai", m) = Each("says", "system", c)
    BY DEF Make, ReadOne, Prompting
  <2>2. Make("role", "system", m) = One(m) /\ Make("sys", 0, m) = c
    BY DEF Make, One, Prompting
  <2>3. Make("piece", 0, m) = c
    BY PieceIs DEF Make, Prompting
  <2> QED BY <1>1, <2>1, <2>2, <2>3, EachIs, OneIs
<1>3. Pushed(App(msgs, m)) = Pushed(msgs)
  <2>1. Pushed(App(msgs, m)) = Do("push", Pushed(msgs), m)
    BY FoldApp DEF Pushed, Faithful, Fitting
  <2>2. Do("push", Pushed(msgs), m) = Pushed(msgs)
    BY DEF Do, PushMessage, Prompting
  <2> QED BY <2>1, <2>2
<1>4. Told(App(msgs, m)) = Told(msgs)
  BY <1>3 DEF Told
<1>5. /\ Asked(App(msgs, m)) = Asked(msgs) ++ Each("says", "system", c) /\ IsSeq(Asked(msgs))
      /\ Fits("read", "openai", App(msgs, m))
  BY <1>2, FlatAppend DEF Asked, Faithful, Fitting
<1>6. Sys(App(msgs, m)) = Sys(msgs) ++ c /\ Fits("sys", 0, App(msgs, m))
  BY <1>1, <1>2, FlatAppend DEF Sys, Faithful, Fitting
<1>7. /\ SysMsgs(App(msgs, m)) = SysMsgs(msgs) ++ One(m) /\ IsSeq(SysMsgs(msgs))
      /\ Fits("role", "system", App(msgs, m))
  BY <1>2, FlatAppend DEF SysMsgs, Faithful, Fitting
<1>8. /\ Flat("piece", 0, SysMsgs(msgs) ++ One(m)) = Flat("piece", 0, SysMsgs(msgs)) ++ c
      /\ Fits("piece", 0, SysMsgs(msgs) ++ One(m))
  <2>1. Flat("piece", 0, One(m)) = c /\ Fits("piece", 0, One(m))
    BY <1>1, <1>2, FlatOne
  <2> QED BY <2>1, FlatConcat DEF Faithful, Fitting
<1>9. /\ Flat("prompt", 0, Each("says", "system", c)) = Flat("shape", 0, c)
      /\ Fits("prompt", 0, Each("says", "system", c))
      /\ \A T : Fold("tell", T, Each("says", "system", c)) = T
  BY <1>1, PartsReadable, SystemSays
<1>10. /\ Flat("prompt", 0, Asked(msgs) ++ Each("says", "system", c)) = Flat("prompt", 0, Asked(msgs)) ++ Flat("shape", 0, c)
       /\ Fits("prompt", 0, Asked(msgs) ++ Each("says", "system", c))
  BY <1>9, FlatConcat DEF Faithful, Fitting
<1>11. Flat("shape", 0, Sys(msgs) ++ c) = Flat("shape", 0, Sys(msgs)) ++ Flat("shape", 0, c)
  <2>1. Fits("shape", 0, Sys(msgs)) /\ Fits("shape", 0, c)
    BY <1>1, TextAll, PartsReadable, SystemSays DEF Faithful, PromptKept
  <2> QED BY <2>1, FlatConcat
<1>12. Fitting(App(msgs, m))
  <2>1. IsSeq(App(msgs, m))
    BY AppendAt DEF Faithful, Fitting
  <2> QED BY <1>3, <1>4, <1>5, <1>6, <1>7, <1>8, <1>10, <2>1 DEF Faithful, Fitting
<1>13. PromptKept(App(msgs, m))
  <2>1. In(Sys(msgs) ++ c, Texts)
    BY <1>1, InConcat DEF Faithful, PromptKept
  <2>2. MarkedSys(App(msgs, m)) \/ In(Sys(msgs) ++ c, Plains)
    <3>1. MarkedSys(App(msgs, m)) <=> MarkedSys(msgs) \/ (m.role = "system" /\ Marked(c))
      BY MarkedSysAppend DEF Faithful, Fitting
    <3>2. ASSUME In(Sys(msgs), Plains), In(c, Plains) PROVE In(Sys(msgs) ++ c, Plains)
      BY <3>2, InConcat
    <3>3. m.role = "system"
      BY DEF Prompting
    <3>4. MarkedSys(msgs) \/ In(Sys(msgs), Plains)
      BY DEF Faithful, PromptKept
    <3> QED BY <1>1, <3>1, <3>2, <3>3, <3>4
  <2>3. Flat("piece", 0, SysMsgs(App(msgs, m))) = Sys(App(msgs, m))
    BY <1>6, <1>7, <1>8 DEF Faithful, PromptKept
  <2>4. Flat("prompt", 0, Asked(App(msgs, m))) = Flat("shape", 0, Sys(App(msgs, m)))
    BY <1>5, <1>6, <1>10, <1>11 DEF Faithful, PromptKept
  <2> QED BY <1>4, <1>6, <2>1, <2>2, <2>3, <2>4 DEF Faithful, PromptKept
<1>14. TurnsKept(App(msgs, m))
  <2>1. Fold("tell", Nil, Asked(msgs) ++ Each("says", "system", c))
          = Fold("tell", Fold("tell", Nil, Asked(msgs)), Each("says", "system", c))
    BY <1>2, <1>5, FoldCat
  <2> QED BY <1>3, <1>4, <1>5, <1>9, <2>1 DEF Faithful, TurnsKept
<1> QED BY <1>12, <1>13, <1>14 DEF Faithful

LEMMA SpeakingStep ==
  ASSUME NEW msgs, Faithful(msgs), NEW m, Speaking(m)
  PROVE  Faithful(App(msgs, m))
<1> DEFINE bs == BlocksOf(m)
           w == Side(m)
           e == Each("says", w, bs)
<1>1. Blocky(bs) /\ IsSeq(bs) /\ IsSeq(e) /\ w \in Sides /\ w # "system"
  <2>1. Blocky(bs) /\ IsSeq(bs)
    BY DEF Speaking, Blocky
  <2>2. w \in Sides /\ w # "system"
    BY DEF Side, Sides
  <2> QED BY <2>1, <2>2, EachIs
<1>2. /\ Make("read", "openai", m) = e
      /\ Make("role", "system", m) = Nil /\ Make("sys", 0, m) = Nil
  BY DEF Make, ReadOne, Speaking, Nil
<1> HIDE DEF e
<1>3. Pushed(App(msgs, m)) = PushBlocks(Pushed(msgs), w, bs)
  <2>1. Pushed(App(msgs, m)) = Do("push", Pushed(msgs), m)
    BY FoldApp DEF Pushed, Faithful, Fitting
  <2>2. Do("push", Pushed(msgs), m) = PushBlocks(Pushed(msgs), w, bs)
    BY DEF Do, PushMessage, Speaking, Side
  <2> QED BY <2>1, <2>2
<1>4. /\ Spoken(Pushed(App(msgs, m))) /\ Fits("read", "anthropic", Pushed(App(msgs, m)))
      /\ Told(App(msgs, m)) = Told(msgs) ++ e /\ IsSeq(Told(msgs))
  BY <1>1, <1>3, PushIsRead, FlatIsSeq DEF Told, Faithful, Fitting, TurnsKept, e
<1>5. /\ Asked(App(msgs, m)) = Asked(msgs) ++ e /\ IsSeq(Asked(msgs))
      /\ Fits("read", "openai", App(msgs, m))
  BY <1>1, <1>2, FlatAppend DEF Asked, Faithful, Fitting
<1>6. Sys(App(msgs, m)) = Sys(msgs) /\ Fits("sys", 0, App(msgs, m))
  <2>1. Sys(App(msgs, m)) = Sys(msgs) ++ Nil /\ Fits("sys", 0, App(msgs, m)) /\ IsSeq(Sys(msgs))
    BY <1>2, NoneIsSeq, FlatAppend DEF Sys, Faithful, Fitting
  <2> QED BY <2>1, EmptyConcat
<1>7. SysMsgs(App(msgs, m)) = SysMsgs(msgs) /\ Fits("role", "system", App(msgs, m))
  <2>1. /\ SysMsgs(App(msgs, m)) = SysMsgs(msgs) ++ Nil /\ Fits("role", "system", App(msgs, m))
        /\ IsSeq(SysMsgs(msgs))
    BY <1>2, NoneIsSeq, FlatAppend DEF SysMsgs, Faithful, Fitting
  <2> QED BY <2>1, EmptyConcat
<1>8. Fits("prompt", 0, e) /\ Flat("prompt", 0, e) = Nil
  BY <1>1, SpeakerSays DEF e
<1>9. /\ Flat("prompt", 0, Asked(msgs) ++ e) = Flat("prompt", 0, Asked(msgs))
      /\ Fits("prompt", 0, Asked(msgs) ++ e)
  <2>1. /\ Flat("prompt", 0, Asked(msgs) ++ e) = Flat("prompt", 0, Asked(msgs)) ++ Nil
        /\ Fits("prompt", 0, Asked(msgs) ++ e) /\ IsSeq(Flat("prompt", 0, Asked(msgs)))
    BY <1>8, FlatConcat DEF Faithful, Fitting
  <2> QED BY <2>1, EmptyConcat
<1>10. /\ Flat("prompt", 0, Told(msgs) ++ e) = Nil
       /\ Fits("prompt", 0, Told(msgs) ++ e)
  <2>1. /\ Flat("prompt", 0, Told(msgs) ++ e) = Nil ++ Nil
        /\ Fits("prompt", 0, Told(msgs) ++ e)
    BY <1>8, FlatConcat DEF Faithful, Fitting, PromptKept
  <2> QED BY <2>1, EmptyConcat, NoneIsSeq
<1>11. Fitting(App(msgs, m))
  <2>1. IsSeq(App(msgs, m))
    BY AppendAt DEF Faithful, Fitting
  <2> QED BY <1>4, <1>5, <1>6, <1>7, <1>9, <1>10, <2>1 DEF Faithful, Fitting
<1>12. PromptKept(App(msgs, m))
  <2>1. MarkedSys(App(msgs, m)) <=> MarkedSys(msgs)
    BY MarkedSysAppend DEF Faithful, Fitting, Speaking
  <2> QED BY <1>4, <1>5, <1>6, <1>7, <1>9, <1>10, <2>1 DEF Faithful, PromptKept
<1>13. TurnsKept(App(msgs, m))
  <2>1. /\ Fold("tell", Nil, Asked(msgs) ++ e) = Fold("tell", Fold("tell", Nil, Asked(msgs)), e)
        /\ Fold("tell", Nil, Told(msgs) ++ e) = Fold("tell", Fold("tell", Nil, Told(msgs)), e)
    BY <1>1, <1>4, <1>5, FoldCat DEF e
  <2> QED BY <1>4, <1>5, <2>1 DEF Faithful, TurnsKept
<1> QED BY <1>11, <1>12, <1>13 DEF Faithful

LEMMA SystemBlocksIs ==
  ASSUME NEW msgs, Faithful(msgs)
  PROVE  Readable(SystemBlocks(msgs)) /\ Flat("shape", 0, SystemBlocks(msgs)) = Flat("shape", 0, Sys(msgs))
<1>1. FlattenSeq(SystemPieces(msgs)) = Sys(msgs)
  BY SystemPiecesIs DEF Flat, SysMsgs, Faithful, PromptKept
<1>2. MarkedSys(msgs) <=> \E k \in DOMAIN msgs : msgs[k].role = "system"
        /\ Marked(msgs[k].content)
  BY SizeDomain DEF MarkedSys, At, Faithful, Fitting
<1>3. CASE MarkedSys(msgs)
  <2>1. SystemBlocks(msgs) = Sys(msgs)
    BY <1>1, <1>2, <1>3 DEF SystemBlocks
  <2>2. Readable(Sys(msgs))
    BY TextAll, PartsReadable DEF Faithful, PromptKept
  <2> QED BY <2>1, <2>2
<1>4. CASE ~MarkedSys(msgs)
  <2>1. SystemBlocks(msgs) = OneText(Joined(Sys(msgs)))
    BY <1>1, <1>2, <1>4 DEF SystemBlocks
  <2>2. In(Sys(msgs), Plains)
    BY <1>4 DEF Faithful, PromptKept
  <2>3. Flat("shape", 0, OneText(Joined(Sys(msgs)))) = Flat("shape", 0, Sys(msgs))
    BY <2>2, JoinedPlains
  <2>4. PICK j : j = Joined(Sys(msgs))
    OBVIOUS
  <2>5. IsSeq(j)
    <3>1. Fits("text", 0, Sys(msgs))
      BY <2>2, ShapeOfPlains
    <3> QED BY <2>4, <3>1, FlatIsSeq, JoinedIs
  <2>6. Readable(OneText(j))
    <3>1. CASE j = <<>>
      <4>1. OneText(j) = Nil
        BY <3>1 DEF OneText, Nil
      <4> QED BY <4>1, NoneIsSeq DEF Readable
    <3>2. CASE j # <<>>
      <4>1. OneText(j) = One(Text(j))
        BY <3>2 DEF OneText, One
      <4>2. Text(j).type = "text" /\ Text(j).text = j
        BY DEF Text, Block
      <4> QED BY <2>5, <4>1, <4>2, OneIs DEF Readable
    <3> QED BY <3>1, <3>2
  <2> QED BY <2>1, <2>3, <2>4, <2>6
<1> QED BY <1>3, <1>4

\* The prompt and the turns of a converted conversation are those of the conversation.
LEMMA FaithfulBody ==
  ASSUME NEW b, Faithful(b.msgs), b.sys = Nil
  PROVE  /\ SystemPrompt(ReadBody("anthropic", OpenAiToAnthropic(b))) = SystemPrompt(ReadBody("openai", b))
         /\ Turns(ReadBody("anthropic", OpenAiToAnthropic(b))) = Turns(ReadBody("openai", b))
         /\ ReadBody("openai", b) = Asked(b.msgs)
<1>1. PICK msgs, e : msgs = b.msgs /\ e = Each("says", "system", SystemBlocks(msgs))
  OBVIOUS
<1>2. Faithful(msgs) /\ IsSeq(Asked(msgs)) /\ IsSeq(Told(msgs)) /\ IsSeq(msgs)
  BY <1>1, FlatIsSeq DEF Faithful, Fitting, Asked, Told
<1>3. ReadBody("openai", b) = Asked(msgs)
  <2>1. ReadBody("openai", b) = Nil ++ Asked(msgs)
    BY <1>1, ReadBodyIs, EachNone DEF Asked
  <2> QED BY <1>2, <2>1, EmptyConcat
<1>4. ReadBody("anthropic", OpenAiToAnthropic(b)) = e ++ Told(msgs)
  <2>1. OpenAiToAnthropic(b).msgs = Pushed(msgs)
          /\ OpenAiToAnthropic(b).sys = SystemBlocks(msgs)
    BY <1>1, <1>2, ToAnthropicIs DEF Pushed
  <2> QED BY <1>1, <2>1, ReadBodyIs DEF Told
<1>5. /\ Fits("prompt", 0, e) /\ Flat("prompt", 0, e) = Flat("shape", 0, Sys(msgs)) /\ IsSeq(e)
      /\ \A T : Fold("tell", T, e) = T
  <2>1. Readable(SystemBlocks(msgs)) /\ Flat("shape", 0, SystemBlocks(msgs)) = Flat("shape", 0, Sys(msgs))
    BY <1>2, SystemBlocksIs
  <2> QED BY <1>1, <2>1, SystemSays DEF Fits
<1>6. Flat("prompt", 0, e ++ Told(msgs)) = Flat("prompt", 0, Asked(msgs))
  <2>1. Flat("prompt", 0, e ++ Told(msgs)) = Flat("shape", 0, Sys(msgs)) ++ Nil
          /\ IsSeq(Flat("shape", 0, Sys(msgs)))
    BY <1>2, <1>5, FlatConcat DEF Faithful, Fitting, PromptKept
  <2>2. Flat("prompt", 0, Asked(msgs)) = Flat("shape", 0, Sys(msgs))
    BY <1>2 DEF Faithful, PromptKept
  <2> QED BY <2>1, <2>2, EmptyConcat
<1>7. Fold("tell", Nil, e ++ Told(msgs)) = Fold("tell", Nil, Asked(msgs))
  <2>1. Fold("tell", Nil, e ++ Told(msgs)) = Fold("tell", Fold("tell", Nil, e), Told(msgs))
    BY <1>2, <1>5, FoldCat
  <2> QED BY <1>2, <1>5, <2>1 DEF Faithful, TurnsKept
<1>8. IsSeq(e ++ Told(msgs))
  BY <1>2, <1>5, ConcatAt
<1>9. /\ Turns(e ++ Told(msgs)) = Fold("tell", Nil, e ++ Told(msgs))
      /\ Turns(Asked(msgs)) = Fold("tell", Nil, Asked(msgs))
  BY <1>2, <1>8, TurnsIsFold DEF Nil
<1> QED BY <1>1, <1>3, <1>4, <1>6, <1>7, <1>9, SystemPromptIs

-----------------------------------------------------------------------------
(***************************************************************************)
(* The messages there are.                                                 *)
(***************************************************************************)
LEMMA PromptMessage ==
  ASSUME NEW c, SystemContent(c)
  PROVE  Prompting(Message("system", c))
<1>1. Message("system", c).role = "system" /\ Message("system", c).content = c
  BY DEF Message
<1>2. ReadMessage(Message("system", c)) = SaysBlocks("system", c)
  BY <1>1 DEF ReadMessage
<1> QED BY <1>1, <1>2, SaysBlocksIs DEF Prompting

LEMMA PartsBlocky ==
  ASSUME NEW c, In(c, Parts)
  PROVE  Blocky(c)
  BY DEF Blocky, In, Parts, BlockTypes

LEMMA UserMessage ==
  ASSUME NEW c, In(c, Parts)
  PROVE  Speaking(Message("user", c))
<1>1. Message("user", c).role = "user" /\ Message("user", c).content = c
  BY DEF Message
<1>2. ReadMessage(Message("user", c)) = SaysBlocks("user", c)
  BY <1>1 DEF ReadMessage
<1>3. BlocksOf(Message("user", c)) = c
  BY <1>1, ContentAll DEF BlocksOf
<1>4. Side(Message("user", c)) = "user"
  BY <1>1 DEF Side
<1> QED BY <1>1, <1>2, <1>3, <1>4, SaysBlocksIs, PartsBlocky DEF Speaking

LEMMA BlockyConcat ==
  ASSUME NEW s, Blocky(s), NEW q, Blocky(q)
  PROVE  Blocky(s ++ q)
<1>1. PICK r : r = s ++ q
  OBVIOUS
<1>2. PICK l \in Nat, m \in Nat : l = Size(s) /\ m = Size(q)
  BY SizeIs DEF Blocky
<1>3. /\ IsSeq(r) /\ Size(r) = l + m
      /\ \A i \in 1..l : At(r, i) = At(s, i)
      /\ \A i \in 1..m : At(r, l + i) = At(q, i)
  BY <1>1, <1>2, ConcatAt DEF Blocky
<1>4. ASSUME NEW i \in 1..(l + m) PROVE At(r, i).type \in BlockTypes
  <2>1. CASE i <= l
    BY <1>2, <1>3, <2>1 DEF Blocky
  <2>2. CASE i > l
    <3>1. PICK j \in 1..m : i = l + j
      <4>1. i - l \in 1..m /\ i = l + (i - l)
        BY <2>2
      <4> QED BY <4>1
    <3> QED BY <1>2, <1>3, <3>1 DEF Blocky
  <2> QED BY <2>1, <2>2
<1> QED BY <1>1, <1>2, <1>3, <1>4 DEF Blocky

ThinkBlocks(m) ==
  IF m.think = <<>> THEN Nil ELSE One([Block("thinking", NoCall, m.think) EXCEPT !.sig = m.sig])

LEMMA AssistantBlocksIs ==
  ASSUME NEW m
  PROVE  AssistantBlocks(m) = (ThinkBlocks(m) ++ Content(m.content)) ++ Each("use", 0, m.calls)
<1>1. [k \in DOMAIN m.calls |-> ToolUse(m.calls[k])] = Each("use", 0, m.calls)
  BY DEF Each, Make
<1>2. (IF m.think = <<>> THEN <<>>
       ELSE <<[Block("thinking", NoCall, m.think) EXCEPT !.sig = m.sig]>>) = ThinkBlocks(m)
  BY DEF ThinkBlocks, Nil, One
<1> QED BY <1>1, <1>2 DEF AssistantBlocks, ++

LEMMA ThinkBlocksIs ==
  ASSUME NEW m
  PROVE  Blocky(ThinkBlocks(m)) /\ IsSeq(ThinkBlocks(m))
<1> DEFINE b == [Block("thinking", NoCall, m.think) EXCEPT !.sig = m.sig]
<1>1. b.type \in BlockTypes
  BY DEF Block, BlockTypes
<1> HIDE DEF b
<1>2. Blocky(One(b)) /\ Blocky(Nil)
  BY <1>1, OneIs, NoneIsSeq DEF Blocky
<1>3. ThinkBlocks(m) = Nil \/ ThinkBlocks(m) = One(b)
  BY DEF ThinkBlocks, b
<1> QED BY <1>2, <1>3 DEF Blocky

LEMMA UsesBlocky ==
  ASSUME NEW s, IsSeq(s)
  PROVE  Blocky(Each("use", 0, s))
<1>1. \A x : Make("use", 0, x).type \in BlockTypes
  BY DEF Make, ToolUse, Block, BlockTypes
<1> QED BY <1>1, EachIs DEF Blocky

LEMMA AssistantSpeaks ==
  ASSUME NEW m, m.role = "assistant", In(m.content, Parts), IsSeq(m.calls)
  PROVE  Speaking(m)
<1>1. BlocksOf(m) = AssistantBlocks(m)
  BY DEF BlocksOf
<1>2. ReadMessage(m) = SaysBlocks("assistant", AssistantBlocks(m))
  BY DEF ReadMessage
<1>3. Side(m) = "assistant"
  BY DEF Side
<1>4. Blocky(AssistantBlocks(m))
  <2>1. Blocky(Content(m.content))
    BY ContentAll, PartsBlocky
  <2> QED BY <2>1, ThinkBlocksIs, UsesBlocky, BlockyConcat, AssistantBlocksIs
<1> QED BY <1>1, <1>2, <1>3, <1>4, SaysBlocksIs DEF Speaking

LEMMA ToolSpeaks ==
  ASSUME NEW m, m.role = "tool"
  PROVE  Speaking(m) /\ ReadMessage(m) = One(Says("user", "results", <<<<m.id, ContentText(m.content)>>>>))
<1> DEFINE b == Block("tool_result", m.id, ContentText(m.content))
           s == Says("user", "results", <<<<m.id, ContentText(m.content)>>>>)
<1>1. BlocksOf(m) = One(b)
  BY DEF BlocksOf, One
<1>2. ReadMessage(m) = One(s)
  BY DEF ReadMessage, One
<1>3. Side(m) = "user"
  BY DEF Side
<1>4. b.type = "tool_result" /\ b.id = m.id /\ b.text = ContentText(m.content)
  BY DEF Block
<1>5. Make("says", "user", b) = s
  BY <1>4 DEF Make, SaysBlock
<1>6. b.type \in BlockTypes
  BY <1>4 DEF BlockTypes
<1> HIDE DEF b, s
<1>7. Blocky(One(b))
  BY <1>6, OneIs DEF Blocky
<1>8. Each("says", "user", One(b)) = One(s)
  BY <1>5, EachOne
<1>9. m.role # "system"
  OBVIOUS
<1>10. ReadMessage(m) = One(Says("user", "results", <<<<m.id, ContentText(m.content)>>>>))
  BY <1>2 DEF s
<1> QED BY <1>1, <1>2, <1>3, <1>7, <1>8, <1>9, <1>10 DEF Speaking

LEMMA TableOver ==
  ASSUME NEW s, IsSeq(s), NEW q, q = [k \in DOMAIN s |-> q[k]]
  PROVE  IsSeq(q) /\ Size(q) = Size(s)
<1>1. PICK n \in Nat : n = Size(s)
  BY SizeIs
<1>2. q = [k \in 1..n |-> q[k]]
  BY <1>1, SizeDomain
<1> QED BY <1>1, <1>2, TableIs

LEMMA FreshIs ==
  ASSUME said \in Nat, NEW k \in Nat
  PROVE  Fresh(k) \in Frags
<1>1. said + k \in Nat
  OBVIOUS
<1> QED BY <1>1 DEF Fresh, Frags, One

LEMMA CallSeqsAre ==
  ASSUME NEW cs \in CallSeqs
  PROVE  IsSeq(cs)
<1>1. CASE cs = <<>>
  BY <1>1, NoneIsSeq DEF Nil
<1>2. CASE cs \in {<<c>> : c \in FreshCalls}
  <2>1. PICK c \in FreshCalls : cs = One(c)
    BY <1>2 DEF One
  <2> QED BY <2>1, OneIs
<1>3. CASE cs \in {p \in FreshCalls \X FreshCalls : p[1] # p[2]}
  <2>1. PICK c \in FreshCalls, d \in FreshCalls : cs = <<c, d>>
    BY <1>3
  <2>2. cs = One(c) ++ One(d)
    BY <2>1, TwoIs
  <2> QED BY <2>2, OneIs, ConcatAt
<1> QED BY <1>1, <1>2, <1>3 DEF CallSeqs

LEMMA OpenAiContents ==
  ASSUME said \in Nat
  PROVE  /\ \A p \in Prompts : SystemContent(p)
         /\ \A p \in UserContents : In(p, Parts)
         /\ In(<<>>, Parts) /\ In(<<Text(Fresh(1))>>, Parts)
<1>1. Fresh(1) \in Frags /\ Fresh(2) \in Frags
  BY FreshIs
<1> DEFINE t1 == Text(Fresh(1))
           m1 == MarkedText(1)
           m2 == MarkedText(2)
           t2 == Text(Fresh(2))
           i1 == Image(1)
<1>2. /\ t1 \in Plains /\ t1 \in Parts /\ t1 \in Texts /\ t2 \in Texts
      /\ m1 \in Texts /\ m1.mark /\ m2 \in Parts /\ i1 \in Parts
  BY <1>1, TextIs DEF MarkedText, Image
<1>3. Prompts = {One(t1), One(m1) ++ One(t2)} /\ UserContents = {One(t1), One(i1) ++ One(m2)}
  BY TwoIs DEF Prompts, UserContents, One
<1> HIDE DEF t1, m1, m2, t2, i1
<1>4. SystemContent(One(t1))
  BY <1>2, InOne DEF SystemContent
<1>5. SystemContent(One(m1) ++ One(t2))
  <2>1. PICK c : c = One(m1) ++ One(t2)
    OBVIOUS
  <2>2. In(c, Texts)
    BY <1>2, <2>1, InOne, InConcat
  <2>3. IsSeq(One(m1)) /\ IsSeq(One(t2)) /\ Size(One(m1)) = 1 /\ Size(One(t2)) = 1
          /\ At(One(m1), 1) = m1
    BY OneIs
  <2>4. Size(c) = 2 /\ At(c, 1) = m1
    BY <2>1, <2>3, ConcatAt
  <2>5. Marked(c)
    <3>1. 1 \in 1..Size(c)
      BY <2>4
    <3> QED BY <1>2, <2>2, <2>4, <3>1, MarkedIs DEF In
  <2> QED BY <2>1, <2>2, <2>5 DEF SystemContent
<1>6. In(One(t1), Parts) /\ In(One(i1) ++ One(m2), Parts) /\ In(Nil, Parts)
  BY <1>2, InOne, InConcat, InNone
<1>7. <<>> = Nil /\ <<t1>> = One(t1)
  BY DEF Nil, One
<1> QED BY <1>3, <1>4, <1>5, <1>6, <1>7 DEF t1

\* What an openai client says is part of the prompt or of a turn.
LEMMA OpenAiMessagesFit ==
  ASSUME said \in Nat, NEW m \in OpenAiMessages
  PROVE  Prompting(m) \/ Speaking(m)
<1>1. CASE m \in {Message("system", p) : p \in Prompts}
  <2>1. PICK p \in Prompts : m = Message("system", p)
    BY <1>1
  <2> QED BY <2>1, OpenAiContents, PromptMessage
<1>2. CASE m \in {Message("user", p) : p \in UserContents \cup {<<>>}}
  <2>1. PICK p \in UserContents \cup {<<>>} : m = Message("user", p)
    BY <1>2
  <2>2. In(p, Parts)
    BY OpenAiContents
  <2> QED BY <2>1, <2>2, UserMessage
<1>3. CASE m \in {OpenAiAnswer(p, cs, t) :
                    p \in {<<>>, <<Text(Fresh(1))>>}, cs \in CallSeqs, t \in OpenAiThoughts}
  <2>1. PICK p \in {<<>>, <<Text(Fresh(1))>>}, cs \in CallSeqs, t \in OpenAiThoughts :
          m = OpenAiAnswer(p, cs, t)
    BY <1>3
  <2>2. /\ m.role = "assistant" /\ m.content = p
        /\ m.calls = [k \in DOMAIN cs |-> [id |-> cs[k], args |-> Fresh(2 + k)]]
    BY <2>1 DEF Message, OpenAiAnswer
  <2>3. IsSeq(m.calls)
    <3>1. m.calls = [k \in DOMAIN cs |-> m.calls[k]]
      BY <2>2
    <3> QED BY <3>1, CallSeqsAre, TableOver
  <2>4. In(p, Parts)
    BY OpenAiContents
  <2> QED BY <2>2, <2>3, <2>4, AssistantSpeaks
<1>4. CASE m \in {OpenAiResult(c) : c \in Open}
  <2>1. PICK c \in Open : m = OpenAiResult(c)
    BY <1>4
  <2>2. m.role = "tool"
    BY <2>1 DEF Message, OpenAiResult
  <2> QED BY <2>2, ToolSpeaks
<1> QED BY <1>1, <1>2, <1>3, <1>4 DEF OpenAiMessages

-----------------------------------------------------------------------------
(***************************************************************************)
(* Responses -> OpenAI, and on to Anthropic.                               *)
(***************************************************************************)
GoodSys(sys) == sys = Nil \/ SystemContent(sys)

\* A system prompt becomes a message that is read like it.
LEMMA SystemMessageIs ==
  ASSUME NEW sys, GoodSys(sys)
  PROVE  /\ SystemMessage(sys) = (IF sys = Nil THEN Nil ELSE One(Message("system", sys)))
         /\ Faithful(SystemMessage(sys)) /\ IsSeq(sys)
         /\ Fits("read", "openai", SystemMessage(sys))
         /\ Flat("read", "openai", SystemMessage(sys)) = Each("says", "system", sys)
<1>1. CASE sys = Nil
  <2>1. SystemMessage(sys) = Nil
    BY <1>1, ContentTextNone DEF SystemMessage, Nil
  <2>2. Each("says", "system", sys) = Nil
    BY <1>1, EachNone
  <2> QED BY <1>1, <2>1, <2>2, FaithfulStart, FlatNone, NoneIsSeq
<1>2. CASE sys # Nil
  <2>1. SystemContent(sys) /\ IsSeq(sys) /\ In(sys, Parts)
    BY <1>2, TextAll DEF GoodSys, SystemContent, In
  <2>2. (IF Marked(sys) THEN Content(sys) ELSE OneText(ContentText(sys))) = sys
    <3>1. CASE Marked(sys)
      BY <2>1, <3>1, ContentAll
    <3>2. CASE ~Marked(sys)
      <4>1. PICK t \in Plains : sys = One(t)
        BY <2>1, <3>2 DEF SystemContent
      <4>2. ContentText(sys) = t.text /\ t.text \in Frags
        <5>1. t \in Texts
          BY DEF Plains, Texts
        <5> QED BY <4>1, <5>1, ContentTextOne
      <4>3. OneText(t.text) = One(Text(t.text)) /\ t = Text(t.text)
        BY <4>2, OneTextIs, PlainIs
      <4> QED BY <3>2, <4>1, <4>2, <4>3
    <3> QED BY <3>1, <3>2
  <2>3. SystemMessage(sys) = One(Message("system", sys))
    BY <1>2, <2>2 DEF SystemMessage, Nil, One
  <2> DEFINE m == Message("system", sys)
  <2>4. Prompting(m) /\ m.content = sys
    BY <2>1, PromptMessage DEF Message
  <2> HIDE DEF m
  <2>5. Make("read", "openai", m) = Each("says", "system", sys)
    BY <2>4 DEF Make, ReadOne, Prompting
  <2>6. IsSeq(Each("says", "system", sys))
    BY <2>1, EachIs
  <2>7. Faithful(One(m))
    BY <2>4, FaithfulStart, PromptingStep, OneIs
  <2>8. Flat("read", "openai", One(m)) = Each("says", "system", sys)
          /\ Fits("read", "openai", One(m))
    BY <2>5, <2>6, FlatOne
  <2> QED BY <1>2, <2>1, <2>3, <2>7, <2>8 DEF m
<1> QED BY <1>1, <1>2

\* The items a responses client sends.
GoodItem(it) ==
  \/ it.role \in {"user", "assistant"} /\ In(it.content, Parts)
  \/ it.role = "system" /\ GoodSys(it.content)
  \/ it.role \in {"function_call", "function_call_output"}
       /\ \E t \in Texts : it.content = One(t)
  \/ it.role = "reasoning"

\* An item becomes no message, or one that is read like it.
ItemKept(it) ==
  /\ ItemMessages(it) = Nil \/ \E m : ItemMessages(it) = One(m) /\ (Prompting(m) \/ Speaking(m))
  /\ Fits("read", "openai", ItemMessages(it)) /\ IsSeq(ItemMessages(it))
  /\ Flat("read", "openai", ItemMessages(it)) = ReadItem(it) /\ IsSeq(ReadItem(it))

LEMMA NoMessageKept ==
  ASSUME NEW it, ItemMessages(it) = Nil, ReadItem(it) = Nil
  PROVE  ItemKept(it)
  BY FlatNone, NoneIsSeq DEF ItemKept

LEMMA OneMessageKept ==
  ASSUME NEW it, NEW m, ItemMessages(it) = One(m), Prompting(m) \/ Speaking(m),
           ReadMessage(m) = ReadItem(it),
         IsSeq(ReadItem(it))
  PROVE  ItemKept(it)
<1>1. Make("read", "openai", m) = ReadItem(it)
  BY DEF Make, ReadOne
<1> QED BY <1>1, FlatOne, OneIs DEF ItemKept

LEMMA PlainAnswer ==
  ASSUME NEW c, In(c, Parts)
  PROVE  Speaking(Message("assistant", c))
           /\ ReadMessage(Message("assistant", c)) = Each("says", "assistant", c)
<1> DEFINE m == Message("assistant", c)
<1>1. m.role = "assistant" /\ m.content = c /\ m.think = <<>> /\ m.calls = Nil
  BY DEF Message, Nil
<1> HIDE DEF m
<1>2. ThinkBlocks(m) = Nil /\ Each("use", 0, m.calls) = Nil
  BY <1>1, EachNone DEF ThinkBlocks
<1>3. AssistantBlocks(m) = (Nil ++ c) ++ Nil /\ IsSeq(c)
  BY <1>1, <1>2, AssistantBlocksIs, ContentAll DEF In
<1>4. AssistantBlocks(m) = c
  BY <1>3, EmptyConcat
<1>5. ReadMessage(m) = Each("says", "assistant", c)
  BY <1>1, <1>4, SaysBlocksIs DEF ReadMessage
<1>6. IsSeq(m.calls)
  BY <1>1, NoneIsSeq
<1> QED BY <1>1, <1>5, <1>6, AssistantSpeaks DEF m

LEMMA ItemIsKept ==
  ASSUME NEW it, GoodItem(it)
  PROVE  ItemKept(it)
<1> DEFINE c == it.content
<1>1. CASE it.role \in {"user", "assistant"} /\ In(c, Parts)
  <2>1. ReadItem(it) = Each("says", it.role, c) /\ IsSeq(c) /\ Content(c) = c
    BY <1>1, SaysBlocksIs, ContentAll DEF ReadItem, In
  <2>2. CASE c = Nil
    <3>1. ItemMessages(it) = Nil
      BY <1>1, <2>1, <2>2 DEF ItemMessages, Nil
    <3> QED BY <2>1, <2>2, <3>1, EachNone, NoMessageKept
  <2>3. CASE c # Nil
    <3>1. ItemMessages(it) = One(Message(it.role, c))
      BY <1>1, <2>1, <2>3 DEF ItemMessages, Nil, One
    <3>2. IsSeq(ReadItem(it))
      BY <2>1, EachIs
    <3>3. Speaking(Message(it.role, c)) /\ ReadMessage(Message(it.role, c)) = ReadItem(it)
      <4>1. CASE it.role = "assistant"
        BY <1>1, <2>1, <4>1, PlainAnswer
      <4>2. CASE it.role = "user"
        <5>1. Message("user", c).role = "user" /\ Message("user", c).content = c
          BY DEF Message
        <5>2. ReadMessage(Message("user", c)) = SaysBlocks("user", c)
          BY <5>1 DEF ReadMessage
        <5> QED BY <1>1, <2>1, <4>2, <5>2, UserMessage, SaysBlocksIs
      <4> QED BY <1>1, <4>1, <4>2
    <3> QED BY <3>1, <3>2, <3>3, OneMessageKept
  <2> QED BY <2>2, <2>3
<1>2. CASE it.role = "system" /\ GoodSys(c)
  <2>1. ReadItem(it) = Each("says", "system", c)
    BY <1>2, SaysBlocksIs DEF ReadItem
  <2>2. CASE c = Nil
    <3>1. ItemMessages(it) = Nil
      BY <1>2, <2>2, ContentTextNone DEF ItemMessages, Nil
    <3> QED BY <2>1, <2>2, <3>1, EachNone, NoMessageKept
  <2>3. CASE c # Nil
    <3>0. SystemContent(c) /\ In(c, Parts) /\ IsSeq(c)
      BY <1>2, <2>3, TextAll DEF GoodSys, SystemContent, In
    <3>1. ItemMessages(it) = One(Message("system", c))
      BY <1>2, <2>3, <3>0, ContentAll DEF ItemMessages, Nil, One
    <3>2. IsSeq(ReadItem(it))
      BY <2>1, <3>0, EachIs
    <3>3. Prompting(Message("system", c)) /\ Message("system", c).content = c
      BY <3>0, PromptMessage DEF Message
    <3> QED BY <2>1, <3>1, <3>2, <3>3, OneMessageKept DEF Prompting
  <2> QED BY <2>2, <2>3
<1>3. CASE it.role = "function_call" /\ \E t \in Texts : c = One(t)
  <2> DEFINE call == [id |-> it.id, args |-> ContentText(c)]
             m == [Message("assistant", <<>>) EXCEPT !.calls = <<call>>]
             s == Says("assistant", "calls", <<<<it.id, ContentText(c)>>>>)
  <2>1. ItemMessages(it) = One(m) /\ ReadItem(it) = One(s)
    BY <1>3 DEF ItemMessages, ReadItem, One
  <2>2. m.role = "assistant" /\ m.content = Nil /\ m.think = <<>> /\ m.calls = One(call)
    BY DEF Message, Nil, One
  <2>3. Make("says", "assistant", Make("use", 0, call)) = s
    <3>1. ToolUse(call).type = "tool_use" /\ ToolUse(call).id = it.id
            /\ ToolUse(call).text = ContentText(c)
      BY DEF ToolUse, Block
    <3>2. SaysBlock("assistant", ToolUse(call)) = s
      BY <3>1 DEF SaysBlock
    <3> QED BY <3>2 DEF Make
  <2> HIDE DEF m, s, call
  <2>4. ThinkBlocks(m) = Nil /\ Content(m.content) = Nil
    BY <2>2, ContentTextNone DEF ThinkBlocks
  <2>5. Each("use", 0, m.calls) = One(Make("use", 0, call))
    BY <2>2, EachOne
  <2>6. AssistantBlocks(m) = One(Make("use", 0, call))
    BY <2>4, <2>5, AssistantBlocksIs, EmptyConcat, NoneIsSeq, OneIs
  <2>7. ReadMessage(m) = One(s)
    <3>1. ReadMessage(m) = Each("says", "assistant", One(Make("use", 0, call)))
      BY <2>2, <2>6, SaysBlocksIs DEF ReadMessage
    <3> QED BY <2>3, <3>1, EachOne
  <2>8. Speaking(m)
    BY <2>2, InNone, OneIs, AssistantSpeaks
  <2> QED BY <2>1, <2>7, <2>8, OneIs, OneMessageKept
<1>4. CASE it.role = "function_call_output" /\ \E t \in Texts : c = One(t)
  <2>1. PICK t \in Texts : c = One(t)
    BY <1>4
  <2>2. ContentText(c) = t.text /\ t.text \in Frags
    BY <2>1, ContentTextOne
  <2>3. OneText(t.text) = One(Text(t.text)) /\ ContentText(One(Text(t.text))) = t.text
    <3>1. Text(t.text) \in Texts /\ Text(t.text).text = t.text
      BY <2>2, TextIs DEF Text, Block
    <3> QED BY <2>2, <3>1, OneTextIs, ContentTextOne
  <2> DEFINE m == [Message("tool", OneText(ContentText(c))) EXCEPT !.id = it.id]
  <2>4. ItemMessages(it) = One(m)
    BY <1>4 DEF ItemMessages, One
  <2>5. m.role = "tool" /\ m.id = it.id /\ m.content = One(Text(t.text))
    BY <2>2, <2>3 DEF Message
  <2>6. ReadItem(it) = One(Says("user", "results", <<<<it.id, t.text>>>>))
    BY <1>4, <2>2 DEF ReadItem, One
  <2> HIDE DEF m
  <2>7. Speaking(m) /\ ReadMessage(m) = One(Says("user", "results", <<<<it.id, t.text>>>>))
    BY <2>3, <2>5, ToolSpeaks
  <2> QED BY <2>4, <2>6, <2>7, OneIs, OneMessageKept
<1>5. CASE it.role = "reasoning"
  <2>1. ItemMessages(it) = Nil /\ ReadItem(it) = Nil
    BY <1>5 DEF ItemMessages, ReadItem, Nil
  <2> QED BY <2>1, NoMessageKept
<1> QED BY <1>1, <1>2, <1>3, <1>4, <1>5 DEF GoodItem

\* The messages a responses conversation is turned into, and what is read of it.
Mid(sys, items) == SystemMessage(sys) ++ Flat("item", 0, items)
Given(protocol, sys, items) == Each("says", "system", sys) ++ Flat("read", protocol, items)
\* The messages made of a Responses body are read as its items, and are
\* faithful to what an anthropic provider gets of them.
Carried(sys, items) ==
  /\ GoodSys(sys) /\ Fits("item", 0, items) /\ Fits("read", "responses", items)
  /\ Faithful(Mid(sys, items)) /\ Asked(Mid(sys, items)) = Given("responses", sys, items)

LEMMA CarriedStart ==
  ASSUME NEW sys, GoodSys(sys)
  PROVE  Carried(sys, Nil)
<1>1. Mid(sys, Nil) = SystemMessage(sys)
  <2>1. IsSeq(SystemMessage(sys))
    BY SystemMessageIs DEF Fits
  <2> QED BY <2>1, FlatNone, EmptyConcat DEF Mid
<1>2. Given("responses", sys, Nil) = Each("says", "system", sys)
  <2>1. IsSeq(Each("says", "system", sys))
    BY SystemMessageIs, EachIs
  <2> QED BY <2>1, FlatNone, EmptyConcat DEF Given
<1> QED BY <1>1, <1>2, SystemMessageIs, FlatNone DEF Carried, Asked

LEMMA CarriedStep ==
  ASSUME NEW sys, NEW items, Carried(sys, items), NEW it, GoodItem(it)
  PROVE  Carried(sys, App(items, it))
<1> DEFINE mid == Mid(sys, items)
           ms == ItemMessages(it)
<1>1. ItemKept(it) /\ IsSeq(ms) /\ IsSeq(ReadItem(it)) /\ Faithful(mid) /\ IsSeq(mid)
        /\ IsSeq(SystemMessage(sys))
      /\ Fits("read", "openai", ms) /\ Fits("read", "openai", mid)
  BY ItemIsKept, SystemMessageIs DEF ItemKept, Carried, Faithful, Fitting, Fits
<1>2. Make("item", 0, it) = ms /\ Make("read", "responses", it) = ReadItem(it)
  BY DEF Make, ReadOne
<1> HIDE DEF ms, mid
<1>3. /\ Flat("item", 0, App(items, it)) = Flat("item", 0, items) ++ ms
           /\ IsSeq(Flat("item", 0, items))
      /\ Fits("item", 0, App(items, it))
  BY <1>1, <1>2, FlatAppend DEF Carried
<1>4. /\ Flat("read", "responses", App(items, it)) = Flat("read", "responses", items) ++ ReadItem(it)
      /\ IsSeq(Flat("read", "responses", items)) /\ Fits("read", "responses", App(items, it))
  BY <1>1, <1>2, FlatAppend DEF Carried
<1>5. Mid(sys, App(items, it)) = mid ++ ms
  BY <1>1, <1>3, ConcatAssoc DEF Mid, mid
<1>6. Given("responses", sys, App(items, it)) = Given("responses", sys, items) ++ ReadItem(it)
  <2>1. IsSeq(Each("says", "system", sys))
    BY SystemMessageIs, EachIs DEF Carried
  <2> QED BY <1>1, <1>4, <2>1, ConcatAssoc DEF Given
<1>7. Asked(mid ++ ms) = Asked(mid) ++ ReadItem(it)
  <2>1. Flat("read", "openai", ms) = ReadItem(it)
    BY <1>1 DEF ItemKept, ms
  <2> QED BY <1>1, <2>1, FlatConcat DEF Asked
<1>8. Faithful(mid ++ ms)
  <2>1. CASE ms = Nil
    BY <1>1, <2>1, EmptyConcat
  <2>2. ASSUME NEW m, ms = One(m), Prompting(m) \/ Speaking(m) PROVE Faithful(mid ++ ms)
    <3>1. mid ++ ms = App(mid, m)
      BY <1>1, <2>2, AppIsCat
    <3> QED BY <1>1, <2>2, <3>1, PromptingStep, SpeakingStep
  <2> QED BY <1>1, <2>1, <2>2 DEF ItemKept, ms
<1> QED BY <1>3, <1>4, <1>5, <1>6, <1>7, <1>8 DEF Carried, mid

LEMMA CarriedBody ==
  ASSUME NEW b, Carried(b.sys, b.msgs)
  PROVE  /\ ReadBody("openai", ResponsesToOpenAi(b)) = ReadBody("responses", b)
         /\ SystemPrompt(ReadBody("anthropic", OpenAiToAnthropic(ResponsesToOpenAi(b))))
              = SystemPrompt(ReadBody("responses", b))
         /\ Turns(ReadBody("anthropic", OpenAiToAnthropic(ResponsesToOpenAi(b))))
              = Turns(ReadBody("responses", b))
<1>1. PICK q : q = ResponsesToOpenAi(b)
  OBVIOUS
<1>2. q.msgs = Mid(b.sys, b.msgs) /\ q.sys = Nil
  BY <1>1, ToOpenAiIs DEF Mid
<1>3. ReadBody("responses", b) = Given("responses", b.sys, b.msgs)
  BY ReadBodyIs DEF Given
<1>4. /\ SystemPrompt(ReadBody("anthropic", OpenAiToAnthropic(q))) = SystemPrompt(ReadBody("openai", q))
      /\ Turns(ReadBody("anthropic", OpenAiToAnthropic(q))) = Turns(ReadBody("openai", q))
      /\ ReadBody("openai", q) = Asked(q.msgs)
  BY <1>2, FaithfulBody DEF Carried
<1>5. ReadBody("openai", q) = ReadBody("responses", b)
  BY <1>2, <1>3, <1>4 DEF Carried
<1> QED BY <1>1, <1>4, <1>5

LEMMA SimpleContents ==
  ASSUME said \in Nat
  PROVE  /\ In(<<Text(Fresh(1))>>, Parts) /\ In(<<Image(1), Text(Fresh(2))>>, Parts)
         /\ GoodSys(<<Text(Fresh(1))>>) /\ GoodSys(<<>>) /\ In(<<>>, Parts)
         /\ \E t \in Texts : <<Text(Fresh(1))>> = One(t)
<1> DEFINE t1 == Text(Fresh(1))
           t2 == Text(Fresh(2))
           i1 == Image(1)
<1>1. t1 \in Plains /\ t1 \in Parts /\ t1 \in Texts /\ t2 \in Parts /\ i1 \in Parts
  BY FreshIs, TextIs DEF Image
<1>2. <<t1>> = One(t1) /\ <<i1, t2>> = One(i1) ++ One(t2) /\ <<>> = Nil
  BY TwoIs DEF One, Nil
<1> HIDE DEF t1, t2, i1
<1>3. In(One(t1), Parts) /\ In(One(i1) ++ One(t2), Parts) /\ In(One(t1), Texts)
        /\ In(Nil, Parts)
  BY <1>1, InOne, InConcat, InNone
<1>4. GoodSys(One(t1)) /\ GoodSys(Nil)
  BY <1>1, <1>3 DEF GoodSys, SystemContent
<1> QED BY <1>1, <1>2, <1>3, <1>4 DEF t1, t2, i1

LEMMA ResponsesItemsFit ==
  ASSUME said \in Nat, NEW it \in ResponsesItems
  PROVE  GoodItem(it)
<1>1. CASE it \in {Item(r, NoCall, p) : r \in {"system", "user", "assistant"}, p \in {<<>>, <<Text(Fresh(1))>>}}
  <2>1. PICK r \in {"system", "user", "assistant"},
               p \in {<<>>, <<Text(Fresh(1))>>} : it = Item(r, NoCall, p)
    BY <1>1
  <2>2. it.role = r /\ it.content = p
    BY <2>1 DEF Item
  <2> QED BY <2>2, SimpleContents DEF GoodItem
<1>2. CASE it = Item("user", NoCall, <<Image(1), Text(Fresh(2))>>)
  <2>1. it.role = "user" /\ it.content = <<Image(1), Text(Fresh(2))>>
    BY <1>2 DEF Item
  <2> QED BY <2>1, SimpleContents DEF GoodItem
<1>3. CASE it = Item("reasoning", NoCall, <<>>)
  <2>1. it.role = "reasoning"
    BY <1>3 DEF Item
  <2> QED BY <2>1 DEF GoodItem
<1>4. CASE it \in {Item("function_call", c, <<Text(Fresh(1))>>) : c \in FreshCalls}
  <2>1. PICK c \in FreshCalls : it = Item("function_call", c, <<Text(Fresh(1))>>)
    BY <1>4
  <2>2. it.role = "function_call" /\ it.content = <<Text(Fresh(1))>>
    BY <2>1 DEF Item
  <2> QED BY <2>2, SimpleContents DEF GoodItem
<1>5. CASE it \in {Item("function_call_output", c, <<Text(Fresh(1))>>) : c \in Open}
  <2>1. PICK c \in Open : it = Item("function_call_output", c, <<Text(Fresh(1))>>)
    BY <1>5
  <2>2. it.role = "function_call_output" /\ it.content = <<Text(Fresh(1))>>
    BY <2>1 DEF Item
  <2> QED BY <2>2, SimpleContents DEF GoodItem
<1> QED BY <1>1, <1>2, <1>3, <1>4, <1>5 DEF ResponsesItems

-----------------------------------------------------------------------------
(***************************************************************************)
(* Turns: what a speaker says is added to what it has told in this turn.    *)
(***************************************************************************)
Kinds == {"content", "think", "calls", "results"}
Voice(w, t) == [who |-> w, told |-> t]
\* What was told in a turn, and that of one more piece.
Toldy(t) == t = [k \in Kinds |-> t[k]] /\ \A k \in Kinds : IsSeq(t[k])
More(t, k, x) == [j \in Kinds |-> IF j = k THEN t[j] ++ x ELSE t[j]]
Turnwise(T) == T = Nil \/ \E f, w, t : IsSeq(f) /\ Toldy(t) /\ T = App(f, Voice(w, t))

LEMMA VoiceIs ==
  ASSUME NEW w, NEW t
  PROVE  Voice(w, t).who = w /\ Voice(w, t).told = t
  BY DEF Voice

LEMMA MoreIs ==
  ASSUME NEW t, Toldy(t), NEW k \in Kinds, NEW x, IsSeq(x)
  PROVE  /\ Toldy(More(t, k, x)) /\ More(t, k, Nil) = t
         /\ \A y : IsSeq(y) => More(More(t, k, x), k, y) = More(t, k, x ++ y)
         /\ \A j \in Kinds : \A y : j # k /\ IsSeq(y)
              => More(More(t, k, x), j, y) = More(More(t, j, y), k, x)
<1>1. \A y : IsSeq(y) => IsSeq(t[k] ++ y)
  BY ConcatAt DEF Toldy
<1>2. Toldy(More(t, k, x))
  BY <1>1 DEF Toldy, More
<1>3. More(t, k, Nil) = t
  <2>1. t[k] ++ Nil = t[k]
    BY EmptyConcat DEF Toldy
  <2>2. More(t, k, Nil) = [j \in Kinds |-> t[j]]
    BY <2>1 DEF More
  <2> QED BY <2>2 DEF Toldy
<1>4. ASSUME NEW y, IsSeq(y) PROVE More(More(t, k, x), k, y) = More(t, k, x ++ y)
  <2>1. (t[k] ++ x) ++ y = t[k] ++ (x ++ y)
    BY <1>4, ConcatAssoc DEF Toldy
  <2> QED BY <2>1 DEF More
<1>5. ASSUME NEW j \in Kinds, NEW y, j # k PROVE More(More(t, k, x), j, y) = More(More(t, j, y), k, x)
  BY <1>5 DEF More
<1> QED BY <1>2, <1>3, <1>4, <1>5

LEMMA SilentIs ==
  ASSUME NEW w
  PROVE  \E t : Toldy(t) /\ Silent(w) = Voice(w, t)
<1> DEFINE t == [k \in Kinds |-> Nil]
<1>1. Toldy(t)
  BY NoneIsSeq DEF Toldy
<1>2. Silent(w) = Voice(w, t)
  BY DEF Silent, Voice, Nil, Kinds
<1> QED BY <1>1, <1>2

Heard(P, k, x) == [P EXCEPT ![Len(P)].told[k] = @ \o x]

LEMMA HeardIs ==
  ASSUME NEW f, IsSeq(f), NEW w, NEW t, Toldy(t), NEW k \in Kinds, NEW x, NEW P,
           P = App(f, Voice(w, t))
  PROVE  Heard(P, k, x) = App(f, Voice(w, More(t, k, x)))
<1>0. PICK a, b, v : v = Voice(w, More(t, k, x)) /\ b = App(f, v) /\ a = Heard(P, k, x)
  OBVIOUS
<1>1. PICK n \in Nat, l \in Nat :
         /\ n = Size(f) /\ l = n + 1
         /\ b = App(f, v) /\ a = Heard(P, k, x)
  BY <1>0, SizeIs
<1>2. /\ IsSeq(P) /\ Size(P) = n + 1 /\ At(P, n + 1) = Voice(w, t)
      /\ \A i \in 1..n : At(P, i) = At(f, i)
  BY <1>1, AppendAt
<1>3. /\ IsSeq(b) /\ Size(b) = n + 1 /\ At(b, n + 1) = v
      /\ \A i \in 1..n : At(b, i) = At(f, i)
  BY <1>1, AppendAt
<1>4. DOMAIN P = 1..l /\ Len(P) = l /\ l \in Nat
  <2>1. Size(P) = l
    BY <1>1, <1>2
  <2>2. DOMAIN P = 1..l
    BY <1>2, <2>1, SizeDomain
  <2> QED BY <1>1, <2>1, <2>2 DEF Size
<1>5. a = [i \in 1..l |-> IF i = l THEN [P[i] EXCEPT !.told[k] = @ \o x] ELSE P[i]]
  BY <1>1, <1>4 DEF Heard
<1>6. IsSeq(a) /\ Size(a) = l
  <2>1. a = [i \in 1..l |-> a[i]]
    BY <1>5
  <2> QED BY <1>4, <2>1, TableIs
<1>7. \A i \in 1..n : At(a, i) = At(P, i)
  BY <1>1, <1>5 DEF At
<1>8. At(a, l) = v
  <2>1. P[l] = Voice(w, t)
    BY <1>1, <1>2 DEF At
  <2>2. a[l] = [P[l] EXCEPT !.told[k] = @ \o x]
    <3>1. l \in 1..l
      BY <1>1
    <3> QED BY <1>5, <3>1
  <2>3. [Voice(w, t) EXCEPT !.told[k] = @ \o x] = v
    <3>1. PICK d : d = t[k] \o x
      OBVIOUS
    <3>2. PICK u : u = [t EXCEPT ![k] = d]
      OBVIOUS
    <3>3. u = More(t, k, x)
      BY <3>1, <3>2 DEF More, Toldy, ++
    <3>4. [[who |-> w, told |-> t] EXCEPT !.told = u] = [who |-> w, told |-> u]
      OBVIOUS
    <3>5. [who |-> w, told |-> t].told = t
      OBVIOUS
    <3>6. [Voice(w, t) EXCEPT !.told[k] = @ \o x] = [Voice(w, t) EXCEPT !.told = u]
      BY <3>1, <3>2, <3>5 DEF Voice
    <3> QED BY <1>0, <3>3, <3>4, <3>6 DEF Voice
  <2> QED BY <2>1, <2>2, <2>3 DEF At
<1>9. ASSUME NEW i \in 1..(n + 1) PROVE At(a, i) = At(b, i)
  <2>1. CASE i = n + 1
    BY <1>1, <1>3, <1>8, <2>1
  <2>2. CASE i # n + 1
    <3>1. i \in 1..n
      BY <2>2
    <3> QED BY <1>2, <1>3, <1>7, <3>1
  <2> QED BY <2>1, <2>2
<1>10. Size(a) = n + 1
  BY <1>1, <1>6
<1>11. a = b
  BY <1>3, <1>6, <1>9, <1>10, SeqEq
<1> QED BY <1>0, <1>1, <1>11

Sayable(w, s) == s.who = w /\ w # "system" /\ s.kind \in Kinds /\ IsSeq(s.what)

\* The turn a speaker goes on with, or begins.
LEMMA TellsOn ==
  ASSUME NEW f, IsSeq(f), NEW w, NEW t, Toldy(t), NEW s, Sayable(w, s)
  PROVE  Tell(App(f, Voice(w, t)), s) = App(f, Voice(w, More(t, s.kind, s.what)))
<1>1. PICK P : P = App(f, Voice(w, t))
  OBVIOUS
<1>2. Last(P) = Voice(w, t) /\ P # Nil
  BY <1>1, LastOfAppend
<1>3. CASE s.what = Nil
  <2>1. Tell(P, s) = P
    BY <1>3 DEF Tell, Nil
  <2>2. More(t, s.kind, s.what) = t
    BY <1>3, MoreIs, NoneIsSeq DEF Sayable
  <2> QED BY <1>1, <2>1, <2>2
<1>4. CASE s.what # Nil
  <2>1. Last(P).who = s.who
    BY <1>2, VoiceIs DEF Sayable
  <2>2. Tell(P, s) = Heard(P, s.kind, s.what)
    BY <1>2, <1>4, <2>1 DEF Tell, Heard, Nil, Sayable
  <2> QED BY <1>1, <2>2, HeardIs DEF Sayable
<1> QED BY <1>3, <1>4

LEMMA TellsFirst ==
  ASSUME NEW T, Turnwise(T), NEW w
  PROVE  \E f, t : /\ IsSeq(f) /\ Toldy(t)
                   /\ \A s : Sayable(w, s) /\ s.what # Nil
                               => Tell(T, s) = App(f, Voice(w, More(t, s.kind, s.what)))
<1>1. CASE T # Nil /\ Last(T).who = w
  <2>1. PICK f, v, t : IsSeq(f) /\ Toldy(t) /\ T = App(f, Voice(v, t))
    BY <1>1 DEF Turnwise
  <2>2. v = w
    BY <1>1, <2>1, LastOfAppend, VoiceIs
  <2> QED BY <2>1, <2>2, TellsOn
<1>2. CASE ~(T # Nil /\ Last(T).who = w)
  <2>1. PICK t : Toldy(t) /\ Silent(w) = Voice(w, t)
    BY SilentIs
  <2>2. IsSeq(T)
    BY NoneIsSeq, AppendAt DEF Turnwise
  <2>3. ASSUME NEW s, Sayable(w, s), s.what # Nil
        PROVE  Tell(T, s) = App(T, Voice(w, More(t, s.kind, s.what)))
    <3>1. PICK P : P = App(T, Voice(w, t))
      OBVIOUS
    <3>2. Tell(T, s) = Heard(P, s.kind, s.what)
      BY <1>2, <2>1, <2>3, <3>1 DEF Tell, Heard, Nil, Sayable, App
    <3> QED BY <2>1, <2>2, <2>3, <3>1, <3>2, HeardIs DEF Sayable
  <2> QED BY <2>1, <2>2, <2>3
<1> QED BY <1>1, <1>2

LEMMA TellKeeps ==
  ASSUME NEW T, Turnwise(T), NEW w, NEW s, Sayable(w, s)
  PROVE  Turnwise(Tell(T, s))
<1>1. CASE s.what = Nil
  BY <1>1 DEF Tell, Nil
<1>2. CASE s.what # Nil
  <2>1. PICK f, t : IsSeq(f) /\ Toldy(t)
               /\ Tell(T, s) = App(f, Voice(w, More(t, s.kind, s.what)))
    BY <1>2, TellsFirst
  <2>2. Toldy(More(t, s.kind, s.what))
    BY <2>1, MoreIs DEF Sayable
  <2> QED BY <2>1, <2>2 DEF Turnwise
<1> QED BY <1>1, <1>2

\* What is said in two pieces of a kind is told like the whole.
LEMMA TellTwice ==
  ASSUME NEW T, Turnwise(T), NEW w, w # "system", NEW k \in Kinds, NEW x, IsSeq(x), x # Nil,
         NEW y, IsSeq(y), y # Nil, x ++ y # Nil
  PROVE  Tell(Tell(T, Says(w, k, x)), Says(w, k, y)) = Tell(T, Says(w, k, x ++ y))
<1>1. PICK a, b, c : a = Says(w, k, x) /\ b = Says(w, k, y) /\ c = Says(w, k, x ++ y)
  OBVIOUS
<1>2. IsSeq(x ++ y)
  BY ConcatAt
<1>3. /\ Sayable(w, a) /\ a.what = x /\ a.kind = k /\ Sayable(w, b) /\ b.what = y /\ b.kind = k
      /\ Sayable(w, c) /\ c.what = x ++ y /\ c.kind = k
  BY <1>1, <1>2 DEF Sayable, Says
<1>4. PICK f, t : IsSeq(f) /\ Toldy(t) /\ Tell(T, a) = App(f, Voice(w, More(t, k, x)))
                  /\ Tell(T, c) = App(f, Voice(w, More(t, k, x ++ y)))
  <2>1. PICK f, t : /\ IsSeq(f) /\ Toldy(t)
                    /\ \A s : Sayable(w, s) /\ s.what # Nil
                               => Tell(T, s) = App(f, Voice(w, More(t, s.kind, s.what)))
    BY TellsFirst
  <2> QED BY <1>3, <2>1
<1>5. Toldy(More(t, k, x)) /\ More(More(t, k, x), k, y) = More(t, k, x ++ y)
  BY <1>4, MoreIs
<1>6. Tell(Tell(T, a), b) = App(f, Voice(w, More(More(t, k, x), k, y)))
  BY <1>3, <1>4, <1>5, TellsOn
<1> QED BY <1>1, <1>4, <1>5, <1>6

\* What is said of two kinds may be said in either order.
LEMMA TellSwap ==
  ASSUME NEW T, Turnwise(T), NEW w, NEW a, Sayable(w, a), a.what # Nil,
         NEW b, Sayable(w, b), b.what # Nil, a.kind # b.kind
  PROVE  Tell(Tell(T, a), b) = Tell(Tell(T, b), a)
<1>1. PICK f, t : IsSeq(f) /\ Toldy(t) /\ Tell(T, a) = App(f, Voice(w, More(t, a.kind, a.what)))
                  /\ Tell(T, b) = App(f, Voice(w, More(t, b.kind, b.what)))
  <2>1. PICK f, t : /\ IsSeq(f) /\ Toldy(t)
                    /\ \A s : Sayable(w, s) /\ s.what # Nil
                               => Tell(T, s) = App(f, Voice(w, More(t, s.kind, s.what)))
    BY TellsFirst
  <2> QED BY <2>1
<1>2. /\ Toldy(More(t, a.kind, a.what)) /\ Toldy(More(t, b.kind, b.what))
      /\ More(More(t, a.kind, a.what), b.kind, b.what) = More(More(t, b.kind, b.what), a.kind, a.what)
  BY <1>1, MoreIs DEF Sayable
<1>3. Tell(Tell(T, a), b) = App(f, Voice(w, More(More(t, a.kind, a.what), b.kind, b.what)))
  BY <1>1, <1>2, TellsOn
<1>4. Tell(Tell(T, b), a) = App(f, Voice(w, More(More(t, b.kind, b.what), a.kind, a.what)))
  BY <1>1, <1>2, TellsOn
<1> QED BY <1>2, <1>3, <1>4

-----------------------------------------------------------------------------
(***************************************************************************)
(* Anthropic -> OpenAI.                                                    *)
(***************************************************************************)
LEMMA OfTypeConcat ==
  ASSUME NEW types, NEW s, IsSeq(s), NEW q, IsSeq(q)
  PROVE  OfType(types, s ++ q) = OfType(types, s) ++ OfType(types, q)
<1>1. ASSUME NEW r, IsSeq(r) PROVE Fits("of", types, r)
  <2>1. \A x : Make("of", types, x) = One(x) \/ Make("of", types, x) = Nil
    BY DEF Make, One, Nil
  <2> QED BY <1>1, <2>1, OneIs, NoneIsSeq DEF Fits
<1> QED BY <1>1, OfTypeIs, FlatConcat

LEMMA OfTypeAll ==
  ASSUME NEW types, NEW s, IsSeq(s), \A i \in 1..Size(s) : At(s, i).type \in types
  PROVE  OfType(types, s) = s
<1>1. \A x : x.type \in types => Make("of", types, x) = One(x)
  BY DEF Make, One
<1> QED BY <1>1, FlatAll, OfTypeIs

LEMMA OfTypeNone ==
  ASSUME NEW types, NEW s, IsSeq(s), \A i \in 1..Size(s) : At(s, i).type \notin types
  PROVE  OfType(types, s) = Nil
<1>1. \A x : x.type \notin types => Make("of", types, x) = Nil
  BY DEF Make, Nil
<1> QED BY <1>1, FlatNothing, OfTypeIs

\* The blocks an anthropic client sends.
Thinks   == [type : {"thinking"}, id : {NoCall}, text : Frags, sig : Frags \cup {Nil}, mark : {FALSE}]
Uses     == [type : {"tool_use"}, id : Calls, text : Frags, sig : {Nil}, mark : {FALSE}]
Outcomes == [type : {"tool_result"}, id : Calls, text : Frags, sig : {Nil}, mark : {FALSE}]

\* What is read of a sequence of blocks.
Voiced(s) == Blocky(s) /\ \A i \in 1..Size(s) : IsSeq(At(s, i).text)

LEMMA SaysSayable ==
  ASSUME NEW w, w # "system", NEW b, b.type \in BlockTypes, IsSeq(b.text)
  PROVE  Sayable(w, SaysBlock(w, b))
<1>1. IsSeq(Typed(b)) /\ IsSeq(<<<<b.id, b.text>>>>)
  BY TypedIsSeq, OneIs DEF One
<1>2. /\ b.type \in {"text", "image"} => SaysBlock(w, b) = Says(w, "content", Typed(b))
      /\ b.type = "thinking" => SaysBlock(w, b) = Says(w, "think", b.text)
      /\ b.type = "tool_use" => SaysBlock(w, b) = Says(w, "calls", <<<<b.id, b.text>>>>)
      /\ b.type = "tool_result" => SaysBlock(w, b) = Says(w, "results", <<<<b.id, b.text>>>>)
  BY DEF SaysBlock
<1>3. \A k, x : Says(w, k, x).who = w /\ Says(w, k, x).kind = k /\ Says(w, k, x).what = x
  BY DEF Says
<1> QED BY <1>1, <1>2, <1>3 DEF Sayable, Kinds, BlockTypes

LEMMA VoicedKeeps ==
  ASSUME NEW s, Voiced(s), NEW w, w # "system", NEW T, Turnwise(T)
  PROVE  Turnwise(Fold("tell", T, Each("says", w, s)))
<1> DEFINE Says_(q) == IsSeq(q) /\ \A i \in 1..Size(q) : Sayable(w, At(q, i))
           Good == {k \in Nat : \A q : Says_(q) /\ Size(q) = k => Turnwise(Fold("tell", T, q))}
<1>1. 0 \in Good
  BY FoldNil, EmptySize
<1>2. ASSUME NEW k \in Nat, k \in Good PROVE k + 1 \in Good
  <2> SUFFICES ASSUME NEW q, Says_(q), Size(q) = k + 1
               PROVE  Turnwise(Fold("tell", T, q))
    OBVIOUS
  <2>1. q # Nil
    BY NoneIsSeq
  <2>2. PICK f, l : IsSeq(f) /\ q = App(f, l) /\ Size(q) = Size(f) + 1
    BY <2>1, SplitLast
  <2>3. Size(f) = k
    BY <2>2, SizeIs
  <2>4. At(q, k + 1) = l /\ \A i \in 1..k : At(q, i) = At(f, i)
    BY <2>2, <2>3, AppendAt
  <2>5. Turnwise(Fold("tell", T, f))
    <3>1. \A i \in 1..k : Sayable(w, At(f, i))
      BY <2>4
    <3> QED BY <1>2, <2>2, <2>3, <3>1
  <2>6. Sayable(w, l)
    BY <2>4
  <2>7. Fold("tell", T, q) = Tell(Fold("tell", T, f), l)
    <3>1. Fold("tell", T, q) = Do("tell", Fold("tell", T, f), l)
      BY <2>2, FoldApp
    <3> QED BY <3>1 DEF Do
  <2> QED BY <2>5, <2>6, <2>7, TellKeeps
<1>3. Nat \subseteq Good
  <2> HIDE DEF Good
  <2> QED BY <1>1, <1>2, Inductive
<1>4. Says_(Each("says", w, s))
  <2>1. /\ IsSeq(Each("says", w, s)) /\ Size(Each("says", w, s)) = Size(s)
        /\ \A i \in 1..Size(s) : At(Each("says", w, s), i) = Make("says", w, At(s, i))
    BY EachIs DEF Voiced, Blocky
  <2>2. \A x : Make("says", w, x) = SaysBlock(w, x)
    BY DEF Make
  <2>3. \A i \in 1..Size(s) : Sayable(w, SaysBlock(w, At(s, i)))
    BY SaysSayable DEF Voiced, Blocky
  <2> QED BY <2>1, <2>2, <2>3
<1> QED BY <1>3, <1>4, SizeIs

LEMMA VoicedConcat ==
  ASSUME NEW s, Voiced(s), NEW q, Voiced(q)
  PROVE  Voiced(s ++ q)
<1>1. PICK r : r = s ++ q
  OBVIOUS
<1>2. PICK l \in Nat, m \in Nat : l = Size(s) /\ m = Size(q)
  BY SizeIs DEF Voiced, Blocky
<1>3. /\ Size(r) = l + m
      /\ \A i \in 1..l : At(r, i) = At(s, i)
      /\ \A i \in 1..m : At(r, l + i) = At(q, i)
  BY <1>1, <1>2, ConcatAt DEF Voiced, Blocky
<1>4. ASSUME NEW i \in 1..(l + m) PROVE IsSeq(At(r, i).text)
  <2>1. CASE i <= l
    BY <1>2, <1>3, <2>1 DEF Voiced
  <2>2. CASE i > l
    <3>1. PICK j \in 1..m : i = l + j
      <4>1. i - l \in 1..m /\ i = l + (i - l)
        BY <2>2
      <4> QED BY <4>1
    <3> QED BY <1>2, <1>3, <3>1 DEF Voiced
  <2> QED BY <2>1, <2>2
<1> QED BY <1>1, <1>3, <1>4, BlockyConcat DEF Voiced

LEMMA BlocksAre ==
  ASSUME NEW s
  PROVE  /\ In(s, Thinks) => Voiced(s) /\ OfType({"thinking"}, s) = s
              /\ OfType({"tool_use"}, s) = Nil
                               /\ OfType({"text"}, s) = Nil /\ OfType({"tool_result"}, s) = Nil
         /\ In(s, Uses) => Voiced(s) /\ OfType({"thinking"}, s) = Nil
              /\ OfType({"tool_use"}, s) = s
                               /\ OfType({"text"}, s) = Nil /\ OfType({"tool_result"}, s) = Nil
         /\ In(s, Texts) => Voiced(s) /\ OfType({"thinking"}, s) = Nil
              /\ OfType({"tool_use"}, s) = Nil
                               /\ OfType({"text"}, s) = s /\ OfType({"tool_result"}, s) = Nil
         /\ In(s, Parts) => Voiced(s) /\ OfType({"tool_result"}, s) = Nil /\ Content(s) = s
                               /\ OfType({"tool_use"}, s) = Nil /\ OfType({"thinking"}, s) = Nil
         /\ In(s, Outcomes) => Voiced(s) /\ OfType({"tool_result"}, s) = s /\ Content(s) = Nil
                               /\ OfType({"tool_use"}, s) = Nil /\ OfType({"thinking"}, s) = Nil
<1>1. ASSUME In(s, Thinks) \/ In(s, Uses) \/ In(s, Texts) \/ In(s, Parts) \/ In(s, Outcomes) PROVE Voiced(s)
  <2>1. \A x : x \in Thinks \/ x \in Uses \/ x \in Texts \/ x \in Parts \/ x \in Outcomes
                 => x.type \in BlockTypes /\ x.text \in Frags
    BY DEF Thinks, Uses, Texts, Parts, Outcomes, BlockTypes
  <2> QED BY <1>1, <2>1, FragIs DEF In, Voiced, Blocky
<1>2. ASSUME In(s, Thinks)
      PROVE  /\ OfType({"thinking"}, s) = s /\ OfType({"tool_use"}, s) = Nil
             /\ OfType({"text"}, s) = Nil /\ OfType({"tool_result"}, s) = Nil
  <2>1. IsSeq(s) /\ \A i \in 1..Size(s) : At(s, i).type = "thinking"
    BY <1>2 DEF In, Thinks
  <2> QED BY <2>1, OfTypeAll, OfTypeNone
<1>3. ASSUME In(s, Uses)
      PROVE  /\ OfType({"thinking"}, s) = Nil /\ OfType({"tool_use"}, s) = s
             /\ OfType({"text"}, s) = Nil /\ OfType({"tool_result"}, s) = Nil
  <2>1. IsSeq(s) /\ \A i \in 1..Size(s) : At(s, i).type = "tool_use"
    BY <1>3 DEF In, Uses
  <2> QED BY <2>1, OfTypeAll, OfTypeNone
<1>4. ASSUME In(s, Texts)
      PROVE  /\ OfType({"thinking"}, s) = Nil /\ OfType({"tool_use"}, s) = Nil
             /\ OfType({"text"}, s) = s /\ OfType({"tool_result"}, s) = Nil
  <2>1. IsSeq(s) /\ \A i \in 1..Size(s) : At(s, i).type = "text"
    BY <1>4 DEF In, Texts
  <2> QED BY <2>1, OfTypeAll, OfTypeNone
<1>5. ASSUME In(s, Parts)
      PROVE  /\ OfType({"tool_result"}, s) = Nil /\ OfType({"tool_use"}, s) = Nil
             /\ OfType({"thinking"}, s) = Nil /\ Content(s) = s
  <2>1. IsSeq(s) /\ \A i \in 1..Size(s) : At(s, i).type \in {"text", "image"}
    BY <1>5 DEF In, Parts
  <2> QED BY <1>5, <2>1, OfTypeNone, ContentAll
<1>6. ASSUME In(s, Outcomes)
      PROVE  /\ OfType({"tool_result"}, s) = s /\ Content(s) = Nil
             /\ OfType({"tool_use"}, s) = Nil /\ OfType({"thinking"}, s) = Nil
  <2>1. IsSeq(s) /\ \A i \in 1..Size(s) : At(s, i).type = "tool_result"
    BY <1>6 DEF In, Outcomes
  <2> QED BY <2>1, OfTypeAll, OfTypeNone DEF Content
<1> QED BY <1>1, <1>2, <1>3, <1>4, <1>5, <1>6

\* A message taken apart is told like the message.
Retells(m) ==
  /\ Fits("read", "openai", TakenApart(m)) /\ IsSeq(ReadOne("anthropic", m))
  /\ Fits("prompt", 0, Flat("read", "openai", TakenApart(m)))
  /\ Flat("prompt", 0, Flat("read", "openai", TakenApart(m))) = Nil
  /\ Fits("prompt", 0, ReadOne("anthropic", m))
       /\ Flat("prompt", 0, ReadOne("anthropic", m)) = Nil
  /\ \A T : Turnwise(T) =>
       /\ Fold("tell", T, Flat("read", "openai", TakenApart(m))) = Fold("tell", T, ReadOne("anthropic", m))
       /\ Turnwise(Fold("tell", T, ReadOne("anthropic", m)))

\* It suffices to tell the same blocks, in an order of their own.
LEMMA RetellsBlocks ==
  ASSUME NEW m, NEW w, w # "system", Fits("read", "openai", TakenApart(m)),
         NEW bs, Voiced(bs), ReadOne("anthropic", m) = Each("says", w, bs),
         NEW cs, Blocky(cs), Flat("read", "openai", TakenApart(m)) = Each("says", w, cs),
         \A T : Turnwise(T) => Fold("tell", T, Each("says", w, cs)) = Fold("tell", T, Each("says", w, bs))
  PROVE  Retells(m)
<1>1. IsSeq(Each("says", w, bs))
  BY EachIs DEF Voiced, Blocky
<1>2. \A T : Turnwise(T) => Turnwise(Fold("tell", T, Each("says", w, bs)))
  BY VoicedKeeps
<1>3. /\ Fits("prompt", 0, Each("says", w, bs)) /\ Flat("prompt", 0, Each("says", w, bs)) = Nil
      /\ Fits("prompt", 0, Each("says", w, cs)) /\ Flat("prompt", 0, Each("says", w, cs)) = Nil
  BY SpeakerSays DEF Voiced
<1> QED BY <1>1, <1>2, <1>3 DEF Retells

LEMMA SaidIs ==
  ASSUME NEW r, NEW c
  PROVE  Said(r, c).role = r /\ Said(r, c).content = c
  BY DEF Said

LEMMA ReadSaid ==
  ASSUME NEW r, NEW c
  PROVE  ReadOne("anthropic", Said(r, c)) = Each("says", r, c)
<1>1. ReadOne("anthropic", Said(r, c)) = SaysBlocks(r, c)
  BY SaidIs DEF ReadOne
<1> QED BY <1>1, SaysBlocksIs

LEMMA ResultIs ==
  ASSUME NEW b \in Outcomes
  PROVE  /\ Make("read", "openai", Make("result", 0, b)) = One(Make("says", "user", b))
         /\ Make("result", 0, b).role = "tool"
<1>1. b.text \in Frags /\ b.type = "tool_result"
  BY DEF Outcomes
<1>2. OneText(b.text) = One(Text(b.text)) /\ ContentText(One(Text(b.text))) = b.text
  <2>1. Text(b.text) \in Texts /\ Text(b.text).text = b.text
    BY <1>1, TextIs DEF Text, Block
  <2> QED BY <1>1, <2>1, OneTextIs, ContentTextOne
<1> DEFINE m == [Message("tool", OneText(b.text)) EXCEPT !.id = b.id]
<1>3. m.role = "tool" /\ m.id = b.id /\ m.content = One(Text(b.text))
  BY <1>2 DEF Message
<1>4. Make("result", 0, b) = m
  BY DEF Make
<1> HIDE DEF m
<1>5. ReadMessage(m) = One(Says("user", "results", <<<<b.id, b.text>>>>))
  BY <1>2, <1>3, ToolSpeaks
<1>6. SaysBlock("user", b) = Says("user", "results", <<<<b.id, b.text>>>>)
  BY <1>1 DEF SaysBlock
<1>7. Make("read", "openai", m) = One(SaysBlock("user", b))
        /\ Make("says", "user", b) = SaysBlock("user", b)
  BY <1>5, <1>6 DEF Make, ReadOne
<1> QED BY <1>3, <1>4, <1>7

LEMMA ResultsRead ==
  ASSUME NEW r, In(r, Outcomes)
  PROVE  /\ Fits("read", "openai", Each("result", 0, r))
         /\ Flat("read", "openai", Each("result", 0, r)) = Each("says", "user", r)
<1>1. PICK q, e : q = Each("result", 0, r) /\ e = Each("says", "user", r)
  OBVIOUS
<1>2. PICK n \in Nat : n = Size(r)
  BY SizeIs DEF In
<1>3. /\ IsSeq(q) /\ Size(q) = n /\ IsSeq(e) /\ Size(e) = n
      /\ \A i \in 1..n : At(q, i) = Make("result", 0, At(r, i))
           /\ At(e, i) = Make("says", "user", At(r, i))
  BY <1>1, <1>2, EachIs DEF In
<1>4. \A i \in 1..n : Make("read", "openai", At(q, i)) = One(At(e, i))
  BY <1>2, <1>3, ResultIs DEF In
<1>5. \A x : Make("one", 0, x) = One(x)
  BY DEF Make, One
<1>6. Flat("read", "openai", q) = Flat("one", 0, e)
  BY <1>3, <1>4, <1>5, FlatSame
<1>7. Flat("one", 0, e) = e
  BY <1>3, FlatSingles
<1>8. Fits("read", "openai", q)
  BY <1>3, <1>4, OneIs DEF Fits
<1> QED BY <1>1, <1>6, <1>7, <1>8

\* What a user says: results, then the rest.
LEMMA UserMessagesAre ==
  ASSUME NEW r, In(r, Outcomes), NEW p, In(p, Parts)
  PROVE  UserMessages(r ++ p) = Each("result", 0, r) ++ (IF p = Nil THEN Nil ELSE One(Message("user", p)))
<1>1. PICK bs : bs = r ++ p
  OBVIOUS
<1>2. OfType({"tool_result"}, bs) = r
  <2>1. OfType({"tool_result"}, bs) = r ++ Nil
    BY <1>1, OfTypeConcat, BlocksAre DEF In
  <2> QED BY <2>1, EmptyConcat DEF In
<1>3. Content(bs) = p
  <2>1. Content(bs) = Nil ++ p
    BY <1>1, OfTypeConcat, BlocksAre DEF In, Content
  <2> QED BY <2>1, EmptyConcat DEF In
<1>4. [k \in DOMAIN r |-> [Message("tool", OneText(r[k].text)) EXCEPT !.id = r[k].id]] = Each("result", 0, r)
  BY DEF Each, Make
<1> QED BY <1>1, <1>2, <1>3, <1>4 DEF UserMessages, ++, Nil, One

LEMMA UserRetells ==
  ASSUME NEW r, In(r, Outcomes), NEW p, In(p, Parts)
  PROVE  Retells(Said("user", r ++ p)) /\ IsSeq(TakenApart(Said("user", r ++ p)))
<1>1. PICK bs, m : bs = r ++ p /\ m = Said("user", bs)
  OBVIOUS
<1>2. Voiced(bs)
  BY <1>1, BlocksAre, VoicedConcat
<1>3. ReadOne("anthropic", m) = Each("says", "user", bs)
  BY <1>1, ReadSaid
<1> DEFINE tail == IF p = Nil THEN Nil ELSE One(Message("user", p))
<1>4. TakenApart(m) = Each("result", 0, r) ++ tail
  <2>1. TakenApart(m) = UserMessages(bs)
    BY <1>1, SaidIs DEF TakenApart
  <2> QED BY <1>1, <2>1, UserMessagesAre
<1>5. Fits("read", "openai", tail) /\ Flat("read", "openai", tail) = Each("says", "user", p)
  <2>1. CASE p = Nil
    BY <2>1, FlatNone, EachNone
  <2>2. CASE p # Nil
    <3>1. PICK u : u = Message("user", p)
      OBVIOUS
    <3>2. Speaking(u) /\ BlocksOf(u) = p /\ Side(u) = "user"
      <4>1. u.role = "user" /\ u.content = p
        BY <3>1 DEF Message
      <4>2. BlocksOf(u) = p
        BY <4>1, ContentAll DEF BlocksOf
      <4> QED BY <3>1, <4>1, <4>2, UserMessage DEF Side
    <3>3. Make("read", "openai", u) = Each("says", "user", p)
      BY <3>2 DEF Make, ReadOne, Speaking
    <3>4. IsSeq(Each("says", "user", p))
      BY EachIs DEF In
    <3> QED BY <2>2, <3>1, <3>3, <3>4, FlatOne
  <2> QED BY <2>1, <2>2
<1> HIDE DEF tail
<1>6. /\ Fits("read", "openai", TakenApart(m))
      /\ Flat("read", "openai", TakenApart(m)) = Each("says", "user", r) ++ Each("says", "user", p)
  BY <1>4, <1>5, ResultsRead, FlatConcat
<1>7. Each("says", "user", bs) = Each("says", "user", r) ++ Each("says", "user", p)
  BY <1>1, EachConcat DEF In
<1>8. Blocky(bs)
  BY <1>2 DEF Voiced
<1>9. Retells(m)
  BY <1>2, <1>3, <1>6, <1>7, <1>8, RetellsBlocks
<1> QED BY <1>1, <1>6, <1>9 DEF Fits

LEMMA CallIs ==
  ASSUME NEW b \in Uses
  PROVE  Make("use", 0, Make("call", 0, b)) = b
<1>1. Make("call", 0, b) = [id |-> b.id, args |-> b.text]
  BY DEF Make
<1>2. ToolUse([id |-> b.id, args |-> b.text])
        = [type |-> "tool_use", id |-> b.id, text |-> b.text, sig |-> Nil, mark |-> FALSE]
  BY DEF ToolUse, Block, Nil
<1>3. b = [type |-> "tool_use", id |-> b.id, text |-> b.text, sig |-> Nil, mark |-> FALSE]
  <2>1. b.type = "tool_use" /\ b.sig = Nil /\ b.mark = FALSE
    BY DEF Uses
  <2>2. b = [type |-> b.type, id |-> b.id, text |-> b.text, sig |-> b.sig, mark |-> b.mark]
    BY DEF Uses
  <2> QED BY <2>1, <2>2
<1>4. \A x : Make("use", 0, x) = ToolUse(x)
  BY DEF Make
<1> QED BY <1>1, <1>2, <1>3, <1>4

LEMMA CallsAre ==
  ASSUME NEW u, In(u, Uses)
  PROVE  Each("use", 0, Each("call", 0, u)) = u /\ IsSeq(Each("call", 0, u))
<1>1. PICK c, e : c = Each("call", 0, u) /\ e = Each("use", 0, c)
  OBVIOUS
<1>2. IsSeq(c) /\ Size(c) = Size(u) /\ \A i \in 1..Size(u) : At(c, i) = Make("call", 0, At(u, i))
  BY <1>1, EachIs DEF In
<1>3. IsSeq(e) /\ Size(e) = Size(u) /\ \A i \in 1..Size(u) : At(e, i) = Make("use", 0, At(c, i))
  BY <1>1, <1>2, EachIs
<1>4. \A i \in 1..Size(u) : At(e, i) = At(u, i)
  BY <1>2, <1>3, CallIs DEF In
<1>5. e = u
  BY <1>3, <1>4, SeqEq DEF In
<1> QED BY <1>1, <1>2, <1>5

\* What the blocks of an assistant's message are.
Thoughtful(t) == t = Nil \/ (\E a \in Thinks : t = One(a)) \/ \E a \in Thinks,
  b \in Thinks : t = One(a) ++ One(b)
Calling(u) == u = Nil \/ (\E c \in Uses : u = One(c)) \/ \E c \in Uses,
  d \in Uses : u = One(c) ++ One(d)
Wording(p) == p = Nil \/ \E x \in Plains : p = One(x)

LEMMA AssistantParts ==
  ASSUME NEW t, Thoughtful(t), NEW u, Calling(u), NEW p, Wording(p)
  PROVE  In(t, Thinks) /\ In(u, Uses) /\ In(p, Texts) /\ In(p, Parts) /\ IsSeq(t) /\ IsSeq(u)
           /\ IsSeq(p)
<1>1. In(t, Thinks)
  BY InNone, InOne, InConcat DEF Thoughtful
<1>2. In(u, Uses)
  BY InNone, InOne, InConcat DEF Calling
<1>3. In(p, Plains)
  BY InNone, InOne DEF Wording
<1> QED BY <1>1, <1>2, <1>3, PlainIsText, TextAll DEF In

LEMMA WordingIs ==
  ASSUME NEW p, Wording(p)
  PROVE  OneText(Joined(p)) = p
<1>1. CASE p = Nil
  BY <1>1, ContentTextNone
<1>2. ASSUME NEW x \in Plains, p = One(x) PROVE OneText(Joined(p)) = p
  <2>1. x = Text(x.text) /\ x.text \in Frags
    BY PlainIs
  <2>2. Joined(One(x)) = x.text
    BY <2>1, JoinedOne, FragIs
  <2> QED BY <1>2, <2>1, <2>2, OneTextIs
<1> QED BY <1>1, <1>2 DEF Wording

LEMMA AssistantMessageIs ==
  ASSUME NEW t, Thoughtful(t), NEW u, Calling(u), NEW p, Wording(p)
  PROVE  LET m == AssistantMessage((t ++ u) ++ p)
         IN m.role = "assistant" /\ m.content = p /\ m.think = Joined(t)
           /\ m.calls = Each("call", 0, u)
<1>1. PICK bs : bs = (t ++ u) ++ p
  OBVIOUS
<1>2. In(t, Thinks) /\ In(u, Uses) /\ In(p, Texts) /\ IsSeq(t) /\ IsSeq(u) /\ IsSeq(p)
        /\ IsSeq(t ++ u)
  BY AssistantParts, ConcatAt
<1>3. OfType({"thinking"}, bs) = t
  <2>1. OfType({"thinking"}, bs) = (t ++ Nil) ++ Nil
    BY <1>1, <1>2, OfTypeConcat, BlocksAre
  <2> QED BY <1>2, <2>1, EmptyConcat
<1>4. OfType({"tool_use"}, bs) = u
  <2>1. OfType({"tool_use"}, bs) = (Nil ++ u) ++ Nil
    BY <1>1, <1>2, OfTypeConcat, BlocksAre
  <2> QED BY <1>2, <2>1, EmptyConcat
<1>5. OfType({"text"}, bs) = p
  <2>1. OfType({"text"}, bs) = (Nil ++ Nil) ++ p
    BY <1>1, <1>2, OfTypeConcat, BlocksAre
  <2> QED BY <1>2, <2>1, EmptyConcat, NoneIsSeq
<1>6. OneText(ContentText(bs)) = p
  BY <1>5, WordingIs DEF ContentText
<1> DEFINE th == OfType({"thinking"}, bs)
           signed == Kept(th, {k \in DOMAIN th : th[k].sig # <<>>})
           sig == IF Len(signed) = 1 THEN signed[1].sig ELSE <<>>
           uses == OfType({"tool_use"}, bs)
           calls == [k \in DOMAIN uses |-> [id |-> uses[k].id, args |-> uses[k].text]]
<1>7. AssistantMessage(bs) = [Message("assistant", OneText(ContentText(bs))) EXCEPT
                                !.think = Joined(th), !.sig = sig, !.calls = calls]
  BY DEF AssistantMessage
<1>8. calls = Each("call", 0, u)
  BY <1>4 DEF Each, Make
<1> HIDE DEF th, signed, sig, uses, calls
<1>9. th = t
  BY <1>3 DEF th
<1>10. /\ AssistantMessage(bs).role = "assistant"
            /\ AssistantMessage(bs).content = OneText(ContentText(bs))
       /\ AssistantMessage(bs).think = Joined(th) /\ AssistantMessage(bs).calls = calls
  BY <1>7 DEF Message
<1> QED BY <1>1, <1>6, <1>8, <1>9, <1>10

\* The reasoning, joined.
Thinking(t) == IF Joined(t) = Nil THEN Nil ELSE One(Says("assistant", "think", Joined(t)))

LEMMA ThinkingTold ==
  ASSUME NEW t, Thoughtful(t), NEW T, Turnwise(T)
  PROVE  Fold("tell", T, Thinking(t)) = Fold("tell", T, Each("says", "assistant", t))
<1>1. \A a \in Thinks : /\ a.text \in Frags /\ IsSeq(a.text) /\ a.text # Nil
                        /\ Make("says", "assistant", a) = Says("assistant", "think", a.text)
  BY FragIs DEF Thinks, Make, SaysBlock
<1>2. CASE t = Nil
  <2>1. Thinking(t) = Nil
    BY <1>2, ContentTextNone DEF Thinking
  <2> QED BY <1>2, <2>1, EachNone
<1>3. ASSUME NEW a \in Thinks, t = One(a)
      PROVE  Fold("tell", T, Thinking(t)) = Fold("tell", T, Each("says", "assistant", t))
  <2>1. Joined(t) = a.text
    BY <1>1, <1>3, JoinedOne
  <2> QED BY <1>1, <1>3, <2>1, EachOne DEF Thinking
<1>4. ASSUME NEW a \in Thinks, NEW b \in Thinks, t = One(a) ++ One(b)
      PROVE  Fold("tell", T, Thinking(t)) = Fold("tell", T, Each("says", "assistant", t))
  <2>0. PICK x, y : x = a.text /\ y = b.text
    OBVIOUS
  <2>1. Joined(t) = x ++ y
    <3>1. Fits("text", 0, One(a)) /\ Fits("text", 0, One(b)) /\ Flat("text", 0, One(a)) = x
            /\ Flat("text", 0, One(b)) = y
      <4>1. \A c : Make("text", 0, c) = c.text
        BY DEF Make
      <4> QED BY <1>1, <2>0, <4>1, FlatOne
    <3> QED BY <1>4, <3>1, FlatConcat, JoinedIs
  <2>2. x ++ y # Nil
    <3>1. PICK r : r = x ++ y
      OBVIOUS
    <3>2. Size(x) \in Nat /\ Size(y) \in Nat /\ Size(x) # 0
      BY <1>1, <2>0, EmptySize, SizeIs
    <3>3. IsSeq(r) /\ Size(r) = Size(x) + Size(y)
      BY <1>1, <2>0, <3>1, ConcatAt
    <3>4. Size(r) # 0
      BY <3>2, <3>3
    <3> QED BY <3>1, <3>3, <3>4, EmptySize
  <2> DEFINE sx == Says("assistant", "think", x)
             sy == Says("assistant", "think", y)
             sxy == Says("assistant", "think", x ++ y)
  <2>3. Thinking(t) = One(sxy)
    BY <2>1, <2>2 DEF Thinking
  <2>4. Each("says", "assistant", t) = One(sx) ++ One(sy)
    BY <1>1, <1>4, <2>0, EachConcat, EachOne, OneIs
  <2>5. Tell(Tell(T, sx), sy) = Tell(T, sxy)
    BY <1>1, <2>0, <2>2, TellTwice DEF Kinds
  <2> HIDE DEF sx, sy, sxy
  <2>6. Fold("tell", T, One(sxy)) = Tell(T, sxy)
    <3>1. Fold("tell", T, One(sxy)) = Do("tell", T, sxy)
      BY FoldOne
    <3> QED BY <3>1 DEF Do
  <2>7. Fold("tell", T, One(sx) ++ One(sy)) = Tell(Tell(T, sx), sy)
    <3>1. Fold("tell", T, One(sx) ++ One(sy)) = Fold("tell", Fold("tell", T, One(sx)), One(sy))
      BY OneIs, FoldCat
    <3>2. Fold("tell", T, One(sx) ++ One(sy)) = Do("tell", Do("tell", T, sx), sy)
      BY <3>1, FoldOne
    <3> QED BY <3>2 DEF Do
  <2> QED BY <2>3, <2>4, <2>5, <2>6, <2>7
<1> QED BY <1>2, <1>3, <1>4 DEF Thoughtful

\* A turn's words may be told before its calls.
LEMMA WordsTold ==
  ASSUME NEW u, Calling(u), NEW p, Wording(p), NEW T, Turnwise(T)
  PROVE  Fold("tell", Fold("tell", T, Each("says", "assistant", p)), Each("says", "assistant", u))
           = Fold("tell", Fold("tell", T, Each("says", "assistant", u)), Each("says", "assistant", p))
<1> DEFINE S(b) == SaysBlock("assistant", b)
<1>1. ASSUME NEW x \in Plains
      PROVE  Sayable("assistant", S(x)) /\ S(x).what # Nil /\ S(x).kind = "content"
  <2>1. x.type = "text" /\ x.text \in Frags /\ x.type \in BlockTypes /\ IsSeq(x.text)
          /\ x.text # Nil
    BY FragIs DEF Plains, BlockTypes
  <2>2. S(x) = Says("assistant", "content", Typed(x))
    BY <2>1 DEF SaysBlock
  <2>3. Typed(x) # Nil
    <3>1. IsSeq(Typed(x)) /\ Size(Typed(x)) = Size(x.text)
      BY <2>1, TypedIs, EachIs
    <3> QED BY <2>1, <3>1, EmptySize
  <2> QED BY <2>1, <2>2, <2>3, SaysSayable DEF Says
<1>2. ASSUME NEW c \in Uses
      PROVE  Sayable("assistant", S(c)) /\ S(c).what # Nil /\ S(c).kind = "calls"
  <2>1. c.type = "tool_use" /\ c.text \in Frags /\ c.type \in BlockTypes /\ IsSeq(c.text)
    BY FragIs DEF Uses, BlockTypes
  <2>2. S(c) = Says("assistant", "calls", One(<<c.id, c.text>>))
    BY <2>1 DEF SaysBlock, One
  <2> QED BY <2>1, <2>2, OneIs, SaysSayable DEF Says
<1>3. \A b : Make("says", "assistant", b) = S(b)
  BY DEF Make
<1> HIDE DEF S
<1>4. ASSUME NEW b, NEW A PROVE Fold("tell", A, Each("says", "assistant", One(b))) = Tell(A, S(b))
  <2>1. Fold("tell", A, One(S(b))) = Do("tell", A, S(b))
    BY FoldOne
  <2>2. Each("says", "assistant", One(b)) = One(S(b))
    BY <1>3, EachOne
  <2> QED BY <2>1, <2>2 DEF Do
<1>5. ASSUME NEW b, NEW c, NEW A
      PROVE  Fold("tell", A, Each("says", "assistant", One(b) ++ One(c))) = Tell(Tell(A, S(b)), S(c))
  <2>1. Each("says", "assistant", One(b) ++ One(c)) = Each("says", "assistant", One(b)) ++ Each("says", "assistant", One(c))
    BY OneIs, EachConcat
  <2>2. IsSeq(Each("says", "assistant", One(b))) /\ IsSeq(Each("says", "assistant", One(c)))
    BY OneIs, EachIs
  <2> QED BY <1>4, <2>1, <2>2, FoldCat
<1>6. \A A : Fold("tell", A, Each("says", "assistant", Nil)) = A
  BY EachNone, FoldNil
<1>7. CASE p = Nil
  BY <1>6, <1>7
<1>8. CASE u = Nil
  BY <1>6, <1>8
<1>9. ASSUME NEW x \in Plains, p = One(x), NEW c \in Uses, u = One(c)
      PROVE  Tell(Tell(T, S(x)), S(c)) = Tell(Tell(T, S(c)), S(x))
  BY <1>1, <1>2, TellSwap
<1>10. ASSUME NEW x \in Plains, NEW c \in Uses, NEW d \in Uses
       PROVE  Tell(Tell(Tell(T, S(x)), S(c)), S(d)) = Tell(Tell(Tell(T, S(c)), S(d)), S(x))
  <2>1. Tell(Tell(T, S(x)), S(c)) = Tell(Tell(T, S(c)), S(x))
    BY <1>1, <1>2, TellSwap
  <2>2. Turnwise(Tell(T, S(c)))
    BY <1>2, TellKeeps
  <2>3. Tell(Tell(Tell(T, S(c)), S(x)), S(d)) = Tell(Tell(Tell(T, S(c)), S(d)), S(x))
    BY <1>1, <1>2, <2>2, TellSwap
  <2> QED BY <2>1, <2>3
<1>11. CASE (\E x \in Plains : p = One(x)) /\ (\E c \in Uses : u = One(c))
  BY <1>4, <1>9, <1>11
<1>12. CASE (\E x \in Plains : p = One(x)) /\ (\E c \in Uses, d \in Uses : u = One(c) ++ One(d))
  BY <1>4, <1>5, <1>10, <1>12
<1> QED BY <1>7, <1>8, <1>11, <1>12 DEF Calling, Wording

LEMMA ThinkBlocksSay ==
  ASSUME NEW m, NEW t, m.think = Joined(t)
  PROVE  Each("says", "assistant", ThinkBlocks(m)) = Thinking(t)
<1>1. CASE m.think = Nil
  BY <1>1, EachNone DEF ThinkBlocks, Thinking, Nil
<1>2. CASE m.think # Nil
  <2>1. PICK b : b = [Block("thinking", NoCall, m.think) EXCEPT !.sig = m.sig]
    OBVIOUS
  <2>2. ThinkBlocks(m) = One(b)
    BY <1>2, <2>1 DEF ThinkBlocks, Nil
  <2>3. b.type = "thinking" /\ b.text = m.think
    BY <2>1 DEF Block
  <2>4. Make("says", "assistant", b) = Says("assistant", "think", m.think)
    BY <2>3 DEF Make, SaysBlock
  <2>5. Thinking(t) = One(Says("assistant", "think", m.think))
    BY <1>2 DEF Thinking
  <2> QED BY <2>2, <2>4, <2>5, EachOne
<1> QED BY <1>1, <1>2

LEMMA AssistantRetells ==
  ASSUME NEW t, Thoughtful(t), NEW u, Calling(u), NEW p, Wording(p)
  PROVE  /\ Retells(Said("assistant", (t ++ u) ++ p))
         /\ IsSeq(TakenApart(Said("assistant", (t ++ u) ++ p)))
<1>1. PICK bs, m, a : bs = (t ++ u) ++ p /\ m = Said("assistant", bs)
             /\ a = AssistantMessage(bs)
  OBVIOUS
<1>2. /\ In(t, Thinks) /\ In(u, Uses) /\ In(p, Texts) /\ IsSeq(t) /\ IsSeq(u) /\ IsSeq(p)
           /\ IsSeq(t ++ u)
      /\ In(p, Parts)
  BY AssistantParts, ConcatAt
<1>3. a.role = "assistant" /\ a.content = p /\ a.think = Joined(t)
        /\ a.calls = Each("call", 0, u)
  BY <1>1, AssistantMessageIs
<1>4. AssistantBlocks(a) = (ThinkBlocks(a) ++ p) ++ u
  BY <1>2, <1>3, AssistantBlocksIs, CallsAre, ContentAll
<1>5. TakenApart(m) = One(a)
  <2>1. m.role # "user" /\ m.content = bs
    BY <1>1, SaidIs
  <2> QED BY <1>1, <2>1 DEF TakenApart, One
<1>6. PICK cs : cs = (ThinkBlocks(a) ++ p) ++ u
  OBVIOUS
<1>7. Blocky(cs)
  BY <1>2, <1>6, ThinkBlocksIs, BlocksAre, BlockyConcat DEF Voiced
<1>8. Make("read", "openai", a) = Each("says", "assistant", cs)
        /\ IsSeq(Each("says", "assistant", cs))
  <2>1. ReadMessage(a) = SaysBlocks("assistant", cs)
    BY <1>3, <1>4, <1>6 DEF ReadMessage
  <2> QED BY <1>7, <2>1, SaysBlocksIs, EachIs DEF Make, ReadOne, Blocky
<1>9. Fits("read", "openai", TakenApart(m))
        /\ Flat("read", "openai", TakenApart(m)) = Each("says", "assistant", cs)
  BY <1>5, <1>8, FlatOne
<1>10. ReadOne("anthropic", m) = Each("says", "assistant", bs)
  BY <1>1, ReadSaid
<1>11. Voiced(bs)
  BY <1>1, <1>2, BlocksAre, VoicedConcat
<1>12. ASSUME NEW T, Turnwise(T)
       PROVE  Fold("tell", T, Each("says", "assistant", cs)) = Fold("tell", T, Each("says", "assistant", bs))
  <2> DEFINE F(A, s) == Fold("tell", A, Each("says", "assistant", s))
  <2>1. \A A, s, q : IsSeq(s) /\ IsSeq(q) => F(A, s ++ q) = F(F(A, s), q)
    <3>1. ASSUME NEW A, NEW s, IsSeq(s), NEW q, IsSeq(q) PROVE F(A, s ++ q) = F(F(A, s), q)
      BY <3>1, EachConcat, EachIs, FoldCat
    <3> QED BY <3>1
  <2>2. F(T, ThinkBlocks(a)) = F(T, t)
    <3>1. Each("says", "assistant", ThinkBlocks(a)) = Thinking(t)
      BY <1>3, ThinkBlocksSay
    <3> QED BY <1>12, <3>1, ThinkingTold
  <2>3. Turnwise(F(T, t))
    BY <1>2, <1>12, BlocksAre, VoicedKeeps
  <2>4. F(F(F(T, t), p), u) = F(F(F(T, t), u), p)
    BY <2>3, WordsTold
  <2> HIDE DEF F
  <2>5. IsSeq(ThinkBlocks(a)) /\ IsSeq(ThinkBlocks(a) ++ p)
    BY <1>2, ThinkBlocksIs, ConcatAt
  <2>6. F(T, cs) = F(F(F(T, ThinkBlocks(a)), p), u)
    BY <1>2, <1>6, <2>1, <2>5
  <2>7. F(T, bs) = F(F(F(T, t), u), p)
    BY <1>1, <1>2, <2>1
  <2>8. F(T, cs) = F(T, bs)
    BY <2>2, <2>4, <2>6, <2>7
  <2> QED BY <2>8 DEF F
<1>13. Retells(m)
  BY <1>7, <1>9, <1>10, <1>11, <1>12, RetellsBlocks
<1> QED BY <1>1, <1>5, <1>13, OneIs

-----------------------------------------------------------------------------
\* A conversation taken apart, as it is read, and as it was meant.
Apart(msgs)   == Flat("apart", 0, msgs)
Replied(msgs) == Flat("read", "openai", Apart(msgs))
Meant(msgs)   == Flat("read", "anthropic", msgs)
\* An anthropic conversation and the openai one made of it tell the same,
\* turn by turn.
Retold(sys, msgs) ==
  /\ GoodSys(sys) /\ Fits("apart", 0, msgs) /\ Fits("read", "anthropic", msgs)
  /\ Fits("read", "openai", Apart(msgs))
  /\ Fits("prompt", 0, Meant(msgs)) /\ Flat("prompt", 0, Meant(msgs)) = Nil
  /\ Fits("prompt", 0, Replied(msgs)) /\ Flat("prompt", 0, Replied(msgs)) = Nil
  /\ Fold("tell", Nil, Replied(msgs)) = Fold("tell", Nil, Meant(msgs))
  /\ Turnwise(Fold("tell", Nil, Meant(msgs)))

LEMMA RetoldStart ==
  ASSUME NEW sys, GoodSys(sys)
  PROVE  Retold(sys, Nil)
<1>1. Apart(Nil) = Nil /\ Replied(Nil) = Nil /\ Meant(Nil) = Nil
  BY FlatNone DEF Apart, Replied, Meant
<1>2. Turnwise(Fold("tell", Nil, Nil))
  BY FoldNil DEF Turnwise
<1> QED BY <1>1, <1>2, FlatNone DEF Retold

LEMMA RetoldStep ==
  ASSUME NEW sys, NEW msgs, Retold(sys, msgs), NEW m, Retells(m), IsSeq(TakenApart(m))
  PROVE  Retold(sys, App(msgs, m))
<1>1. PICK a, r, e : a = TakenApart(m) /\ r = Flat("read", "openai", a)
             /\ e = ReadOne("anthropic", m)
  OBVIOUS
<1>2. /\ Fits("read", "openai", a) /\ IsSeq(a) /\ IsSeq(r) /\ IsSeq(e)
      /\ Fits("prompt", 0, r) /\ Flat("prompt", 0, r) = Nil
      /\ Fits("prompt", 0, e) /\ Flat("prompt", 0, e) = Nil
      /\ \A T : Turnwise(T) => Fold("tell", T, r) = Fold("tell", T, e)
           /\ Turnwise(Fold("tell", T, e))
  BY <1>1, FlatIsSeq DEF Retells
<1>3. Make("apart", 0, m) = a /\ Make("read", "anthropic", m) = e
  BY <1>1 DEF Make
<1>4. Apart(App(msgs, m)) = Apart(msgs) ++ a /\ IsSeq(Apart(msgs))
        /\ Fits("apart", 0, App(msgs, m))
  BY <1>2, <1>3, FlatAppend DEF Retold, Apart
<1>5. /\ Meant(App(msgs, m)) = Meant(msgs) ++ e /\ IsSeq(Meant(msgs))
      /\ Fits("read", "anthropic", App(msgs, m))
  BY <1>2, <1>3, FlatAppend DEF Retold, Meant
<1>6. /\ Replied(App(msgs, m)) = Replied(msgs) ++ r /\ IsSeq(Replied(msgs))
      /\ Fits("read", "openai", Apart(App(msgs, m)))
  BY <1>1, <1>2, <1>4, FlatConcat DEF Retold, Replied
<1>7. /\ Fits("prompt", 0, Meant(msgs) ++ e) /\ Flat("prompt", 0, Meant(msgs) ++ e) = Nil
      /\ Fits("prompt", 0, Replied(msgs) ++ r) /\ Flat("prompt", 0, Replied(msgs) ++ r) = Nil
  BY <1>2, FlatConcat, EmptyConcat, NoneIsSeq DEF Retold
<1>8. /\ Fold("tell", Nil, Meant(msgs) ++ e) = Fold("tell", Fold("tell", Nil, Meant(msgs)), e)
      /\ Fold("tell", Nil, Replied(msgs) ++ r) = Fold("tell", Fold("tell", Nil, Replied(msgs)), r)
  BY <1>2, <1>5, <1>6, FoldCat
<1> QED BY <1>2, <1>4, <1>5, <1>6, <1>7, <1>8 DEF Retold

LEMMA RetoldBody ==
  ASSUME NEW b, Retold(b.sys, b.msgs)
  PROVE  /\ SystemPrompt(ReadBody("openai", AnthropicToOpenAi(b))) = SystemPrompt(ReadBody("anthropic", b))
         /\ Turns(ReadBody("openai", AnthropicToOpenAi(b))) = Turns(ReadBody("anthropic", b))
<1>1. PICK q, s, msgs, e : q = AnthropicToOpenAi(b) /\ s = b.sys /\ msgs = b.msgs
             /\ e = Each("says", "system", s)
  OBVIOUS
<1>2. q.msgs = SystemMessage(s) ++ Apart(msgs) /\ q.sys = Nil /\ Retold(s, msgs) /\ GoodSys(s)
  BY <1>1, ToOpenAiIs DEF Apart, Retold
<1>3. /\ IsSeq(s) /\ Fits("read", "openai", SystemMessage(s))
           /\ Flat("read", "openai", SystemMessage(s)) = e
      /\ IsSeq(e) /\ IsSeq(Replied(msgs)) /\ IsSeq(Meant(msgs))
  BY <1>1, <1>2, SystemMessageIs, EachIs, FlatIsSeq DEF Retold, Replied, Meant
<1>4. ReadBody("openai", q) = e ++ Replied(msgs)
  <2>1. Flat("read", "openai", q.msgs) = e ++ Replied(msgs)
    BY <1>2, <1>3, FlatConcat DEF Retold, Replied
  <2>2. IsSeq(e ++ Replied(msgs))
    BY <1>3, ConcatAt
  <2>3. ReadBody("openai", q) = Nil ++ (e ++ Replied(msgs))
    BY <1>2, <2>1, ReadBodyIs, EachNone
  <2> QED BY <2>2, <2>3, EmptyConcat
<1>5. ReadBody("anthropic", b) = e ++ Meant(msgs)
  BY <1>1, ReadBodyIs DEF Meant
<1>6. /\ Fits("prompt", 0, e) /\ IsSeq(Flat("prompt", 0, e)) /\ \A T : Fold("tell", T, e) = T
  <2>1. Readable(s)
    <3>1. CASE s = Nil
      BY <3>1, NoneIsSeq DEF Readable
    <3>2. CASE s # Nil
      <4>1. In(s, Parts)
        BY <1>2, <3>2, TextAll DEF GoodSys, SystemContent
      <4> QED BY <4>1, PartsReadable
    <3> QED BY <3>1, <3>2
  <2> QED BY <1>1, <2>1, SystemSays, FlatIsSeq
<1>7. /\ Flat("prompt", 0, e ++ Replied(msgs)) = Flat("prompt", 0, e) ++ Nil
      /\ Flat("prompt", 0, e ++ Meant(msgs)) = Flat("prompt", 0, e) ++ Nil
  BY <1>2, <1>6, FlatConcat DEF Retold
<1>8. /\ Fold("tell", Nil, e ++ Replied(msgs)) = Fold("tell", Nil, Replied(msgs))
      /\ Fold("tell", Nil, e ++ Meant(msgs)) = Fold("tell", Nil, Meant(msgs))
  <2>1. /\ Fold("tell", Nil, e ++ Replied(msgs)) = Fold("tell", Fold("tell", Nil, e), Replied(msgs))
        /\ Fold("tell", Nil, e ++ Meant(msgs)) = Fold("tell", Fold("tell", Nil, e), Meant(msgs))
    BY <1>3, FoldCat
  <2> QED BY <1>6, <2>1
<1>9. IsSeq(e ++ Replied(msgs)) /\ IsSeq(e ++ Meant(msgs))
  BY <1>3, ConcatAt
<1>10. Turns(e ++ Replied(msgs)) = Turns(e ++ Meant(msgs))
  BY <1>2, <1>8, <1>9, TurnsIsFold DEF Retold, Nil
<1> QED BY <1>1, <1>4, <1>5, <1>7, <1>10, SystemPromptIs

-----------------------------------------------------------------------------
(***************************************************************************)
(* The calls that wait for their results.                                  *)
(***************************************************************************)
Heed(protocol, msgs) ==
  Fold(IF protocol = "responses" THEN "batch" ELSE "single", Start, Each("step", protocol, msgs))

LEMMA AnsweringIs ==
  ASSUME NEW protocol, NEW b, IsSeq(b.msgs)
  PROVE  Answering(Steps(protocol, b), protocol = "responses") = Heed(protocol, b.msgs)
<1>1. Steps(protocol, b) = Each("step", protocol, b.msgs)
  BY DEF Steps, Each, Make
<1>2. IsSeq(Each("step", protocol, b.msgs))
  BY EachIs
<1>3. CASE protocol = "responses"
  <2>1. Answering(Each("step", protocol, b.msgs), TRUE) = Fold("batch", Start, Each("step", protocol, b.msgs))
    BY <1>2, BatchedIsFold
  <2> QED BY <1>1, <1>3, <2>1 DEF Heed
<1>4. CASE protocol # "responses"
  <2>1. Answering(Each("step", protocol, b.msgs), FALSE) = Fold("single", Start, Each("step", protocol, b.msgs))
    BY <1>2, SinglyIsFold
  <2>2. (protocol = "responses") = FALSE
    BY <1>4
  <2> QED BY <1>1, <1>4, <2>1, <2>2 DEF Heed
<1> QED BY <1>3, <1>4

LEMMA HeedStart ==
  ASSUME NEW protocol
  PROVE  Heed(protocol, Nil) = Start
  BY EachNone, FoldNil DEF Heed

LEMMA HeedStep ==
  ASSUME NEW protocol, NEW msgs, IsSeq(msgs), NEW m
  PROVE  /\ protocol = "responses" =>
              Heed(protocol, App(msgs, m)) = Took(TRUE, Heed(protocol, msgs), StepOf(protocol, m))
         /\ protocol # "responses" =>
              Heed(protocol, App(msgs, m)) = Took(FALSE, Heed(protocol, msgs), StepOf(protocol, m))
<1>1. Each("step", protocol, App(msgs, m)) = App(Each("step", protocol, msgs), StepOf(protocol, m))
  <2>1. Make("step", protocol, m) = StepOf(protocol, m)
    BY DEF Make
  <2> QED BY <2>1, EachAppend
<1>2. IsSeq(Each("step", protocol, msgs))
  BY EachIs
<1> DEFINE t == IF protocol = "responses" THEN "batch" ELSE "single"
<1>3. Heed(protocol, App(msgs, m)) = Do(t, Heed(protocol, msgs), StepOf(protocol, m))
  BY <1>1, <1>2, FoldApp DEF Heed
<1>4. /\ t = "batch" => Do(t, Heed(protocol, msgs), StepOf(protocol, m)) = Took(TRUE, Heed(protocol, msgs), StepOf(protocol, m))
      /\ t = "single" => Do(t, Heed(protocol, msgs), StepOf(protocol, m)) = Took(FALSE, Heed(protocol, msgs), StepOf(protocol, m))
  <2> HIDE DEF t
  <2> QED BY DEF Do
<1> QED BY <1>3, <1>4

\* The calls blocks are about.
Ids(q) == {At(q, i).id : i \in 1..Size(q)}

LEMMA IdsAre ==
  ASSUME NEW type, NEW blocks, IsSeq(OfType({type}, blocks))
  PROVE  IdsOf(type, blocks) = Ids(OfType({type}, blocks))
<1>1. PICK q : q = OfType({type}, blocks)
  OBVIOUS
<1>2. DOMAIN q = 1..Size(q) /\ \A k : At(q, k) = q[k]
  BY <1>1, SizeDomain DEF At
<1> QED BY <1>1, <1>2 DEF IdsOf, Ids

LEMMA IdsNone == Ids(Nil) = {}
<1>1. Size(Nil) = 0
  BY NoneIsSeq
<1> QED BY <1>1 DEF Ids

LEMMA IdsOne ==
  ASSUME NEW b
  PROVE  Ids(One(b)) = {b.id}
<1>1. Size(One(b)) = 1 /\ At(One(b), 1) = b
  BY OneIs
<1> QED BY <1>1 DEF Ids

LEMMA IdsConcat ==
  ASSUME NEW s, IsSeq(s), NEW q, IsSeq(q)
  PROVE  Ids(s ++ q) = Ids(s) \cup Ids(q)
<1>1. PICK r : r = s ++ q
  OBVIOUS
<1>2. PICK l \in Nat, m \in Nat : l = Size(s) /\ m = Size(q)
  BY SizeIs
<1>3. /\ Size(r) = l + m
      /\ \A i \in 1..l : At(r, i) = At(s, i)
      /\ \A i \in 1..m : At(r, l + i) = At(q, i)
  BY <1>1, <1>2, ConcatAt
<1>4. ASSUME NEW x \in Ids(r) PROVE x \in Ids(s) \cup Ids(q)
  <2>1. PICK i \in 1..(l + m) : x = At(r, i).id
    BY <1>3, <1>4 DEF Ids
  <2>2. CASE i <= l
    <3>1. i \in 1..l
      BY <2>2
    <3> QED BY <1>2, <1>3, <2>1, <3>1 DEF Ids
  <2>3. CASE i > l
    <3>1. PICK j \in 1..m : i = l + j
      <4>1. i - l \in 1..m /\ i = l + (i - l)
        BY <2>3
      <4> QED BY <4>1
    <3> QED BY <1>2, <1>3, <2>1, <3>1 DEF Ids
  <2> QED BY <2>2, <2>3
<1>5. ASSUME NEW x \in Ids(s) PROVE x \in Ids(r)
  <2>1. PICK i \in 1..l : x = At(s, i).id
    BY <1>2, <1>5 DEF Ids
  <2>2. i \in 1..(l + m)
    OBVIOUS
  <2> QED BY <1>3, <2>1, <2>2 DEF Ids
<1>6. ASSUME NEW x \in Ids(q) PROVE x \in Ids(r)
  <2>1. PICK i \in 1..m : x = At(q, i).id
    BY <1>2, <1>6 DEF Ids
  <2>2. l + i \in 1..(l + m)
    OBVIOUS
  <2> QED BY <1>3, <2>1, <2>2 DEF Ids
<1> QED BY <1>1, <1>4, <1>5, <1>6

LEMMA CallingIds ==
  ASSUME NEW u, Calling(u)
  PROVE  Ids(u) \subseteq Calls /\ IsFiniteSet(Ids(u))
<1>1. \A b \in Uses : b.id \in Calls
  BY DEF Uses
<1>2. CASE u = Nil
  BY <1>2, IdsNone, FS_EmptySet
<1>3. CASE \E c \in Uses : u = One(c)
  <2>1. PICK c \in Uses : u = One(c)
    BY <1>3
  <2>2. Ids(u) = {c.id}
    BY <2>1, IdsOne
  <2> QED BY <1>1, <2>2, FS_Singleton
<1>4. CASE \E c \in Uses, d \in Uses : u = One(c) ++ One(d)
  <2>1. PICK c \in Uses, d \in Uses : u = One(c) ++ One(d)
    BY <1>4
  <2>2. Ids(u) = {c.id} \cup {d.id}
    BY <2>1, IdsOne, OneIs, IdsConcat
  <2>3. IsFiniteSet({c.id}) /\ IsFiniteSet({d.id})
    BY FS_Singleton
  <2> QED BY <1>1, <2>2, <2>3, FS_Union
<1> QED BY <1>2, <1>3, <1>4 DEF Calling

-----------------------------------------------------------------------------
(***************************************************************************)
(* What an anthropic client says.                                          *)
(***************************************************************************)
\* The results of some of the calls, in some order.
Distinct(o) == \A i, j \in 1..Size(o) : i # j => At(o, i) # At(o, j)

LEMMA PermutationsAre ==
  ASSUME NEW S, IsFiniteSet(S), NEW o \in SetToAllKPermutations(S)
  PROVE  In(o, S) /\ Distinct(o)
<1>1. PICK s \in SUBSET S : o \in SetToSeqs(s)
  BY DEF SetToAllKPermutations
<1>2. PICK n \in Nat : n = Cardinality(s)
  BY FS_Subset, FS_CardinalityType
<1>3. o \in [1..n -> s] /\ \A i, j \in 1..n : i # j => o[i] # o[j]
  BY <1>1, <1>2 DEF SetToSeqs
<1>4. IsSeq(o) /\ Size(o) = n
  <2>1. o = [k \in 1..n |-> o[k]]
    BY <1>3
  <2> QED BY <2>1, TableIs
<1>5. \A i \in 1..n : o[i] \in S
  BY <1>3
<1> QED BY <1>3, <1>4, <1>5 DEF In, Distinct, At

LEMMA ResultsAre ==
  ASSUME said \in Nat, NEW o, In(o, Calls)
  PROVE  /\ In(AnthropicResults(o), Outcomes) /\ Size(AnthropicResults(o)) = Size(o)
         /\ \A i \in 1..Size(o) : At(AnthropicResults(o), i).id = At(o, i)
<1>1. PICK q : q = AnthropicResults(o)
  OBVIOUS
<1>2. PICK n \in Nat : n = Size(o) /\ DOMAIN o = 1..n
  BY SizeIs, SizeDomain DEF In
<1>3. q = [k \in 1..n |-> Block("tool_result", o[k], Fresh(2 + k))]
  BY <1>1, <1>2 DEF AnthropicResults
<1>4. IsSeq(q) /\ Size(q) = n
  <2>1. q = [k \in 1..n |-> q[k]]
    BY <1>3
  <2> QED BY <2>1, TableIs
<1>5. ASSUME NEW i \in 1..n PROVE At(q, i) \in Outcomes /\ At(q, i).id = At(o, i)
  <2>1. At(q, i) = Block("tool_result", At(o, i), Fresh(2 + i))
    BY <1>3 DEF At
  <2>2. Fresh(2 + i) \in Frags
    <3>1. 2 + i \in Nat
      OBVIOUS
    <3> QED BY <3>1, FreshIs
  <2>3. At(o, i) \in Calls
    BY <1>2 DEF In
  <2> QED BY <2>1, <2>2, <2>3 DEF Block, Outcomes, Nil
<1> QED BY <1>1, <1>2, <1>4, <1>5 DEF In

LEMMA UseIs ==
  ASSUME said \in Nat, NEW c \in Calls, NEW k \in Nat
  PROVE  Block("tool_use", c, Fresh(k)) \in Uses
  BY FreshIs DEF Block, Uses, Nil

LEMMA CallsMade ==
  ASSUME said \in Nat, NEW cs \in CallSeqs
  PROVE  Calling(AnthropicCalls(cs))
<1>1. PICK q, s : q = AnthropicCalls(cs) /\ s = cs
  OBVIOUS
<1>2. IsSeq(s)
  BY <1>1, CallSeqsAre
<1>3. PICK n \in Nat : n = Size(s) /\ DOMAIN s = 1..n
  BY <1>2, SizeIs, SizeDomain
<1>4. q = [k \in 1..n |-> Block("tool_use", s[k], Fresh(3 + k))]
  BY <1>1, <1>3 DEF AnthropicCalls
<1>5. IsSeq(q) /\ Size(q) = n
  <2>1. q = [k \in 1..n |-> q[k]]
    BY <1>4
  <2> QED BY <2>1, TableIs
<1>6. \A i \in 1..n : At(q, i) = Block("tool_use", At(s, i), Fresh(3 + i))
  BY <1>4 DEF At
<1>7. CASE cs = <<>>
  <2>1. n = 0
    BY <1>1, <1>3, <1>7, NoneIsSeq DEF Nil
  <2>2. q = Nil
    BY <1>5, <2>1, EmptySize
  <2> QED BY <1>1, <2>2 DEF Calling
<1>8. CASE cs \in {<<c>> : c \in FreshCalls}
  <2>1. PICK c \in FreshCalls : cs = One(c)
    BY <1>8 DEF One
  <2>2. n = 1 /\ At(s, 1) = c
    BY <1>1, <1>3, <2>1, OneIs
  <2>3. PICK b : b = Block("tool_use", c, Fresh(3 + 1))
    OBVIOUS
  <2>4. b \in Uses
    BY <2>3, UseIs DEF FreshCalls
  <2>5. IsSeq(One(b)) /\ Size(One(b)) = 1 /\ At(One(b), 1) = b
    BY OneIs
  <2>6. \A i \in 1..1 : At(q, i) = At(One(b), i)
    BY <1>6, <2>2, <2>3, <2>5
  <2>7. q = One(b)
    BY <1>5, <2>2, <2>5, <2>6, SeqEq
  <2> QED BY <1>1, <2>4, <2>7 DEF Calling
<1>9. CASE cs \in {p \in FreshCalls \X FreshCalls : p[1] # p[2]}
  <2>1. PICK c \in FreshCalls, d \in FreshCalls : cs = <<c, d>>
    BY <1>9
  <2>2. s = One(c) ++ One(d)
    BY <1>1, <2>1, TwoIs
  <2>3. /\ IsSeq(One(c)) /\ Size(One(c)) = 1 /\ At(One(c), 1) = c
        /\ IsSeq(One(d)) /\ Size(One(d)) = 1 /\ At(One(d), 1) = d
    BY OneIs
  <2>4. n = 2 /\ At(s, 1) = c /\ At(s, 2) = d
    <3>1. Size(s) = 1 + 1 /\ (\A i \in 1..1 : At(s, i) = At(One(c), i))
            /\ \A i \in 1..1 : At(s, 1 + i) = At(One(d), i)
      BY <2>2, <2>3, ConcatAt
    <3>2. At(s, 1 + 1) = d
      BY <2>3, <3>1
    <3> QED BY <1>3, <2>3, <3>1, <3>2
  <2>5. PICK a, b : a = Block("tool_use", c, Fresh(3 + 1))
               /\ b = Block("tool_use", d, Fresh(3 + 2))
    OBVIOUS
  <2>6. a \in Uses /\ b \in Uses
    BY <2>5, UseIs DEF FreshCalls
  <2>7. PICK e : e = One(a) ++ One(b)
    OBVIOUS
  <2>8. /\ IsSeq(One(a)) /\ Size(One(a)) = 1 /\ At(One(a), 1) = a
        /\ IsSeq(One(b)) /\ Size(One(b)) = 1 /\ At(One(b), 1) = b
    BY OneIs
  <2>9. IsSeq(e) /\ Size(e) = 2 /\ At(e, 1) = a /\ At(e, 2) = b
    <3>1. IsSeq(e) /\ Size(e) = 1 + 1 /\ (\A i \in 1..1 : At(e, i) = At(One(a), i))
            /\ \A i \in 1..1 : At(e, 1 + i) = At(One(b), i)
      BY <2>7, <2>8, ConcatAt
    <3>2. At(e, 1 + 1) = b
      BY <2>8, <3>1
    <3> QED BY <2>8, <3>1, <3>2
  <2>10. \A i \in 1..2 : At(q, i) = At(e, i)
    <3>1. At(q, 1) = a /\ At(q, 2) = b
      BY <1>6, <2>4, <2>5
    <3>2. \A i \in 1..2 : i = 1 \/ i = 2
      OBVIOUS
    <3> QED BY <2>9, <3>1, <3>2
  <2>11. q = e
    BY <1>5, <2>4, <2>9, <2>10, SeqEq
  <2> QED BY <1>1, <2>6, <2>7, <2>11 DEF Calling
<1> QED BY <1>7, <1>8, <1>9 DEF CallSeqs

LEMMA ThoughtIs ==
  ASSUME said \in Nat, NEW k \in Nat, NEW s \in BOOLEAN
  PROVE  Thought(k, s) \in Thinks /\ Thought(k, s).text = Fresh(k)
         /\ Thought(k, s).sig = (IF s THEN Fresh(k) ELSE Nil)
<1>1. Fresh(k) \in Frags
  BY FreshIs
<1>2. PICK f, g : f = Fresh(k) /\ g = IF s THEN f ELSE Nil
  OBVIOUS
<1>3. [[type |-> "thinking", id |-> NoCall, text |-> f, sig |-> Nil, mark |-> FALSE] EXCEPT !.sig = g]
        = [type |-> "thinking", id |-> NoCall, text |-> f, sig |-> g, mark |-> FALSE]
  <2>1. \A h, u, n : [[type |-> u, id |-> n, text |-> f, sig |-> Nil, mark |-> h] EXCEPT !.sig = g]
                      = [type |-> u, id |-> n, text |-> f, sig |-> g, mark |-> h]
    OBVIOUS
  <2> QED BY <2>1
<1>4. Thought(k, s) = [Block("thinking", NoCall, f) EXCEPT !.sig = g]
  BY <1>2 DEF Thought, Nil
<1>5. Block("thinking", NoCall, f) = [type |-> "thinking", id |-> NoCall, text |-> f, sig |-> Nil, mark |-> FALSE]
  BY DEF Block, Nil
<1>6. Thought(k, s) = [type |-> "thinking", id |-> NoCall, text |-> f, sig |-> g, mark |-> FALSE]
  BY <1>3, <1>4, <1>5
<1>7. f \in Frags /\ g \in Frags \cup {Nil}
  BY <1>1, <1>2
<1> QED BY <1>2, <1>6, <1>7 DEF Thinks

LEMMA ThoughtsAre ==
  ASSUME said \in Nat, NEW t \in Thoughts
  PROVE  Thoughtful(t)
<1> DEFINE a == Thought(1, FALSE)
           b == Thought(1, TRUE)
           c == Thought(2, TRUE)
           d == Thought(2, FALSE)
<1>1. a \in Thinks /\ b \in Thinks /\ c \in Thinks /\ d \in Thinks
  BY ThoughtIs
<1>2. Thoughts = {<<>>, <<a>>, <<b>>, <<b, c>>, <<b, d>>}
  BY DEF Thoughts
<1> HIDE DEF a, b, c, d
<1>3. <<>> = Nil /\ <<a>> = One(a) /\ <<b>> = One(b) /\ <<b, c>> = One(b) ++ One(c)
        /\ <<b, d>> = One(b) ++ One(d)
  BY TwoIs DEF Nil, One
<1> QED BY <1>1, <1>2, <1>3 DEF Thoughtful

LEMMA AnthropicContents ==
  ASSUME said \in Nat
  PROVE  /\ \A p \in UserContents \cup {<<>>} : In(p, Parts)
         /\ \A p \in {<<>>, <<Text(Fresh(3))>>} : Wording(p)
<1>1. Text(Fresh(3)) \in Plains /\ <<>> = Nil /\ <<Text(Fresh(3))>> = One(Text(Fresh(3)))
  BY FreshIs, TextIs DEF Nil, One
<1> QED BY <1>1, OpenAiContents DEF Wording

\* Every message of an anthropic client is of one of two shapes.
LEMMA AnthropicShapes ==
  ASSUME said \in Nat, IsFiniteSet(Open), Open \subseteq Calls, NEW m \in AnthropicMessages
  PROVE  \/ \E o, p : /\ In(o, Open) /\ Distinct(o) /\ In(o, Calls) /\ In(p, Parts)
                      /\ m = Said("user", AnthropicResults(o) ++ p)
         \/ \E t \in Thoughts, cs \in CallSeqs : \E p :
              /\ Thoughtful(t) /\ Calling(AnthropicCalls(cs)) /\ Wording(p)
              /\ m = Said("assistant", (t ++ AnthropicCalls(cs)) ++ p)
<1>1. CASE m \in {Said("user", AnthropicResults(o) \o p) :
                    o \in SetToAllKPermutations(Open), p \in UserContents \cup {<<>>}}
  <2>1. PICK o \in SetToAllKPermutations(Open), p \in UserContents \cup {<<>>} :
          m = Said("user", AnthropicResults(o) ++ p)
    BY <1>1 DEF ++
  <2>2. In(o, Open) /\ Distinct(o)
    BY PermutationsAre
  <2>3. In(o, Calls)
    BY <2>2 DEF In
  <2>4. In(p, Parts)
    BY AnthropicContents
  <2> QED BY <2>1, <2>2, <2>3, <2>4
<1>2. CASE m \in {Said("assistant", t \o AnthropicCalls(cs) \o p) :
                    t \in Thoughts, p \in {<<>>, <<Text(Fresh(3))>>}, cs \in CallSeqs}
  <2>1. PICK t \in Thoughts, p \in {<<>>, <<Text(Fresh(3))>>}, cs \in CallSeqs :
          m = Said("assistant", (t ++ AnthropicCalls(cs)) ++ p)
    BY <1>2 DEF ++
  <2> QED BY <2>1, ThoughtsAre, CallsMade, AnthropicContents
<1> QED BY <1>1, <1>2 DEF AnthropicMessages

LEMMA AnthropicRetells ==
  ASSUME said \in Nat, IsFiniteSet(Open), Open \subseteq Calls, NEW m \in AnthropicMessages
  PROVE  Retells(m) /\ IsSeq(TakenApart(m))
<1>1. ASSUME NEW o, In(o, Calls), NEW p, In(p, Parts),
               m = Said("user", AnthropicResults(o) ++ p)
      PROVE  Retells(m) /\ IsSeq(TakenApart(m))
  BY <1>1, ResultsAre, UserRetells
<1>2. ASSUME NEW t \in Thoughts, NEW cs \in CallSeqs, NEW p, Thoughtful(t),
               Calling(AnthropicCalls(cs)), Wording(p),
             m = Said("assistant", (t ++ AnthropicCalls(cs)) ++ p)
      PROVE  Retells(m) /\ IsSeq(TakenApart(m))
  BY <1>2, AssistantRetells
<1> QED BY <1>1, <1>2, AnthropicShapes

-----------------------------------------------------------------------------
(***************************************************************************)
(* The invariant.                                                          *)
(***************************************************************************)
Bodied ==
  /\ said \in Nat /\ <<client, provider>> \in Pairs
  /\ body = [set |-> body.set, sys |-> body.sys, msgs |-> body.msgs]
  /\ body.set \in Settings /\ GoodSys(body.sys) /\ IsSeq(body.msgs)
\* The calls the client still owes results for.
Waiting == Heed(client, body.msgs).open
\* What was said so far says the same translated, pair by pair.
Translated ==
  /\ client = "openai" => body.sys = Nil /\ Faithful(body.msgs)
  /\ client = "anthropic" =>
       Retold(body.sys, body.msgs) /\ IsFiniteSet(Waiting) /\ Waiting \subseteq Calls
  /\ client = "responses" => Carried(body.sys, body.msgs)
\* The part of the inductive invariant SameConversation rests on.
Held == Bodied /\ Translated

LEMMA OpenIs ==
  ASSUME IsSeq(body.msgs)
  PROVE  Open = Waiting
  BY AnsweringIs DEF Open, Waiting

LEMMA FirstPrompts ==
  /\ GoodSys(<<>>) /\ GoodSys(<<Text(<<1>>)>>)
  /\ GoodSys(<<[Text(<<1>>) EXCEPT !.mark = TRUE], Text(<<2>>)>>)
<1> DEFINE f == <<1>>
           g == <<2>>
           m == [Text(f) EXCEPT !.mark = TRUE]
           t == Text(g)
           u == Text(f)
<1>1. f \in Frags /\ g \in Frags
  BY DEF Frags, One
<1>2. m \in Texts /\ m.mark /\ t \in Texts /\ u \in Plains /\ u \in Texts
  <2> HIDE DEF f, g
  <2> QED BY <1>1, TextIs
<1> HIDE DEF f, g, m, t, u
<1>3. <<>> = Nil /\ <<u>> = One(u) /\ <<m, t>> = One(m) ++ One(t)
  BY TwoIs DEF Nil, One
<1>4. In(One(u), Texts)
  BY <1>2, InOne
<1>5. PICK c : c = One(m) ++ One(t)
  OBVIOUS
<1>6. In(c, Texts)
  BY <1>2, <1>5, InOne, InConcat
<1>7. Marked(c)
  <2>1. IsSeq(One(m)) /\ Size(One(m)) = 1 /\ At(One(m), 1) = m /\ IsSeq(One(t))
          /\ Size(One(t)) = 1
    BY OneIs
  <2>2. Size(c) = 1 + 1 /\ \A i \in 1..1 : At(c, i) = At(One(m), i)
    BY <1>5, <2>1, ConcatAt
  <2>3. 1 \in 1..Size(c) /\ At(c, 1) = m
    BY <2>1, <2>2
  <2> QED BY <1>2, <1>6, <2>3, MarkedIs DEF In
<1>8. GoodSys(Nil) /\ GoodSys(One(u)) /\ GoodSys(c)
  BY <1>2, <1>4, <1>6, <1>7 DEF GoodSys, SystemContent
<1> QED BY <1>3, <1>5, <1>8 DEF f, g, m, t, u

LEMMA HeldFirst ==
  ASSUME Init
  PROVE  Held
<1>1. PICK set \in Settings, sys \in {<<>>, <<Text(<<1>>)>>, <<[Text(<<1>>) EXCEPT !.mark = TRUE], Text(<<2>>)>>} :
        (client = "openai" => sys = <<>>) /\ body = [set |-> set, sys |-> sys, msgs |-> <<>>]
  BY DEF Init
<1>2. body.set = set /\ body.sys = sys /\ body.msgs = Nil
  BY <1>1 DEF Nil
<1>3. GoodSys(sys)
  BY FirstPrompts
<1>4. said \in Nat
  BY DEF Init
<1>5. <<client, provider>> \in Pairs
  <2>1. PICK p \in Pairs : client = p[1] /\ provider = p[2]
    BY DEF Init
  <2>2. p = <<p[1], p[2]>>
    BY DEF Pairs
  <2> QED BY <2>1, <2>2
<1>6. body = [set |-> body.set, sys |-> body.sys, msgs |-> body.msgs]
  BY <1>1
<1>7. Bodied
  BY <1>2, <1>3, <1>4, <1>5, <1>6, NoneIsSeq DEF Bodied
<1>8. Waiting = {}
  BY <1>2, HeedStart DEF Waiting, Start
<1>9. client = "openai" => sys = Nil
  BY <1>1 DEF Nil
<1>10. Translated
  BY <1>2, <1>3, <1>8, <1>9, FaithfulStart, RetoldStart, CarriedStart,
     FS_EmptySet DEF Translated
<1> QED BY <1>7, <1>10 DEF Held

\* The step an anthropic message is.
LEMMA BlocksStepIs ==
  ASSUME NEW w, NEW bs, IsSeq(OfType({"tool_use"}, bs)), IsSeq(OfType({"tool_result"}, bs))
  PROVE  /\ StepOf("anthropic", Said(w, bs)).calls = Ids(OfType({"tool_use"}, bs))
         /\ StepOf("anthropic", Said(w, bs)).results = Ids(OfType({"tool_result"}, bs))
         /\ StepOf("anthropic", Said(w, bs)).talk = (bs # <<>> /\ Head(bs).type # "tool_result")
<1>1. PICK m : m = Said(w, bs)
  OBVIOUS
<1>2. m.content = bs
  BY <1>1, SaidIs
<1>3. StepOf("anthropic", m) = BlocksStep(m)
  BY DEF StepOf
<1>4. /\ BlocksStep(m).calls = IdsOf("tool_use", bs)
           /\ BlocksStep(m).results = IdsOf("tool_result", bs)
      /\ BlocksStep(m).talk = (bs # <<>> /\ Head(bs).type # "tool_result")
  BY <1>2 DEF BlocksStep, Step
<1> QED BY <1>1, <1>3, <1>4, IdsAre

LEMMA AnthropicUserStep ==
  ASSUME NEW r, In(r, Outcomes), NEW p, In(p, Parts)
  PROVE  /\ StepOf("anthropic", Said("user", r ++ p)).calls = {}
         /\ StepOf("anthropic", Said("user", r ++ p)).results = Ids(r)
<1>1. PICK bs : bs = r ++ p
  OBVIOUS
<1>2. IsSeq(r) /\ IsSeq(p)
  BY DEF In
<1>3. OfType({"tool_use"}, bs) = Nil
  <2>1. OfType({"tool_use"}, bs) = Nil ++ Nil
    BY <1>1, <1>2, OfTypeConcat, BlocksAre
  <2> QED BY <2>1, EmptyConcat, NoneIsSeq
<1>4. OfType({"tool_result"}, bs) = r
  <2>1. OfType({"tool_result"}, bs) = r ++ Nil
    BY <1>1, <1>2, OfTypeConcat, BlocksAre
  <2> QED BY <1>2, <2>1, EmptyConcat
<1> QED BY <1>1, <1>2, <1>3, <1>4, BlocksStepIs, IdsNone, NoneIsSeq

LEMMA AnthropicAssistantStep ==
  ASSUME NEW t, Thoughtful(t), NEW u, Calling(u), NEW p, Wording(p)
  PROVE  /\ StepOf("anthropic", Said("assistant", (t ++ u) ++ p)).calls = Ids(u)
         /\ StepOf("anthropic", Said("assistant", (t ++ u) ++ p)).results = {}
<1>1. PICK bs : bs = (t ++ u) ++ p
  OBVIOUS
<1>2. In(t, Thinks) /\ In(u, Uses) /\ In(p, Texts) /\ IsSeq(t) /\ IsSeq(u) /\ IsSeq(p)
        /\ IsSeq(t ++ u)
  BY AssistantParts, ConcatAt
<1>3. OfType({"tool_use"}, bs) = u
  <2>1. OfType({"tool_use"}, bs) = (Nil ++ u) ++ Nil
    BY <1>1, <1>2, OfTypeConcat, BlocksAre
  <2> QED BY <1>2, <2>1, EmptyConcat
<1>4. OfType({"tool_result"}, bs) = Nil
  <2>1. OfType({"tool_result"}, bs) = (Nil ++ Nil) ++ Nil
    BY <1>1, <1>2, OfTypeConcat, BlocksAre
  <2> QED BY <2>1, EmptyConcat, NoneIsSeq
<1> QED BY <1>1, <1>2, <1>3, <1>4, BlocksStepIs, IdsNone, NoneIsSeq

LEMMA WaitingStep ==
  ASSUME Held, client = "anthropic", NEW m \in AnthropicMessages, NEW st,
         st = Took(FALSE, Heed("anthropic", body.msgs), StepOf("anthropic", m))
  PROVE  IsFiniteSet(st.open) /\ st.open \subseteq Calls
<1>1. PICK q : q = Heed("anthropic", body.msgs)
  OBVIOUS
<1>2. IsFiniteSet(q.open) /\ q.open \subseteq Calls /\ Open = q.open /\ said \in Nat
  BY <1>1, OpenIs DEF Held, Translated, Waiting, Bodied
<1>3. st.open = (q.open \ StepOf("anthropic", m).results) \cup StepOf("anthropic", m).calls
  BY <1>1 DEF Took
<1>4. IsFiniteSet(StepOf("anthropic", m).calls) /\ StepOf("anthropic", m).calls \subseteq Calls
  <2>1. ASSUME NEW o, In(o, Calls), NEW p, In(p, Parts),
                 m = Said("user", AnthropicResults(o) ++ p)
        PROVE  StepOf("anthropic", m).calls = {}
    BY <1>2, <2>1, ResultsAre, AnthropicUserStep
  <2>2. ASSUME NEW t \in Thoughts, NEW cs \in CallSeqs, NEW p, Thoughtful(t),
                 Calling(AnthropicCalls(cs)), Wording(p),
               m = Said("assistant", (t ++ AnthropicCalls(cs)) ++ p)
        PROVE  IsFiniteSet(StepOf("anthropic", m).calls)
                 /\ StepOf("anthropic", m).calls \subseteq Calls
    BY <2>2, AnthropicAssistantStep, CallingIds
  <2> QED BY <1>2, <2>1, <2>2, AnthropicShapes, FS_EmptySet
<1>5. IsFiniteSet(q.open \ StepOf("anthropic", m).results)
  BY <1>2, FS_Difference
<1> QED BY <1>2, <1>3, <1>4, <1>5, FS_Union

\* A message is added at the end, and nothing else changes.
LEMMA AddIs ==
  ASSUME Bodied, NEW m, Add(m), NEW msgs, msgs = body.msgs, NEW sys, sys = body.sys
  PROVE  /\ body'.msgs = App(msgs, m) /\ body'.sys = sys /\ body'.set = body.set
         /\ body' = [set |-> body'.set, sys |-> body'.sys, msgs |-> body'.msgs]
         /\ client' = client /\ provider' = provider /\ said' \in Nat
<1>1. PICK set : set = body.set
  OBVIOUS
<1>2. body = [set |-> set, sys |-> sys, msgs |-> msgs]
  BY <1>1 DEF Bodied
<1>3. body' = [body EXCEPT !.msgs = App(msgs, m)]
  BY DEF Add, App
<1>4. body' = [set |-> set, sys |-> sys, msgs |-> App(msgs, m)]
  BY <1>2, <1>3
<1>5. body'.msgs = App(msgs, m) /\ body'.sys = sys /\ body'.set = set
  BY <1>4
<1>6. client' = client /\ provider' = provider /\ said' = said + 6 /\ said \in Nat
  BY DEF Add, Bodied
<1> QED BY <1>1, <1>4, <1>5, <1>6

LEMMA HeldNext ==
  ASSUME Held, [Next]_vars
  PROVE  Held'
<1>1. CASE UNCHANGED vars
  BY <1>1 DEF vars, Held, Bodied, Translated, Waiting, Heed, Start, Faithful, Retold,
     Carried
<1>2. CASE Next
  <2>1. PICK m \in Messages : Add(m)
    BY <1>2 DEF Next
  <2>2. PICK msgs, sys : msgs = body.msgs /\ sys = body.sys
    OBVIOUS
  <2>3. /\ body'.msgs = App(msgs, m) /\ body'.sys = sys /\ body'.set = body.set
        /\ body' = [set |-> body'.set, sys |-> body'.sys, msgs |-> body'.msgs]
        /\ client' = client /\ provider' = provider /\ said' \in Nat
    BY <2>1, <2>2, AddIs DEF Held
  <2>4. IsSeq(App(msgs, m)) /\ IsSeq(msgs)
    BY <2>2, AppendAt DEF Held, Bodied
  <2>5. Bodied'
    BY <2>2, <2>3, <2>4 DEF Held, Bodied
  <2>6. (client = "openai" => body.sys = Nil /\ Faithful(body.msgs))'
    <3>1. ASSUME client = "openai" PROVE sys = Nil /\ Faithful(App(msgs, m))
      <4>1. m \in OpenAiMessages
        BY <2>1, <3>1 DEF Messages
      <4>2. Prompting(m) \/ Speaking(m)
        BY <4>1, OpenAiMessagesFit DEF Held, Bodied
      <4>3. sys = Nil /\ Faithful(msgs)
        BY <2>2, <3>1 DEF Held, Translated
      <4> QED BY <4>2, <4>3, PromptingStep, SpeakingStep
    <3> QED BY <2>3, <3>1
  <2>7. (client = "anthropic" =>
           Retold(body.sys, body.msgs) /\ IsFiniteSet(Waiting) /\ Waiting \subseteq Calls)'
    <3>1. ASSUME client = "anthropic"
          PROVE  /\ Retold(sys, App(msgs, m)) /\ IsFiniteSet(Heed(client, App(msgs, m)).open)
                 /\ Heed(client, App(msgs, m)).open \subseteq Calls
      <4>1. m \in AnthropicMessages
        BY <2>1, <3>1 DEF Messages
      <4>2. said \in Nat /\ IsFiniteSet(Open) /\ Open \subseteq Calls
        BY <3>1, OpenIs DEF Held, Translated, Bodied
      <4>3. Retold(sys, msgs)
        BY <2>2, <3>1 DEF Held, Translated
      <4>4. Retold(sys, App(msgs, m))
        BY <4>1, <4>2, <4>3, AnthropicRetells, RetoldStep
      <4>5. PICK st : st = Took(FALSE, Heed("anthropic", msgs), StepOf("anthropic", m))
        OBVIOUS
      <4>6. Heed("anthropic", App(msgs, m)) = st
        BY <2>4, <4>5, HeedStep
      <4> QED BY <2>2, <3>1, <4>1, <4>4, <4>5, <4>6, WaitingStep
    <3> QED BY <2>3, <3>1 DEF Waiting
  <2>8. (client = "responses" => Carried(body.sys, body.msgs))'
    <3>1. ASSUME client = "responses" PROVE Carried(sys, App(msgs, m))
      <4>1. m \in ResponsesItems
        BY <2>1, <3>1 DEF Messages
      <4>2. GoodItem(m)
        BY <4>1, ResponsesItemsFit DEF Held, Bodied
      <4>3. Carried(sys, msgs)
        BY <2>2, <3>1 DEF Held, Translated
      <4> QED BY <4>2, <4>3, CarriedStep
    <3> QED BY <2>3, <3>1
  <2> QED BY <2>5, <2>6, <2>7, <2>8 DEF Held, Translated
<1> QED BY <1>1, <1>2

\* What is kept of the settings.
SettingsKept ==
  LET set == Converted.set
  IN /\ set.stream = body.set.stream /\ set.choice = body.set.choice
     /\ set.max = IF body.set.max = 0 /\ provider = "anthropic" /\ client # "anthropic"
                  THEN DefaultMax ELSE body.set.max
     /\ "function" \in set.tools <=> "function" \in body.set.tools
     /\ provider = "openai" /\ set.stream => set.usage

PairCases ==
  \/ client = provider
  \/ client = "openai" /\ provider = "anthropic"
  \/ client = "anthropic" /\ provider = "openai"
  \/ client = "responses" /\ provider = "openai"
  \/ client = "responses" /\ provider = "anthropic"

LEMMA PairsAre ==
  ASSUME Bodied
  PROVE  PairCases
  BY DEF Bodied, Pairs, Protocols, PairCases

LEMMA HeldSettings ==
  ASSUME Held
  PROVE  SettingsKept
<1>1. PICK set, q : set = body.set /\ q = Converted.set
  OBVIOUS
<1>2. set \in [stream : BOOLEAN, usage : BOOLEAN, max : Nat, tools : SUBSET {"function", "builtin"},
               choice : {"unset", "auto", "none", "required", "named"}]
  BY <1>1, RequestsAssumption DEF Held, Bodied
<1>3. IsSeq(body.msgs)
  BY DEF Held, Bodied
<1>4. CASE client = provider
  <2>1. Converted = PassOn(body)
    BY <1>4 DEF Converted
  <2>2. CASE client = "openai" /\ set.stream
    <3>1. q = [set EXCEPT !.usage = TRUE]
      BY <1>1, <2>1, <2>2 DEF PassOn, Held, Bodied
    <3> QED BY <1>1, <1>2, <1>4, <2>2, <3>1 DEF SettingsKept
  <2>3. CASE ~(client = "openai" /\ set.stream)
    <3>1. q = set
      BY <1>1, <2>1, <2>3 DEF PassOn
    <3> QED BY <1>1, <1>2, <1>4, <2>3, <3>1 DEF SettingsKept
  <2> QED BY <2>2, <2>3
<1>5. CASE client = "openai" /\ provider = "anthropic"
  <2>1. q = [set EXCEPT !.usage = FALSE, !.max = IF @ = 0 THEN DefaultMax ELSE @]
    BY <1>1, <1>3, <1>5, ToAnthropicIs DEF Converted
  <2> QED BY <1>1, <1>2, <1>5, <2>1 DEF SettingsKept
<1>6. CASE client = "anthropic" /\ provider = "openai"
  <2>1. q = [set EXCEPT !.usage = set.stream]
    BY <1>1, <1>6, ToOpenAiIs DEF Converted
  <2> QED BY <1>1, <1>2, <1>6, <2>1 DEF SettingsKept
<1>7. CASE client = "responses" /\ provider = "openai"
  <2>1. q = [set EXCEPT !.usage = set.stream, !.tools = @ \cap {"function"}]
    BY <1>1, <1>7, ToOpenAiIs DEF Converted
  <2> QED BY <1>1, <1>2, <1>7, <2>1 DEF SettingsKept
<1>8. CASE client = "responses" /\ provider = "anthropic"
  <2>1. PICK b : b = ResponsesToOpenAi(body)
    OBVIOUS
  <2>2. b.set = [set EXCEPT !.usage = set.stream, !.tools = @ \cap {"function"}]
          /\ b.msgs = Mid(body.sys, body.msgs)
    BY <1>1, <2>1, ToOpenAiIs DEF Mid
  <2>3. IsSeq(b.msgs)
    BY <1>8, <2>2 DEF Held, Translated, Carried, Faithful, Fitting
  <2>4. q = [b.set EXCEPT !.usage = FALSE, !.max = IF @ = 0 THEN DefaultMax ELSE @]
    BY <1>1, <1>8, <2>1, <2>3, ToAnthropicIs DEF Converted
  <2> QED BY <1>1, <1>2, <1>8, <2>2, <2>4 DEF SettingsKept
<1> QED BY <1>4, <1>5, <1>6, <1>7, <1>8, PairsAre DEF Held, PairCases

LEMMA HeldConversation ==
  ASSUME Held
  PROVE  /\ SystemPrompt(ReadBody(provider, Converted)) = SystemPrompt(ReadBody(client, body))
         /\ Turns(ReadBody(provider, Converted)) = Turns(ReadBody(client, body))
<1>1. CASE client = provider
  <2>1. Converted = PassOn(body)
    BY <1>1 DEF Converted
  <2>2. Converted.msgs = body.msgs /\ Converted.sys = body.sys
    BY <2>1 DEF PassOn, Held, Bodied
  <2>3. ReadBody(provider, Converted) = ReadBody(client, body)
    BY <1>1, <2>2, ReadBodyIs
  <2> QED BY <2>3
<1>2. CASE client = "openai" /\ provider = "anthropic"
  <2>1. Converted = OpenAiToAnthropic(body)
    BY <1>2 DEF Converted
  <2> QED BY <1>2, <2>1, FaithfulBody DEF Held, Translated
<1>3. CASE client = "anthropic" /\ provider = "openai"
  <2>1. Converted = AnthropicToOpenAi(body)
    BY <1>3 DEF Converted
  <2> QED BY <1>3, <2>1, RetoldBody DEF Held, Translated
<1>4. CASE client = "responses" /\ provider = "openai"
  <2>1. Converted = ResponsesToOpenAi(body)
    BY <1>4 DEF Converted
  <2> QED BY <1>4, <2>1, CarriedBody DEF Held, Translated
<1>5. CASE client = "responses" /\ provider = "anthropic"
  <2>1. Converted = OpenAiToAnthropic(ResponsesToOpenAi(body))
    BY <1>5 DEF Converted
  <2> QED BY <1>5, <2>1, CarriedBody DEF Held, Translated
<1> QED BY <1>1, <1>2, <1>3, <1>4, <1>5, PairsAre DEF Held, PairCases

\* The types of a conversation, and that what was translated so far says what the
\* client said, is kept by every step.
LEMMA SpecHeld == Spec => []Held
<1>1. Init => Held
  BY HeldFirst
<1>2. Held /\ [Next]_vars => Held'
  BY HeldNext
<1> QED BY <1>1, <1>2, PTL DEF Spec

\* The provider reads the conversation the client sent, for any conversation
\* and between any two protocols convert_request translates between.
THEOREM ConversationKept == Spec => []SameConversation
<1>1. Held => SameConversation
  <2> SUFFICES ASSUME Held PROVE SameConversation
    OBVIOUS
  <2>1. SettingsKept
    BY HeldSettings
  <2> QED BY <2>1, HeldConversation DEF SameConversation, SettingsKept
<1> QED BY <1>1, SpecHeld, PTL

-----------------------------------------------------------------------------
(***************************************************************************)
(* What a provider asks of each message, told apart by a name n.           *)
(***************************************************************************)
Good(n, x) ==
  CASE n = "block"   -> x.sig \in {<<>>, x.text}
    [] n = "turn"    -> /\ "calls" \notin DOMAIN x /\ x.content # <<>>
                        /\ \A j \in DOMAIN x.content : x.content[j].sig \in {<<>>, x.content[j].text}
    [] n = "message" -> "calls" \in DOMAIN x /\ x.sig \in {<<>>, x.think}
All(n, s) == IsSeq(s) /\ \A i \in 1..Size(s) : Good(n, At(s, i))

LEMMA AllNone ==
  ASSUME NEW n
  PROVE  All(n, Nil)
  BY NoneIsSeq DEF All

LEMMA AllOne ==
  ASSUME NEW n, NEW x, Good(n, x)
  PROVE  All(n, One(x))
<1>1. IsSeq(One(x)) /\ Size(One(x)) = 1 /\ At(One(x), 1) = x
  BY OneIs
<1>2. \A i \in 1..1 : At(One(x), i) = x
  BY <1>1
<1> QED BY <1>1, <1>2 DEF All

LEMMA AllConcat ==
  ASSUME NEW n, NEW s, All(n, s), NEW q, All(n, q)
  PROVE  All(n, s ++ q)
<1>1. PICK r : r = s ++ q
  OBVIOUS
<1>2. PICK l \in Nat, m \in Nat : l = Size(s) /\ m = Size(q)
  BY SizeIs DEF All
<1>3. /\ IsSeq(r) /\ Size(r) = l + m
      /\ \A i \in 1..l : At(r, i) = At(s, i)
      /\ \A i \in 1..m : At(r, l + i) = At(q, i)
  BY <1>1, <1>2, ConcatAt DEF All
<1>4. ASSUME NEW i \in 1..(l + m) PROVE Good(n, At(r, i))
  <2>1. CASE i <= l
    <3>1. i \in 1..l
      BY <2>1
    <3> QED BY <1>2, <1>3, <3>1 DEF All
  <2>2. CASE i > l
    <3>1. PICK j \in 1..m : i = l + j
      <4>1. i - l \in 1..m /\ i = l + (i - l)
        BY <2>2
      <4> QED BY <4>1
    <3> QED BY <1>2, <1>3, <3>1 DEF All
  <2> QED BY <2>1, <2>2
<1> QED BY <1>1, <1>3, <1>4 DEF All

LEMMA AllAppend ==
  ASSUME NEW n, NEW f, IsSeq(f), NEW x
  PROVE  All(n, App(f, x)) <=> All(n, f) /\ Good(n, x)
<1>1. ASSUME All(n, f), Good(n, x) PROVE All(n, App(f, x))
  BY <1>1, AllOne, AllConcat, AppIsCat
<1>2. ASSUME All(n, App(f, x)) PROVE All(n, f) /\ Good(n, x)
  <2>0. PICK a : a = App(f, x)
    OBVIOUS
  <2>1. PICK k \in Nat : k = Size(f)
    BY SizeIs
  <2>2. Size(a) = k + 1 /\ At(a, k + 1) = x /\ \A i \in 1..k : At(a, i) = At(f, i)
    BY <2>0, <2>1, AppendAt
  <2>3. \A i \in 1..(k + 1) : Good(n, At(a, i))
    BY <1>2, <2>0, <2>2 DEF All
  <2>4. k + 1 \in 1..(k + 1) /\ \A i \in 1..k : i \in 1..(k + 1)
    OBVIOUS
  <2>5. Good(n, x) /\ \A i \in 1..k : Good(n, At(f, i))
    BY <2>2, <2>3, <2>4
  <2> QED BY <2>1, <2>5 DEF All
<1> QED BY <1>1, <1>2

\* Roles alternate.
Alt(P) == \A k \in 1..(Size(P) - 1) : At(P, k).role # At(P, k + 1).role

LEMMA AltAppend ==
  ASSUME NEW f, IsSeq(f), NEW x
  PROVE  Alt(App(f, x)) <=> Alt(f) /\ (f = Nil \/ Last(f).role # x.role)
<1>0. PICK a : a = App(f, x)
  OBVIOUS
<1>1. PICK n \in Nat : n = Size(f)
  BY SizeIs
<1>2. Size(a) = n + 1 /\ At(a, n + 1) = x /\ \A i \in 1..n : At(a, i) = At(f, i)
  BY <1>0, <1>1, AppendAt
<1>3. f = Nil <=> n = 0
  BY <1>1, EmptySize
<1>4. n # 0 => Last(f) = At(f, n)
  BY <1>1 DEF Last, At, Size
<1>5. Alt(a) <=> \A k \in 1..n : At(a, k).role # At(a, k + 1).role
  <2>1. Size(a) - 1 = n
    BY <1>2
  <2> QED BY <2>1 DEF Alt
<1>6. Alt(f) <=> \A k \in 1..(n - 1) : At(f, k).role # At(f, k + 1).role
  BY <1>1 DEF Alt
<1>7. ASSUME Alt(a) PROVE Alt(f) /\ (n = 0 \/ At(f, n).role # x.role)
  <2>1. ASSUME NEW k \in 1..(n - 1) PROVE At(f, k).role # At(f, k + 1).role
    <3>1. k \in 1..n /\ k + 1 \in 1..n
      OBVIOUS
    <3> QED BY <1>2, <1>5, <1>7, <3>1
  <2>2. ASSUME n # 0 PROVE At(f, n).role # x.role
    <3>1. n \in 1..n
      BY <2>2
    <3> QED BY <1>2, <1>5, <1>7, <3>1
  <2> QED BY <1>6, <2>1, <2>2
<1>8. ASSUME Alt(f), n = 0 \/ At(f, n).role # x.role PROVE Alt(a)
  <2>1. ASSUME NEW k \in 1..n PROVE At(a, k).role # At(a, k + 1).role
    <3>1. CASE k = n
      BY <1>2, <1>8, <3>1
    <3>2. CASE k # n
      <4>1. k \in 1..(n - 1) /\ k + 1 \in 1..n
        BY <3>2
      <4> QED BY <1>2, <1>6, <1>8, <4>1
    <3> QED BY <3>1, <3>2
  <2> QED BY <1>5, <2>1
<1> QED BY <1>0, <1>3, <1>4, <1>7, <1>8

\* The calls of a content, its results, and whether something is said first.
Asks(c)  == Ids(OfType({"tool_use"}, c))
Gives(c) == Ids(OfType({"tool_result"}, c))
Talks(c) == c # Nil /\ At(c, 1).type # "tool_result"

LEMMA OfTypeIsSeq ==
  ASSUME NEW types, NEW s, IsSeq(s)
  PROVE  IsSeq(OfType(types, s))
<1>1. Fits("of", types, s)
  <2>1. \A x : Make("of", types, x) = One(x) \/ Make("of", types, x) = Nil
    BY DEF Make, One, Nil
  <2> QED BY <2>1, OneIs, NoneIsSeq DEF Fits
<1> QED BY <1>1, FlatIsSeq, OfTypeIs

LEMMA AsksConcat ==
  ASSUME NEW s, IsSeq(s), NEW q, IsSeq(q)
  PROVE  /\ Asks(s ++ q) = Asks(s) \cup Asks(q) /\ Gives(s ++ q) = Gives(s) \cup Gives(q)
         /\ s # Nil => (Talks(s ++ q) <=> Talks(s))
<1>1. Asks(s ++ q) = Asks(s) \cup Asks(q) /\ Gives(s ++ q) = Gives(s) \cup Gives(q)
  BY OfTypeConcat, OfTypeIsSeq, IdsConcat DEF Asks, Gives
<1>2. ASSUME s # Nil PROVE Talks(s ++ q) <=> Talks(s)
  <2>0. PICK r : r = s ++ q
    OBVIOUS
  <2>1. PICK l \in Nat, m \in Nat : l = Size(s) /\ m = Size(q)
    BY SizeIs
  <2>2. Size(r) = l + m /\ l # 0 /\ \A i \in 1..l : At(r, i) = At(s, i)
    BY <1>2, <2>0, <2>1, ConcatAt, EmptySize
  <2>3. 1 \in 1..l /\ l + m # 0
    BY <2>2
  <2>4. At(r, 1) = At(s, 1) /\ r # Nil
    BY <2>2, <2>3, NoneIsSeq
  <2> QED BY <1>2, <2>0, <2>4 DEF Talks
<1> QED BY <1>1, <1>2

LEMMA AsksNone == Asks(Nil) = {} /\ Gives(Nil) = {} /\ ~Talks(Nil)
<1>1. OfType({"tool_use"}, Nil) = Nil /\ OfType({"tool_result"}, Nil) = Nil
  BY OfTypeIs, FlatNone
<1> QED BY <1>1, IdsNone DEF Asks, Gives, Talks

LEMMA HeadIs ==
  ASSUME NEW c, IsSeq(c)
  PROVE  (c # <<>> /\ Head(c).type # "tool_result") <=> Talks(c)
<1>1. \A s : Head(s) = s[1]
  OBVIOUS
<1> QED BY <1>1 DEF Talks, Nil, At

-----------------------------------------------------------------------------
(***************************************************************************)
(* Turns that keep to the order of an anthropic provider.                  *)
(***************************************************************************)
Ends(f, r, c, open) ==
  /\ Heed("anthropic", f).ok
  /\ r = "user" => /\ Asks(c) = {} /\ Gives(c) \subseteq Heed("anthropic", f).open
                   /\ open = Heed("anthropic", f).open \ Gives(c)
                   /\ Talks(c) => Heed("anthropic", f).open = {}
  /\ r = "assistant" => Heed("anthropic", f).open = {} /\ Gives(c) = {} /\ open = Asks(c)
Ending(P, open, f, r, c) ==
  /\ r \in Sides /\ Spoken(f) /\ IsSeq(c) /\ c # Nil /\ P = App(f, Turn(r, c))
       /\ Ends(f, r, c, open)
Answered(P, open) ==
  \/ P = Nil /\ open = {}
  \/ \E f, r, c : Ending(P, open, f, r, c)
\* A conversation an anthropic provider takes, with these calls unanswered.
Proper(P, open) == Spoken(P) /\ All("turn", P) /\ Alt(P) /\ Answered(P, open)
By(P, role) == P # Nil /\ Last(P).role = role

LEMMA TurnStep ==
  ASSUME NEW r, NEW c, IsSeq(c)
  PROVE  /\ StepOf("anthropic", Turn(r, c)).calls = Asks(c)
              /\ StepOf("anthropic", Turn(r, c)).results = Gives(c)
         /\ StepOf("anthropic", Turn(r, c)).talk <=> Talks(c)
<1>1. Turn(r, c) = Said(r, c)
  BY DEF Turn, Said
<1> QED BY <1>1, BlocksStepIs, OfTypeIsSeq, HeadIs DEF Asks, Gives

\* What Took makes of a state.
LEMMA TookIs ==
  ASSUME NEW batch, NEW st, NEW s
  PROVE  /\ Took(batch, st, s).open = (st.open \ s.results) \cup s.calls
         /\ Took(batch, st, s).ok <=>
              /\ st.ok /\ s.results \subseteq st.open
              /\ s.talk => st.open = {}
              /\ s.calls # {} => st.open = {} \/ (batch /\ ~st.answered)
         /\ s.results = {} => Took(batch, st, s).answered = st.answered
         /\ s.results # {} => (Took(batch, st, s).answered <=> st.open # s.results)
  BY DEF Took

\* A step of results that keeps the order, and one of calls.
LEMMA TookResults ==
  ASSUME NEW st, NEW s, NEW next, next = Took(FALSE, st, s),
         s.calls = {}, st.ok, s.results \subseteq st.open, s.talk => st.open = {}
  PROVE  next.ok /\ next.open = st.open \ s.results
<1>1. next.open = (st.open \ s.results) \cup s.calls
  BY TookIs
<1>2. next.open = st.open \ s.results
  BY <1>1
<1>3. next.ok <=> /\ st.ok /\ s.results \subseteq st.open
                  /\ s.talk => st.open = {}
                  /\ s.calls # {} => st.open = {} \/ (FALSE /\ ~st.answered)
  BY TookIs, Zenon
<1>4. next.ok
  BY <1>3, Zenon
<1> QED BY <1>2, <1>4

LEMMA TookCalls ==
  ASSUME NEW st, NEW s, NEW next, next = Took(FALSE, st, s),
         s.results = {}, st.ok, st.open = {}
  PROVE  next.ok /\ next.open = s.calls
<1>1. next.open = (st.open \ s.results) \cup s.calls
  BY TookIs
<1>2. next.open = s.calls
  BY <1>1
<1>3. next.ok <=> /\ st.ok /\ s.results \subseteq st.open
                  /\ s.talk => st.open = {}
                  /\ s.calls # {} => st.open = {} \/ (FALSE /\ ~st.answered)
  BY TookIs, Zenon
<1>4. s.results \subseteq st.open
  OBVIOUS
<1>5. next.ok
  BY <1>3, <1>4, Zenon
<1> QED BY <1>2, <1>5

LEMMA AnsweredHeed ==
  ASSUME NEW P, NEW open, Answered(P, open)
  PROVE  Heed("anthropic", P).ok /\ Heed("anthropic", P).open = open
<1>1. CASE P = Nil /\ open = {}
  BY <1>1, HeedStart DEF Start
<1>2. ASSUME NEW f, NEW r, NEW c, Ending(P, open, f, r, c)
      PROVE  Heed("anthropic", P).ok /\ Heed("anthropic", P).open = open
  <2>1. PICK b, s, next : /\ b = Heed("anthropic", f) /\ s = StepOf("anthropic", Turn(r, c))
                          /\ next = Took(FALSE, b, s)
    OBVIOUS
  <2>2. s.calls = Asks(c) /\ s.results = Gives(c) /\ (s.talk <=> Talks(c))
    BY <1>2, <2>1, TurnStep DEF Ending
  <2>3. Heed("anthropic", P) = next
    BY <1>2, <2>1, HeedStep DEF Ending, Spoken
  <2>5. b.ok /\ r \in Sides /\ Ends(f, r, c, open)
    BY <1>2, <2>1 DEF Ending, Ends
  <2>6. next.ok /\ next.open = open
    <3>1. CASE r = "user"
      <4>1. Asks(c) = {} /\ Gives(c) \subseteq b.open /\ open = b.open \ Gives(c)
        BY <2>1, <2>5, <3>1 DEF Ends
      <4>2. Talks(c) => b.open = {}
        BY <2>1, <2>5, <3>1, Zenon DEF Ends
      <4>3. s.calls = {} /\ s.results \subseteq b.open /\ open = b.open \ s.results
        BY <2>2, <4>1
      <4>4. s.talk => b.open = {}
        BY <2>2, <4>2, Zenon
      <4>5. next = Took(FALSE, b, s) /\ b.ok
        BY <2>1, <2>5
      <4>6. next.ok /\ next.open = b.open \ s.results
        BY <4>3, <4>4, <4>5, TookResults
      <4> QED BY <4>3, <4>6
    <3>2. CASE r = "assistant"
      <4>1. b.open = {} /\ Gives(c) = {} /\ open = Asks(c)
        BY <2>1, <2>5, <3>2 DEF Ends
      <4>2. s.results = {} /\ open = s.calls
        BY <2>2, <4>1
      <4>3. next = Took(FALSE, b, s) /\ b.ok
        BY <2>1, <2>5
      <4>4. next.ok /\ next.open = s.calls
        BY <4>1, <4>2, <4>3, TookCalls
      <4> QED BY <4>2, <4>4
    <3> QED BY <2>5, <3>1, <3>2 DEF Sides
  <2> QED BY <2>3, <2>6
<1> QED BY <1>1, <1>2 DEF Answered

LEMMA GoodTurn ==
  ASSUME NEW r, NEW c, IsSeq(c), c # Nil
  PROVE  Good("turn", Turn(r, c)) <=> All("block", c)
<1>1. PICK x : x = Turn(r, c)
  OBVIOUS
<1>2. DOMAIN x = {"role", "content"} /\ x.content = c
  BY <1>1 DEF Turn
<1>3. DOMAIN c = 1..Size(c)
  BY SizeDomain
<1>4. All("block", c) <=> \A j \in DOMAIN c : c[j].sig \in {<<>>, c[j].text}
  BY <1>3 DEF All, Good, At
<1>5. Good("turn", x) <=> \A j \in DOMAIN c : c[j].sig \in {<<>>, c[j].text}
  BY <1>2 DEF Good, Nil
<1> QED BY <1>1, <1>4, <1>5

\* What may be pushed: next is what still waits for results after it.
Pushes(P, open, role, blocks, next) ==
  /\ role \in Sides /\ IsSeq(blocks) /\ All("block", blocks)
  /\ role = "user" => /\ Asks(blocks) = {} /\ Gives(blocks) \subseteq open
                      /\ Talks(blocks) => open = {}
                      /\ next = open \ Gives(blocks)
  /\ role = "assistant" => /\ Gives(blocks) = {} /\ next = open \cup Asks(blocks)
                           /\ blocks # Nil => open = {} \/ By(P, "assistant")

LEMMA PushNew ==
  ASSUME NEW P, NEW open, Proper(P, open), NEW role, NEW blocks, NEW next,
         Pushes(P, open, role, blocks, next), blocks # Nil, ~By(P, role)
  PROVE  Proper(App(P, Turn(role, blocks)), next) /\ By(App(P, Turn(role, blocks)), role)
<1>1. PICK x : x = Turn(role, blocks)
  OBVIOUS
<1>2. x.role = role /\ IsSeq(blocks) /\ role \in Sides /\ Spoken(P) /\ IsSeq(P)
  BY <1>1, TurnIs DEF Pushes, Proper, Spoken
<1>3. Spoken(App(P, x))
  BY <1>1, <1>2, SpokenAppend
<1>4. All("turn", App(P, x))
  <2>1. Good("turn", x)
    BY <1>1, GoodTurn DEF Pushes
  <2> QED BY <1>2, <2>1, AllAppend DEF Proper
<1>5. Alt(App(P, x))
  BY <1>2, AltAppend DEF Proper, By
<1>6. Heed("anthropic", P).ok /\ Heed("anthropic", P).open = open
  BY AnsweredHeed DEF Proper
<1>7. Ends(P, role, blocks, next)
  <2>1. CASE role = "user"
    BY <1>6, <2>1 DEF Ends, Pushes
  <2>2. CASE role = "assistant"
    <3>1. open = {} /\ next = Asks(blocks)
      BY <2>2 DEF Pushes
    <3> QED BY <1>6, <2>2, <3>1 DEF Ends, Pushes
  <2> QED BY <1>2, <2>1, <2>2 DEF Sides
<1>8. Ending(App(P, x), next, P, role, blocks)
  BY <1>1, <1>2, <1>7 DEF Ending
<1>9. Last(App(P, x)) = x /\ App(P, x) # Nil
  BY <1>2, LastOfAppend
<1> QED BY <1>1, <1>2, <1>3, <1>4, <1>5, <1>8, <1>9 DEF Proper, Answered, By

LEMMA PushOnto ==
  ASSUME NEW P, NEW open, Proper(P, open), NEW role, NEW blocks, NEW next,
         Pushes(P, open, role, blocks, next), blocks # Nil, By(P, role)
  PROVE  Proper(Extended(P, blocks), next) /\ By(Extended(P, blocks), role)
<1>1. PICK f, r, c : Ending(P, open, f, r, c)
  BY DEF Proper, Answered, By
<1>2. Spoken(f) /\ IsSeq(f) /\ IsSeq(c) /\ c # Nil /\ P = App(f, Turn(r, c)) /\ IsSeq(blocks)
  BY <1>1 DEF Ending, Spoken, Pushes
<1>3. r = role /\ r \in Sides
  BY <1>1, <1>2, LastOfAppend, TurnIs DEF By, Ending
<1>4. PICK d, x, Q : d = c ++ blocks /\ x = Turn(r, d) /\ Q = Extended(P, blocks)
  OBVIOUS
<1>5. Q = App(f, x)
  BY <1>2, <1>4, ChangeLast
<1>6. IsSeq(d) /\ d # Nil
  <2>1. IsSeq(d) /\ Size(d) = Size(c) + Size(blocks)
    BY <1>2, <1>4, ConcatAt
  <2>2. Size(c) \in Nat /\ Size(blocks) \in Nat /\ Size(c) # 0
    BY <1>2, SizeIs, EmptySize
  <2>3. Size(d) # 0
    BY <2>1, <2>2
  <2> QED BY <2>1, <2>3, NoneIsSeq
<1>7. Spoken(Q)
  BY <1>2, <1>3, <1>4, <1>5, <1>6, SpokenAppend
<1>8. All("turn", Q)
  <2>1. All("turn", f) /\ Good("turn", Turn(r, c))
    BY <1>2, AllAppend DEF Proper
  <2>2. All("block", c)
    BY <1>2, <2>1, GoodTurn
  <2>3. All("block", d)
    BY <1>4, <2>2, AllConcat DEF Pushes
  <2>4. Good("turn", x)
    BY <1>4, <1>6, <2>3, GoodTurn
  <2> QED BY <1>2, <1>5, <2>1, <2>4, AllAppend
<1>9. Alt(Q)
  <2>1. Alt(f) /\ (f = Nil \/ Last(f).role # r)
    BY <1>2, AltAppend, TurnIs DEF Proper
  <2> QED BY <1>2, <1>4, <1>5, <2>1, AltAppend, TurnIs
<1>10. Asks(d) = Asks(c) \cup Asks(blocks) /\ Gives(d) = Gives(c) \cup Gives(blocks)
         /\ (Talks(d) <=> Talks(c))
  BY <1>2, <1>4, AsksConcat
<1>11. Ends(f, r, d, next)
  <2>1. Ends(f, r, c, open)
    BY <1>1 DEF Ending
  <2>2. CASE r = "user"
    BY <1>3, <1>10, <2>1, <2>2 DEF Ends, Pushes
  <2>3. CASE r = "assistant"
    BY <1>3, <1>10, <2>1, <2>3 DEF Ends, Pushes
  <2> QED BY <1>3, <2>2, <2>3 DEF Sides
<1>12. Ending(Q, next, f, r, d)
  BY <1>2, <1>3, <1>4, <1>5, <1>6, <1>11 DEF Ending
<1>13. Last(Q) = x /\ Q # Nil /\ x.role = role
  BY <1>2, <1>3, <1>4, <1>5, LastOfAppend, TurnIs
<1> QED BY <1>4, <1>7, <1>8, <1>9, <1>12, <1>13 DEF Proper, Answered, By

LEMMA PushProper ==
  ASSUME NEW P, NEW open, Proper(P, open), NEW role, NEW blocks, NEW next,
         Pushes(P, open, role, blocks, next)
  PROVE  /\ Proper(PushBlocks(P, role, blocks), next)
         /\ blocks # Nil => By(PushBlocks(P, role, blocks), role)
         /\ blocks = Nil => PushBlocks(P, role, blocks) = P
<1>1. CASE blocks = Nil
  <2>1. PushBlocks(P, role, blocks) = P
    BY <1>1 DEF PushBlocks, Nil
  <2>2. next = open
    BY <1>1, AsksNone DEF Pushes, Sides
  <2> QED BY <1>1, <2>1, <2>2
<1>2. CASE blocks # Nil /\ By(P, role)
  <2>1. PushBlocks(P, role, blocks) = Extended(P, blocks)
    BY <1>2 DEF PushBlocks, Nil, By, Extended
  <2> QED BY <1>2, <2>1, PushOnto
<1>3. CASE blocks # Nil /\ ~By(P, role)
  <2>1. PushBlocks(P, role, blocks) = App(P, Turn(role, blocks))
    BY <1>3 DEF PushBlocks, Nil, By, App, Turn
  <2> QED BY <1>3, <2>1, PushNew
<1> QED BY <1>1, <1>2, <1>3

-----------------------------------------------------------------------------
(***************************************************************************)
(* The messages that are pushed.                                           *)
(***************************************************************************)
CallIds(m) == {m.calls[k].id : k \in DOMAIN m.calls}

LEMMA PartsPush ==
  ASSUME NEW c, In(c, Parts)
  PROVE  Asks(c) = {} /\ Gives(c) = {} /\ All("block", c) /\ IsSeq(c)
<1>1. Asks(c) = {} /\ Gives(c) = {}
  BY BlocksAre, IdsNone DEF Asks, Gives
<1>2. \A x \in Parts : Good("block", x)
  BY DEF Parts, Good, Nil
<1> QED BY <1>1, <1>2 DEF All, In

LEMMA UserPushes ==
  ASSUME NEW P, NEW c, In(c, Parts)
  PROVE  Pushes(P, {}, "user", c, {})
  BY PartsPush DEF Pushes, Sides

LEMMA OneBlock ==
  ASSUME NEW b, b.sig = <<>>
  PROVE  /\ All("block", One(b)) /\ IsSeq(One(b)) /\ (Talks(One(b)) <=> b.type # "tool_result")
         /\ b.type = "tool_use" => Asks(One(b)) = {b.id} /\ Gives(One(b)) = {}
         /\ b.type = "tool_result" => Asks(One(b)) = {} /\ Gives(One(b)) = {b.id}
         /\ b.type \notin {"tool_use", "tool_result"} => Asks(One(b)) = {} /\ Gives(One(b)) = {}
<1>1. IsSeq(One(b)) /\ Size(One(b)) = 1 /\ At(One(b), 1) = b /\ One(b) # Nil
  BY OneIs
<1>2. \A i \in 1..Size(One(b)) : At(One(b), i) = b
  BY <1>1
<1>3. All("block", One(b))
  BY AllOne DEF Good
<1>4. \A T : (b.type \in T => OfType(T, One(b)) = One(b)) /\ (b.type \notin T
        => OfType(T, One(b)) = Nil)
  BY <1>1, <1>2, OfTypeAll, OfTypeNone
<1>5. Talks(One(b)) <=> b.type # "tool_result"
  BY <1>1 DEF Talks
<1>6. b.type = "tool_use" => OfType({"tool_use"}, One(b)) = One(b)
        /\ OfType({"tool_result"}, One(b)) = Nil
  BY <1>4
<1>7. b.type = "tool_result" => OfType({"tool_use"}, One(b)) = Nil
        /\ OfType({"tool_result"}, One(b)) = One(b)
  BY <1>4
<1>8. b.type \notin {"tool_use", "tool_result"} => OfType({"tool_use"}, One(b)) = Nil
        /\ OfType({"tool_result"}, One(b)) = Nil
  BY <1>4
<1> QED BY <1>1, <1>3, <1>5, <1>6, <1>7, <1>8, IdsOne, IdsNone DEF Asks, Gives

LEMMA ToolPushes ==
  ASSUME NEW P, NEW open, NEW m, m.role = "tool", m.id \in open
  PROVE  Pushes(P, open, "user", BlocksOf(m), open \ {m.id}) /\ BlocksOf(m) # Nil
<1>1. PICK b : b = Block("tool_result", m.id, ContentText(m.content))
  OBVIOUS
<1>2. BlocksOf(m) = One(b)
  BY <1>1 DEF BlocksOf, One
<1>3. b.type = "tool_result" /\ b.id = m.id /\ b.sig = <<>>
  BY <1>1 DEF Block
<1>4. All("block", One(b)) /\ IsSeq(One(b)) /\ ~Talks(One(b)) /\ Asks(One(b)) = {}
        /\ Gives(One(b)) = {m.id}
  BY <1>3, OneBlock
<1> QED BY <1>2, <1>4, OneIs DEF Pushes, Sides

LEMMA UsesPush ==
  ASSUME NEW m, IsSeq(m.calls)
  PROVE  LET u == Each("use", 0, m.calls)
         IN IsSeq(u) /\ All("block", u) /\ Asks(u) = CallIds(m) /\ Gives(u) = {}
<1>1. PICK u, s : u = Each("use", 0, m.calls) /\ s = m.calls
  OBVIOUS
<1>2. IsSeq(u) /\ Size(u) = Size(s) /\ \A i \in 1..Size(s) : At(u, i) = Make("use", 0, At(s, i))
  BY <1>1, EachIs
<1>3. \A x : Make("use", 0, x).type = "tool_use" /\ Make("use", 0, x).id = x.id
        /\ Make("use", 0, x).sig = <<>>
  BY DEF Make, ToolUse, Block
<1>4. All("block", u)
  BY <1>2, <1>3 DEF All, Good
<1>5. OfType({"tool_use"}, u) = u /\ OfType({"tool_result"}, u) = Nil
  <2>1. \A i \in 1..Size(u) : At(u, i).type = "tool_use"
    BY <1>2, <1>3
  <2> QED BY <1>2, <2>1, OfTypeAll, OfTypeNone
<1>6. Ids(u) = CallIds(m)
  <2>1. DOMAIN s = 1..Size(s) /\ \A k : At(s, k) = s[k]
    BY <1>1, SizeDomain DEF At
  <2>2. Ids(u) = {At(u, i).id : i \in 1..Size(s)}
    BY <1>2 DEF Ids
  <2>3. CallIds(m) = {At(s, k).id : k \in 1..Size(s)}
    BY <1>1, <2>1 DEF CallIds
  <2> QED BY <1>2, <1>3, <2>2, <2>3
<1> QED BY <1>1, <1>2, <1>4, <1>5, <1>6, IdsNone DEF Asks, Gives

LEMMA ThinkPush ==
  ASSUME NEW m, m.sig \in {<<>>, m.think}
  PROVE  LET t == ThinkBlocks(m)
         IN IsSeq(t) /\ All("block", t) /\ Asks(t) = {} /\ Gives(t) = {}
<1>1. CASE m.think = <<>>
  <2>1. ThinkBlocks(m) = Nil
    BY <1>1 DEF ThinkBlocks
  <2> QED BY <2>1, AllNone, AsksNone, NoneIsSeq
<1>2. CASE m.think # <<>>
  <2>1. PICK b, sig, think : sig = m.sig /\ think = m.think
               /\ b = [Block("thinking", NoCall, think) EXCEPT !.sig = sig]
    OBVIOUS
  <2>2. ThinkBlocks(m) = One(b)
    BY <1>2, <2>1 DEF ThinkBlocks
  <2>3. b.type = "thinking" /\ b.text = think /\ b.sig = sig
    BY <2>1 DEF Block
  <2>4. Good("block", b)
    BY <2>1, <2>3 DEF Good
  <2>5. IsSeq(One(b)) /\ Size(One(b)) = 1 /\ At(One(b), 1) = b
    BY OneIs
  <2>6. \A i \in 1..Size(One(b)) : At(One(b), i).type = "thinking"
    BY <2>3, <2>5
  <2>7. OfType({"tool_use"}, One(b)) = Nil /\ OfType({"tool_result"}, One(b)) = Nil
    BY <2>5, <2>6, OfTypeNone
  <2> QED BY <2>2, <2>4, <2>5, <2>7, AllOne, IdsNone DEF Asks, Gives
<1> QED BY <1>1, <1>2

LEMMA AssistantPushes ==
  ASSUME NEW P, NEW open, NEW m, m.role = "assistant", In(m.content, Parts), IsSeq(m.calls),
         m.sig \in {<<>>, m.think}, open = {} \/ By(P, "assistant")
  PROVE  Pushes(P, open, "assistant", BlocksOf(m), open \cup CallIds(m))
<1>1. PICK t, c, u : t = ThinkBlocks(m) /\ c = Content(m.content) /\ u = Each("use", 0, m.calls)
  OBVIOUS
<1>2. BlocksOf(m) = (t ++ c) ++ u
  <2>1. BlocksOf(m) = AssistantBlocks(m)
    BY DEF BlocksOf
  <2> QED BY <1>1, <2>1, AssistantBlocksIs
<1>3. IsSeq(t) /\ All("block", t) /\ Asks(t) = {} /\ Gives(t) = {}
  BY <1>1, ThinkPush
<1>4. IsSeq(c) /\ All("block", c) /\ Asks(c) = {} /\ Gives(c) = {}
  BY <1>1, ContentAll, PartsPush
<1>5. IsSeq(u) /\ All("block", u) /\ Asks(u) = CallIds(m) /\ Gives(u) = {}
  BY <1>1, UsesPush
<1>6. IsSeq(t ++ c) /\ All("block", t ++ c) /\ Asks(t ++ c) = {} /\ Gives(t ++ c) = {}
  <2>1. IsSeq(t ++ c)
    BY <1>3, <1>4, ConcatAt
  <2>2. All("block", t ++ c)
    BY <1>3, <1>4, AllConcat
  <2>3. Asks(t ++ c) = Asks(t) \cup Asks(c) /\ Gives(t ++ c) = Gives(t) \cup Gives(c)
    BY <1>3, <1>4, AsksConcat
  <2>4. Asks(t ++ c) = {} /\ Gives(t ++ c) = {}
    BY <1>3, <1>4, <2>3
  <2> QED BY <2>1, <2>2, <2>4
<1>7. PICK bs : bs = (t ++ c) ++ u
  OBVIOUS
<1>8. IsSeq(bs) /\ All("block", bs) /\ Asks(bs) = CallIds(m) /\ Gives(bs) = {}
  <2>1. PICK w : w = t ++ c
    OBVIOUS
  <2>2. IsSeq(w) /\ All("block", w) /\ Asks(w) = {} /\ Gives(w) = {} /\ bs = w ++ u
    BY <1>6, <1>7, <2>1
  <2>3. Asks(bs) = CallIds(m) /\ Gives(bs) = {}
    <3>1. Asks(w ++ u) = Asks(w) \cup Asks(u) /\ Gives(w ++ u) = Gives(w) \cup Gives(u)
      BY <1>5, <2>2, AsksConcat
    <3>2. Asks(w) = {} /\ Gives(w) = {} /\ Asks(u) = CallIds(m) /\ Gives(u) = {} /\ bs = w ++ u
      BY <1>5, <2>2
    <3>3. \A A, B, C : A = {} /\ B = C => A \cup B = C
      OBVIOUS
    <3> QED BY <3>1, <3>2, <3>3
  <2>4. IsSeq(bs)
    BY <1>5, <2>2, ConcatAt
  <2>5. All("block", bs)
    BY <1>5, <2>2, AllConcat
  <2> QED BY <2>3, <2>4, <2>5
<1> QED BY <1>2, <1>7, <1>8 DEF Pushes, Sides

\* What an openai client says, by who says it.
Shaped(m) ==
  \/ m.role = "system"
  \/ m.role = "user" /\ In(m.content, Parts)
  \/ m.role = "assistant" /\ In(m.content, Parts) /\ IsSeq(m.calls) /\ m.sig \in {<<>>, m.think}
  \/ m.role = "tool"

LEMMA SystemPushed ==
  ASSUME NEW P, NEW m, m.role = "system"
  PROVE  PushMessage(P, m) = P
  BY DEF PushMessage

LEMMA UserPushed ==
  ASSUME NEW P, Proper(P, {}), NEW m, m.role = "user", In(m.content, Parts)
  PROVE  Proper(PushMessage(P, m), {})
<1>1. PICK c : c = m.content
  OBVIOUS
<1>2. PushMessage(P, m) = PushBlocks(P, "user", c)
  <2>1. BlocksOf(m) = c
    BY <1>1, ContentAll DEF BlocksOf
  <2> QED BY <2>1 DEF PushMessage
<1>3. Pushes(P, {}, "user", c, {})
  BY <1>1, UserPushes
<1> QED BY <1>2, <1>3, PushProper

LEMMA AssistantPushed ==
  ASSUME NEW P, NEW open, Proper(P, open), NEW m, m.role = "assistant", Shaped(m),
           open = {} \/ By(P, "assistant")
  PROVE  /\ Proper(PushMessage(P, m), open \cup CallIds(m))
         /\ BlocksOf(m) # Nil => By(PushMessage(P, m), "assistant")
<1>1. PICK c, n : c = BlocksOf(m) /\ n = open \cup CallIds(m)
  OBVIOUS
<1>2. PushMessage(P, m) = PushBlocks(P, "assistant", c)
  BY <1>1 DEF PushMessage
<1>3. In(m.content, Parts) /\ IsSeq(m.calls) /\ m.sig \in {<<>>, m.think}
  BY DEF Shaped
<1>4. Pushes(P, open, "assistant", c, n)
  BY <1>1, <1>3, AssistantPushes
<1> QED BY <1>1, <1>2, <1>4, PushProper

LEMMA ToolPushed ==
  ASSUME NEW P, NEW open, Proper(P, open), NEW m, m.role = "tool", m.id \in open
  PROVE  Proper(PushMessage(P, m), open \ {m.id})
<1>1. PICK c, n : c = BlocksOf(m) /\ n = open \ {m.id}
  OBVIOUS
<1>2. PushMessage(P, m) = PushBlocks(P, "user", c)
  BY <1>1 DEF PushMessage
<1>3. Pushes(P, open, "user", c, n)
  BY <1>1, ToolPushes
<1> QED BY <1>1, <1>2, <1>3, PushProper

LEMMA StepIs ==
  ASSUME NEW m
  PROVE  /\ m.role \in {"system", "user"} =>
              MessageStep(m).calls = {} /\ MessageStep(m).results = {} /\ MessageStep(m).talk
         /\ m.role = "assistant" =>
              MessageStep(m).calls = CallIds(m) /\ MessageStep(m).results = {}
                /\ MessageStep(m).talk
         /\ m.role = "tool" =>
              MessageStep(m).calls = {} /\ MessageStep(m).results = {m.id}
                /\ ~MessageStep(m).talk
  BY DEF MessageStep, Step, CallIds

\* What the client's order allows, the provider's allows of what it becomes.
LEMMA MessagePushed ==
  ASSUME NEW P, NEW st, Proper(P, st.open), NEW m, Shaped(m), NEW next,
           next = Took(FALSE, st, MessageStep(m)), next.ok
  PROVE  Proper(PushMessage(P, m), next.open)
<1>1. PICK s, o, n : s = MessageStep(m) /\ o = st.open /\ n = next.open
  OBVIOUS
<1>2. n = (o \ s.results) \cup s.calls /\ s.results \subseteq o /\ (s.talk => o = {})
        /\ Proper(P, o)
  BY <1>1, TookIs
<1>3. CASE m.role = "system"
  <2>1. n = o
    BY <1>1, <1>2, <1>3, StepIs
  <2> QED BY <1>1, <1>2, <1>3, <2>1, SystemPushed
<1>4. CASE m.role = "user"
  <2>1. o = {} /\ n = {} /\ In(m.content, Parts)
    BY <1>1, <1>2, <1>4, StepIs DEF Shaped
  <2> QED BY <1>1, <1>2, <1>4, <2>1, UserPushed
<1>5. CASE m.role = "assistant"
  <2>0. s.results = {} /\ s.calls = CallIds(m) /\ s.talk
    BY <1>1, <1>5, StepIs
  <2>1. o = {} /\ n = o \cup CallIds(m)
    BY <1>2, <2>0
  <2>2. Proper(P, o) /\ (o = {} \/ By(P, "assistant"))
    BY <1>2, <2>1
  <2>3. Proper(PushMessage(P, m), o \cup CallIds(m))
    BY <1>5, <2>2, AssistantPushed
  <2> QED BY <1>1, <2>1, <2>3
<1>6. CASE m.role = "tool"
  <2>0. s.results = {m.id} /\ s.calls = {}
    BY <1>1, <1>6, StepIs
  <2>1. m.id \in o /\ n = o \ {m.id}
    BY <1>2, <2>0
  <2>2. Proper(PushMessage(P, m), o \ {m.id})
    BY <1>2, <1>6, <2>1, ToolPushed
  <2> QED BY <1>1, <2>1, <2>2
<1> QED BY <1>3, <1>4, <1>5, <1>6 DEF Shaped

-----------------------------------------------------------------------------
(***************************************************************************)
(* OpenAI -> Anthropic: the order is kept.                                 *)
(***************************************************************************)
Ordered(msgs) ==
  LET st == Heed("openai", msgs) IN st.ok /\ Proper(Pushed(msgs), st.open)

LEMMA PushedStep ==
  ASSUME NEW msgs, IsSeq(msgs), NEW m
  PROVE  Pushed(App(msgs, m)) = PushMessage(Pushed(msgs), m)
<1>1. Pushed(App(msgs, m)) = Do("push", Pushed(msgs), m)
  BY FoldApp DEF Pushed
<1>2. \A a, x : Do("push", a, x) = PushMessage(a, x)
  BY DEF Do
<1> QED BY <1>1, <1>2

LEMMA ProperStart == Proper(Nil, {})
<1>1. Spoken(Nil)
  BY NoneIsSeq, FlatNone DEF Spoken
<1>2. Alt(Nil)
  BY NoneIsSeq DEF Alt
<1> QED BY <1>1, <1>2, AllNone DEF Proper, Answered

LEMMA OrderedStart == Ordered(Nil)
<1>1. Pushed(Nil) = Nil
  BY FoldNil DEF Pushed
<1>2. Heed("openai", Nil).ok /\ Heed("openai", Nil).open = {}
  BY HeedStart DEF Start
<1> QED BY <1>1, <1>2, ProperStart DEF Ordered

LEMMA OrderedStep ==
  ASSUME NEW msgs, IsSeq(msgs), Ordered(msgs), NEW m, Shaped(m), Heed("openai", App(msgs, m)).ok
  PROVE  Ordered(App(msgs, m))
<1>1. PICK st, next : st = Heed("openai", msgs) /\ next = Took(FALSE, st, MessageStep(m))
  OBVIOUS
<1>2. StepOf("openai", m) = MessageStep(m)
  BY DEF StepOf
<1>3. Heed("openai", App(msgs, m)) = next
  BY <1>1, <1>2, HeedStep
<1>4. Proper(Pushed(msgs), st.open) /\ next.ok
  BY <1>1, <1>3 DEF Ordered
<1>5. Proper(PushMessage(Pushed(msgs), m), next.open)
  BY <1>1, <1>4, MessagePushed
<1> QED BY <1>3, <1>4, <1>5, PushedStep DEF Ordered

LEMMA OpenAiShapes ==
  ASSUME said \in Nat, NEW m \in OpenAiMessages
  PROVE  Shaped(m) /\ Good("message", m)
<1>1. CASE m \in {Message("system", p) : p \in Prompts} \cup {Message("user", p) : p \in UserContents \cup {<<>>}}
  <2>1. PICK r \in {"system", "user"}, p \in Prompts \cup UserContents \cup {<<>>} :
          m = Message(r, p) /\ (r = "user" => p \in UserContents \cup {<<>>})
    BY <1>1
  <2>2. m.role = r /\ m.content = p /\ m.sig = <<>> /\ "calls" \in DOMAIN m
    BY <2>1 DEF Message
  <2>3. r = "user" => In(p, Parts)
    BY <2>1, OpenAiContents
  <2> QED BY <2>2, <2>3 DEF Shaped, Good
<1>2. CASE m \in {OpenAiAnswer(p, cs, t) :
                    p \in {<<>>, <<Text(Fresh(1))>>}, cs \in CallSeqs, t \in OpenAiThoughts}
  <2>1. PICK p \in {<<>>, <<Text(Fresh(1))>>}, cs \in CallSeqs, t \in OpenAiThoughts :
          m = OpenAiAnswer(p, cs, t)
    BY <1>2
  <2>2. /\ m.role = "assistant" /\ m.content = p /\ m.think = t[1] /\ m.sig = t[2]
             /\ "calls" \in DOMAIN m
        /\ m.calls = [k \in DOMAIN cs |-> [id |-> cs[k], args |-> Fresh(2 + k)]]
    BY <2>1 DEF Message, OpenAiAnswer
  <2>3. IsSeq(m.calls)
    <3>1. m.calls = [k \in DOMAIN cs |-> m.calls[k]]
      BY <2>2
    <3> QED BY <3>1, CallSeqsAre, TableOver
  <2>4. In(p, Parts)
    BY OpenAiContents
  <2>5. t[2] \in {<<>>, t[1]}
    BY DEF OpenAiThoughts
  <2> QED BY <2>2, <2>3, <2>4, <2>5 DEF Shaped, Good
<1>3. CASE m \in {OpenAiResult(c) : c \in Open}
  <2>1. PICK c \in Open : m = OpenAiResult(c)
    BY <1>3
  <2>2. m.role = "tool" /\ m.sig = <<>> /\ "calls" \in DOMAIN m
    BY <2>1 DEF Message, OpenAiResult
  <2> QED BY <2>2 DEF Shaped, Good
<1> QED BY <1>1, <1>2, <1>3 DEF OpenAiMessages

-----------------------------------------------------------------------------
(***************************************************************************)
(* Responses: what an item becomes, and what it is a step of.              *)
(***************************************************************************)
Becomes(it, m) ==
  /\ ItemMessages(it) = One(m) /\ Shaped(m) /\ Good("message", m)
  /\ \/ it.role \in {"system", "user", "assistant"} /\ m.role = it.role /\ CallIds(m) = {}
     \/ it.role = "function_call" /\ m.role = "assistant" /\ CallIds(m) = {it.id}
          /\ BlocksOf(m) # Nil
     \/ it.role = "function_call_output" /\ m.role = "tool" /\ m.id = it.id

LEMMA PlainShape ==
  ASSUME NEW r \in {"system", "user", "assistant"}, NEW c, In(c, Parts)
  PROVE  LET m == Message(r, c) IN Shaped(m) /\ Good("message", m) /\ m.role = r
           /\ CallIds(m) = {}
<1>1. PICK m : m = Message(r, c)
  OBVIOUS
<1>2. m.role = r /\ m.content = c /\ m.sig = <<>> /\ m.calls = Nil /\ "calls" \in DOMAIN m
  BY <1>1 DEF Message, Nil
<1>3. IsSeq(m.calls) /\ DOMAIN m.calls = {}
  BY <1>2, NoneIsSeq DEF Nil
<1>4. Shaped(m) /\ Good("message", m)
  BY <1>2, <1>3 DEF Shaped, Good
<1>5. CallIds(m) = {}
  BY <1>3 DEF CallIds
<1> QED BY <1>1, <1>2, <1>4, <1>5

LEMMA CallShape ==
  ASSUME NEW it, it.role = "function_call"
  PROVE  \E m : Becomes(it, m)
<1>1. PICK call, m : /\ call = [id |-> it.id, args |-> ContentText(it.content)]
                     /\ m = [Message("assistant", <<>>) EXCEPT !.calls = <<call>>]
  OBVIOUS
<1>2. ItemMessages(it) = One(m)
  BY <1>1 DEF ItemMessages, One
<1>3. m.role = "assistant" /\ m.content = Nil /\ m.think = <<>> /\ m.sig = <<>>
        /\ m.calls = One(call) /\ "calls" \in DOMAIN m
  BY <1>1 DEF Message, Nil, One
<1>4. IsSeq(One(call)) /\ Size(One(call)) = 1 /\ At(One(call), 1) = call
  BY OneIs
<1>5. CallIds(m) = {it.id}
  <2>1. DOMAIN m.calls = 1..1 /\ m.calls[1] = call
    BY <1>3, <1>4, SizeDomain DEF At
  <2>2. call.id = it.id
    BY <1>1
  <2>3. CallIds(m) = {m.calls[k].id : k \in 1..1}
    BY <2>1 DEF CallIds
  <2>4. 1..1 = {1}
    OBVIOUS
  <2> QED BY <2>1, <2>2, <2>3, <2>4
<1>6. BlocksOf(m) = One(Make("use", 0, call))
  <2>1. ThinkBlocks(m) = Nil /\ Content(m.content) = Nil
    BY <1>3, ContentTextNone DEF ThinkBlocks
  <2>2. Each("use", 0, m.calls) = One(Make("use", 0, call))
    BY <1>3, EachOne
  <2>3. AssistantBlocks(m) = One(Make("use", 0, call))
    BY <2>1, <2>2, AssistantBlocksIs, EmptyConcat, NoneIsSeq, OneIs
  <2> QED BY <1>3, <2>3 DEF BlocksOf
<1>7. Shaped(m) /\ Good("message", m)
  BY <1>3, <1>4, InNone DEF Shaped, Good
<1> QED BY <1>2, <1>3, <1>5, <1>6, <1>7, OneIs DEF Becomes

LEMMA OutputShape ==
  ASSUME NEW it, it.role = "function_call_output"
  PROVE  \E m : Becomes(it, m)
<1>1. PICK m : m = [Message("tool", OneText(ContentText(it.content))) EXCEPT !.id = it.id]
  OBVIOUS
<1>2. ItemMessages(it) = One(m)
  BY <1>1 DEF ItemMessages, One
<1>3. m.role = "tool" /\ m.id = it.id /\ m.sig = <<>> /\ "calls" \in DOMAIN m
  BY <1>1 DEF Message
<1>4. Shaped(m) /\ Good("message", m)
  BY <1>3 DEF Shaped, Good
<1> QED BY <1>2, <1>3, <1>4 DEF Becomes

LEMMA ItemBecomes ==
  ASSUME NEW it, GoodItem(it)
  PROVE  \/ ItemMessages(it) = Nil /\ it.role \in {"system", "user", "assistant", "reasoning"}
         \/ \E m : Becomes(it, m)
<1>1. PICK c, r : c = it.content /\ r = it.role
  OBVIOUS
<1>2. CASE r \in {"system", "user", "assistant"}
  <2>1. In(c, Parts)
    BY <1>1, <1>2, InNone, TextAll DEF GoodItem, GoodSys, SystemContent
  <2>2. Content(c) = c
    BY <2>1, ContentAll
  <2>3. CASE c = Nil
    <3>1. ItemMessages(it) = Nil
      BY <1>1, <1>2, <2>2, <2>3 DEF ItemMessages, Nil
    <3> QED BY <1>1, <1>2, <3>1
  <2>4. CASE c # Nil
    <3>1. ItemMessages(it) = One(Message(r, c))
      BY <1>1, <1>2, <2>2, <2>4 DEF ItemMessages, Nil, One
    <3>2. PICK m : m = Message(r, c)
      OBVIOUS
    <3>3. Shaped(m) /\ Good("message", m) /\ m.role = r /\ CallIds(m) = {}
      BY <1>2, <2>1, <3>2, PlainShape
    <3>4. Becomes(it, m)
      BY <1>1, <1>2, <3>1, <3>2, <3>3 DEF Becomes
    <3> QED BY <3>4
  <2> QED BY <2>3, <2>4
<1>3. CASE r = "reasoning"
  <2>1. ItemMessages(it) = Nil
    BY <1>1, <1>3 DEF ItemMessages, Nil
  <2> QED BY <1>1, <1>3, <2>1
<1> QED BY <1>1, <1>2, <1>3, CallShape, OutputShape DEF GoodItem

LEMMA MidStart ==
  ASSUME NEW sys, GoodSys(sys)
  PROVE  \/ Mid(sys, Nil) = Nil
         \/ sys # Nil /\ Mid(sys, Nil) = App(Nil, Message("system", sys))
<1>1. Mid(sys, Nil) = SystemMessage(sys)
  <2>1. IsSeq(SystemMessage(sys))
    BY SystemMessageIs DEF Fits
  <2> QED BY <2>1, FlatNone, EmptyConcat DEF Mid
<1>2. \A x : App(Nil, x) = One(x)
  BY AppIsCat, NoneIsSeq, OneIs, EmptyConcat
<1> QED BY <1>1, <1>2, SystemMessageIs

LEMMA MidStep ==
  ASSUME NEW sys, NEW items, Carried(sys, items), NEW it, GoodItem(it)
  PROVE  /\ IsSeq(Mid(sys, items))
         /\ ItemMessages(it) = Nil => Mid(sys, App(items, it)) = Mid(sys, items)
         /\ \A m : ItemMessages(it) = One(m)
              => Mid(sys, App(items, it)) = App(Mid(sys, items), m)
<1>1. PICK ms, mid : ms = ItemMessages(it) /\ mid = Mid(sys, items)
  OBVIOUS
<1>2. IsSeq(ms) /\ IsSeq(mid) /\ IsSeq(SystemMessage(sys))
  BY <1>1, ItemIsKept, SystemMessageIs DEF ItemKept, Carried, Faithful, Fitting, Fits
<1>3. Make("item", 0, it) = ms
  BY <1>1 DEF Make
<1>4. Flat("item", 0, App(items, it)) = Flat("item", 0, items) ++ ms
        /\ IsSeq(Flat("item", 0, items))
  BY <1>2, <1>3, FlatAppend DEF Carried
<1>5. Mid(sys, App(items, it)) = mid ++ ms
  BY <1>1, <1>2, <1>4, ConcatAssoc DEF Mid
<1>6. ms = Nil => mid ++ ms = mid
  BY <1>2, EmptyConcat
<1>7. \A m : ms = One(m) => mid ++ ms = App(mid, m)
  BY <1>2, AppIsCat
<1> QED BY <1>1, <1>2, <1>5, <1>6, <1>7

LEMMA ItemStepIs ==
  ASSUME NEW it
  PROVE  /\ it.role \in {"system", "user", "assistant"} =>
              ItemStep(it).calls = {} /\ ItemStep(it).results = {} /\ ItemStep(it).talk
         /\ it.role = "function_call" =>
              ItemStep(it).calls = {it.id} /\ ItemStep(it).results = {} /\ ~ItemStep(it).talk
         /\ it.role = "function_call_output" =>
              ItemStep(it).calls = {} /\ ItemStep(it).results = {it.id} /\ ~ItemStep(it).talk
         /\ it.role = "reasoning" =>
              ItemStep(it).calls = {} /\ ItemStep(it).results = {} /\ ~ItemStep(it).talk
  BY DEF ItemStep, Step

\* What waits after an item, given what waited before.
After(st, it, next) ==
  /\ next.ok => st.ok
  /\ it.role \in {"system", "user", "assistant"} =>
       next.open = st.open /\ next.answered = st.answered /\ (next.ok => st.open = {})
  /\ it.role = "function_call" =>
       /\ next.open = st.open \cup {it.id} /\ next.answered = st.answered
       /\ next.ok => st.open = {} \/ ~st.answered
  /\ it.role = "function_call_output" =>
       /\ next.open = st.open \ {it.id} /\ (next.answered <=> st.open # {it.id})
       /\ next.ok => it.id \in st.open
  /\ it.role = "reasoning" => next.open = st.open /\ next.answered = st.answered

LEMMA AfterIs ==
  ASSUME NEW st, NEW it
  PROVE  After(st, it, Took(TRUE, st, ItemStep(it)))
<1>1. PICK s, n : s = ItemStep(it) /\ n = Took(TRUE, st, s)
  OBVIOUS
<1>2. /\ n.open = (st.open \ s.results) \cup s.calls
      /\ n.ok <=> st.ok /\ s.results \subseteq st.open /\ (s.talk => st.open = {})
                  /\ (s.calls # {} => st.open = {} \/ ~st.answered)
      /\ s.results = {} => n.answered = st.answered
      /\ s.results # {} => (n.answered <=> st.open # s.results)
  BY <1>1, TookIs
<1>3. /\ it.role \in {"system", "user", "assistant"} => s.calls = {} /\ s.results = {} /\ s.talk
      /\ it.role = "function_call" => s.calls = {it.id} /\ s.results = {} /\ ~s.talk
      /\ it.role = "function_call_output" => s.calls = {} /\ s.results = {it.id} /\ ~s.talk
      /\ it.role = "reasoning" => s.calls = {} /\ s.results = {} /\ ~s.talk
  BY <1>1, ItemStepIs
<1>4. /\ it.role \in {"system", "user", "assistant", "reasoning"} => n.open = st.open
      /\ it.role = "function_call" => n.open = st.open \cup {it.id}
      /\ it.role = "function_call_output" => n.open = st.open \ {it.id}
  BY <1>2, <1>3
<1>5. {it.id} # {} /\ ({it.id} \subseteq st.open => it.id \in st.open)
  OBVIOUS
<1>6. After(st, it, n)
  BY <1>2, <1>3, <1>4, <1>5 DEF After
<1> QED BY <1>1, <1>6

-----------------------------------------------------------------------------
(***************************************************************************)
(* Responses -> OpenAI -> Anthropic: the order is kept.                    *)
(***************************************************************************)
\* After a call that nothing has answered yet, the assistant spoke last.
Relayed(P, st) == st.ok /\ Proper(P, st.open)
  /\ (st.open = {} \/ st.answered \/ By(P, "assistant"))

LEMMA RelayedItem ==
  ASSUME NEW P, NEW st, Relayed(P, st), NEW it, NEW next, After(st, it, next), next.ok, NEW m,
           Becomes(it, m)
  PROVE  Relayed(PushMessage(P, m), next)
<1>1. PICK o, n, Q : o = st.open /\ n = next.open /\ Q = PushMessage(P, m)
  OBVIOUS
<1>2. Proper(P, o) /\ (o = {} \/ st.answered \/ By(P, "assistant")) /\ Shaped(m)
  BY <1>1 DEF Relayed, Becomes
<1>3. CASE it.role \in {"system", "user", "assistant"}
  <2>1. n = {} /\ o = {} /\ m.role = it.role /\ CallIds(m) = {}
    BY <1>1, <1>3 DEF After, Becomes
  <2>2. Proper(P, {})
    BY <1>2, <2>1
  <2>3. Proper(Q, {})
    <3>1. CASE m.role = "system"
      BY <1>1, <2>2, <3>1, SystemPushed
    <3>2. CASE m.role = "user"
      <4>1. In(m.content, Parts)
        BY <1>2, <3>2 DEF Shaped
      <4> QED BY <1>1, <2>2, <3>2, <4>1, UserPushed
    <3>3. CASE m.role = "assistant"
      <4>1. Proper(Q, {} \cup CallIds(m))
        BY <1>1, <1>2, <2>2, <3>3, AssistantPushed
      <4>2. {} \cup CallIds(m) = {}
        BY <2>1
      <4> QED BY <4>1, <4>2
    <3> QED BY <1>3, <2>1, <3>1, <3>2, <3>3
  <2> QED BY <1>1, <2>1, <2>3 DEF Relayed
<1>4. CASE it.role = "function_call"
  <2>1. n = o \cup {it.id} /\ m.role = "assistant" /\ CallIds(m) = {it.id} /\ BlocksOf(m) # Nil
    BY <1>1, <1>4 DEF After, Becomes
  <2>2. o = {} \/ ~st.answered
    BY <1>1, <1>4 DEF After
  <2>3. Proper(Q, o \cup CallIds(m)) /\ By(Q, "assistant")
    BY <1>1, <1>2, <2>1, <2>2, AssistantPushed
  <2> QED BY <1>1, <2>1, <2>3 DEF Relayed
<1>5. CASE it.role = "function_call_output"
  <2>1. n = o \ {it.id} /\ m.role = "tool" /\ m.id = it.id /\ it.id \in o
          /\ (next.answered <=> o # {it.id})
    BY <1>1, <1>5 DEF After, Becomes
  <2>2. Proper(Q, o \ {m.id})
    BY <1>1, <1>2, <2>1, ToolPushed
  <2>3. n = {} \/ next.answered
    BY <2>1
  <2>4. n = o \ {m.id}
    BY <2>1
  <2> QED BY <1>1, <2>2, <2>3, <2>4 DEF Relayed
<1> QED BY <1>3, <1>4, <1>5 DEF Becomes

LEMMA RelayedNothing ==
  ASSUME NEW P, NEW st, Relayed(P, st), NEW it, NEW next, After(st, it, next), next.ok,
         it.role \in {"system", "user", "assistant", "reasoning"}
  PROVE  Relayed(P, next)
  BY DEF Relayed, After

-----------------------------------------------------------------------------
(***************************************************************************)
(* Responses -> OpenAI: the order is kept, but for calls side by side.     *)
(***************************************************************************)
Beside(q) ==
  \E k \in 1..(Size(q) - 1) :
    At(q, k).role = "function_call"
    /\ \E j \in (k + 1)..Size(q) :
         At(q, j).role = "function_call"
           /\ \A i \in (k + 1)..(j - 1) : At(q, i).role = "reasoning"
\* The last thing said is a call.
Recent(q) ==
  \E k \in 1..Size(q) : At(q, k).role = "function_call"
    /\ \A i \in (k + 1)..Size(q) : At(q, i).role = "reasoning"

LEMMA BesideIs == Beside(body.msgs) <=> SideBySide
  BY DEF Beside, SideBySide, At, Size

LEMMA RecentStep ==
  ASSUME NEW q, IsSeq(q), NEW it
  PROVE  /\ it.role = "function_call" => Recent(App(q, it))
         /\ it.role = "reasoning" /\ Recent(q) => Recent(App(q, it))
         /\ it.role = "function_call" /\ Recent(q) => Beside(App(q, it))
         /\ Beside(q) => Beside(App(q, it))
<1>0. PICK a : a = App(q, it)
  OBVIOUS
<1>1. PICK n \in Nat : n = Size(q)
  BY SizeIs
<1>2. Size(a) = n + 1 /\ At(a, n + 1) = it /\ \A i \in 1..n : At(a, i) = At(q, i)
  BY <1>0, <1>1, AppendAt
<1>3. ASSUME it.role = "function_call" PROVE Recent(a)
  <2>1. n + 1 \in 1..(n + 1) /\ ((n + 1) + 1)..(n + 1) = {}
    OBVIOUS
  <2> QED BY <1>2, <1>3, <2>1 DEF Recent
<1>4. ASSUME Recent(q) PROVE (it.role = "reasoning" => Recent(a))
               /\ (it.role = "function_call" => Beside(a))
  <2>1. PICK k \in 1..n : At(q, k).role = "function_call"
               /\ \A i \in (k + 1)..n : At(q, i).role = "reasoning"
    BY <1>1, <1>4 DEF Recent
  <2>2. At(a, k).role = "function_call" /\ \A i \in (k + 1)..n : At(a, i).role = "reasoning"
    BY <1>2, <2>1
  <2>3. ASSUME it.role = "reasoning" PROVE Recent(a)
    <3>1. \A i \in (k + 1)..(n + 1) : At(a, i).role = "reasoning"
      <4>1. \A i \in (k + 1)..(n + 1) : i \in (k + 1)..n \/ i = n + 1
        OBVIOUS
      <4> QED BY <1>2, <2>2, <2>3, <4>1
    <3>2. k \in 1..(n + 1)
      OBVIOUS
    <3> QED BY <1>2, <2>2, <3>1, <3>2 DEF Recent
  <2>4. ASSUME it.role = "function_call" PROVE Beside(a)
    <3>1. k \in 1..((n + 1) - 1) /\ n + 1 \in (k + 1)..(n + 1) /\ (n + 1) - 1 = n
      OBVIOUS
    <3> QED BY <1>2, <2>2, <2>4, <3>1 DEF Beside
  <2> QED BY <2>3, <2>4
<1>5. ASSUME Beside(q) PROVE Beside(a)
  <2>1. PICK k \in 1..(n - 1) : /\ At(q, k).role = "function_call"
          /\ \E j \in (k + 1)..n : At(q, j).role = "function_call"
               /\ \A i \in (k + 1)..(j - 1) : At(q, i).role = "reasoning"
    BY <1>1, <1>5 DEF Beside
  <2>2. PICK j \in (k + 1)..n : At(q, j).role = "function_call"
               /\ \A i \in (k + 1)..(j - 1) : At(q, i).role = "reasoning"
    BY <2>1
  <2>3. k \in 1..n /\ j \in 1..n /\ \A i \in (k + 1)..(j - 1) : i \in 1..n
    OBVIOUS
  <2>4. At(a, k).role = "function_call" /\ At(a, j).role = "function_call"
          /\ \A i \in (k + 1)..(j - 1) : At(a, i).role = "reasoning"
    BY <1>2, <2>1, <2>2, <2>3
  <2>5. k \in 1..((n + 1) - 1) /\ j \in (k + 1)..(n + 1)
    OBVIOUS
  <2> QED BY <1>2, <2>4, <2>5 DEF Beside
<1> QED BY <1>0, <1>3, <1>4, <1>5

\* q: what waits of the items; r: what waits of the messages they become.
Singly(items, q, r) ==
  /\ Beside(items) \/ (r.ok /\ r.open = q.open)
  /\ q.open = {} \/ q.answered \/ Recent(items)

LEMMA SinglyNothing ==
  ASSUME NEW items, IsSeq(items), NEW q, NEW r, Singly(items, q, r), NEW it, NEW next,
           After(q, it, next), next.ok,
         it.role \in {"system", "user", "assistant", "reasoning"}
  PROVE  Singly(App(items, it), next, r)
<1>1. next.open = q.open /\ next.answered = q.answered /\ (it.role # "reasoning" => q.open = {})
  BY DEF After
<1>2. Beside(items) => Beside(App(items, it))
  BY RecentStep
<1>3. it.role = "reasoning" /\ Recent(items) => Recent(App(items, it))
  BY RecentStep
<1> QED BY <1>1, <1>2, <1>3 DEF Singly

LEMMA SinglyItem ==
  ASSUME NEW items, IsSeq(items), NEW q, NEW r, Singly(items, q, r), NEW it, NEW next,
           After(q, it, next), next.ok,
         NEW m, Becomes(it, m), NEW s, s = Took(FALSE, r, MessageStep(m))
  PROVE  Singly(App(items, it), next, s)
<1>1. PICK o, n, a, c, d : o = q.open /\ n = next.open /\ a = App(items, it)
             /\ c = MessageStep(m) /\ d = r.open
  OBVIOUS
<1>2. /\ s.open = (d \ c.results) \cup c.calls
      /\ s.ok <=> r.ok /\ c.results \subseteq d /\ (c.talk => d = {}) /\ (c.calls # {}
           => d = {})
  BY <1>1, TookIs
<1>3. Beside(items) => Beside(a)
  BY <1>1, RecentStep
<1>4. CASE it.role \in {"system", "user", "assistant"}
  <2>1. n = {} /\ o = {} /\ c.results = {} /\ c.calls = {}
    <3>1. m.role \in {"system", "user", "assistant"} /\ CallIds(m) = {} /\ Shaped(m)
      BY <1>4 DEF Becomes
    <3>2. c.results = {} /\ c.calls = {}
      BY <1>1, <3>1, StepIs
    <3> QED BY <1>1, <1>4, <3>2 DEF After
  <2>2. r.ok /\ d = {} => s.ok /\ s.open = {}
    BY <1>2, <2>1
  <2> QED BY <1>1, <1>3, <2>1, <2>2 DEF Singly
<1>5. CASE it.role = "function_call"
  <2>1. n = o \cup {it.id} /\ (o = {} \/ ~q.answered)
    BY <1>1, <1>5 DEF After
  <2>2. c.results = {} /\ c.calls = {it.id}
    <3>1. m.role = "assistant" /\ CallIds(m) = {it.id} /\ Shaped(m)
      BY <1>5 DEF Becomes
    <3> QED BY <1>1, <3>1, StepIs
  <2>3. Recent(a) /\ (Recent(items) => Beside(a))
    BY <1>1, <1>5, RecentStep
  <2>4. r.ok /\ d = {} => s.ok /\ s.open = {it.id}
    BY <1>2, <2>2
  <2>5. o = {} => n = {it.id}
    BY <2>1
  <2> QED BY <1>1, <1>3, <2>1, <2>3, <2>4, <2>5 DEF Singly
<1>6. CASE it.role = "function_call_output"
  <2>1. n = o \ {it.id} /\ it.id \in o /\ (next.answered <=> o # {it.id})
    BY <1>1, <1>6 DEF After
  <2>2. c.results = {it.id} /\ c.calls = {} /\ ~c.talk
    <3>1. m.role = "tool" /\ m.id = it.id /\ Shaped(m)
      BY <1>6 DEF Becomes
    <3> QED BY <1>1, <3>1, StepIs
  <2>3. n = {} \/ next.answered
    BY <2>1
  <2>4. r.ok /\ d = o => s.ok /\ s.open = n
    BY <1>2, <2>1, <2>2
  <2> QED BY <1>1, <1>3, <2>3, <2>4 DEF Singly
<1> QED BY <1>4, <1>5, <1>6 DEF Becomes

\* A responses conversation, whatever provider it is forwarded to.
Forwarded(sys, items) ==
  LET st  == Heed("responses", items)
      mid == Mid(sys, items)
  IN Relayed(Pushed(mid), st) /\ Singly(items, st, Heed("openai", mid)) /\ All("message", mid)

LEMMA PromptFirst ==
  ASSUME NEW sys
  PROVE  LET m == Message("system", sys)
         IN /\ Pushed(App(Nil, m)) = Nil /\ Heed("openai", App(Nil, m)).ok
           /\ Heed("openai", App(Nil, m)).open = {}
            /\ Good("message", m)
<1>1. PICK m, a : m = Message("system", sys) /\ a = App(Nil, m)
  OBVIOUS
<1>2. m.role = "system" /\ m.sig = <<>> /\ "calls" \in DOMAIN m
  BY <1>1 DEF Message
<1>3. Shaped(m) /\ Good("message", m)
  BY <1>2 DEF Shaped, Good
<1>4. Pushed(a) = Nil
  <2>1. Pushed(a) = PushMessage(Pushed(Nil), m)
    BY <1>1, NoneIsSeq, PushedStep
  <2> QED BY <1>2, <2>1, FoldNil, SystemPushed DEF Pushed
<1>5. PICK st : st = Heed("openai", Nil)
  OBVIOUS
<1>6. st.ok /\ st.open = {}
  BY <1>5, HeedStart DEF Start
<1>7. Heed("openai", a) = Took(FALSE, st, MessageStep(m))
  <2>1. StepOf("openai", m) = MessageStep(m)
    BY DEF StepOf
  <2> QED BY <1>1, <1>5, <2>1, NoneIsSeq, HeedStep
<1>8. Heed("openai", a).ok /\ Heed("openai", a).open = {}
  <2>1. PICK s : s = MessageStep(m)
    OBVIOUS
  <2>2. s.calls = {} /\ s.results = {}
    BY <1>2, <1>3, <2>1, StepIs
  <2>3. /\ Took(FALSE, st, s).open = (st.open \ s.results) \cup s.calls
        /\ Took(FALSE, st, s).ok <=> st.ok /\ s.results \subseteq st.open /\ (s.talk
             => st.open = {}) /\ (s.calls # {} => st.open = {})
    BY TookIs
  <2> QED BY <1>6, <1>7, <2>1, <2>2, <2>3
<1> QED BY <1>1, <1>3, <1>4, <1>8

LEMMA ForwardedStart ==
  ASSUME NEW sys, GoodSys(sys)
  PROVE  Forwarded(sys, Nil)
<1>1. PICK st, mid, r : st = Heed("responses", Nil) /\ mid = Mid(sys, Nil)
             /\ r = Heed("openai", mid)
  OBVIOUS
<1>2. st.ok /\ st.open = {}
  BY <1>1, HeedStart DEF Start
<1>3. Pushed(mid) = Nil /\ r.ok /\ r.open = {} /\ All("message", mid)
  <2>1. CASE mid = Nil
    BY <1>1, <2>1, HeedStart, FoldNil, AllNone DEF Start, Pushed
  <2>2. CASE mid # Nil
    <3>1. PICK m : m = Message("system", sys)
      OBVIOUS
    <3>2. mid = App(Nil, m)
      BY <1>1, <2>2, <3>1, MidStart
    <3>3. Pushed(mid) = Nil /\ r.ok /\ r.open = {} /\ Good("message", m)
      BY <1>1, <3>1, <3>2, PromptFirst
    <3> QED BY <3>2, <3>3, AllNone, AllAppend, NoneIsSeq
  <2> QED BY <2>1, <2>2
<1>4. Relayed(Pushed(mid), st)
  BY <1>2, <1>3, ProperStart DEF Relayed
<1>5. Singly(Nil, st, r)
  BY <1>2, <1>3 DEF Singly
<1> QED BY <1>1, <1>3, <1>4, <1>5 DEF Forwarded

LEMMA ForwardedStep ==
  ASSUME NEW sys, NEW items, IsSeq(items), Carried(sys, items), Forwarded(sys, items), NEW it,
           GoodItem(it),
         Heed("responses", App(items, it)).ok
  PROVE  Forwarded(sys, App(items, it))
<1>1. PICK st, mid, r, a, next, ms : /\ st = Heed("responses", items) /\ mid = Mid(sys, items) /\ r = Heed("openai", mid)
                                     /\ a = App(items, it) /\ next = Heed("responses", a)
                                          /\ ms = Mid(sys, a)
  OBVIOUS
<1>2. Relayed(Pushed(mid), st) /\ Singly(items, st, r) /\ All("message", mid) /\ IsSeq(mid)
  BY <1>1 DEF Forwarded, All
<1>3. After(st, it, next) /\ next.ok
  <2>1. StepOf("responses", it) = ItemStep(it)
    BY DEF StepOf
  <2>2. next = Took(TRUE, st, ItemStep(it))
    BY <1>1, <2>1, HeedStep
  <2> QED BY <1>1, <2>2, AfterIs
<1>4. CASE ItemMessages(it) = Nil /\ it.role \in {"system", "user", "assistant", "reasoning"}
  <2>1. ms = mid
    BY <1>1, <1>4, MidStep
  <2>2. Relayed(Pushed(ms), next)
    BY <1>2, <1>3, <1>4, <2>1, RelayedNothing
  <2>3. Singly(a, next, r)
    BY <1>1, <1>2, <1>3, <1>4, SinglyNothing
  <2> QED BY <1>1, <1>2, <2>1, <2>2, <2>3 DEF Forwarded
<1>5. ASSUME NEW m, Becomes(it, m) PROVE Forwarded(sys, a)
  <2>1. ms = App(mid, m) /\ Good("message", m)
    BY <1>1, <1>5, MidStep DEF Becomes
  <2>2. Pushed(ms) = PushMessage(Pushed(mid), m)
    BY <1>2, <2>1, PushedStep
  <2>3. Relayed(Pushed(ms), next)
    BY <1>2, <1>3, <1>5, <2>2, RelayedItem
  <2>4. PICK s : s = Took(FALSE, r, MessageStep(m))
    OBVIOUS
  <2>5. Heed("openai", ms) = s
    <3>1. StepOf("openai", m) = MessageStep(m)
      BY DEF StepOf
    <3> QED BY <1>1, <1>2, <2>1, <2>4, <3>1, HeedStep
  <2>6. Singly(a, next, s)
    BY <1>1, <1>2, <1>3, <1>5, <2>4, SinglyItem
  <2>7. All("message", ms)
    BY <1>2, <2>1, AllAppend
  <2> QED BY <1>1, <2>3, <2>5, <2>6, <2>7 DEF Forwarded
<1> QED BY <1>1, <1>4, <1>5, ItemBecomes

-----------------------------------------------------------------------------
(***************************************************************************)
(* Anthropic -> OpenAI: the results of a message, one after the other.     *)
(***************************************************************************)
Apiece(r) == \A i, j \in 1..Size(r) : i # j => At(r, i).id # At(r, j).id

LEMMA ApieceAppend ==
  ASSUME NEW f, In(f, Outcomes), NEW x, Apiece(App(f, x))
  PROVE  Apiece(f) /\ x.id \notin Ids(f) /\ Ids(App(f, x)) = Ids(f) \cup {x.id}
<1>0. PICK a : a = App(f, x)
  OBVIOUS
<1>1. PICK n \in Nat : n = Size(f)
  BY SizeIs DEF In
<1>2. Size(a) = n + 1 /\ At(a, n + 1) = x /\ \A i \in 1..n : At(a, i) = At(f, i)
  BY <1>0, <1>1, AppendAt DEF In
<1>3. n + 1 \in 1..(n + 1) /\ (\A i \in 1..n : i \in 1..(n + 1) /\ i # n + 1)
  OBVIOUS
<1>4. \A i, j \in 1..(n + 1) : i # j => At(a, i).id # At(a, j).id
  BY <1>0, <1>2 DEF Apiece
<1>5. Apiece(f)
  BY <1>1, <1>2, <1>3, <1>4 DEF Apiece
<1>6. \A i \in 1..n : At(f, i).id # x.id
  BY <1>2, <1>3, <1>4
<1>7. x.id \notin Ids(f)
  BY <1>1, <1>6 DEF Ids
<1>8. Ids(a) = Ids(f) \cup {x.id}
  <2>1. a = f ++ One(x)
    BY <1>0, AppIsCat DEF In
  <2>2. IsSeq(f) /\ IsSeq(One(x))
    BY OneIs DEF In
  <2> QED BY <2>1, <2>2, IdsConcat, IdsOne
<1> QED BY <1>0, <1>5, <1>7, <1>8

LEMMA ResultStep ==
  ASSUME NEW b \in Outcomes, NEW st, st.ok, b.id \in st.open
  PROVE  LET next == Took(FALSE, st, StepOf("openai", Make("result", 0, b)))
         IN next.ok /\ next.open = st.open \ {b.id} /\ Good("message", Make("result", 0, b))
<1>1. PICK m, s, next : m = Make("result", 0, b) /\ s = StepOf("openai", m)
             /\ next = Took(FALSE, st, s)
  OBVIOUS
<1>2. m = [Message("tool", OneText(b.text)) EXCEPT !.id = b.id]
  BY <1>1 DEF Make
<1>3. m.role = "tool" /\ m.id = b.id /\ m.sig = <<>> /\ "calls" \in DOMAIN m
  BY <1>2 DEF Message
<1>4. Shaped(m) /\ Good("message", m)
  BY <1>3 DEF Shaped, Good
<1>5. s.calls = {} /\ s.results = {b.id} /\ ~s.talk
  <2>1. s = MessageStep(m)
    BY <1>1 DEF StepOf
  <2> QED BY <1>3, <1>4, <2>1, StepIs
<1>6. s.results \subseteq st.open /\ next = Took(FALSE, st, s)
  BY <1>1, <1>5
<1>7. next.open = st.open \ {b.id} /\ next.ok
  <2>1. next.ok /\ next.open = st.open \ s.results
    BY <1>5, <1>6, TookResults
  <2> QED BY <1>5, <2>1
<1> QED BY <1>1, <1>4, <1>7

LEMMA ResultsHeeded ==
  ASSUME NEW X, IsSeq(X), Heed("openai", X).ok, NEW r, In(r, Outcomes), Apiece(r),
           Ids(r) \subseteq Heed("openai", X).open
  PROVE  /\ Heed("openai", X ++ Each("result", 0, r)).ok
         /\ Heed("openai", X ++ Each("result", 0, r)).open = Heed("openai", X).open \ Ids(r)
         /\ All("message", Each("result", 0, r)) /\ IsSeq(Each("result", 0, r))
<1> DEFINE W(q) == Heed("openai", X ++ Each("result", 0, q))
           Fine == {k \in Nat : \A q : In(q, Outcomes) /\ Size(q) = k /\ Apiece(q)
                                     /\ Ids(q) \subseteq Heed("openai", X).open
                                   => W(q).ok /\ W(q).open = Heed("openai", X).open \ Ids(q)}
<1>1. 0 \in Fine
  <2>1. ASSUME NEW q, In(q, Outcomes), Size(q) = 0 PROVE W(q).ok
                 /\ W(q).open = Heed("openai", X).open \ Ids(q)
    <3>1. q = Nil
      BY <2>1, EmptySize DEF In
    <3>2. X ++ Each("result", 0, q) = X
      BY <3>1, EachNone, EmptyConcat
    <3> QED BY <3>1, <3>2, IdsNone
  <2> QED BY <2>1
<1>2. ASSUME NEW k \in Nat, k \in Fine PROVE k + 1 \in Fine
  <2> SUFFICES ASSUME NEW q, In(q, Outcomes), Size(q) = k + 1, Apiece(q),
                        Ids(q) \subseteq Heed("openai", X).open
               PROVE  W(q).ok /\ W(q).open = Heed("openai", X).open \ Ids(q)
    OBVIOUS
  <2>1. q # Nil /\ IsSeq(q)
    BY NoneIsSeq DEF In
  <2>2. PICK f, l : IsSeq(f) /\ q = App(f, l) /\ Size(q) = Size(f) + 1
    BY <2>1, SplitLast
  <2>3. Size(f) = k
    BY <2>2, SizeIs
  <2>4. At(q, k + 1) = l /\ \A i \in 1..k : At(q, i) = At(f, i)
    BY <2>2, <2>3, AppendAt
  <2>5. In(f, Outcomes) /\ l \in Outcomes
    <3>1. \A i \in 1..(k + 1) : At(q, i) \in Outcomes
      BY DEF In
    <3>2. k + 1 \in 1..(k + 1) /\ \A i \in 1..k : i \in 1..(k + 1)
      OBVIOUS
    <3> QED BY <2>2, <2>3, <2>4, <3>1, <3>2 DEF In
  <2>6. Apiece(f) /\ l.id \notin Ids(f) /\ Ids(q) = Ids(f) \cup {l.id}
    BY <2>2, <2>5, ApieceAppend
  <2>7. W(f).ok /\ W(f).open = Heed("openai", X).open \ Ids(f)
    <3>1. Ids(f) \subseteq Heed("openai", X).open
      BY <2>6
    <3> QED BY <1>2, <2>3, <2>5, <2>6, <3>1
  <2>8. PICK w, e, m : w = W(f) /\ e = Each("result", 0, f) /\ m = Make("result", 0, l)
    OBVIOUS
  <2>9. IsSeq(e) /\ IsSeq(X ++ e)
    BY <2>2, <2>8, EachIs, ConcatAt
  <2>10. X ++ Each("result", 0, q) = App(X ++ e, m)
    <3>1. Each("result", 0, q) = App(e, m)
      BY <2>2, <2>8, EachAppend
    <3>2. App(e, m) = e ++ One(m) /\ App(X ++ e, m) = (X ++ e) ++ One(m)
      BY <2>9, AppIsCat
    <3> QED BY <2>9, <3>1, <3>2, OneIs, ConcatAssoc
  <2>11. W(q) = Took(FALSE, w, StepOf("openai", m))
    BY <2>8, <2>9, <2>10, HeedStep
  <2>12. l.id \in w.open /\ w.ok
    BY <2>6, <2>7, <2>8
  <2>13. W(q).ok /\ W(q).open = w.open \ {l.id}
    <3>1. PICK v : v = Took(FALSE, w, StepOf("openai", Make("result", 0, l)))
      OBVIOUS
    <3>2. v.ok /\ v.open = w.open \ {l.id}
      BY <2>5, <2>12, <3>1, ResultStep
    <3>3. W(q) = v
      BY <2>8, <2>11, <3>1
    <3> HIDE DEF W
    <3> QED BY <3>2, <3>3
  <2> QED BY <2>6, <2>7, <2>8, <2>13
<1>3. PICK n \in Nat : n = Size(r)
  BY SizeIs DEF In
<1>4. n \in Fine
  <2> HIDE DEF Fine
  <2>1. Fine \subseteq Nat
    BY DEF Fine
  <2> QED BY <1>1, <1>2, Inductive
<1>5. W(r).ok /\ W(r).open = Heed("openai", X).open \ Ids(r)
  BY <1>3, <1>4
<1>6. All("message", Each("result", 0, r)) /\ IsSeq(Each("result", 0, r))
  <2>1. PICK e : e = Each("result", 0, r)
    OBVIOUS
  <2>2. IsSeq(e) /\ Size(e) = n /\ \A i \in 1..n : At(e, i) = Make("result", 0, At(r, i))
    BY <1>3, <2>1, EachIs DEF In
  <2>3. \A b \in Outcomes : Good("message", Make("result", 0, b))
    <3>1. ASSUME NEW b \in Outcomes PROVE Good("message", Make("result", 0, b))
      <4>1. PICK st : st = [ok |-> TRUE, open |-> {b.id}]
        OBVIOUS
      <4>2. st.ok /\ b.id \in st.open
        BY <4>1
      <4> QED BY <4>2, ResultStep
    <3> QED BY <3>1
  <2> QED BY <1>3, <2>1, <2>2, <2>3 DEF All, In
<1> QED BY <1>5, <1>6

-----------------------------------------------------------------------------
(***************************************************************************)
(* Anthropic -> OpenAI: the signature of a message's reasoning.            *)
(***************************************************************************)
Whole(a) == a.sig \in {Nil, a.text}
Sealing(t) ==
  \/ t = Nil
  \/ \E a \in Thinks : Whole(a) /\ t = One(a)
  \/ \E a \in Thinks, b \in Thinks : Whole(a) /\ Whole(b) /\ t = One(a) ++ One(b)
\* One thought of several is signed.
HalfSaid(m) ==
  LET thoughts == OfType({"thinking"}, m.content)
  IN Len(thoughts) > 1 /\ Cardinality({j \in DOMAIN thoughts : thoughts[j].sig # <<>>}) = 1
SignedOf(t) == Kept(t, {k \in DOMAIN t : t[k].sig # <<>>})

LEMMA SealedIs ==
  ASSUME NEW t, Sealing(t)
  PROVE  Thoughtful(t)
  BY DEF Sealing, Thoughtful

LEMMA ThoughtsSealed ==
  ASSUME said \in Nat, NEW t \in Thoughts
  PROVE  Sealing(t)
<1> DEFINE a == Thought(1, FALSE)
           b == Thought(1, TRUE)
           c == Thought(2, TRUE)
           d == Thought(2, FALSE)
<1>1. a \in Thinks /\ b \in Thinks /\ c \in Thinks /\ d \in Thinks
  BY ThoughtIs
<1>2. Whole(a) /\ Whole(b) /\ Whole(c) /\ Whole(d)
  BY ThoughtIs DEF Whole
<1>3. Thoughts = {<<>>, <<a>>, <<b>>, <<b, c>>, <<b, d>>}
  BY DEF Thoughts
<1> HIDE DEF a, b, c, d
<1>4. <<>> = Nil /\ <<a>> = One(a) /\ <<b>> = One(b) /\ <<b, c>> = One(b) ++ One(c)
        /\ <<b, d>> = One(b) ++ One(d)
  BY TwoIs DEF Nil, One
<1> QED BY <1>1, <1>2, <1>3, <1>4 DEF Sealing

LEMMA SignedIs ==
  ASSUME NEW t
  PROVE  SignedOf(t) = Flat("signed", 0, t)
<1> DEFINE D == {k \in DOMAIN t : t[k].sig # <<>>}
<1>1. [k \in DOMAIN t |-> IF k \in D THEN <<t[k]>> ELSE <<>>] = Each("signed", 0, t)
  <2>1. \A k \in DOMAIN t : (IF k \in D THEN <<t[k]>> ELSE <<>>) = Make("signed", 0, t[k])
    BY DEF Make
  <2> HIDE DEF D
  <2> QED BY <2>1 DEF Each
<1> QED BY <1>1 DEF SignedOf, Kept, Flat

LEMMA SignatureIs ==
  ASSUME NEW t, Thoughtful(t), NEW u, Calling(u), NEW p, Wording(p)
  PROVE  LET m == AssistantMessage((t ++ u) ++ p)
             s == SignedOf(t)
         IN /\ OfType({"thinking"}, (t ++ u) ++ p) = t
            /\ "calls" \in DOMAIN m /\ m.think = Joined(t)
            /\ Size(s) = 1 => m.sig = At(s, 1).sig
            /\ Size(s) # 1 => m.sig = <<>>
<1>1. PICK bs : bs = (t ++ u) ++ p
  OBVIOUS
<1>2. In(t, Thinks) /\ In(u, Uses) /\ In(p, Texts) /\ IsSeq(t) /\ IsSeq(u) /\ IsSeq(p)
        /\ IsSeq(t ++ u)
  BY AssistantParts, ConcatAt
<1>3. OfType({"thinking"}, bs) = t
  <2>1. OfType({"thinking"}, bs) = (t ++ Nil) ++ Nil
    BY <1>1, <1>2, OfTypeConcat, BlocksAre
  <2> QED BY <1>2, <2>1, EmptyConcat
<1> DEFINE th == OfType({"thinking"}, bs)
           signed == Kept(th, {k \in DOMAIN th : th[k].sig # <<>>})
           sig == IF Len(signed) = 1 THEN signed[1].sig ELSE <<>>
           uses == OfType({"tool_use"}, bs)
           calls == [k \in DOMAIN uses |-> [id |-> uses[k].id, args |-> uses[k].text]]
<1>4. AssistantMessage(bs) = [Message("assistant", OneText(ContentText(bs))) EXCEPT
                                !.think = Joined(th), !.sig = sig, !.calls = calls]
  BY DEF AssistantMessage
<1>5. signed = SignedOf(th)
  BY DEF SignedOf
<1> HIDE DEF th, signed, uses, calls
<1>6. th = t
  BY <1>3 DEF th
<1>7. (Size(signed) = 1 => sig = At(signed, 1).sig) /\ (Size(signed) # 1 => sig = <<>>)
  BY DEF Size, At
<1> HIDE DEF sig
<1>8. "calls" \in DOMAIN AssistantMessage(bs) /\ AssistantMessage(bs).think = Joined(th)
        /\ AssistantMessage(bs).sig = sig
  BY <1>4 DEF Message
<1> QED BY <1>1, <1>3, <1>5, <1>6, <1>7, <1>8

LEMMA AssistantSigned ==
  ASSUME NEW t, Sealing(t), NEW u, Calling(u), NEW p, Wording(p)
  PROVE  \/ Good("message", AssistantMessage((t ++ u) ++ p))
         \/ HalfSaid(Said("assistant", (t ++ u) ++ p))
<1>1. PICK bs, m, s : bs = (t ++ u) ++ p /\ m = AssistantMessage(bs) /\ s = SignedOf(t)
  OBVIOUS
<1>2. /\ OfType({"thinking"}, bs) = t /\ "calls" \in DOMAIN m /\ m.think = Joined(t)
      /\ Size(s) = 1 => m.sig = At(s, 1).sig
      /\ Size(s) # 1 => m.sig = <<>>
  BY <1>1, SealedIs, SignatureIs
<1>3. s = Flat("signed", 0, t)
  BY <1>1, SignedIs
<1>4. \A x : Make("signed", 0, x) = (IF x.sig # Nil THEN One(x) ELSE Nil)
  BY DEF Make, One, Nil
<1>5. Size(s) # 1 => Good("message", m)
  BY <1>2 DEF Good
<1>6. CASE t = Nil
  <2>1. Size(s) = 0
    BY <1>3, <1>6, FlatNone, NoneIsSeq
  <2> QED BY <1>1, <1>5, <2>1
<1>7. ASSUME NEW a \in Thinks, Whole(a), t = One(a) PROVE Good("message", m)
  <2>1. IsSeq(Make("signed", 0, a))
    BY <1>4, OneIs, NoneIsSeq
  <2>2. s = Make("signed", 0, a)
    BY <1>3, <1>7, <2>1, FlatOne
  <2>3. CASE a.sig = Nil
    <3>1. Size(s) = 0
      BY <1>4, <2>2, <2>3, NoneIsSeq
    <3> QED BY <1>5, <3>1
  <2>4. CASE a.sig # Nil
    <3>1. Size(s) = 1 /\ At(s, 1) = a
      BY <1>4, <2>2, <2>4, OneIs
    <3>2. Joined(t) = a.text
      <4>1. IsSeq(a.text)
        BY FragIs DEF Thinks
      <4> QED BY <1>7, <4>1, JoinedOne
    <3> QED BY <1>2, <1>7, <2>4, <3>1, <3>2 DEF Good, Whole
  <2> QED BY <2>3, <2>4
<1>8. ASSUME NEW a \in Thinks, NEW b \in Thinks, Whole(a), Whole(b), t = One(a) ++ One(b)
      PROVE  Good("message", m) \/ HalfSaid(Said("assistant", bs))
  <2>1. PICK x, y : x = Make("signed", 0, a) /\ y = Make("signed", 0, b)
    OBVIOUS
  <2>2. IsSeq(x) /\ IsSeq(y)
    BY <1>4, <2>1, OneIs, NoneIsSeq
  <2>3. s = x ++ y
    <3>1. Fits("signed", 0, One(a)) /\ Flat("signed", 0, One(a)) = x
            /\ Fits("signed", 0, One(b)) /\ Flat("signed", 0, One(b)) = y
      BY <2>1, <2>2, FlatOne
    <3> QED BY <1>3, <1>8, <3>1, FlatConcat
  <2>4. PICK i \in Nat, j \in Nat : i = Size(x) /\ j = Size(y)
    BY <2>2, SizeIs
  <2>5. Size(s) = i + j
    BY <2>2, <2>3, <2>4, ConcatAt
  <2>6. (a.sig = Nil => i = 0) /\ (a.sig # Nil => i = 1) /\ (b.sig = Nil => j = 0)
          /\ (b.sig # Nil => j = 1)
    BY <1>4, <2>1, <2>4, OneIs, NoneIsSeq
  <2>7. CASE (a.sig = Nil) <=> (b.sig = Nil)
    BY <1>5, <2>5, <2>6, <2>7
  <2>8. CASE ~((a.sig = Nil) <=> (b.sig = Nil))
    <3>1. IsSeq(t) /\ Size(t) = 2 /\ At(t, 1) = a /\ At(t, 2) = b
      <4>1. /\ IsSeq(One(a)) /\ Size(One(a)) = 1 /\ At(One(a), 1) = a
            /\ IsSeq(One(b)) /\ Size(One(b)) = 1 /\ At(One(b), 1) = b
        BY OneIs
      <4>2. /\ IsSeq(t) /\ Size(t) = 1 + 1 /\ (\A k \in 1..1 : At(t, k) = At(One(a), k))
            /\ \A k \in 1..1 : At(t, 1 + k) = At(One(b), k)
        BY <1>8, <4>1, ConcatAt
      <4>3. At(t, 1 + 1) = b
        BY <4>1, <4>2
      <4> QED BY <4>1, <4>2, <4>3
    <3>2. DOMAIN t = 1..2 /\ Len(t) = 2 /\ t[1] = a /\ t[2] = b
      BY <3>1, SizeDomain DEF Size, At
    <3>3. PICK D : D = {k \in DOMAIN t : t[k].sig # <<>>}
      OBVIOUS
    <3>4. D = {1} \/ D = {2}
      <4>1. \A k : k \in D <=> k \in 1..2 /\ t[k].sig # Nil
        BY <3>2, <3>3 DEF Nil
      <4>2. \A k \in 1..2 : k = 1 \/ k = 2
        OBVIOUS
      <4>3. 1 \in 1..2 /\ 2 \in 1..2 /\ 1 # 2
        OBVIOUS
      <4>4. CASE a.sig # Nil /\ b.sig = Nil
        <5>1. \A k : k \in D <=> k = 1
          BY <3>2, <4>1, <4>2, <4>3, <4>4
        <5> QED BY <5>1
      <4>5. CASE a.sig = Nil /\ b.sig # Nil
        <5>1. \A k : k \in D <=> k = 2
          BY <3>2, <4>1, <4>2, <4>3, <4>5
        <5> QED BY <5>1
      <4> QED BY <2>8, <4>4, <4>5
    <3>5. Cardinality(D) = 1
      BY <3>4, FS_Singleton
    <3>6. PICK h : h = Said("assistant", bs)
      OBVIOUS
    <3>7. OfType({"thinking"}, h.content) = t
      BY <1>2, <3>6, SaidIs
    <3>8. Len(t) > 1 /\ Cardinality({k \in DOMAIN t : t[k].sig # <<>>}) = 1
      BY <3>2, <3>3, <3>5
    <3>9. HalfSaid(h)
      BY <3>7, <3>8, Zenon DEF HalfSaid
    <3> QED BY <3>6, <3>9
  <2> QED BY <2>7, <2>8
<1> QED BY <1>1, <1>6, <1>5, <1>7, <1>8 DEF Sealing

-----------------------------------------------------------------------------
(***************************************************************************)
(* Anthropic -> OpenAI: the order is kept.                                 *)
(***************************************************************************)
Half(msgs) == \E i \in 1..Size(msgs) : HalfSaid(At(msgs, i))
Asunder(sys, msgs) == SystemMessage(sys) ++ Apart(msgs)
\* After a message that leaves results out, nothing more is said.
Backed(sys, msgs) ==
  LET st == Heed("anthropic", msgs)
      q  == Asunder(sys, msgs)
      r  == Heed("openai", q)
  IN /\ st.ok /\ IsSeq(q) /\ (msgs # Nil => By(msgs, "user") \/ By(msgs, "assistant"))
     /\ st.open = {} \/ By(msgs, "assistant") => r.ok /\ r.open = st.open
     /\ All("message", q) \/ Half(msgs)

LEMMA HalfAppend ==
  ASSUME NEW msgs, IsSeq(msgs), NEW m, Half(msgs) \/ HalfSaid(m)
  PROVE  Half(App(msgs, m))
<1>0. PICK a : a = App(msgs, m)
  OBVIOUS
<1>1. PICK n \in Nat : n = Size(msgs)
  BY SizeIs
<1>2. Size(a) = n + 1 /\ At(a, n + 1) = m /\ \A i \in 1..n : At(a, i) = At(msgs, i)
  BY <1>0, <1>1, AppendAt
<1>3. n + 1 \in 1..(n + 1) /\ \A i \in 1..n : i \in 1..(n + 1)
  OBVIOUS
<1> QED BY <1>0, <1>1, <1>2, <1>3 DEF Half

LEMMA AsunderStep ==
  ASSUME NEW sys, NEW msgs, Retold(sys, msgs), NEW m, IsSeq(TakenApart(m))
  PROVE  /\ IsSeq(Asunder(sys, msgs))
         /\ Asunder(sys, App(msgs, m)) = Asunder(sys, msgs) ++ TakenApart(m)
<1>1. PICK a, s : a = TakenApart(m) /\ s = SystemMessage(sys)
  OBVIOUS
<1>2. IsSeq(a) /\ IsSeq(s)
  BY <1>1, SystemMessageIs DEF Retold, Fits
<1>3. Make("apart", 0, m) = a
  BY <1>1 DEF Make
<1>4. Apart(App(msgs, m)) = Apart(msgs) ++ a /\ IsSeq(Apart(msgs))
  BY <1>2, <1>3, FlatAppend DEF Retold, Apart
<1> QED BY <1>1, <1>2, <1>4, ConcatAssoc, ConcatAt DEF Asunder

LEMMA BackedStart ==
  ASSUME NEW sys, GoodSys(sys)
  PROVE  Backed(sys, Nil)
<1>1. PICK q, r, st : q = Asunder(sys, Nil) /\ r = Heed("openai", q)
             /\ st = Heed("anthropic", Nil)
  OBVIOUS
<1>2. st.ok /\ st.open = {}
  BY <1>1, HeedStart DEF Start
<1>3. q = Mid(sys, Nil)
  BY <1>1, FlatNone DEF Asunder, Mid, Apart
<1>4. r.ok /\ r.open = {} /\ All("message", q)
  <2>1. CASE q = Nil
    BY <1>1, <2>1, HeedStart, AllNone DEF Start
  <2>2. CASE q # Nil
    <3>1. PICK m : m = Message("system", sys)
      OBVIOUS
    <3>2. q = App(Nil, m)
      BY <1>3, <2>2, <3>1, MidStart
    <3>3. r.ok /\ r.open = {} /\ Good("message", m)
      BY <1>1, <3>1, <3>2, PromptFirst
    <3> QED BY <3>2, <3>3, AllNone, AllAppend, NoneIsSeq
  <2> QED BY <2>1, <2>2
<1>5. IsSeq(q)
  BY <1>4 DEF All
<1> QED BY <1>1, <1>2, <1>4, <1>5 DEF Backed

LEMMA SaidLast ==
  ASSUME NEW msgs, IsSeq(msgs), NEW w, NEW c
  PROVE  /\ By(App(msgs, Said(w, c)), w)
         /\ \A v : By(App(msgs, Said(w, c)), v) => v = w
<1>1. PICK a, m : m = Said(w, c) /\ a = App(msgs, m)
  OBVIOUS
<1>2. Last(a) = m /\ a # Nil /\ m.role = w
  BY <1>1, LastOfAppend, SaidIs
<1> QED BY <1>1, <1>2 DEF By

LEMMA BackedUser ==
  ASSUME NEW sys, NEW msgs, IsSeq(msgs), Retold(sys, msgs), Backed(sys, msgs),
           ~By(msgs, "user"), said \in Nat,
         NEW o, In(o, Calls), Distinct(o), NEW p, In(p, Parts),
         Heed("anthropic", App(msgs, Said("user", AnthropicResults(o) ++ p))).ok
  PROVE  Backed(sys, App(msgs, Said("user", AnthropicResults(o) ++ p)))
<1>1. PICK r, m, a, q, st, next, x :
        /\ r = AnthropicResults(o) /\ m = Said("user", r ++ p) /\ a = App(msgs, m)
             /\ q = Asunder(sys, msgs)
        /\ st = Heed("anthropic", msgs) /\ next = Heed("anthropic", a) /\ x = Heed("openai", q)
  OBVIOUS
<1>2. In(r, Outcomes) /\ Apiece(r)
  <2>1. Size(r) = Size(o) /\ \A i \in 1..Size(o) : At(r, i).id = At(o, i)
    BY <1>1, ResultsAre
  <2> QED BY <1>1, <2>1, ResultsAre DEF Apiece, Distinct
<1>3. next.ok /\ Ids(r) \subseteq st.open /\ next.open = st.open \ Ids(r)
  <2>1. PICK s : s = StepOf("anthropic", m)
    OBVIOUS
  <2>2. s.calls = {} /\ s.results = Ids(r)
    BY <1>1, <1>2, <2>1, AnthropicUserStep
  <2>3. next = Took(FALSE, st, s)
    BY <1>1, <2>1, HeedStep
  <2>4. next.ok
    BY <1>1
  <2>5. next.open = (st.open \ s.results) \cup s.calls /\ (next.ok
          => s.results \subseteq st.open)
    BY <2>3, TookIs
  <2> QED BY <2>2, <2>4, <2>5
<1>4. x.ok /\ x.open = st.open /\ IsSeq(q)
  <2>1. st.open = {} \/ By(msgs, "assistant")
    <3>1. CASE msgs = Nil
      BY <1>1, <3>1, HeedStart DEF Start
    <3>2. CASE msgs # Nil
      BY <3>2 DEF Backed
    <3> QED BY <3>1, <3>2
  <2> QED BY <1>1, <2>1 DEF Backed
<1>5. PICK e, tail, y : e = Each("result", 0, r)
             /\ tail = (IF p = Nil THEN Nil ELSE One(Message("user", p))) /\ y = q ++ e
  OBVIOUS
<1>6. Heed("openai", y).ok /\ Heed("openai", y).open = next.open /\ All("message", e)
        /\ IsSeq(e) /\ IsSeq(y)
  <2>1. Ids(r) \subseteq Heed("openai", q).open /\ Heed("openai", q).ok
          /\ Heed("openai", q).open = st.open
    BY <1>1, <1>3, <1>4
  <2>2. Heed("openai", q ++ Each("result", 0, r)).ok
          /\ Heed("openai", q ++ Each("result", 0, r)).open = Heed("openai", q).open \ Ids(r)
        /\ All("message", Each("result", 0, r)) /\ IsSeq(Each("result", 0, r))
    BY <1>2, <1>4, <2>1, ResultsHeeded
  <2> QED BY <1>3, <1>4, <1>5, <2>1, <2>2, ConcatAt
<1>7. TakenApart(m) = e ++ tail
  <2>1. TakenApart(m) = UserMessages(r ++ p)
    BY <1>1, SaidIs DEF TakenApart
  <2> QED BY <1>2, <1>5, <2>1, UserMessagesAre
<1>8. IsSeq(tail) /\ All("message", tail)
  <2>1. CASE p = Nil
    BY <1>5, <2>1, NoneIsSeq, AllNone
  <2>2. CASE p # Nil
    <3>1. Good("message", Message("user", p))
      BY PlainShape
    <3> QED BY <1>5, <2>2, <3>1, OneIs, AllOne
  <2> QED BY <2>1, <2>2
<1>9. Asunder(sys, a) = y ++ tail
  <2>1. IsSeq(TakenApart(m))
    BY <1>6, <1>7, <1>8, ConcatAt
  <2>2. Asunder(sys, a) = q ++ (e ++ tail)
    BY <1>1, <1>7, <2>1, AsunderStep
  <2> QED BY <1>4, <1>5, <1>6, <1>8, <2>2, ConcatAssoc
<1>10. IsSeq(y ++ tail)
  BY <1>6, <1>8, ConcatAt
<1>11. next.open = {} => Heed("openai", y ++ tail).ok /\ Heed("openai", y ++ tail).open = {}
  <2>1. CASE p = Nil
    BY <1>5, <1>6, <2>1, EmptyConcat
  <2>2. CASE p # Nil /\ next.open = {}
    <3>1. PICK u, s, z : u = Message("user", p) /\ s = MessageStep(u) /\ z = Heed("openai", y)
      OBVIOUS
    <3>2. y ++ tail = App(y, u)
      BY <1>5, <1>6, <2>2, <3>1, AppIsCat
    <3>3. Heed("openai", App(y, u)) = Took(FALSE, z, s)
      <4>1. StepOf("openai", u) = s
        BY <3>1 DEF StepOf
      <4> QED BY <1>6, <3>1, <4>1, HeedStep
    <3>4. s.calls = {} /\ s.results = {}
      <4>1. u.role = "user"
        BY <3>1 DEF Message
      <4> QED BY <3>1, <4>1, StepIs
    <3>5. /\ Took(FALSE, z, s).open = (z.open \ s.results) \cup s.calls
          /\ Took(FALSE, z, s).ok <=> z.ok /\ s.results \subseteq z.open /\ (s.talk
               => z.open = {}) /\ (s.calls # {} => z.open = {})
      BY TookIs
    <3>6. z.ok /\ z.open = {}
      BY <1>6, <2>2, <3>1
    <3> QED BY <3>2, <3>3, <3>4, <3>5, <3>6
  <2> QED BY <2>1, <2>2
<1>12. All("message", q) \/ Half(msgs) => All("message", y ++ tail) \/ Half(a)
  <2>1. All("message", q) => All("message", y ++ tail)
    BY <1>5, <1>6, <1>8, AllConcat
  <2> QED BY <1>1, <2>1, HalfAppend
<1>13. By(a, "user") /\ ~By(a, "assistant")
  BY <1>1, SaidLast
<1>14. Backed(sys, a)
  <2>1. All("message", q) \/ Half(msgs)
    BY <1>1 DEF Backed
  <2> QED BY <1>1, <1>3, <1>9, <1>10, <1>11, <1>12, <1>13, <2>1 DEF Backed
<1> QED BY <1>1, <1>14

LEMMA AssistantTalks ==
  ASSUME NEW t, Thoughtful(t), NEW u, Calling(u), NEW p, Wording(p), (t ++ u) ++ p # Nil
  PROVE  StepOf("anthropic", Said("assistant", (t ++ u) ++ p)).talk
<1>1. PICK c : c = (t ++ u) ++ p
  OBVIOUS
<1> DEFINE S == Thinks \cup Uses \cup Texts
<1>2. In(t, Thinks) /\ In(u, Uses) /\ In(p, Texts)
  BY AssistantParts
<1>3. \A x \in S : x.type # "tool_result"
  BY DEF Thinks, Uses, Texts
<1>4. In(t, S) /\ In(u, S) /\ In(p, S)
  BY <1>2 DEF In
<1> HIDE DEF S
<1>5. In(c, S)
  BY <1>1, <1>4, InConcat
<1>6. Talks(c)
  <2>1. PICK n \in Nat : n = Size(c) /\ n # 0
    BY <1>1, <1>5, EmptySize, SizeIs DEF In
  <2>2. 1 \in 1..n
    BY <2>1
  <2> QED BY <1>1, <1>3, <1>5, <2>1, <2>2 DEF Talks, In
<1>7. IsSeq(c)
  BY <1>5 DEF In
<1>8. StepOf("anthropic", Said("assistant", c)).talk = (c # <<>>
        /\ Head(c).type # "tool_result")
  BY <1>7, OfTypeIsSeq, BlocksStepIs
<1> QED BY <1>1, <1>6, <1>7, <1>8, HeadIs

LEMMA CallsAnswered ==
  ASSUME NEW u, Calling(u), NEW m, m.calls = Each("call", 0, u)
  PROVE  CallIds(m) = Ids(u)
<1>1. PICK c : c = Each("call", 0, u)
  OBVIOUS
<1>2. IsSeq(u)
  BY OneIs, NoneIsSeq, ConcatAt DEF Calling
<1>3. PICK n \in Nat : n = Size(u)
  BY <1>2, SizeIs
<1>4. IsSeq(c) /\ Size(c) = n /\ \A i \in 1..n : At(c, i) = Make("call", 0, At(u, i))
  BY <1>1, <1>2, <1>3, EachIs
<1>5. \A x : Make("call", 0, x).id = x.id
  BY DEF Make
<1>6. DOMAIN c = 1..n /\ \A k : c[k] = At(c, k)
  BY <1>4, SizeDomain DEF At
<1>7. CallIds(m) = {At(c, k).id : k \in 1..n}
  BY <1>1, <1>6 DEF CallIds
<1>8. \A k \in 1..n : At(c, k).id = At(u, k).id
  BY <1>4, <1>5
<1> QED BY <1>3, <1>7, <1>8 DEF Ids

LEMMA BackedAssistant ==
  ASSUME NEW sys, NEW msgs, IsSeq(msgs), Retold(sys, msgs), Backed(sys, msgs),
         NEW t, Sealing(t), NEW u, Calling(u), NEW p, Wording(p), (t ++ u) ++ p # Nil,
         Heed("anthropic", App(msgs, Said("assistant", (t ++ u) ++ p))).ok
  PROVE  Backed(sys, App(msgs, Said("assistant", (t ++ u) ++ p)))
<1>1. PICK bs, m, a, q, st, next, x, w :
        /\ bs = (t ++ u) ++ p /\ m = Said("assistant", bs) /\ a = App(msgs, m)
             /\ q = Asunder(sys, msgs)
        /\ st = Heed("anthropic", msgs) /\ next = Heed("anthropic", a) /\ x = Heed("openai", q)
        /\ w = AssistantMessage(bs)
  OBVIOUS
<1>2. Thoughtful(t)
  BY SealedIs
<1>3. st.open = {} /\ next.ok /\ next.open = Ids(u)
  <2>1. PICK s : s = StepOf("anthropic", m)
    OBVIOUS
  <2>2. s.calls = Ids(u) /\ s.results = {} /\ s.talk
    BY <1>1, <1>2, <2>1, AnthropicAssistantStep, AssistantTalks
  <2>3. next = Took(FALSE, st, s)
    BY <1>1, <2>1, HeedStep
  <2>4. next.ok
    BY <1>1
  <2>5. next.open = (st.open \ s.results) \cup s.calls /\ (next.ok => (s.talk => st.open = {}))
    BY <2>3, TookIs
  <2> QED BY <2>2, <2>4, <2>5
<1>4. x.ok /\ x.open = {} /\ IsSeq(q)
  BY <1>1, <1>3 DEF Backed
<1>5. w.role = "assistant" /\ w.calls = Each("call", 0, u)
  BY <1>1, <1>2, AssistantMessageIs
<1>6. TakenApart(m) = One(w)
  <2>1. m.role # "user" /\ m.content = bs
    BY <1>1, SaidIs
  <2> QED BY <1>1, <2>1 DEF TakenApart, One
<1>7. Asunder(sys, a) = App(q, w)
  <2>1. Asunder(sys, a) = q ++ One(w)
    BY <1>1, <1>6, OneIs, AsunderStep
  <2> QED BY <1>4, <2>1, AppIsCat
<1>8. Heed("openai", App(q, w)).ok /\ Heed("openai", App(q, w)).open = next.open
  <2>1. PICK s : s = MessageStep(w)
    OBVIOUS
  <2>2. s.calls = Ids(u) /\ s.results = {}
    BY <1>5, <2>1, StepIs, CallsAnswered
  <2>3. Heed("openai", App(q, w)) = Took(FALSE, x, s)
    <3>1. StepOf("openai", w) = s
      BY <2>1 DEF StepOf
    <3> QED BY <1>1, <1>4, <3>1, HeedStep
  <2>4. /\ Took(FALSE, x, s).open = (x.open \ s.results) \cup s.calls
        /\ Took(FALSE, x, s).ok <=> x.ok /\ s.results \subseteq x.open /\ (s.talk
             => x.open = {}) /\ (s.calls # {} => x.open = {})
    BY TookIs
  <2>5. Took(FALSE, x, s).open = next.open
    BY <1>3, <1>4, <2>2, <2>4
  <2>6. Took(FALSE, x, s).ok
    BY <1>4, <2>2, <2>4
  <2> QED BY <2>3, <2>5, <2>6
<1>9. All("message", q) \/ Half(msgs) => All("message", App(q, w)) \/ Half(a)
  <2>1. Good("message", w) \/ HalfSaid(m)
    BY <1>1, AssistantSigned
  <2> QED BY <1>1, <1>4, <2>1, HalfAppend, AllAppend
<1>10. By(a, "assistant") /\ IsSeq(App(q, w))
  BY <1>1, <1>4, SaidLast, AppendAt
<1>11. Backed(sys, a)
  <2>1. All("message", q) \/ Half(msgs)
    BY <1>1 DEF Backed
  <2> QED BY <1>1, <1>3, <1>7, <1>8, <1>9, <1>10, <2>1 DEF Backed
<1> QED BY <1>1, <1>11

-----------------------------------------------------------------------------
(***************************************************************************)
(* What a provider refuses a conversation for.                             *)
(***************************************************************************)
Emptied(msgs) == \E k \in DOMAIN msgs : msgs[k].content = <<>>
Unable(set) == set.choice # "unset" /\ set.tools = {}

LEMMA FaultsAre ==
  ASSUME NEW protocol, NEW b, IsSeq(b.msgs)
  PROVE  LET F == Faults(protocol, b)
         IN /\ F \subseteq {"unanswered", "signature", "alternate", "empty", "choice"}
            /\ "unanswered" \in F <=> ~(Heed(protocol, b.msgs).ok
                 /\ Heed(protocol, b.msgs).open = {})
            /\ "signature" \in F <=> ~SignaturesFit(b)
            /\ "alternate" \in F <=> protocol = "anthropic" /\ ~Alt(b.msgs)
            /\ "empty" \in F <=> protocol = "anthropic" /\ Emptied(b.msgs)
            /\ "choice" \in F <=> Unable(b.set)
<1>1. PICK end : end = Answering(Steps(protocol, b), protocol = "responses")
  OBVIOUS
<1>2. end = Heed(protocol, b.msgs)
  BY <1>1, AnsweringIs
<1>3. Alternates(b) <=> Alt(b.msgs)
  BY DEF Alternates, Alt, Size, At
<1>4. \A u, s, a, e, c \in BOOLEAN :
        LET F == (IF u THEN {} ELSE {"unanswered"}) \cup (IF s THEN {} ELSE {"signature"})
                 \cup (IF a THEN {"alternate"} ELSE {}) \cup (IF e THEN {"empty"} ELSE {})
                 \cup (IF c THEN {"choice"} ELSE {})
        IN /\ F \subseteq {"unanswered", "signature", "alternate", "empty", "choice"}
           /\ "unanswered" \in F <=> ~u
           /\ "signature" \in F <=> ~s
           /\ "alternate" \in F <=> a
           /\ "empty" \in F <=> e
           /\ "choice" \in F <=> c
  OBVIOUS
<1> DEFINE u == end.ok /\ end.open = {}
           s == SignaturesFit(b)
           a == protocol = "anthropic" /\ ~Alternates(b)
           e == protocol = "anthropic" /\ \E k \in DOMAIN b.msgs : b.msgs[k].content = <<>>
           c == b.set.choice # "unset" /\ b.set.tools = {}
<1>5. Faults(protocol, b) = (IF u THEN {} ELSE {"unanswered"}) \cup (IF s THEN {} ELSE {"signature"})
                 \cup (IF a THEN {"alternate"} ELSE {}) \cup (IF e THEN {"empty"} ELSE {})
                 \cup (IF c THEN {"choice"} ELSE {})
  BY <1>1 DEF Faults
<1>6. /\ u <=> Heed(protocol, b.msgs).ok /\ Heed(protocol, b.msgs).open = {}
      /\ a <=> protocol = "anthropic" /\ ~Alt(b.msgs)
      /\ e <=> protocol = "anthropic" /\ Emptied(b.msgs)
      /\ c <=> Unable(b.set)
  BY <1>2, <1>3 DEF Emptied, Unable
<1>7. s <=> SignaturesFit(b)
  OBVIOUS
<1> HIDE DEF u, s, a, e, c
<1> QED BY <1>4, <1>5, <1>6, <1>7

LEMMA SignaturesAre ==
  ASSUME NEW b, All("message", b.msgs) \/ All("turn", b.msgs)
  PROVE  SignaturesFit(b)
<1>1. DOMAIN b.msgs = 1..Size(b.msgs)
  BY SizeDomain DEF All
<1>2. CASE All("message", b.msgs)
  <2>1. \A k \in DOMAIN b.msgs : "calls" \in DOMAIN b.msgs[k]
          /\ b.msgs[k].sig \in {<<>>, b.msgs[k].think}
    BY <1>1, <1>2 DEF All, Good, At
  <2> QED BY <2>1 DEF SignaturesFit
<1>3. CASE All("turn", b.msgs)
  <2>1. \A k \in DOMAIN b.msgs :
          /\ "calls" \notin DOMAIN b.msgs[k]
          /\ \A j \in DOMAIN b.msgs[k].content : b.msgs[k].content[j].sig \in {<<>>, b.msgs[k].content[j].text}
    BY <1>1, <1>3 DEF All, Good, At
  <2> QED BY <2>1 DEF SignaturesFit
<1> QED BY <1>2, <1>3

LEMMA TurnsAccepted ==
  ASSUME NEW b, Proper(b.msgs, {})
  PROVE  Faults("anthropic", b) \subseteq {"choice"}
           /\ ("choice" \in Faults("anthropic", b) <=> Unable(b.set))
<1>1. IsSeq(b.msgs) /\ All("turn", b.msgs) /\ Alt(b.msgs)
  BY DEF Proper, All
<1>2. Heed("anthropic", b.msgs).ok /\ Heed("anthropic", b.msgs).open = {}
  BY AnsweredHeed DEF Proper
<1>3. ~Emptied(b.msgs)
  <2>1. DOMAIN b.msgs = 1..Size(b.msgs)
    BY <1>1, SizeDomain
  <2> QED BY <1>1, <2>1 DEF All, Good, At, Emptied
<1>4. SignaturesFit(b)
  BY <1>1, SignaturesAre
<1> QED BY <1>1, <1>2, <1>3, <1>4, FaultsAre

LEMMA MessagesAccepted ==
  ASSUME NEW b, IsSeq(b.msgs)
  PROVE  LET F == Faults("openai", b)
         IN /\ F \subseteq {"unanswered", "signature", "choice"}
            /\ Heed("openai", b.msgs).ok /\ Heed("openai", b.msgs).open = {}
                 => "unanswered" \notin F
            /\ All("message", b.msgs) => "signature" \notin F
            /\ "choice" \in F <=> Unable(b.set)
  BY FaultsAre, SignaturesAre

-----------------------------------------------------------------------------
(***************************************************************************)
(* The invariant.                                                          *)
(***************************************************************************)
Kempt ==
  /\ client = "openai" => Ordered(body.msgs)
  /\ client = "anthropic" => Backed(body.sys, body.msgs)
  /\ client = "responses" => Forwarded(body.sys, body.msgs)

LEMMA KemptFirst ==
  ASSUME Init, Held
  PROVE  Kempt
<1>1. PICK set, sys : body = [set |-> set, sys |-> sys, msgs |-> <<>>]
  BY DEF Init
<1>2. body.msgs = Nil /\ GoodSys(body.sys)
  BY <1>1 DEF Held, Bodied, Nil
<1> QED BY <1>2, OrderedStart, BackedStart, ForwardedStart DEF Kempt

\* What an anthropic client may still add.
LEMMA AnthropicGuard ==
  ASSUME NEW b, NEW msgs, IsSeq(msgs), NEW w, NEW c, b.msgs = App(msgs, Said(w, c)),
         Faults("anthropic", b) \subseteq {"unanswered"}
  PROVE  c # Nil /\ (msgs = Nil \/ Last(msgs).role # w)
<1>1. PICK a, m : m = Said(w, c) /\ a = App(msgs, m)
  OBVIOUS
<1>2. PICK n \in Nat : n = Size(msgs)
  BY SizeIs
<1>3. IsSeq(a) /\ Size(a) = n + 1 /\ At(a, n + 1) = m
  BY <1>1, <1>2, AppendAt
<1>4. Alt(a) /\ ~Emptied(a)
  BY <1>1, <1>3, FaultsAre
<1>5. m.role = w /\ m.content = c
  BY <1>1, SaidIs
<1>6. c # Nil
  <2>1. n + 1 \in DOMAIN a
    BY <1>3, SizeDomain
  <2>2. a[n + 1].content # <<>>
    BY <1>4, <2>1 DEF Emptied
  <2> QED BY <1>3, <1>5, <2>2 DEF At, Nil
<1> QED BY <1>1, <1>4, <1>5, <1>6, AltAppend

LEMMA KemptNext ==
  ASSUME Held, Kempt, [Next]_vars
  PROVE  Kempt'
<1>1. CASE UNCHANGED vars
  BY <1>1 DEF vars, Kempt, Ordered, Backed, Forwarded, Asunder, Mid, Heed, Start, Pushed
<1>2. CASE Next
  <2>1. PICK m \in Messages : Add(m)
    BY <1>2 DEF Next
  <2>2. PICK msgs, sys, b : msgs = body.msgs /\ sys = body.sys /\ b = body'
    OBVIOUS
  <2>3. /\ b.msgs = App(msgs, m) /\ b.sys = sys /\ client' = client
        /\ said \in Nat /\ IsSeq(msgs)
    BY <2>1, <2>2, AddIs DEF Held, Bodied
  <2>4. Heed(client, App(msgs, m)).ok /\ Faults(client, b) \subseteq {"unanswered"}
    <3>1. IsSeq(b.msgs)
      BY <2>3, AppendAt
    <3>2. Answering(Steps(client, b), client = "responses").ok
      BY <2>1, <2>2 DEF Add
    <3>3. Faults(client, b) \subseteq {"unanswered"}
      BY <2>1, <2>2 DEF Add
    <3> QED BY <2>3, <3>1, <3>2, <3>3, AnsweringIs
  <2>5. ASSUME client = "openai" PROVE Ordered(App(msgs, m))
    <3>1. Shaped(m)
      BY <2>1, <2>3, <2>5, OpenAiShapes DEF Messages
    <3> QED BY <2>2, <2>3, <2>4, <2>5, <3>1, OrderedStep DEF Kempt
  <2>6. ASSUME client = "anthropic" PROVE Backed(sys, App(msgs, m))
    <3>1. m \in AnthropicMessages /\ IsFiniteSet(Open) /\ Open \subseteq Calls
      BY <2>1, <2>6, OpenIs DEF Messages, Held, Translated, Bodied
    <3>2. Retold(sys, msgs) /\ Backed(sys, msgs)
      BY <2>2, <2>6 DEF Held, Translated, Kempt
    <3>3. ASSUME NEW o, In(o, Calls), Distinct(o), NEW p, In(p, Parts),
                   m = Said("user", AnthropicResults(o) ++ p)
          PROVE  Backed(sys, App(msgs, m))
      <4>1. ~By(msgs, "user")
        BY <2>3, <2>4, <2>6, <3>3, AnthropicGuard DEF By
      <4> QED BY <2>3, <2>4, <2>6, <3>2, <3>3, <4>1, BackedUser
    <3>4. ASSUME NEW t \in Thoughts, NEW cs \in CallSeqs, NEW p, Calling(AnthropicCalls(cs)),
                   Wording(p),
                 m = Said("assistant", (t ++ AnthropicCalls(cs)) ++ p)
          PROVE  Backed(sys, App(msgs, m))
      <4>1. (t ++ AnthropicCalls(cs)) ++ p # Nil
        BY <2>3, <2>4, <2>6, <3>4, AnthropicGuard
      <4>2. Sealing(t)
        BY <2>3, ThoughtsSealed
      <4> QED BY <2>3, <2>4, <2>6, <3>2, <3>4, <4>1, <4>2, BackedAssistant
    <3> QED BY <2>3, <3>1, <3>3, <3>4, AnthropicShapes
  <2>7. ASSUME client = "responses" PROVE Forwarded(sys, App(msgs, m))
    <3>1. GoodItem(m)
      BY <2>1, <2>3, <2>7, ResponsesItemsFit DEF Messages
    <3>2. Carried(sys, msgs) /\ Forwarded(sys, msgs)
      BY <2>2, <2>7 DEF Held, Translated, Kempt
    <3> QED BY <2>3, <2>4, <2>7, <3>1, <3>2, ForwardedStep
  <2> QED BY <2>2, <2>3, <2>5, <2>6, <2>7 DEF Kempt
<1> QED BY <1>1, <1>2

\* The tools of everybody but a responses client are passed on.
LEMMA ToolsKept ==
  ASSUME Held, client # "responses"
  PROVE  Converted.set.tools = body.set.tools
<1>1. PICK set, q : set = body.set /\ q = Converted.set
  OBVIOUS
<1>2. set \in [stream : BOOLEAN, usage : BOOLEAN, max : Nat, tools : SUBSET {"function", "builtin"},
               choice : {"unset", "auto", "none", "required", "named"}]
  BY <1>1, RequestsAssumption DEF Held, Bodied
<1>3. IsSeq(body.msgs)
  BY DEF Held, Bodied
<1>4. CASE client = provider
  <2>1. Converted = PassOn(body)
    BY <1>4 DEF Converted
  <2>2. CASE client = "openai" /\ set.stream
    <3>1. q = [set EXCEPT !.usage = TRUE]
      BY <1>1, <2>1, <2>2 DEF PassOn, Held, Bodied
    <3> QED BY <1>1, <1>2, <3>1
  <2>3. CASE ~(client = "openai" /\ set.stream)
    <3>1. q = set
      BY <1>1, <2>1, <2>3 DEF PassOn
    <3> QED BY <1>1, <3>1
  <2> QED BY <2>2, <2>3
<1>5. CASE client = "openai" /\ provider = "anthropic"
  <2>1. q = [set EXCEPT !.usage = FALSE, !.max = IF @ = 0 THEN DefaultMax ELSE @]
    BY <1>1, <1>3, <1>5, ToAnthropicIs DEF Converted
  <2> QED BY <1>1, <1>2, <2>1
<1>6. CASE client = "anthropic" /\ provider = "openai"
  <2>1. q = [set EXCEPT !.usage = set.stream]
    BY <1>1, <1>6, ToOpenAiIs DEF Converted
  <2> QED BY <1>1, <1>2, <2>1
<1> QED BY <1>4, <1>5, <1>6, PairsAre DEF Held, PairCases

\* What ProviderAccepts leaves out.
Allowed ==
  (IF client = "responses" /\ provider = "openai" /\ SideBySide THEN {"unanswered"} ELSE {})
  \cup (IF client = "responses" /\ body.set.tools \subseteq {"builtin"} THEN {"choice"} ELSE {})
  \cup (IF client = "anthropic" /\ provider = "openai" /\ HalfSigned THEN {"signature"} ELSE {})

LEMMA AllowedIs ==
  /\ client = "responses" /\ provider = "openai" /\ SideBySide => "unanswered" \in Allowed
  /\ client = "responses" /\ body.set.tools \subseteq {"builtin"} => "choice" \in Allowed
  /\ client = "anthropic" /\ provider = "openai" /\ HalfSigned => "signature" \in Allowed
  BY DEF Allowed

LEMMA HalfIs ==
  ASSUME IsSeq(body.msgs), Half(body.msgs)
  PROVE  HalfSigned
<1>1. PICK i \in 1..Size(body.msgs) : HalfSaid(At(body.msgs, i))
  BY DEF Half
<1>2. i \in DOMAIN body.msgs /\ At(body.msgs, i) = body.msgs[i]
  BY SizeDomain DEF At
<1>3. HalfSaid(body.msgs[i])
  BY <1>1, <1>2
<1> QED BY <1>2, <1>3, Zenon DEF HalfSigned, HalfSaid

\* Tools to choose from are left out for nobody but a responses client.
LEMMA ChoiceKept ==
  ASSUME Held, Faults(client, body) = {}, Unable(Converted.set)
  PROVE  "choice" \in Allowed
<1>1. ~Unable(body.set)
  BY FaultsAre DEF Held, Bodied
<1>2. SettingsKept
  BY HeldSettings
<1>3. Converted.set.choice = body.set.choice
  BY <1>2 DEF SettingsKept
<1>4. ("function" \in Converted.set.tools) <=> ("function" \in body.set.tools)
  BY <1>2 DEF SettingsKept
<1>5. client = "responses"
  BY <1>1, <1>3, ToolsKept DEF Unable
<1>6. body.set.tools \subseteq {"function", "builtin"}
  BY RequestsAssumption DEF Held, Bodied
<1>7. "function" \notin body.set.tools
  BY <1>4 DEF Unable
<1>8. body.set.tools \subseteq {"builtin"}
  BY <1>6, <1>7
<1> QED BY <1>5, <1>8, AllowedIs

LEMMA PassedOn ==
  ASSUME Held, Faults(client, body) = {}, client = provider
  PROVE  Faults(provider, Converted) \subseteq Allowed
<1>1. PICK c, b : c = Converted /\ b = body
  OBVIOUS
<1>2. c.msgs = b.msgs /\ c.sys = b.sys
  <2>1. Converted = PassOn(body)
    BY DEF Converted
  <2> QED BY <1>1, <2>1 DEF PassOn, Held, Bodied
<1>3. IsSeq(b.msgs)
  BY <1>1 DEF Held, Bodied
<1>4. SignaturesFit(c) <=> SignaturesFit(b)
  BY <1>2 DEF SignaturesFit
<1>5. Faults(provider, b) = {}
  BY <1>1
<1>6. Faults(provider, c) \subseteq {"choice"}
        /\ ("choice" \in Faults(provider, c) <=> Unable(c.set))
  <2>1. /\ Faults(provider, c) \subseteq {"unanswered", "signature", "alternate", "empty", "choice"}
        /\ "unanswered" \in Faults(provider, c) <=> ~(Heed(provider, b.msgs).ok
             /\ Heed(provider, b.msgs).open = {})
        /\ "signature" \in Faults(provider, c) <=> ~SignaturesFit(b)
        /\ "alternate" \in Faults(provider, c) <=> provider = "anthropic" /\ ~Alt(b.msgs)
        /\ "empty" \in Faults(provider, c) <=> provider = "anthropic" /\ Emptied(b.msgs)
        /\ "choice" \in Faults(provider, c) <=> Unable(c.set)
    BY <1>2, <1>3, <1>4, FaultsAre
  <2>2. /\ ~("unanswered" \in Faults(provider, b)) <=> Heed(provider, b.msgs).ok
             /\ Heed(provider, b.msgs).open = {}
        /\ ~("signature" \in Faults(provider, b)) <=> SignaturesFit(b)
        /\ ~("alternate" \in Faults(provider, b)) <=> ~(provider = "anthropic" /\ ~Alt(b.msgs))
        /\ ~("empty" \in Faults(provider, b)) <=> ~(provider = "anthropic" /\ Emptied(b.msgs))
    BY <1>3, FaultsAre
  <2> QED BY <1>5, <2>1, <2>2
<1>7. Unable(c.set) => "choice" \in Allowed
  BY <1>1, ChoiceKept
<1> QED BY <1>1, <1>6, <1>7

LEMMA AnsweredAll ==
  ASSUME Held, Faults(client, body) = {}
  PROVE  Heed(client, body.msgs).ok /\ Heed(client, body.msgs).open = {}
  BY FaultsAre DEF Held, Bodied

\* What is forwarded to an anthropic provider are turns in its order.
LEMMA TurnsForwarded ==
  ASSUME Held, Kempt, Faults(client, body) = {}, client \in {"openai", "responses"},
           provider = "anthropic"
  PROVE  Faults(provider, Converted) \subseteq Allowed
<1>1. Proper(Converted.msgs, {})
  <2>1. CASE client = "openai"
    <3>1. Converted.msgs = Pushed(body.msgs)
      BY <2>1, ToAnthropicIs DEF Converted, Pushed, Held, Bodied
    <3> QED BY <2>1, <3>1, AnsweredAll DEF Kempt, Ordered
  <2>2. CASE client = "responses"
    <3>1. PICK b, mid : b = ResponsesToOpenAi(body) /\ mid = Mid(body.sys, body.msgs)
      OBVIOUS
    <3>2. b.msgs = mid /\ IsSeq(mid)
      BY <2>2, <3>1, ToOpenAiIs DEF Mid, Kempt, Forwarded, All
    <3>3. Converted.msgs = Pushed(mid)
      BY <2>2, <3>1, <3>2, ToAnthropicIs DEF Converted, Pushed
    <3>4. Relayed(Pushed(mid), Heed("responses", body.msgs))
      BY <2>2, <3>1 DEF Kempt, Forwarded
    <3>5. Heed("responses", body.msgs).open = {}
      BY <2>2, AnsweredAll
    <3> QED BY <3>3, <3>4, <3>5 DEF Relayed
  <2> QED BY <2>1, <2>2
<1>2. PICK c : c = Converted
  OBVIOUS
<1>3. Faults("anthropic", c) \subseteq {"choice"}
        /\ ("choice" \in Faults("anthropic", c) <=> Unable(c.set))
  BY <1>1, <1>2, TurnsAccepted
<1>4. Unable(c.set) => "choice" \in Allowed
  BY <1>2, ChoiceKept
<1> QED BY <1>2, <1>3, <1>4

\* What is forwarded to an openai provider are messages in its order.
LEMMA MessagesForwarded ==
  ASSUME Held, Kempt, Faults(client, body) = {}, client \in {"anthropic", "responses"},
           provider = "openai"
  PROVE  Faults(provider, Converted) \subseteq Allowed
<1>1. PICK c : c = Converted
  OBVIOUS
<1>2. /\ IsSeq(c.msgs)
      /\ (Heed("openai", c.msgs).ok /\ Heed("openai", c.msgs).open = {}) \/ "unanswered" \in Allowed
      /\ All("message", c.msgs) \/ "signature" \in Allowed
  <2>1. CASE client = "anthropic"
    <3>1. PICK q : q = Asunder(body.sys, body.msgs)
      OBVIOUS
    <3>2. c.msgs = q
      BY <1>1, <2>1, <3>1, ToOpenAiIs DEF Converted, Asunder, Apart
    <3>3. Heed("anthropic", body.msgs).open = {}
      BY <2>1, AnsweredAll
    <3>4. Backed(body.sys, body.msgs)
      BY <2>1 DEF Kempt
    <3>5. IsSeq(q) /\ Heed("openai", q).ok /\ Heed("openai", q).open = {}
      BY <3>1, <3>3, <3>4 DEF Backed
    <3>6. All("message", q) \/ Half(body.msgs)
      BY <3>1, <3>4 DEF Backed
    <3>7. Half(body.msgs) => "signature" \in Allowed
      BY <2>1, HalfIs, AllowedIs DEF Held, Bodied
    <3> QED BY <3>2, <3>5, <3>6, <3>7
  <2>2. CASE client = "responses"
    <3>1. PICK mid : mid = Mid(body.sys, body.msgs)
      OBVIOUS
    <3>2. c.msgs = mid
      BY <1>1, <2>2, <3>1, ToOpenAiIs DEF Converted, Mid
    <3>3. PICK st, r : st = Heed("responses", body.msgs) /\ r = Heed("openai", mid)
      OBVIOUS
    <3>4. st.open = {}
      BY <2>2, <3>3, AnsweredAll
    <3>5. All("message", mid) /\ IsSeq(mid) /\ Singly(body.msgs, st, r)
      BY <2>2, <3>1, <3>3 DEF Kempt, Forwarded, All
    <3>6. SideBySide \/ (r.ok /\ r.open = {})
      BY <3>4, <3>5, BesideIs DEF Singly
    <3>7. SideBySide => "unanswered" \in Allowed
      BY <2>2, AllowedIs
    <3> QED BY <3>2, <3>3, <3>5, <3>6, <3>7
  <2> QED BY <2>1, <2>2
<1>3. /\ Faults("openai", c) \subseteq {"unanswered", "signature", "choice"}
      /\ Heed("openai", c.msgs).ok /\ Heed("openai", c.msgs).open = {}
           => "unanswered" \notin Faults("openai", c)
      /\ All("message", c.msgs) => "signature" \notin Faults("openai", c)
      /\ "choice" \in Faults("openai", c) <=> Unable(c.set)
  BY <1>2, MessagesAccepted
<1>4. Unable(c.set) => "choice" \in Allowed
  BY <1>1, ChoiceKept
<1> QED BY <1>1, <1>2, <1>3, <1>4

\* A conversation that keeps to the order of the client's protocol is
\* forwarded as one that keeps to the provider's, but for what ProviderAccepts
\* leaves out, for any conversation and any number of calls.
THEOREM ConversationAccepted == Spec => []ProviderAccepts
<1>1. Held /\ Kempt => ProviderAccepts
  <2> SUFFICES ASSUME Held, Kempt, Faults(client, body) = {} PROVE Faults(provider, Converted) \subseteq Allowed
    BY DEF ProviderAccepts, Allowed
  <2> QED BY PassedOn, TurnsForwarded, MessagesForwarded, PairsAre DEF Held, PairCases
<1>2. Init => Held /\ Kempt
  BY HeldFirst, KemptFirst
<1>3. (Held /\ Kempt) /\ [Next]_vars => (Held /\ Kempt)'
  BY HeldNext, KemptNext
<1> QED BY <1>1, <1>2, <1>3, PTL DEF Spec

=============================================================================
