------------------------ MODULE StreamConverterProofs -------------------------
(***************************************************************************)
(* Theorems about StreamConverter and their proofs.                        *)
(***************************************************************************)
EXTENDS WholeAnswers, NaturalsInduction, FiniteSetTheorems, SequenceTheorems,
        WellFoundedInduction, TLAPS

-----------------------------------------------------------------------------
(***************************************************************************)
(* Folds.  FoldLeft takes an operator, which no lemma can range over: the   *)
(* lemmas are proved for the operators the converter folds with, told apart *)
(* by a name.  That the recursive function behind a fold exists is proved   *)
(* by taking a smallest counterexample.                                    *)
(***************************************************************************)
Feed(r, mid) == LET b == OarPush(r.s, mid) IN Says(b.s, r.out \o b.out)

Do(t, a, x) ==
  CASE t = "close" -> OaCloseOne(a, x) [] t = "oa" -> OaPiece(a, x)
    [] t = "oar" -> OarPiece(a, x) [] t = "piece" -> ReadPiece(a, x)
    [] t = "feed" -> Feed(a, x) [] t = "block" -> AnBlock(a, x) [] t = "part" -> ReadPart(a, x)
    [] OTHER -> Read(t, a, x)

IsSeq(s) == Len(s) \in Nat /\ s = [i \in 1..Len(s) |-> s[i]]

\* What the fold computes of a set of positions, from the last to the first.
FoldEq(t, b, s, D, g) ==
  [S \in SUBSET D |-> IF S = {} THEN b ELSE Do(t, g[S \ {Max(S)}], s[Max(S)])]

IsFold(t, b, s, n, g) == g = FoldEq(t, b, s, 1..n, g)

Fold(t, b, s) == LET f == CHOOSE f : f = FoldEq(t, b, s, DOMAIN s, f) IN f[DOMAIN s]

LEMMA LeastNatural ==
  ASSUME NEW N, N \subseteq Nat, N # {}
  PROVE  \E k \in N : \A m \in N : k <= m
<1> DEFINE R == OpToRel(<, Nat)
<1>1. IsWellFoundedOn(R, Nat)
  BY NatLessThanWellFounded
<1>2. \A m \in Nat, k \in Nat : m < k => <<m, k>> \in R
  BY DEF OpToRel
<1> HIDE DEF R
<1>3. PICK k \in N : \A m \in N : <<m, k>> \notin R
  BY <1>1, WFMin
<1>4. \A m \in N : ~(m < k)
  BY <1>2, <1>3
<1> QED BY <1>4

\* Induction, for a set of numbers.
LEMMA Inductive ==
  ASSUME NEW N, 0 \in N, \A k \in Nat : k \in N => k + 1 \in N
  PROVE  Nat \subseteq N
<1> DEFINE B == Nat \ N
<1> SUFFICES ASSUME B # {} PROVE FALSE
  OBVIOUS
<1>1. PICK k \in B : \A m \in B : k <= m
  <2>1. B \subseteq Nat
    OBVIOUS
  <2> HIDE DEF B
  <2> QED BY <2>1, LeastNatural
<1>2. k # 0 /\ k \in Nat /\ k - 1 \in Nat /\ k - 1 \notin B
  BY <1>1
<1>3. (k - 1) + 1 \in N
  BY <1>2
<1> QED BY <1>2, <1>3

LEMMA MaxOfNumbers ==
  ASSUME NEW n \in Nat, NEW S \in SUBSET (1..n), S # {}
  PROVE  Max(S) \in S /\ \A y \in S : y <= Max(S)
<1> DEFINE N == {k \in Nat : \A y \in S : y <= k}
<1>1. n \in N /\ N \subseteq Nat
  OBVIOUS
<1>2. PICK k \in N : \A m \in N : k <= m
  <2> HIDE DEF N
  <2> QED BY <1>1, LeastNatural
<1>3. k \in S
  <2> SUFFICES ASSUME k \notin S PROVE FALSE
    OBVIOUS
  <2>1. \A y \in S : y \in Nat /\ y <= k - 1 /\ y >= 1
    OBVIOUS
  <2>2. k \in Nat /\ k >= 1
    <3>1. PICK y \in S : y \in Nat /\ y >= 1 /\ y <= k
      BY <2>1
    <3> QED BY <3>1
  <2>3. k - 1 \in N
    BY <2>1, <2>2
  <2> QED BY <1>2, <2>2, <2>3
<1>4. \A y \in S : k >= y
  OBVIOUS
<1>5. \E x \in S : \A y \in S : x >= y
  BY <1>3, <1>4
<1> QED BY <1>5 DEF Max

LEMMA FoldExists ==
  ASSUME NEW t, NEW b, NEW s, NEW n \in Nat
  PROVE  \E g : g = FoldEq(t, b, s, 1..n, g)
<1> DEFINE Good == {k \in Nat : \E g : g = FoldEq(t, b, s, 1..k, g)}
<1>1. 0 \in Good
  <2> DEFINE g == [S \in SUBSET (1..0) |-> b]
  <2>1. \A S \in SUBSET (1..0) : S = {}
    OBVIOUS
  <2>2. g = FoldEq(t, b, s, 1..0, g)
    BY <2>1 DEF FoldEq
  <2> QED BY <2>2
<1>2. ASSUME NEW k \in Nat, k \in Good PROVE k + 1 \in Good
  <2>1. PICK g : g = FoldEq(t, b, s, 1..k, g)
    BY <1>2
  <2> DEFINE h == FoldEq(t, b, s, 1..(k + 1), g)
  <2>2. ASSUME NEW S \in SUBSET (1..(k + 1)), S # {}
        PROVE  S \ {Max(S)} \in SUBSET (1..k)
    <3>1. k + 1 \in Nat
      OBVIOUS
    <3>2. Max(S) \in S /\ \A y \in S : y <= Max(S)
      BY <2>2, <3>1, MaxOfNumbers
    <3>3. \A y \in S \ {Max(S)} : y \in 1..(k + 1) /\ y <= Max(S) /\ y # Max(S) /\ Max(S) \in 1..(k + 1)
      BY <3>2
    <3>4. \A y \in S \ {Max(S)} : y \in 1..k
      BY <3>3
    <3> QED BY <3>4
  <2>3. \A S \in SUBSET (1..k) : S \in SUBSET (1..(k + 1))
    OBVIOUS
  <2>4. \A S \in SUBSET (1..k) : h[S] = g[S]
    <3>1. \A S \in SUBSET (1..k) :
            g[S] = IF S = {} THEN b ELSE Do(t, g[S \ {Max(S)}], s[Max(S)])
      BY <2>1 DEF FoldEq
    <3> QED BY <2>3, <3>1 DEF FoldEq
  <2>5. ASSUME NEW S \in SUBSET (1..(k + 1))
        PROVE  h[S] = IF S = {} THEN b ELSE Do(t, h[S \ {Max(S)}], s[Max(S)])
    <3>1. h[S] = IF S = {} THEN b ELSE Do(t, g[S \ {Max(S)}], s[Max(S)])
      BY DEF FoldEq
    <3> HIDE DEF h
    <3> QED BY <2>2, <2>4, <3>1
  <2>6. h = [S \in SUBSET (1..(k + 1)) |-> h[S]]
    BY DEF FoldEq
  <2> HIDE DEF h
  <2>7. h = FoldEq(t, b, s, 1..(k + 1), h)
    BY <2>5, <2>6 DEF FoldEq
  <2> QED BY <2>7
<1>3. Nat \subseteq Good
  <2> HIDE DEF Good
  <2> QED BY <1>1, <1>2, Inductive
<1> QED BY <1>3

Steps(t, b, s, n, g) ==
  /\ g[{}] = b
  /\ \A k \in Nat : k + 1 <= n => g[1..(k + 1)] = Do(t, g[1..k], s[k + 1])

LEMMA FoldSteps ==
  ASSUME NEW t, NEW b, NEW s, NEW n \in Nat, NEW g, IsFold(t, b, s, n, g)
  PROVE  Steps(t, b, s, n, g)
<1>1. \A S \in SUBSET (1..n) :
         g[S] = IF S = {} THEN b ELSE Do(t, g[S \ {Max(S)}], s[Max(S)])
  BY DEF IsFold, FoldEq
<1>2. ASSUME NEW k \in Nat, k + 1 <= n PROVE g[1..(k + 1)] = Do(t, g[1..k], s[k + 1])
  <2> DEFINE S == 1..(k + 1)
  <2>1. k + 1 \in S /\ S \in SUBSET (1..n)
    BY <1>2
  <2>2. Max(S) \in S /\ \A y \in S : y <= Max(S)
    <3> HIDE DEF S
    <3> QED BY <2>1, MaxOfNumbers
  <2>3. Max(S) = k + 1
    <3>1. k + 1 <= Max(S) /\ Max(S) \in S
      BY <2>1, <2>2
    <3> QED BY <3>1
  <2>4. S \ {k + 1} = 1..k
    OBVIOUS
  <2>5. S # {}
    BY <2>1
  <2> HIDE DEF S
  <2>6. g[S] = Do(t, g[S \ {k + 1}], s[k + 1])
    BY <1>1, <2>1, <2>3, <2>5
  <2> QED BY <2>4, <2>6 DEF S
<1>3. g[{}] = b
  BY <1>1
<1> QED BY <1>2, <1>3 DEF Steps

LEMMA FoldIs ==
  ASSUME NEW t, NEW b, NEW s, IsSeq(s)
  PROVE  \E g : IsFold(t, b, s, Len(s), g) /\ Fold(t, b, s) = g[1..Len(s)]
<1> DEFINE g == CHOOSE g : g = FoldEq(t, b, s, 1..Len(s), g)
<1>1. DOMAIN s = 1..Len(s) /\ Len(s) \in Nat
  BY DEF IsSeq
<1>2. g = FoldEq(t, b, s, 1..Len(s), g)
  BY <1>1, FoldExists
<1>3. Fold(t, b, s) = g[1..Len(s)]
  BY <1>1 DEF Fold
<1> HIDE DEF g
<1> QED BY <1>2, <1>3 DEF IsFold

LEMMA FoldEmpty ==
  ASSUME NEW t, NEW b
  PROVE  Fold(t, b, <<>>) = b
<1>1. IsSeq(<<>>) /\ Len(<<>>) = 0 /\ 1..0 = {}
  BY DEF IsSeq
<1>2. PICK g : IsFold(t, b, <<>>, 0, g) /\ Fold(t, b, <<>>) = g[1..0]
  BY <1>1, FoldIs
<1>3. g[{}] = b
  <2>1. PICK s : IsFold(t, b, s, 0, g)
    BY <1>2
  <2>2. Steps(t, b, s, 0, g)
    BY <2>1, FoldSteps
  <2> QED BY <2>2 DEF Steps
<1> QED BY <1>1, <1>2, <1>3

LEMMA AppendIsSeq ==
  ASSUME NEW s, IsSeq(s), NEW x
  PROVE  /\ IsSeq(Append(s, x)) /\ Len(Append(s, x)) = Len(s) + 1
         /\ Append(s, x)[Len(s) + 1] = x
         /\ \A i \in 1..Len(s) : Append(s, x)[i] = s[i]
<1> DEFINE S == {s[i] : i \in 1..Len(s)} \cup {x}
<1>1. s \in Seq(S) /\ x \in S
  <2>1. Len(s) \in Nat /\ s = [i \in 1..Len(s) |-> s[i]]
    BY DEF IsSeq
  <2>2. s \in [1..Len(s) -> S]
    BY <2>1
  <2> HIDE DEF S
  <2>3. s \in Seq(S)
    BY <2>1, <2>2, IsASeq
  <2> QED BY <2>3 DEF S
<1> HIDE DEF S
<1>2. /\ Append(s, x) \in Seq(S) /\ Len(Append(s, x)) = Len(s) + 1
      /\ Append(s, x)[Len(s) + 1] = x
      /\ \A i \in 1..Len(s) : Append(s, x)[i] = s[i]
  BY <1>1, AppendProperties
<1>3. IsSeq(Append(s, x))
  <2>1. \A q \in Seq(S) : Len(q) \in Nat /\ q = [i \in 1..Len(q) |-> q[i]]
    BY LenProperties
  <2> QED BY <1>2, <2>1 DEF IsSeq
<1> QED BY <1>2, <1>3

LEMMA FoldAppend ==
  ASSUME NEW t, NEW b, NEW s, IsSeq(s), NEW x
  PROVE  Fold(t, b, Append(s, x)) = Do(t, Fold(t, b, s), x)
<1> DEFINE n == Len(s)
           q == Append(s, x)
<1>1. n \in Nat /\ IsSeq(q) /\ Len(q) = n + 1 /\ q[n + 1] = x /\ \A i \in 1..n : q[i] = s[i]
  BY AppendIsSeq DEF IsSeq
<1> HIDE DEF q
<1>2. PICK g : IsFold(t, b, s, n, g) /\ Fold(t, b, s) = g[1..n]
  BY FoldIs
<1>3. PICK h : IsFold(t, b, q, n + 1, h) /\ Fold(t, b, q) = h[1..(n + 1)]
  BY <1>1, FoldIs
<1> HIDE DEF n
<1>4. n + 1 \in Nat
  BY <1>1
<1>5. g[{}] = b /\ \A k \in Nat : k + 1 <= n => g[1..(k + 1)] = Do(t, g[1..k], s[k + 1])
  <2>1. Steps(t, b, s, n, g)
    BY <1>1, <1>2, FoldSteps
  <2> QED BY <2>1 DEF Steps
<1>6. h[{}] = b /\ \A k \in Nat : k + 1 <= n + 1 => h[1..(k + 1)] = Do(t, h[1..k], q[k + 1])
  <2>1. PICK m \in Nat : m = n + 1
    BY <1>4
  <2>2. IsFold(t, b, q, m, h)
    BY <1>3, <2>1
  <2>3. Steps(t, b, q, m, h)
    BY <2>2, FoldSteps
  <2> QED BY <2>1, <2>3 DEF Steps
<1> DEFINE Same == {k \in Nat : k <= n => g[1..k] = h[1..k]}
<1>7. 0 \in Same
  <2>1. 1..0 = {}
    OBVIOUS
  <2> QED BY <1>5, <1>6, <2>1
<1>8. ASSUME NEW k \in Nat, k \in Same PROVE k + 1 \in Same
  <2> SUFFICES ASSUME k + 1 <= n PROVE g[1..(k + 1)] = h[1..(k + 1)]
    OBVIOUS
  <2>1. g[1..k] = h[1..k]
    BY <1>1, <1>8
  <2>2. q[k + 1] = s[k + 1]
    BY <1>1
  <2>3. k + 1 <= n + 1
    BY <1>1
  <2> QED BY <1>5, <1>6, <2>1, <2>2, <2>3
<1>9. n \in Same
  <2>1. Nat \subseteq Same
    <3> HIDE DEF Same
    <3> QED BY <1>7, <1>8, Inductive
  <2> QED BY <1>1, <2>1
<1>10. g[1..n] = h[1..n]
  BY <1>1, <1>9
<1>11. h[1..(n + 1)] = Do(t, h[1..n], q[n + 1])
  BY <1>1, <1>6
<1> QED BY <1>1, <1>2, <1>3, <1>10, <1>11 DEF q

\* The folds of the model.
LEMMA OaPieces ==
  ASSUME NEW b, NEW s
  PROVE  FoldLeft(OaPiece, b, s) = Fold("oa", b, s)
<1>1. \A a, x : Do("oa", a, x) = OaPiece(a, x)
  BY DEF Do
<1>2. ASSUME NEW f
      PROVE  FoldEq("oa", b, s, DOMAIN s, f)
               = [S \in SUBSET DOMAIN s |->
                    IF S = {} THEN b ELSE OaPiece(f[S \ {Max(S)}], s[Max(S)])]
  BY <1>1 DEF FoldEq
<1> QED BY <1>2 DEF Fold, FoldLeft, MapThenFoldSet

LEMMA ReadsIs ==
  ASSUME NEW p \in {"openai", "anthropic", "responses"}, NEW b, NEW s
  PROVE  Reads(p, b, s) = Fold(p, b, s)
<1>1. \A a, x : Do(p, a, x) = Read(p, a, x)
  BY DEF Do
<1>2. ASSUME NEW f
      PROVE  FoldEq(p, b, s, DOMAIN s, f)
               = [S \in SUBSET DOMAIN s |->
                    IF S = {} THEN b ELSE Read(p, f[S \ {Max(S)}], s[Max(S)])]
  BY <1>1 DEF FoldEq
<1> QED BY <1>2 DEF Reads, Fold, FoldLeft, MapThenFoldSet

LEMMA OarPieces ==
  ASSUME NEW b, NEW s
  PROVE  FoldLeft(OarPiece, b, s) = Fold("oar", b, s)
<1>1. \A a, x : Do("oar", a, x) = OarPiece(a, x)
  BY DEF Do
<1>2. ASSUME NEW f
      PROVE  FoldEq("oar", b, s, DOMAIN s, f)
               = [S \in SUBSET DOMAIN s |->
                    IF S = {} THEN b ELSE OarPiece(f[S \ {Max(S)}], s[Max(S)])]
  BY <1>1 DEF FoldEq
<1> QED BY <1>2 DEF Fold, FoldLeft, MapThenFoldSet

LEMMA Closes ==
  ASSUME NEW b, NEW s
  PROVE  FoldLeft(OaCloseOne, b, s) = Fold("close", b, s)
<1>1. \A a, x : Do("close", a, x) = OaCloseOne(a, x)
  BY DEF Do
<1>2. ASSUME NEW f
      PROVE  FoldEq("close", b, s, DOMAIN s, f)
               = [S \in SUBSET DOMAIN s |->
                    IF S = {} THEN b ELSE OaCloseOne(f[S \ {Max(S)}], s[Max(S)])]
  BY <1>1 DEF FoldEq
<1> QED BY <1>2 DEF Fold, FoldLeft, MapThenFoldSet

LEMMA PiecesRead ==
  ASSUME NEW b, NEW s
  PROVE  FoldLeft(ReadPiece, b, s) = Fold("piece", b, s)
<1>1. \A a, x : Do("piece", a, x) = ReadPiece(a, x)
  BY DEF Do
<1>2. ASSUME NEW f
      PROVE  FoldEq("piece", b, s, DOMAIN s, f)
               = [S \in SUBSET DOMAIN s |->
                    IF S = {} THEN b ELSE ReadPiece(f[S \ {Max(S)}], s[Max(S)])]
  BY <1>1 DEF FoldEq
<1> QED BY <1>2 DEF Fold, FoldLeft, MapThenFoldSet

LEMMA ChainIs ==
  ASSUME NEW ev
  PROVE  ChainPush(ev) =
           LET a == AnPush(conv.an, ev)
               b == Fold("feed", Says(conv.oar, <<>>), a.out)
           IN Says([conv EXCEPT !.an = a.s, !.oar = b.s], b.out)
<1> DEFINE r == Says(conv.oar, <<>>)
           s == AnPush(conv.an, ev).out
<1>1. \A a, x : Do("feed", a, x) = LET b == OarPush(a.s, x) IN Says(b.s, a.out \o b.out)
  BY DEF Do, Feed
<1>2. ASSUME NEW f
      PROVE  FoldEq("feed", r, s, DOMAIN s, f)
               = [S \in SUBSET DOMAIN s |->
                    IF S = {} THEN r
                    ELSE LET b == OarPush(f[S \ {Max(S)}].s, s[Max(S)])
                         IN Says(b.s, f[S \ {Max(S)}].out \o b.out)]
  BY <1>1 DEF FoldEq
<1> QED BY <1>2 DEF ChainPush, Fold, FoldLeft, MapThenFoldSet

LEMMA ConcatIsSeq ==
  ASSUME NEW s, IsSeq(s), NEW q, IsSeq(q)
  PROVE  /\ IsSeq(s \o q) /\ Len(s \o q) = Len(s) + Len(q)
         /\ \A i \in 1..Len(s) : (s \o q)[i] = s[i]
         /\ \A i \in 1..Len(q) : (s \o q)[Len(s) + i] = q[i]
<1> DEFINE S == {s[i] : i \in 1..Len(s)} \cup {q[i] : i \in 1..Len(q)}
<1>1. s \in Seq(S) /\ q \in Seq(S)
  <2>1. /\ Len(s) \in Nat /\ s = [i \in 1..Len(s) |-> s[i]]
        /\ Len(q) \in Nat /\ q = [i \in 1..Len(q) |-> q[i]]
    BY DEF IsSeq
  <2>2. s \in [1..Len(s) -> S] /\ q \in [1..Len(q) -> S]
    BY <2>1
  <2> HIDE DEF S
  <2>3. s \in Seq(S) /\ q \in Seq(S)
    BY <2>1, <2>2, IsASeq
  <2> QED BY <2>3 DEF S
<1> HIDE DEF S
<1>2. s \o q \in Seq(S) /\ Len(s \o q) = Len(s) + Len(q) /\ Len(s) \in Nat /\ Len(q) \in Nat
  BY <1>1, ConcatProperties, LenProperties
<1>3. IsSeq(s \o q)
  <2>1. \A z \in Seq(S) : Len(z) \in Nat /\ z = [i \in 1..Len(z) |-> z[i]]
    BY LenProperties
  <2> QED BY <1>2, <2>1 DEF IsSeq
<1>4. \A i \in 1..(Len(s) + Len(q)) :
         (s \o q)[i] = IF i <= Len(s) THEN s[i] ELSE q[i - Len(s)]
  BY <1>1, ConcatProperties
<1>5. ASSUME NEW i \in 1..Len(s) PROVE (s \o q)[i] = s[i]
  <2>1. i \in 1..(Len(s) + Len(q)) /\ i <= Len(s)
    BY <1>2
  <2> QED BY <1>4, <2>1
<1>6. ASSUME NEW i \in 1..Len(q) PROVE (s \o q)[Len(s) + i] = q[i]
  <2>1. Len(s) + i \in 1..(Len(s) + Len(q)) /\ ~(Len(s) + i <= Len(s)) /\ (Len(s) + i) - Len(s) = i
    BY <1>2
  <2> QED BY <1>4, <2>1
<1> QED BY <1>2, <1>3, <1>5, <1>6

LEMMA FoldConcat ==
  ASSUME NEW t, NEW b, NEW s, IsSeq(s), NEW q, IsSeq(q)
  PROVE  Fold(t, b, s \o q) = Fold(t, Fold(t, b, s), q)
<1>1. PICK w : w = s \o q
  OBVIOUS
<1>2. PICK n \in Nat, l \in Nat : n = Len(s) /\ l = Len(q)
  BY DEF IsSeq
<1>3. /\ IsSeq(w) /\ Len(w) = n + l
      /\ \A i \in 1..n : w[i] = s[i]
      /\ \A i \in 1..l : w[n + i] = q[i]
  BY <1>1, <1>2, ConcatIsSeq
<1>4. PICK m \in Nat : m = n + l
  BY <1>2
<1>5. PICK g : IsFold(t, b, s, n, g) /\ Fold(t, b, s) = g[1..n]
  BY <1>2, FoldIs
<1>6. PICK c, h : c = g[1..n] /\ IsFold(t, c, q, l, h) /\ Fold(t, c, q) = h[1..l]
  <2>1. PICK c : c = g[1..n]
    OBVIOUS
  <2>2. \E h : IsFold(t, c, q, l, h) /\ Fold(t, c, q) = h[1..l]
    BY <1>2, FoldIs
  <2> QED BY <2>1, <2>2
<1>7. PICK f : IsFold(t, b, w, m, f) /\ Fold(t, b, w) = f[1..m]
  BY <1>3, <1>4, FoldIs
<1>8. g[{}] = b /\ \A k \in Nat : k + 1 <= n => g[1..(k + 1)] = Do(t, g[1..k], s[k + 1])
  <2>1. Steps(t, b, s, n, g)
    BY <1>5, FoldSteps
  <2> QED BY <2>1 DEF Steps
<1>9. h[{}] = c /\ \A k \in Nat : k + 1 <= l => h[1..(k + 1)] = Do(t, h[1..k], q[k + 1])
  <2>1. IsFold(t, c, q, l, h)
    BY <1>6
  <2>2. Steps(t, c, q, l, h)
    BY <2>1, FoldSteps
  <2> QED BY <2>2 DEF Steps
<1>10. f[{}] = b /\ \A k \in Nat : k + 1 <= m => f[1..(k + 1)] = Do(t, f[1..k], w[k + 1])
  <2>1. IsFold(t, b, w, m, f)
    BY <1>7
  <2>2. Steps(t, b, w, m, f)
    BY <2>1, FoldSteps
  <2> QED BY <2>2 DEF Steps
<1>11. 1..0 = {}
  OBVIOUS
<1>12. f[1..n] = g[1..n]
  <2> DEFINE Same == {k \in Nat : k <= n => f[1..k] = g[1..k]}
  <2>1. 0 \in Same
    BY <1>8, <1>10, <1>11
  <2>2. ASSUME NEW k \in Nat, k \in Same PROVE k + 1 \in Same
    <3> SUFFICES ASSUME k + 1 <= n PROVE f[1..(k + 1)] = g[1..(k + 1)]
      OBVIOUS
    <3>1. f[1..k] = g[1..k]
      BY <2>2
    <3>2. w[k + 1] = s[k + 1] /\ k + 1 <= m
      BY <1>3, <1>4
    <3> QED BY <1>8, <1>10, <3>1, <3>2
  <2>3. Nat \subseteq Same
    <3> HIDE DEF Same
    <3> QED BY <2>1, <2>2, Inductive
  <2> QED BY <2>3
<1>13. f[1..(n + l)] = h[1..l]
  <2> DEFINE Same == {k \in Nat : k <= l => f[1..(n + k)] = h[1..k]}
  <2>1. 0 \in Same
    <3>1. n + 0 = n
      OBVIOUS
    <3> QED BY <1>6, <1>9, <1>11, <1>12, <3>1
  <2>2. ASSUME NEW k \in Nat, k \in Same PROVE k + 1 \in Same
    <3> SUFFICES ASSUME k + 1 <= l PROVE f[1..(n + (k + 1))] = h[1..(k + 1)]
      OBVIOUS
    <3>1. f[1..(n + k)] = h[1..k]
      BY <2>2
    <3>2. w[(n + k) + 1] = q[k + 1] /\ (n + k) + 1 <= m /\ n + k \in Nat /\ n + (k + 1) = (n + k) + 1
      <4>1. k + 1 \in 1..l /\ n + (k + 1) = (n + k) + 1
        OBVIOUS
      <4>2. w[n + (k + 1)] = q[k + 1]
        BY <1>3, <4>1
      <4>3. (n + k) + 1 <= m /\ n + k \in Nat
        BY <1>4
      <4> QED BY <4>1, <4>2, <4>3
    <3>3. f[1..((n + k) + 1)] = Do(t, f[1..(n + k)], w[(n + k) + 1])
      BY <1>10, <3>2
    <3> QED BY <1>9, <3>1, <3>2, <3>3
  <2>3. Nat \subseteq Same
    <3> HIDE DEF Same
    <3> QED BY <2>1, <2>2, Inductive
  <2> QED BY <2>3
<1> QED BY <1>1, <1>4, <1>5, <1>6, <1>7, <1>13

\* Short sequences.
LEMMA FoldOne ==
  ASSUME NEW t, NEW b, NEW x
  PROVE  IsSeq(<<x>>) /\ Fold(t, b, <<x>>) = Do(t, b, x)
<1>1. IsSeq(<<>>) /\ <<x>> = Append(<<>>, x)
  BY DEF IsSeq
<1>2. \A s : IsSeq(s) => IsSeq(Append(s, x)) /\ Fold(t, b, Append(s, x)) = Do(t, Fold(t, b, s), x)
  BY FoldAppend, AppendIsSeq
<1> QED BY <1>1, <1>2, FoldEmpty

LEMMA FoldTwo ==
  ASSUME NEW t, NEW b, NEW x, NEW y
  PROVE  IsSeq(<<x, y>>) /\ Fold(t, b, <<x, y>>) = Do(t, Do(t, b, x), y)
<1>1. IsSeq(<<x>>) /\ <<x, y>> = Append(<<x>>, y)
  BY FoldOne
<1>2. \A s : IsSeq(s) => IsSeq(Append(s, y)) /\ Fold(t, b, Append(s, y)) = Do(t, Fold(t, b, s), y)
  BY FoldAppend, AppendIsSeq
<1> QED BY <1>1, <1>2, FoldOne

-----------------------------------------------------------------------------
(***************************************************************************)
(* Readers.  What each operator of WireProtocols does to the fields of a    *)
(* message, so that the proofs below need none of their definitions.        *)
(***************************************************************************)
Fields == {"text", "think", "calls", "at", "open", "shut", "latest", "mixed", "started",
           "failed", "ends", "stop", "blank", "cut", "read", "tokens", "repeats", "faults"}
Kinds == {"text", "think", "tool"}
Items == [type : Kinds, id : Calls \cup {NoCall}, size : Nat]
UsageObjects == [prompt : 0..MaxTok, cached : 0..MaxTok, completion : 0..MaxTok,
                 total : {Nothing} \cup 0..MaxTok]
Flags == {"mixed", "started", "failed", "blank", "cut"}

\* A message as a reader of any protocol can have it.
WellRead(m) ==
  /\ DOMAIN m = Fields
  /\ m.text \in Nat /\ m.think \in Nat /\ m.ends \in Nat /\ m.repeats \in Nat
  /\ m.at \in [DOMAIN m.at -> Items]
  /\ m.calls \in [DOMAIN m.calls -> Nat] /\ DOMAIN m.calls \subseteq Calls
  /\ \A i \in DOMAIN m.at : m.at[i].type = "tool" => m.at[i].id \in DOMAIN m.calls
  /\ m.read \in UsageObjects
  /\ m.tokens \in [in : Nat, cc : Nat, cr : Nat, out : Nat]
  /\ m.mixed \in BOOLEAN /\ m.started \in BOOLEAN /\ m.failed \in BOOLEAN
  /\ m.blank \in BOOLEAN /\ m.cut \in BOOLEAN

\* Messages that differ in the fields F at most.
Same(b, m, F) == \A f \in Fields \ F : b[f] = m[f]

LEMMA UnreadIsWellRead == WellRead(Unread)
  BY ConverterAssumption DEF WellRead, Unread, Fields, NoReport, UsageObjects

LEMMA WithIs ==
  ASSUME NEW f, NEW i, NEW x
  PROVE  /\ DOMAIN With(f, i, x) = DOMAIN f \cup {i}
         /\ With(f, i, x)[i] = x
         /\ \A j \in DOMAIN f : j # i => With(f, i, x)[j] = f[j]
  BY DEF With

LEMMA WithTwice ==
  ASSUME NEW f, NEW i, NEW x, NEW y
  PROVE  [With(f, i, x) EXCEPT ![i] = y] = With(f, i, y)
  BY DEF With

LEMMA BlameIs ==
  ASSUME NEW m, WellRead(m), NEW what
  PROVE  /\ WellRead(Blame(m, what)) /\ Same(Blame(m, what), m, {"faults"})
         /\ Blame(m, what).faults = m.faults \cup {what}
  BY DEF WellRead, Blame, Same, Fields

LEMMA GrowIs ==
  ASSUME NEW m, WellRead(m), NEW i \in DOMAIN m.at, NEW f \in Nat
  PROVE  LET b == Grow(m, i, f)
             it == m.at[i]
         IN /\ WellRead(b) /\ Same(b, m, {"at", "text", "think", "calls"})
            /\ b.at = [m.at EXCEPT ![i].size = @ + f]
            /\ b.text = IF it.type = "text" THEN m.text + f ELSE m.text
            /\ b.think = IF it.type = "think" THEN m.think + f ELSE m.think
            /\ b.calls = IF it.type = "tool" THEN [m.calls EXCEPT ![it.id] = @ + f] ELSE m.calls
<1> DEFINE it == m.at[i]
           at == [m.at EXCEPT ![i].size = @ + f]
           m1 == [m EXCEPT !.at = at]
<1>1. it \in Items
  BY DEF WellRead
<1>2. /\ DOMAIN at = DOMAIN m.at /\ at \in [DOMAIN at -> Items]
      /\ \A j \in DOMAIN at : at[j].type = m.at[j].type /\ at[j].id = m.at[j].id
  BY DEF WellRead, Items
<1> HIDE DEF at
<1> DEFINE b == Grow(m, i, f)
<1>3. /\ DOMAIN b = Fields /\ Same(b, m, {"at", "text", "think", "calls"})
      /\ b.at = at
      /\ b.text = IF it.type = "text" THEN m.text + f ELSE m.text
      /\ b.think = IF it.type = "think" THEN m.think + f ELSE m.think
      /\ b.calls = IF it.type = "tool" THEN [m.calls EXCEPT ![it.id] = @ + f] ELSE m.calls
  <2>1. CASE it.type = "text"
    <3>1. b = [m1 EXCEPT !.text = @ + f]
      BY <2>1 DEF Grow, at
    <3> HIDE DEF b
    <3> QED BY <2>1, <3>1 DEF WellRead, Same, Fields
  <2>2. CASE it.type = "think"
    <3>1. b = [m1 EXCEPT !.think = @ + f]
      BY <2>2 DEF Grow, at
    <3> HIDE DEF b
    <3> QED BY <2>2, <3>1 DEF WellRead, Same, Fields
  <2>3. CASE it.type = "tool"
    <3>1. b = [m1 EXCEPT !.calls[it.id] = @ + f]
      BY <2>3 DEF Grow, at
    <3> HIDE DEF b
    <3> QED BY <2>3, <3>1 DEF WellRead, Same, Fields
  <2> QED BY <1>1, <2>1, <2>2, <2>3 DEF Items, Kinds
<1> HIDE DEF b
<1>4. /\ b.calls \in [DOMAIN m.calls -> Nat] /\ b.text \in Nat /\ b.think \in Nat
  BY <1>3 DEF WellRead
<1>5. WellRead(b)
  BY <1>2, <1>3, <1>4 DEF WellRead, Same, Fields
<1> QED BY <1>3, <1>5 DEF at, b

LEMMA BeginIs ==
  ASSUME NEW m, WellRead(m), NEW i, NEW type \in Kinds, NEW id \in Calls \cup {NoCall},
         type = "tool" => id \in Calls
  PROVE  LET b == Begin(m, i, type, id)
         IN /\ WellRead(b) /\ Same(b, m, {"at", "calls"})
            /\ b.at = With(m.at, i, [type |-> type, id |-> id, size |-> 0])
            /\ b.calls = IF type = "tool" THEN With(m.calls, id, 0) ELSE m.calls
<1> DEFINE new == [type |-> type, id |-> id, size |-> 0]
           at == With(m.at, i, new)
           b == Begin(m, i, type, id)
<1>1. /\ at \in [DOMAIN at -> Items] /\ DOMAIN at = DOMAIN m.at \cup {i}
      /\ at[i] = new /\ \A j \in DOMAIN m.at : j # i => at[j] = m.at[j]
  BY DEF WellRead, Items, With
<1> HIDE DEF at
<1>2. /\ DOMAIN b = Fields /\ Same(b, m, {"at", "calls"}) /\ b.at = at
      /\ b.calls = IF type = "tool" THEN With(m.calls, id, 0) ELSE m.calls
  <2>1. CASE type = "tool"
    <3>1. b = [m EXCEPT !.at = at, !.calls = With(m.calls, id, 0)]
      BY <2>1 DEF Begin, at, WellRead, Fields
    <3> HIDE DEF b
    <3> QED BY <2>1, <3>1 DEF WellRead, Same, Fields
  <2>2. CASE type # "tool"
    <3>1. b = [m EXCEPT !.at = at]
      BY <2>2 DEF Begin, at
    <3> HIDE DEF b
    <3> QED BY <2>2, <3>1 DEF WellRead, Same, Fields
  <2> QED BY <2>1, <2>2
<1> HIDE DEF b
<1>3. b.calls \in [DOMAIN b.calls -> Nat] /\ DOMAIN m.calls \subseteq DOMAIN b.calls
      /\ DOMAIN b.calls \subseteq Calls /\ (type = "tool" => id \in DOMAIN b.calls)
  <2>1. CASE type = "tool"
    BY <1>2, <2>1 DEF WellRead, With
  <2>2. CASE type # "tool"
    BY <1>2, <2>2 DEF WellRead
  <2> QED BY <2>1, <2>2
<1>4. \A j \in DOMAIN b.at : b.at[j].type = "tool" => b.at[j].id \in DOMAIN b.calls
  BY <1>1, <1>2, <1>3 DEF WellRead
<1>5. WellRead(b)
  BY <1>1, <1>2, <1>3, <1>4 DEF WellRead, Same, Fields
<1> QED BY <1>2, <1>5 DEF at, b


LEMMA StopIs ==
  ASSUME NEW m, WellRead(m), NEW why
  PROVE  LET b == Stop(m, why)
         IN /\ WellRead(b) /\ Same(b, m, {"stop", "blank", "cut"})
            /\ b.stop = IF why = "" THEN m.stop ELSE why
            /\ (b.blank <=> why = "")
            /\ (b.cut <=> m.cut \/ why \in CutReasons)
<1> DEFINE b == Stop(m, why)
<1>1. /\ DOMAIN b = Fields /\ Same(b, m, {"stop", "blank", "cut"})
      /\ b.stop = IF why = "" THEN m.stop ELSE why
  BY DEF WellRead, Stop, Same, Fields
<1>2. b.blank = (why = "")
  BY DEF WellRead, Stop, Fields
<1>3. b.cut = (m.cut \/ why \in CutReasons)
  BY DEF WellRead, Stop, Fields, CutReasons
<1> HIDE DEF b
<1>4. b.blank \in BOOLEAN /\ b.cut \in BOOLEAN
  BY <1>2, <1>3 DEF WellRead
<1>5. WellRead(b)
  BY <1>1, <1>4 DEF WellRead, Same, Fields
<1> QED BY <1>1, <1>2, <1>3, <1>5 DEF b

LEMMA FailIs ==
  ASSUME NEW m, WellRead(m)
  PROVE  WellRead(Fail(m)) /\ Same(Fail(m), m, {"failed"}) /\ Fail(m).failed = TRUE
  BY DEF WellRead, Fail, Same, Fields

LEMMA EndIs ==
  ASSUME NEW m, WellRead(m)
  PROVE  WellRead(End(m)) /\ Same(End(m), m, {"ends"}) /\ End(m).ends = m.ends + 1
  BY DEF WellRead, End, Same, Fields

-----------------------------------------------------------------------------
(***************************************************************************)
(* OpenAI chunks, piece by piece.                                          *)
(***************************************************************************)
\* A piece a provider may send next: a call is begun once, with its id.
NewCall(m, p) ==
  /\ p.p = "tool" /\ p.f \in Nat
  /\ p.id \in Calls \ DOMAIN m.calls /\ p.i \in Nat \ DOMAIN m.at
KnownCall(m, p) == p.p = "tool" /\ p.f \in Nat /\ p.id = NoCall /\ p.i \in DOMAIN m.at
Content(p) == p.p \in {"text", "think"} /\ p.f \in Nat
Finishes(p) == p.p = "finish" /\ p.why \in {"stop", "length", "content_filter", "tool_calls", ""}

GoodPiece(m, p) == Content(p) \/ NewCall(m, p) \/ KnownCall(m, p) \/ Finishes(p)

\* What an OpenAI reader numbers are calls.
OnlyCalls(m) == \A i \in DOMAIN m.at : m.at[i].type = "tool" /\ m.at[i].id \in DOMAIN m.calls

LEMMA ContentIs ==
  ASSUME NEW m, WellRead(m), NEW p, Content(p)
  PROVE  LET b == ReadPiece(m, p)
         IN /\ WellRead(b) /\ Same(b, m, {"text", "think", "latest"})
            /\ b.text = IF p.p = "text" THEN m.text + p.f ELSE m.text
            /\ b.think = IF p.p = "think" THEN m.think + p.f ELSE m.think
            /\ b.latest = IF p.f = 0 THEN m.latest ELSE NoCall
<1> DEFINE b == ReadPiece(m, p)
<1>1. /\ DOMAIN b = Fields /\ Same(b, m, {"text", "think", "latest"})
      /\ b.text = IF p.p = "text" THEN m.text + p.f ELSE m.text
      /\ b.think = IF p.p = "think" THEN m.think + p.f ELSE m.think
      /\ b.latest = IF p.f = 0 THEN m.latest ELSE NoCall
  <2>1. CASE p.p = "text"
    <3>1. b = [m EXCEPT !.text = @ + p.f, !.latest = IF p.f = 0 THEN @ ELSE NoCall]
      BY <2>1 DEF ReadPiece
    <3> HIDE DEF b
    <3> QED BY <2>1, <3>1 DEF WellRead, Same, Fields
  <2>2. CASE p.p = "think"
    <3>1. b = [m EXCEPT !.think = @ + p.f, !.latest = IF p.f = 0 THEN @ ELSE NoCall]
      BY <2>2 DEF ReadPiece
    <3> HIDE DEF b
    <3> QED BY <2>2, <3>1 DEF WellRead, Same, Fields
  <2> QED BY <2>1, <2>2 DEF Content
<1> HIDE DEF b
<1>2. b.text \in Nat /\ b.think \in Nat
  BY <1>1 DEF WellRead, Content
<1>3. WellRead(b)
  BY <1>1, <1>2 DEF WellRead, Same, Fields
<1> QED BY <1>1, <1>3 DEF b

LEMMA FinishIs ==
  ASSUME NEW m, NEW p, Finishes(p)
  PROVE  ReadPiece(m, p) = Stop(m, p.why)
  BY DEF ReadPiece, Finishes

LEMMA NewCallIs ==
  ASSUME NEW m, WellRead(m), OnlyCalls(m), NEW p, NewCall(m, p)
  PROVE  LET b == ReadPiece(m, p)
         IN /\ WellRead(b) /\ OnlyCalls(b) /\ Same(b, m, {"at", "calls", "latest"})
            /\ b.at = With(m.at, p.i, [type |-> "tool", id |-> p.id, size |-> p.f])
            /\ b.calls = With(m.calls, p.id, p.f)
            /\ b.latest = p.id
<1> DEFINE x == Begin(m, p.i, "tool", p.id)
           y == Grow(x, p.i, p.f)
           b == ReadPiece(m, p)
           new == [type |-> "tool", id |-> p.id, size |-> 0]
<1>1. /\ "tool" \in Kinds /\ p.id \in Calls /\ p.f \in Nat
      /\ p.i \notin DOMAIN m.at /\ p.id \notin DOMAIN m.calls
  BY DEF NewCall, Kinds
<1>2. /\ WellRead(x) /\ Same(x, m, {"at", "calls"})
      /\ x.at = With(m.at, p.i, new) /\ x.calls = With(m.calls, p.id, 0)
  BY <1>1, BeginIs
<1> HIDE DEF x
<1>3. p.i \in DOMAIN x.at /\ x.at[p.i] = new /\ x.calls[p.id] = 0 /\ p.id \in DOMAIN x.calls
  BY <1>2 DEF With
<1>4. /\ WellRead(y) /\ Same(y, x, {"at", "text", "think", "calls"})
      /\ y.at = [x.at EXCEPT ![p.i].size = @ + p.f]
      /\ y.text = x.text /\ y.think = x.think
      /\ y.calls = [x.calls EXCEPT ![p.id] = @ + p.f]
  BY <1>1, <1>2, <1>3, GrowIs
<1> HIDE DEF y
<1>5. y.at = With(m.at, p.i, [type |-> "tool", id |-> p.id, size |-> p.f])
  <2>1. [x.at[p.i] EXCEPT !.size = @ + p.f] = [type |-> "tool", id |-> p.id, size |-> p.f]
    BY <1>1, <1>3
  <2>2. y.at = [x.at EXCEPT ![p.i] = [type |-> "tool", id |-> p.id, size |-> p.f]]
    BY <1>4, <2>1
  <2> QED BY <1>2, <2>2, WithTwice
<1>6. y.calls = With(m.calls, p.id, p.f)
  <2>1. y.calls = [x.calls EXCEPT ![p.id] = p.f]
    BY <1>1, <1>3, <1>4
  <2> QED BY <1>2, <2>1, WithTwice
<1>7. b = [y EXCEPT !.latest = p.id]
  <2>1. p.p = "tool" /\ p.id # NoCall
    BY CallsAssumption DEF NewCall
  <2> QED BY <2>1 DEF ReadPiece, x, y
<1> HIDE DEF b
<1>8. DOMAIN b = Fields /\ Same(b, y, {"latest"}) /\ b.latest = p.id
  BY <1>4, <1>7 DEF WellRead, Same, Fields
<1>9. WellRead(b)
  BY <1>4, <1>8 DEF WellRead, Same, Fields
<1>10. b.at = y.at /\ b.calls = y.calls
  BY <1>8 DEF Same, Fields
<1>11. OnlyCalls(b)
  BY <1>5, <1>6, <1>10, WithIs DEF OnlyCalls, With
<1>12. Same(b, m, {"at", "calls", "latest"})
  BY <1>2, <1>4, <1>8 DEF Same, Fields
<1> QED BY <1>5, <1>6, <1>8, <1>9, <1>10, <1>11, <1>12 DEF b

LEMMA KnownCallIs ==
  ASSUME NEW m, WellRead(m), OnlyCalls(m), NEW p, KnownCall(m, p)
  PROVE  LET b == ReadPiece(m, p)
             id == m.at[p.i].id
         IN /\ WellRead(b) /\ OnlyCalls(b) /\ Same(b, m, {"at", "calls", "mixed"})
            /\ b.at = [m.at EXCEPT ![p.i].size = @ + p.f]
            /\ b.calls = [m.calls EXCEPT ![id] = @ + p.f]
            /\ (b.mixed <=> m.mixed \/ (p.f > 0 /\ id # m.latest))
<1> DEFINE y == Grow(m, p.i, p.f)
           b == ReadPiece(m, p)
           id == m.at[p.i].id
<1>1. p.i \in DOMAIN m.at /\ p.f \in Nat /\ m.at[p.i].type = "tool"
  BY DEF KnownCall, OnlyCalls
<1>2. /\ WellRead(y) /\ Same(y, m, {"at", "text", "think", "calls"})
      /\ y.at = [m.at EXCEPT ![p.i].size = @ + p.f]
      /\ y.text = m.text /\ y.think = m.think
      /\ y.calls = [m.calls EXCEPT ![id] = @ + p.f]
  BY <1>1, GrowIs
<1>3. b = [y EXCEPT !.mixed = @ \/ (p.f > 0 /\ id # m.latest)]
  <2>1. p.p = "tool" /\ p.id = NoCall
    BY DEF KnownCall
  <2> HIDE DEF id
  <2> QED BY <1>1, <2>1 DEF ReadPiece, id
<1> HIDE DEF y, b
<1>4. DOMAIN b = Fields /\ Same(b, y, {"mixed"})
  BY <1>2, <1>3 DEF WellRead, Same, Fields
<1>5. (b.mixed <=> y.mixed \/ (p.f > 0 /\ id # m.latest)) /\ y.mixed = m.mixed
  BY <1>2, <1>3 DEF WellRead, Same, Fields
<1>6. WellRead(b)
  <2>1. b.mixed \in BOOLEAN
    BY <1>2, <1>3 DEF WellRead, Fields
  <2> QED BY <1>2, <1>4, <2>1 DEF WellRead, Same, Fields
<1>7. b.at = y.at /\ b.calls = y.calls
  BY <1>4 DEF Same, Fields
<1>8. OnlyCalls(b)
  <2>1. m.at \in [DOMAIN m.at -> Items] /\ DOMAIN b.calls = DOMAIN m.calls
    BY <1>2, <1>7 DEF WellRead
  <2>2. DOMAIN b.at = DOMAIN m.at
        /\ \A i \in DOMAIN m.at : b.at[i].type = m.at[i].type /\ b.at[i].id = m.at[i].id
    BY <1>2, <1>7, <2>1 DEF Items
  <2> QED BY <2>1, <2>2 DEF OnlyCalls
<1>9. Same(b, m, {"at", "calls", "mixed"})
  BY <1>2, <1>4 DEF Same, Fields
<1> QED BY <1>2, <1>5, <1>6, <1>7, <1>8, <1>9 DEF b

ChunkEnd(x, use) ==
  [x EXCEPT !.started = TRUE, !.read = IF Counts(use) THEN use ELSE @]

LEMMA ChunkEnds ==
  ASSUME NEW x, WellRead(x), NEW use \in UsageObjects, NEW b, b = ChunkEnd(x, use)
  PROVE  /\ WellRead(b) /\ Same(b, x, {"started", "read"}) /\ b.started = TRUE
         /\ b.read = IF Counts(use) THEN use ELSE x.read
<1>1. /\ DOMAIN b = Fields /\ Same(b, x, {"started", "read"}) /\ b.started = TRUE
      /\ b.read = IF Counts(use) THEN use ELSE x.read
  BY DEF ChunkEnd, WellRead, Same, Fields
<1>2. b.read \in UsageObjects
  BY <1>1 DEF WellRead
<1>3. WellRead(b)
  BY <1>1, <1>2 DEF WellRead, Same, Fields
<1> QED BY <1>1, <1>3

-----------------------------------------------------------------------------
(***************************************************************************)
(* Anthropic events.  Each lemma says what an event does to a message when  *)
(* it comes in order; an event out of order leaves a fault.                *)
(***************************************************************************)
Started == [in : 0..MaxTok, cc : 0..MaxTok, cr : 0..MaxTok, out : 0..MaxTok]
Optional == {Nothing} \cup 0..MaxTok
Updates == [in : Optional, cc : Optional, cr : Optional, out : Optional]
Stops == {"none", "end_turn", "max_tokens", "tool_use"}

\* An event an Anthropic provider that has sent m can send.
AnEvent(m, ev) ==
  \/ ev.e = "message_start" /\ ev.use \in Started
  \/ ev.e = "block_start" /\ ev.type \in {"text", "think"} /\ ev.id = NoCall
  \/ ev.e = "block_start" /\ ev.type = "tool" /\ ev.id \in Calls \ DOMAIN m.calls
  \/ ev.e = "block_delta" /\ ev.type \in Kinds /\ ev.f \in Nat
  \/ ev.e = "block_stop"
  \/ ev.e = "message_delta" /\ ev.use \in Updates /\ ev.stop \in Stops
  \/ ev.e \in {"message_stop", "error", "garbage"}

LEMMA FaultStays ==
  ASSUME NEW m, WellRead(m), NEW what
  PROVE  Blame(m, what).faults # {}
  BY BlameIs

LEMMA StartReads ==
  ASSUME NEW m, WellRead(m), NEW ev, ev.e = "message_start", ev.use \in Started
  PROVE  LET b == ReadAnthropic(m, ev)
         IN /\ b.faults = {} => ~m.started /\ ~Over(m)
            /\ ~m.started /\ ~Over(m) =>
                 /\ WellRead(b) /\ Same(b, m, {"started", "tokens"})
                 /\ b.started = TRUE
                 /\ b.tokens = [ev.use EXCEPT !.out = 0]
<1> DEFINE b == ReadAnthropic(m, ev)
<1>1. b = IF m.started \/ Over(m) THEN Blame(m, "order")
          ELSE [m EXCEPT !.started = TRUE, !.tokens = [ev.use EXCEPT !.out = 0]]
  BY DEF ReadAnthropic
<1> HIDE DEF b
<1>2. b.faults = {} => ~m.started /\ ~Over(m)
  BY <1>1, FaultStays
<1>3. ASSUME ~m.started /\ ~Over(m)
      PROVE  /\ WellRead(b) /\ Same(b, m, {"started", "tokens"})
             /\ b.started = TRUE /\ b.tokens = [ev.use EXCEPT !.out = 0]
  <2>1. PICK t : t = [ev.use EXCEPT !.out = 0] /\ t \in [in : Nat, cc : Nat, cr : Nat, out : Nat]
    <3>1. ev.use \in [in : Nat, cc : Nat, cr : Nat, out : Nat]
      BY ConverterAssumption DEF Started
    <3>2. [ev.use EXCEPT !.out = 0] \in [in : Nat, cc : Nat, cr : Nat, out : Nat]
      BY <3>1
    <3> QED BY <3>2
  <2>2. b = [m EXCEPT !.started = TRUE, !.tokens = t]
    BY <1>1, <1>3, <2>1
  <2> QED BY <2>1, <2>2 DEF WellRead, Same, Fields
<1> QED BY <1>2, <1>3 DEF b

LEMMA BlockStartReads ==
  ASSUME NEW m, WellRead(m), NEW ev, ev.e = "block_start", ev.type \in Kinds,
         ev.id \in Calls \cup {NoCall}, ev.type = "tool" => ev.id \in Calls
  PROVE  LET b == ReadAnthropic(m, ev)
             inOrder == /\ ~Over(m) /\ m.started /\ m.open = Nothing
                        /\ ev.i = Cardinality(DOMAIN m.at)
         IN /\ b.faults = {} => inOrder
            /\ inOrder =>
                 /\ WellRead(b) /\ Same(b, m, {"at", "calls", "open"})
                 /\ b.at = With(m.at, ev.i, [type |-> ev.type, id |-> ev.id, size |-> 0])
                 /\ b.calls = IF ev.type = "tool" THEN With(m.calls, ev.id, 0) ELSE m.calls
                 /\ b.open = ev.i
<1> DEFINE b == ReadAnthropic(m, ev)
           x == Begin(m, ev.i, ev.type, ev.id)
           inOrder == /\ ~Over(m) /\ m.started /\ m.open = Nothing
                      /\ ev.i = Cardinality(DOMAIN m.at)
<1>1. b = IF Over(m) THEN Blame(m, "late")
          ELSE IF ~m.started \/ m.open # Nothing \/ ev.i # Cardinality(DOMAIN m.at)
               THEN Blame(m, "order")
               ELSE [x EXCEPT !.open = ev.i]
  BY DEF ReadAnthropic
<1>2. /\ WellRead(x) /\ Same(x, m, {"at", "calls"})
      /\ x.at = With(m.at, ev.i, [type |-> ev.type, id |-> ev.id, size |-> 0])
      /\ x.calls = IF ev.type = "tool" THEN With(m.calls, ev.id, 0) ELSE m.calls
  BY BeginIs
<1> HIDE DEF b, x
<1>3. b.faults = {} => inOrder
  BY <1>1, FaultStays
<1>4. ASSUME inOrder
      PROVE  /\ WellRead(b) /\ Same(b, m, {"at", "calls", "open"})
             /\ b.at = x.at /\ b.calls = x.calls /\ b.open = ev.i
  <2>1. b = [x EXCEPT !.open = ev.i]
    BY <1>1, <1>4
  <2>2. DOMAIN b = Fields /\ Same(b, x, {"open"}) /\ b.open = ev.i
    BY <1>2, <2>1 DEF WellRead, Same, Fields
  <2>3. WellRead(b)
    BY <1>2, <2>2 DEF WellRead, Same, Fields
  <2>4. Same(b, m, {"at", "calls", "open"})
    BY <1>2, <2>2 DEF Same, Fields
  <2>5. b.at = x.at /\ b.calls = x.calls
    BY <2>2 DEF Same, Fields
  <2> QED BY <2>2, <2>3, <2>4, <2>5
<1> QED BY <1>2, <1>3, <1>4 DEF b

LEMMA BlockDeltaReads ==
  ASSUME NEW m, WellRead(m), NEW ev, ev.e = "block_delta", ev.f \in Nat
  PROVE  LET b == ReadAnthropic(m, ev)
             inPlace == ~Over(m) /\ ev.i \in DOMAIN m.at /\ m.at[ev.i].type = ev.type
         IN /\ b.faults = {} => inPlace /\ m.open = ev.i
            /\ inPlace => b = IF m.open = ev.i THEN Grow(m, ev.i, ev.f)
                              ELSE Blame(Grow(m, ev.i, ev.f), "closed")
<1> DEFINE b == ReadAnthropic(m, ev)
<1>1. b = IF Over(m) THEN Blame(m, "late")
          ELSE IF ev.i \notin DOMAIN m.at THEN Blame(m, "orphan")
               ELSE IF m.at[ev.i].type # ev.type THEN Blame(m, "type")
                    ELSE IF m.open # ev.i THEN Blame(Grow(m, ev.i, ev.f), "closed")
                         ELSE Grow(m, ev.i, ev.f)
  BY DEF ReadAnthropic
<1> HIDE DEF b
<1>2. ev.i \in DOMAIN m.at => WellRead(Grow(m, ev.i, ev.f))
  BY GrowIs
<1>3. ASSUME b.faults = {} PROVE ~Over(m) /\ ev.i \in DOMAIN m.at
  BY <1>1, <1>3, FaultStays
<1>4. ASSUME b.faults = {} PROVE m.at[ev.i].type = ev.type /\ m.open = ev.i
  BY <1>1, <1>2, <1>3, <1>4, FaultStays
<1> QED BY <1>1, <1>3, <1>4 DEF b

LEMMA BlockStopReads ==
  ASSUME NEW m, WellRead(m), NEW ev, ev.e = "block_stop"
  PROVE  LET b == ReadAnthropic(m, ev)
         IN /\ WellRead(b) /\ Same(b, m, {"open", "faults"})
            /\ b.faults = {} => m.open = ev.i
            /\ m.open = ev.i => b.faults = m.faults /\ b.open = Nothing
<1> DEFINE b == ReadAnthropic(m, ev)
<1>1. b = IF m.open # ev.i THEN Blame(m, "order") ELSE [m EXCEPT !.open = Nothing]
  BY DEF ReadAnthropic
<1> HIDE DEF b
<1>2. CASE m.open = ev.i
  <2>1. b = [m EXCEPT !.open = Nothing]
    BY <1>1, <1>2
  <2> QED BY <1>2, <2>1 DEF b, WellRead, Same, Fields
<1>3. CASE m.open # ev.i
  <2>1. b = Blame(m, "order")
    BY <1>1, <1>3
  <2>2. WellRead(b) /\ Same(b, m, {"faults"}) /\ b.faults # {}
    BY <2>1, BlameIs
  <2>3. Same(b, m, {"open", "faults"})
    BY <2>2 DEF Same
  <2> QED BY <1>3, <2>2, <2>3 DEF b
<1> QED BY <1>2, <1>3

Updated(m, use) == [in |-> Given(use.in, m.tokens.in), out |-> Given(use.out, m.tokens.out),
                    cr |-> Given(use.cr, m.tokens.cr), cc |-> m.tokens.cc]
Repeated(m, use) == m.repeats + Or0(use.cc)

LEMMA MessageDeltaReads ==
  ASSUME NEW m, WellRead(m), NEW ev, ev.e = "message_delta", ev.use \in Updates
  PROVE  LET b == ReadAnthropic(m, ev)
             inOrder == m.started /\ m.open = Nothing /\ m.ends = 0
         IN /\ b.faults = {} => inOrder
            /\ inOrder =>
                 /\ WellRead(b) /\ Same(b, m, {"stop", "blank", "cut", "tokens", "repeats"})
                 /\ b.stop = IF ev.stop \in {"none", ""} THEN m.stop ELSE ev.stop
                 /\ (b.blank <=> IF ev.stop = "none" THEN m.blank ELSE ev.stop = "")
                 /\ (b.cut <=> m.cut \/ ev.stop \in CutReasons)
<1> DEFINE b == ReadAnthropic(m, ev)
           x == IF ev.stop = "none" THEN m ELSE Stop(m, ev.stop)
           inOrder == m.started /\ m.open = Nothing /\ m.ends = 0
           tokens == Updated(m, ev.use)
           repeats == Repeated(m, ev.use)
<1>1. /\ WellRead(x) /\ Same(x, m, {"stop", "blank", "cut"})
      /\ x.stop = IF ev.stop \in {"none", ""} THEN m.stop ELSE ev.stop
      /\ x.blank <=> IF ev.stop = "none" THEN m.blank ELSE ev.stop = ""
      /\ x.cut <=> m.cut \/ ev.stop \in CutReasons
  <2>1. CASE ev.stop = "none"
    <3>1. x = m
      BY <2>1
    <3> HIDE DEF x
    <3>2. m.cut \in BOOLEAN
      BY DEF WellRead
    <3> QED BY <2>1, <3>1, <3>2 DEF Same, CutReasons
  <2>2. CASE ev.stop # "none"
    <3>1. x = Stop(m, ev.stop)
      BY <2>2
    <3> HIDE DEF x
    <3>2. /\ WellRead(x) /\ Same(x, m, {"stop", "blank", "cut"})
          /\ x.stop = IF ev.stop = "" THEN m.stop ELSE ev.stop
          /\ x.blank <=> ev.stop = ""
          /\ x.cut <=> m.cut \/ ev.stop \in CutReasons
      BY <3>1, StopIs
    <3> QED BY <2>2, <3>2
  <2> QED BY <2>1, <2>2
<1>2. b = IF ~m.started \/ m.open # Nothing \/ m.ends > 0 THEN Blame(m, "order")
          ELSE [x EXCEPT !.tokens = [in |-> Given(ev.use.in, @.in), out |-> Given(ev.use.out, @.out),
                                     cr |-> Given(ev.use.cr, @.cr), cc |-> @.cc],
                         !.repeats = IF ev.use.cc = Nothing THEN @ ELSE @ + ev.use.cc]
  BY DEF ReadAnthropic
<1> HIDE DEF b, x
<1>3. m.ends \in Nat
  BY DEF WellRead
<1>4. b.faults = {} => inOrder
  BY <1>2, <1>3, FaultStays
<1>5. x.tokens = m.tokens /\ x.repeats = m.repeats /\ DOMAIN x = Fields
  BY <1>1 DEF Same, Fields, WellRead
<1>6. /\ tokens \in [in : Nat, cc : Nat, cr : Nat, out : Nat] /\ repeats \in Nat
  BY ConverterAssumption DEF WellRead, Updates, Optional, Given, Nothing, Or0, Repeated, Updated
<1>7. ASSUME inOrder
      PROVE  /\ DOMAIN b = Fields /\ Same(b, x, {"tokens", "repeats"})
             /\ b.tokens = tokens /\ b.repeats = repeats
  <2>1. b = [x EXCEPT !.tokens = tokens, !.repeats = repeats]
    <3>1. (IF ev.use.cc = Nothing THEN m.repeats ELSE m.repeats + ev.use.cc) = repeats
      BY DEF Repeated, Or0, WellRead
    <3>2. b = [x EXCEPT !.tokens = tokens,
                        !.repeats = IF ev.use.cc = Nothing THEN m.repeats
                                    ELSE m.repeats + ev.use.cc]
      BY <1>2, <1>3, <1>5, <1>7 DEF Updated
    <3> HIDE DEF repeats, tokens
    <3> QED BY <3>1, <3>2
  <2> HIDE DEF tokens, repeats
  <2> QED BY <1>5, <2>1 DEF Same, Fields
<1>8. ASSUME inOrder
      PROVE  WellRead(b) /\ Same(b, m, {"stop", "blank", "cut", "tokens", "repeats"})
  <2> HIDE DEF tokens, repeats
  <2> QED BY <1>1, <1>6, <1>7, <1>8 DEF WellRead, Same, Fields
<1>9. inOrder => b.stop = x.stop /\ b.blank = x.blank /\ b.cut = x.cut
  BY <1>7 DEF Same, Fields
<1> QED BY <1>1, <1>4, <1>7, <1>8, <1>9 DEF b

LEMMA MessageDeltaCounts ==
  ASSUME NEW m, WellRead(m), NEW ev, ev.e = "message_delta", ev.use \in Updates,
         m.started, m.open = Nothing, m.ends = 0, NEW b, b = ReadAnthropic(m, ev)
  PROVE  b.tokens = Updated(m, ev.use) /\ b.repeats = Repeated(m, ev.use)
<1>1. PICK x : x = (IF ev.stop = "none" THEN m ELSE Stop(m, ev.stop))
  OBVIOUS
<1>2. DOMAIN x = Fields /\ x.tokens = m.tokens /\ x.repeats = m.repeats
  <2>1. WellRead(Stop(m, ev.stop)) /\ Same(Stop(m, ev.stop), m, {"stop", "blank", "cut"})
    BY StopIs
  <2>2. CASE ev.stop = "none"
    BY <1>1, <2>2 DEF WellRead
  <2>3. CASE ev.stop # "none"
    BY <1>1, <2>1, <2>3 DEF WellRead, Same, Fields
  <2> QED BY <2>2, <2>3
<1>3. b = [x EXCEPT !.tokens = Updated(m, ev.use),
                    !.repeats = IF ev.use.cc = Nothing THEN m.repeats ELSE m.repeats + ev.use.cc]
  <2> DEFINE z == IF ev.stop = "none" THEN m ELSE Stop(m, ev.stop)
  <2>1. b = IF ~m.started \/ m.open # Nothing \/ m.ends > 0 THEN Blame(m, "order")
            ELSE [z EXCEPT !.tokens = [in |-> Given(ev.use.in, @.in), out |-> Given(ev.use.out, @.out),
                                       cr |-> Given(ev.use.cr, @.cr), cc |-> @.cc],
                           !.repeats = IF ev.use.cc = Nothing THEN @ ELSE @ + ev.use.cc]
    BY DEF ReadAnthropic
  <2>2. z = x
    BY <1>1
  <2> HIDE DEF z
  <2>3. ~(m.ends > 0)
    OBVIOUS
  <2>4. b = [x EXCEPT !.tokens = [in |-> Given(ev.use.in, @.in), out |-> Given(ev.use.out, @.out),
                                  cr |-> Given(ev.use.cr, @.cr), cc |-> @.cc],
                      !.repeats = IF ev.use.cc = Nothing THEN @ ELSE @ + ev.use.cc]
    BY <2>1, <2>2, <2>3
  <2>5. b = [x EXCEPT !.tokens = Updated(m, ev.use),
                      !.repeats = IF ev.use.cc = Nothing THEN @ ELSE @ + ev.use.cc]
    BY <1>2, <2>4 DEF Updated
  <2> QED BY <1>2, <2>5
<1>4. (IF ev.use.cc = Nothing THEN m.repeats ELSE m.repeats + ev.use.cc) = Repeated(m, ev.use)
  BY DEF Repeated, Or0, WellRead
<1>5. b = [x EXCEPT !.tokens = Updated(m, ev.use), !.repeats = Repeated(m, ev.use)]
  BY <1>3, <1>4
<1> QED BY <1>2, <1>5 DEF Fields

LEMMA MessageStopReads ==
  ASSUME NEW m, WellRead(m), NEW ev, ev.e = "message_stop"
  PROVE  LET b == ReadAnthropic(m, ev)
         IN /\ b.faults = {} => m.open = Nothing \/ m.failed
            /\ m.open = Nothing \/ m.failed => b = End(m)
<1>1. ReadAnthropic(m, ev) = IF m.open # Nothing /\ ~m.failed THEN Blame(End(m), "order")
                             ELSE End(m)
  BY DEF ReadAnthropic
<1> QED BY <1>1, EndIs, FaultStays

LEMMA ErrorReads ==
  ASSUME NEW m, NEW ev
  PROVE  /\ ev.e = "error" => ReadAnthropic(m, ev) = Fail(m)
         /\ ev.e = "garbage" => ReadAnthropic(m, ev) = m
  BY DEF ReadAnthropic

-----------------------------------------------------------------------------
(***************************************************************************)
(* Token counts.                                                           *)
(***************************************************************************)
Bills == [unc : 0..MaxTok, out : 0..MaxTok, total : 0..MaxTok, cached : 0..MaxTok]

\* A bill whose total is the sum of its parts.
Summed(u) == u \in Bills /\ u.total = Sat(Sat(u.unc + u.out) + u.cached)

LEMMA SatIs ==
  ASSUME NEW n \in Nat
  PROVE  /\ Sat(n) \in 0..MaxTok /\ (n <= MaxTok => Sat(n) = n)
         /\ \A k \in Nat : Sat(Sat(n) + k) = Sat(n + k)
  BY ConverterAssumption DEF Sat

LEMMA NoUsageIs == Summed(NoUsage) /\ Extract(NoReport) = NoUsage
                   /\ NoReport \in UsageObjects
<1>1. MaxTok \in Nat /\ Sat(0) = 0
  BY ConverterAssumption DEF Sat
<1> QED BY <1>1 DEF Summed, Bills, NoUsage, Extract, NoReport, UsageObjects

LEMMA TotalIs ==
  ASSUME NEW u \in Bills
  PROVE  LET b == Total(u)
         IN Summed(b) /\ b.unc = u.unc /\ b.out = u.out /\ b.cached = u.cached
<1> DEFINE b == Total(u)
<1>1. PICK t : t = Sat(Sat(u.unc + u.out) + u.cached) /\ t \in 0..MaxTok
  <2>1. u.unc + u.out \in Nat /\ u.cached \in Nat
    BY ConverterAssumption DEF Bills
  <2>2. Sat(u.unc + u.out) + u.cached \in Nat
    <3>1. Sat(u.unc + u.out) \in 0..MaxTok
      BY <2>1, SatIs
    <3> QED BY <2>1, <3>1, ConverterAssumption
  <2> QED BY <2>2, SatIs
<1>2. b = [u EXCEPT !.total = t]
  BY <1>1 DEF Total
<1> HIDE DEF b
<1>3. b \in Bills /\ b.unc = u.unc /\ b.out = u.out /\ b.cached = u.cached /\ b.total = t
  BY <1>1, <1>2 DEF Bills
<1> QED BY <1>1, <1>3 DEF Summed, b

LEMMA AnStartIs ==
  ASSUME NEW u \in Bills, NEW use \in Started
  PROVE  LET b == AnStart(u, use)
         IN Summed(b) /\ b.unc = Sat(use.in + use.cc) /\ b.out = u.out /\ b.cached = use.cr
<1>1. use.in + use.cc \in Nat
  BY ConverterAssumption DEF Started
<1>2. PICK x : x = [u EXCEPT !.unc = Sat(use.in + use.cc), !.cached = use.cr]
  OBVIOUS
<1>3. Sat(use.in + use.cc) \in 0..MaxTok
  BY <1>1, SatIs
<1>4. x \in Bills /\ x.unc = Sat(use.in + use.cc) /\ x.out = u.out /\ x.cached = use.cr
  BY <1>2, <1>3 DEF Bills, Started
<1>5. AnStart(u, use) = Total(x)
  BY <1>2 DEF AnStart
<1> QED BY <1>4, <1>5, TotalIs

LEMMA AnDeltaIs ==
  ASSUME NEW u \in Bills, NEW use \in Updates, NEW keep \in BOOLEAN
  PROVE  LET b == AnDelta(u, use, keep)
         IN /\ Summed(b) /\ b.unc = Sat(u.unc + Or0(use.cc))
            /\ b.out = IF keep THEN Given(use.out, u.out) ELSE Or0(use.out)
            /\ b.cached = Given(use.cr, u.cached)
<1> DEFINE out == IF keep THEN Given(use.out, u.out) ELSE Or0(use.out)
           cached == Given(use.cr, u.cached)
           unc == Sat(u.unc + Or0(use.cc))
<1>1. out \in 0..MaxTok /\ cached \in 0..MaxTok /\ u.unc + Or0(use.cc) \in Nat
  BY ConverterAssumption DEF Bills, Updates, Optional, Nothing, Given, Or0
<1>2. unc \in 0..MaxTok
  BY <1>1, SatIs
<1>3. PICK x : x = [u EXCEPT !.out = out, !.cached = cached, !.unc = unc]
  OBVIOUS
<1>4. AnDelta(u, use, keep) = Total(x)
  BY <1>3 DEF AnDelta, Bills
<1> HIDE DEF out, cached, unc
<1>5. x \in Bills /\ x.unc = unc /\ x.out = out /\ x.cached = cached
  BY <1>1, <1>2, <1>3 DEF Bills
<1> QED BY <1>4, <1>5, TotalIs DEF out, cached, unc

\* The usage object told for a bill, and back.
LEMMA ReportIs ==
  ASSUME NEW u \in Bills
  PROVE  /\ Report(u) \in UsageObjects /\ Report(u).total = u.total
         /\ Counts(Report(u)) <=> u.total > 0
         /\ u.unc + u.cached <= MaxTok => Extract(Report(u)) = u
<1>1. u.unc + u.cached \in Nat
  BY ConverterAssumption DEF Bills
<1>2. PICK t : t = Sat(u.unc + u.cached) /\ t \in 0..MaxTok
               /\ (u.unc + u.cached <= MaxTok => t = u.unc + u.cached)
  BY <1>1, SatIs
<1>3. Report(u) = [prompt |-> t, cached |-> u.cached, completion |-> u.out, total |-> u.total]
  BY <1>2 DEF Report
<1>4. Report(u) \in UsageObjects /\ Report(u).total = u.total
  BY <1>2, <1>3 DEF UsageObjects, Bills
<1>a. u.total # Nothing
  BY ConverterAssumption DEF Bills, Nothing
<1>b. Counts(Report(u)) <=> u.total > 0
  BY <1>3, <1>a DEF Counts
<1>5. ASSUME u.unc + u.cached <= MaxTok PROVE Extract(Report(u)) = u
  <2>1. t = u.unc + u.cached /\ u.unc \in Nat /\ u.cached \in Nat
    BY <1>2, <1>5, ConverterAssumption DEF Bills
  <2>2. (IF t > u.cached THEN t - u.cached ELSE 0) = u.unc
    BY <2>1
  <2>3. Extract(Report(u)) = [unc |-> u.unc, out |-> u.out, total |-> u.total, cached |-> u.cached]
    BY <1>3, <1>a, <2>2 DEF Extract
  <2> QED BY <2>3 DEF Bills
<1> QED BY <1>4, <1>b, <1>5

LEMMA NothingSummed ==
  ASSUME NEW u, Summed(u), u.total = 0
  PROVE  u = NoUsage
<1>1. u.unc \in Nat /\ u.out \in Nat /\ u.cached \in Nat /\ u.unc <= MaxTok /\ u.out <= MaxTok
      /\ u.cached <= MaxTok /\ MaxTok \in Nat
  BY ConverterAssumption DEF Summed, Bills
<1>2. Sat(Sat(u.unc + u.out) + u.cached) = 0
  BY DEF Summed
<1>3. u.unc = 0 /\ u.out = 0 /\ u.cached = 0
  <2>1. \A n \in Nat : Sat(n) \in Nat /\ (Sat(n) = 0 => n = 0 \/ MaxTok = 0)
    BY <1>1 DEF Sat
  <2>2. PICK a : a = Sat(u.unc + u.out) /\ a \in Nat /\ (a = 0 => u.unc + u.out = 0 \/ MaxTok = 0)
    BY <1>1, <2>1
  <2>3. a + u.cached = 0 \/ MaxTok = 0
    BY <1>1, <1>2, <2>1, <2>2
  <2> QED BY <1>1, <2>2, <2>3
<1> QED BY <1>3 DEF Summed, Bills, NoUsage

LEMMA ExtractIs ==
  ASSUME NEW r \in UsageObjects
  PROVE  /\ Extract(r) \in Bills /\ (Extract(r).total > 0 <=> Counts(r))
         /\ Extract(Report(Extract(r))) = Extract(r)
<1> DEFINE u == Extract(r)
           t == IF r.total = Nothing THEN Sat(r.prompt + r.completion) ELSE r.total
<1>0. t \in 0..MaxTok /\ (t > 0 <=> Counts(r))
  BY ConverterAssumption DEF UsageObjects, Sat, Counts
<1> HIDE DEF t
<1>1. /\ u \in Bills /\ u.total = t /\ u.cached = r.cached
      /\ u.unc = IF r.prompt > r.cached THEN r.prompt - r.cached ELSE 0
  <2>1. u = [unc |-> IF r.prompt > r.cached THEN r.prompt - r.cached ELSE 0,
             out |-> r.completion, cached |-> r.cached, total |-> t]
    BY DEF Extract, t
  <2> QED BY <1>0, <2>1, ConverterAssumption DEF Bills, UsageObjects
<1> HIDE DEF u
<1>2. u.unc + u.cached <= MaxTok
  BY <1>1, ConverterAssumption DEF UsageObjects
<1> QED BY <1>0, <1>1, <1>2, ReportIs DEF u

-----------------------------------------------------------------------------
(***************************************************************************)
(* What a client reads of what the converter says.                         *)
(***************************************************************************)
Protocols == {"openai", "anthropic", "responses"}

LEMMA ReadsNone ==
  ASSUME NEW p \in Protocols, NEW g
  PROVE  Reads(p, g, <<>>) = g
<1>1. Reads(p, g, <<>>) = Fold(p, g, <<>>)
  BY ReadsIs DEF Protocols
<1> QED BY <1>1, FoldEmpty

LEMMA ReadsOne ==
  ASSUME NEW p \in Protocols, NEW g, NEW x
  PROVE  IsSeq(<<x>>) /\ Reads(p, g, <<x>>) = Read(p, g, x)
<1>1. Reads(p, g, <<x>>) = Fold(p, g, <<x>>)
  BY ReadsIs DEF Protocols
<1>2. Do(p, g, x) = Read(p, g, x)
  BY DEF Do, Protocols
<1> QED BY <1>1, <1>2, FoldOne

LEMMA ReadsAppend ==
  ASSUME NEW p \in Protocols, NEW g, NEW s, IsSeq(s), NEW x
  PROVE  IsSeq(Append(s, x)) /\ Reads(p, g, Append(s, x)) = Read(p, Reads(p, g, s), x)
<1>1. Reads(p, g, s) = Fold(p, g, s) /\ Reads(p, g, Append(s, x)) = Fold(p, g, Append(s, x))
  BY ReadsIs DEF Protocols
<1>2. \A a : Do(p, a, x) = Read(p, a, x)
  BY DEF Do, Protocols
<1> QED BY <1>1, <1>2, FoldAppend, AppendIsSeq

LEMMA ReadsConcat ==
  ASSUME NEW p \in Protocols, NEW g, NEW s, IsSeq(s), NEW q, IsSeq(q)
  PROVE  IsSeq(s \o q) /\ Reads(p, g, s \o q) = Reads(p, Reads(p, g, s), q)
<1>1. \A a, z : Reads(p, a, z) = Fold(p, a, z)
  BY ReadsIs DEF Protocols
<1> QED BY <1>1, FoldConcat, ConcatIsSeq

LEMMA ReadIs ==
  ASSUME NEW m, NEW ev
  PROVE  /\ Read("openai", m, ev) = ReadOpenAi(m, ev)
         /\ Read("anthropic", m, ev) = ReadAnthropic(m, ev)
         /\ Read("responses", m, ev) = ReadResponses(m, ev)
  BY DEF Read

ChunkRead(m, use, pieces) == ChunkEnd(Fold("piece", m, pieces), use)

LEMMA OpenAiReads ==
  ASSUME NEW m, NEW ev
  PROVE  /\ ev.e = "chunk" /\ ~Over(m) => ReadOpenAi(m, ev) = ChunkRead(m, ev.use, ev.pieces)
         /\ ev.e = "chunk" /\ Over(m) => ReadOpenAi(m, ev) = Blame(m, "late")
         /\ ev.e = "[DONE]" => ReadOpenAi(m, ev) = End(m)
         /\ ev.e = "error" => ReadOpenAi(m, ev) = Fail(m)
         /\ ev.e = "garbage" => ReadOpenAi(m, ev) = m
<1>1. ev.e = "chunk" /\ ~Over(m) => ReadOpenAi(m, ev) = ChunkRead(m, ev.use, ev.pieces)
  <2>1. FoldLeft(ReadPiece, m, ev.pieces) = Fold("piece", m, ev.pieces)
    BY PiecesRead
  <2> QED BY <2>1 DEF ReadOpenAi, ChunkRead, ChunkEnd
<1> QED BY <1>1 DEF ReadOpenAi

LEMMA PiecesOf ==
  ASSUME NEW m, NEW p, NEW q
  PROVE  /\ Fold("piece", m, <<>>) = m
         /\ Fold("piece", m, <<p>>) = ReadPiece(m, p)
         /\ Fold("piece", m, <<p, q>>) = ReadPiece(ReadPiece(m, p), q)
  BY FoldEmpty, FoldOne, FoldTwo DEF Do

LEMMA ChunkReads ==
  ASSUME NEW g, NEW pieces, NEW use \in UsageObjects, ~Over(g),
         NEW x, x = Fold("piece", g, pieces), WellRead(x)
  PROVE  LET b == Reads("openai", g, <<OpenAiChunk(use, pieces)>>)
         IN /\ WellRead(b) /\ Same(b, x, {"started", "read"}) /\ b.started = TRUE
            /\ b.read = IF Counts(use) THEN use ELSE x.read
<1>1. PICK ev : ev = OpenAiChunk(use, pieces)
  OBVIOUS
<1>2. ev.e = "chunk" /\ ev.use = use /\ ev.pieces = pieces
  BY <1>1 DEF OpenAiChunk
<1>3. ReadOpenAi(g, ev) = ChunkRead(g, use, pieces)
  BY <1>2, OpenAiReads
<1>4. Reads("openai", g, <<ev>>) = ReadOpenAi(g, ev)
  BY ReadsOne, ReadIs DEF Protocols
<1>5. PICK b : b = Reads("openai", g, <<OpenAiChunk(use, pieces)>>)
  OBVIOUS
<1>6. b = ChunkEnd(x, use)
  BY <1>1, <1>3, <1>4, <1>5 DEF ChunkRead
<1>7. /\ WellRead(b) /\ Same(b, x, {"started", "read"}) /\ b.started = TRUE
      /\ b.read = IF Counts(use) THEN use ELSE x.read
  BY <1>6, ChunkEnds
<1> QED BY <1>5, <1>7

-----------------------------------------------------------------------------
(***************************************************************************)
(* From Anthropic to OpenAI: what AnStreamState knows (s) of the message    *)
(* the provider has sent (m), and what the client has got (g).             *)
(***************************************************************************)
\* An event an OpenAI provider that has sent m can send.
GoodPieces(m, ps) ==
  \/ ps = <<>>
  \/ \E p : ps = <<p>> /\ GoodPiece(m, p)
  \/ \E q, p : ps = <<q, p>> /\ Content(q) /\ GoodPiece(m, p)
OaEvent(m, ev) ==
  \/ ev.e = "chunk" /\ ev.use \in UsageObjects /\ GoodPieces(m, ev.pieces)
  \/ ev.e \in {"[DONE]", "error", "garbage"}

Row(D, k) == k \in Nat /\ D = 0..(k - 1)
SameContent(m, g) == g.text = m.text /\ g.think = m.think /\ g.calls = m.calls

AnConv(s) ==
  /\ DOMAIN s = {"finished", "tcs", "next", "usage"} /\ s.finished \in BOOLEAN
  /\ s.next \in Nat /\ Summed(s.usage)

\* Every call block of the provider is a call of the client, with its id.
AnCalls(s, m, g) ==
  /\ \E k : Row(DOMAIN m.at, k)
  /\ Row(DOMAIN g.at, s.next)
  /\ OnlyCalls(g)
  /\ DOMAIN s.tcs = {i \in DOMAIN m.at : m.at[i].type = "tool"}
  /\ \A i \in DOMAIN s.tcs : s.tcs[i] \in DOMAIN g.at /\ g.at[s.tcs[i]].id = m.at[i].id

\* The bill u counts what the provider has told so far.
AnSums(u, m) ==
  /\ u.unc = Sat(m.tokens.in + m.tokens.cc + m.repeats)
  /\ u.out = m.tokens.out /\ u.cached = m.tokens.cr
  /\ ~m.started => m.repeats = 0 /\ m.tokens.out = 0 /\ m.stop = "none"

\* Reason and usage reach the client together, once.
AnTold(s, m, g) ==
  /\ g.started <=> m.started
  /\ DOMAIN m.at # {} => m.started
  /\ m.stop \in Stops
  /\ g.stop = IF m.stop = "none" THEN "none" ELSE StopToFinish(m.stop)
  /\ m.cut <=> m.stop = "max_tokens"
  /\ g.cut <=> m.cut
  /\ g.read = IF m.stop = "none" \/ s.usage.total = 0 THEN NoReport ELSE Report(s.usage)

AnLive(s, m, g) ==
  /\ m.faults = {} /\ AnCalls(s, m, g) /\ AnSums(s.usage, m) /\ AnTold(s, m, g)

CoupledAn(s, m, g) ==
  /\ WellRead(m) /\ WellRead(g) /\ AnConv(s) /\ SameContent(m, g)
  /\ g.faults = {} /\ g.ends = 0
  /\ g.failed <=> m.failed
  /\ s.finished <=> m.failed
  /\ ~m.failed => AnLive(s, m, g)

AnAllowed(m, ev) ==
  /\ AnEvent(m, ev) /\ (m.failed \/ ReadAnthropic(m, ev).faults = {})
  /\ ev.e = "message_delta" =>
       /\ m.stop = "none" /\ m.started
       /\ ev.use.in \in {Nothing, m.tokens.in}
       /\ ev.use.out = Nothing => m.tokens.out = 0
  /\ ev.e = "message_stop" => ~Over(m)

\* What the converter says of one event: nothing, or one event that follows
\* on what the client has got.
AnOut(g, out) == out = <<>> \/ \E c : out = <<c>> /\ OaEvent(g, c)

AnBefore(s, m, g, ev) == CoupledAn(s, m, g) /\ AnAllowed(m, ev)
AnAfter(s, m, g, ev) ==
  LET r == AnPush(s, ev)
  IN CoupledAn(r.s, ReadAnthropic(m, ev), Reads("openai", g, r.out)) /\ AnOut(g, r.out)

LEMMA RowIs ==
  ASSUME NEW D, NEW k, Row(D, k)
  PROVE  IsFiniteSet(D) /\ Cardinality(D) = k /\ k \notin D /\ Row(D \cup {k}, k + 1)
<1>1. k \in Nat /\ D = 0..(k - 1)
  BY DEF Row
<1>2. 0 \in Int /\ k - 1 \in Int
  BY <1>1
<1>3. IsFiniteSet(D) /\ Cardinality(D) = IF 0 > k - 1 THEN 0 ELSE (k - 1) - 0 + 1
  BY <1>1, <1>2, FS_Interval
<1>4. Cardinality(D) = k
  BY <1>1, <1>3
<1>5. k \notin D /\ D \cup {k} = 0..((k + 1) - 1) /\ k + 1 \in Nat
  BY <1>1
<1> QED BY <1>3, <1>4, <1>5 DEF Row

\* After an error the provider's message no longer counts.
LEMMA DeadAnthropic ==
  ASSUME NEW m, WellRead(m), m.failed, NEW ev, AnAllowed(m, ev)
  PROVE  /\ WellRead(ReadAnthropic(m, ev))
         /\ Same(ReadAnthropic(m, ev), m,
                 {"faults", "open", "stop", "blank", "cut", "tokens", "repeats"})
<1> DEFINE b == ReadAnthropic(m, ev)
           F == {"faults", "open", "stop", "blank", "cut", "tokens", "repeats"}
<1>1. Over(m)
  BY DEF Over
<1>2. \A what : WellRead(Blame(m, what)) /\ Same(Blame(m, what), m, F)
  BY BlameIs DEF Same
<1>3. WellRead(m) /\ Same(m, m, F)
  BY DEF Same
<1>4. CASE ev.e \in {"message_start", "block_start", "block_delta"}
  <2>1. b = Blame(m, "order") \/ b = Blame(m, "late")
    BY <1>1, <1>4 DEF ReadAnthropic
  <2> QED BY <1>2, <2>1
<1>5. CASE ev.e = "block_stop"
  <2>1. WellRead(b) /\ Same(b, m, {"open", "faults"})
    BY <1>5, BlockStopReads
  <2> QED BY <2>1 DEF Same
<1>6. CASE ev.e = "message_delta"
  <2>1. ev.use \in Updates
    BY <1>6 DEF AnAllowed, AnEvent
  <2> DEFINE inOrder == m.started /\ m.open = Nothing /\ m.ends = 0
  <2>2. CASE inOrder
    <3>1. WellRead(b) /\ Same(b, m, {"stop", "blank", "cut", "tokens", "repeats"})
      BY <1>6, <2>1, <2>2, MessageDeltaReads
    <3> QED BY <3>1 DEF Same
  <2>3. CASE ~inOrder
    <3>1. m.ends \in Nat
      BY DEF WellRead
    <3>2. b = Blame(m, "order")
      BY <1>6, <2>3, <3>1 DEF ReadAnthropic
    <3> QED BY <1>2, <3>2
  <2> QED BY <2>2, <2>3
<1>7. CASE ev.e = "message_stop"
  BY <1>1, <1>7 DEF AnAllowed
<1>8. CASE ev.e = "error"
  <2>1. b = Fail(m)
    BY <1>8, ErrorReads
  <2>2. WellRead(b) /\ Same(b, m, {"failed"}) /\ b.failed = TRUE
    BY <2>1, FailIs
  <2>3. b.failed = m.failed
    BY <2>2 DEF WellRead
  <2> QED BY <2>2, <2>3 DEF Same
<1>9. CASE ev.e = "garbage"
  <2>1. b = m
    BY <1>9, ErrorReads
  <2> QED BY <1>3, <2>1
<1> QED BY <1>4, <1>5, <1>6, <1>7, <1>8, <1>9 DEF AnAllowed, AnEvent

LEMMA AnDead ==
  ASSUME NEW s, NEW m, NEW g, NEW ev, AnBefore(s, m, g, ev), m.failed
  PROVE  AnAfter(s, m, g, ev)
<1> DEFINE b == ReadAnthropic(m, ev)
<1>1. AnPush(s, ev) = Says(s, <<>>)
  BY DEF AnBefore, CoupledAn, AnPush
<1>2. AnPush(s, ev).s = s /\ AnPush(s, ev).out = <<>>
  BY <1>1 DEF Says
<1>3. Reads("openai", g, <<>>) = g
  BY ReadsNone DEF Protocols
<1>4. WellRead(b) /\ Same(b, m, {"faults", "open", "stop", "blank", "cut", "tokens", "repeats"})
  BY DeadAnthropic DEF AnBefore, CoupledAn
<1> HIDE DEF b
<1>5. b.text = m.text /\ b.think = m.think /\ b.calls = m.calls /\ b.failed = m.failed
  BY <1>4 DEF Same, Fields
<1>6. CoupledAn(s, b, g)
  BY <1>4, <1>5 DEF AnBefore, CoupledAn, SameContent
<1> QED BY <1>2, <1>3, <1>6 DEF AnAfter, AnOut, b

LEMMA AnError ==
  ASSUME NEW s, NEW m, NEW g, NEW ev, AnBefore(s, m, g, ev), ~m.failed, ev.e = "error"
  PROVE  AnAfter(s, m, g, ev)
<1> DEFINE b == ReadAnthropic(m, ev)
           h == Reads("openai", g, <<Error>>)
           t == [s EXCEPT !.finished = TRUE]
<1>1. ~s.finished
  BY DEF AnBefore, CoupledAn
<1>2. AnPush(s, ev) = Says(t, <<Error>>)
  BY <1>1 DEF AnPush
<1>3. AnPush(s, ev).s = t /\ AnPush(s, ev).out = <<Error>>
  BY <1>2 DEF Says
<1>4. AnConv(t) /\ t.finished = TRUE
  BY DEF AnBefore, CoupledAn, AnConv
<1>5. b = Fail(m)
  BY ErrorReads
<1>6. h = Fail(g)
  <2>1. h = ReadOpenAi(g, Error)
    BY ReadsOne, ReadIs DEF Protocols
  <2>2. Error.e = "error"
    BY DEF Error
  <2> QED BY <2>1, <2>2, OpenAiReads
<1> HIDE DEF b, h, t
<1>7. WellRead(b) /\ Same(b, m, {"failed"}) /\ b.failed = TRUE
  BY <1>5, FailIs DEF AnBefore, CoupledAn
<1>8. WellRead(h) /\ Same(h, g, {"failed"}) /\ h.failed = TRUE
  BY <1>6, FailIs DEF AnBefore, CoupledAn
<1>9. /\ b.text = m.text /\ b.think = m.think /\ b.calls = m.calls
      /\ h.text = g.text /\ h.think = g.think /\ h.calls = g.calls
      /\ h.faults = g.faults /\ h.ends = g.ends
  BY <1>7, <1>8 DEF Same, Fields
<1>10. CoupledAn(t, b, h)
  BY <1>4, <1>7, <1>8, <1>9 DEF AnBefore, CoupledAn, SameContent
<1>11. AnOut(g, <<Error>>)
  <2>1. OaEvent(g, Error)
    BY DEF OaEvent, Error
  <2> QED BY <2>1 DEF AnOut
<1> QED BY <1>3, <1>10, <1>11 DEF AnAfter, b, h

\* Garbage, the stop of a block and message_stop pass without a word.
LEMMA AnSilent ==
  ASSUME NEW s, NEW m, NEW g, NEW ev, AnBefore(s, m, g, ev), ~m.failed,
         ev.e \in {"garbage", "block_stop", "message_stop"}
  PROVE  AnAfter(s, m, g, ev)
<1> DEFINE b == ReadAnthropic(m, ev)
<1>1. ~s.finished /\ WellRead(m) /\ m.faults = {}
  BY DEF AnBefore, CoupledAn, AnLive
<1>2. AnPush(s, ev) = Says(s, <<>>)
  BY <1>1 DEF AnPush
<1>3. AnPush(s, ev).s = s /\ AnPush(s, ev).out = <<>>
  BY <1>2 DEF Says
<1>4. Reads("openai", g, <<>>) = g
  BY ReadsNone DEF Protocols
<1>5. b.faults = {}
  BY DEF AnBefore, AnAllowed
<1>6. WellRead(b) /\ Same(b, m, {"open", "ends", "faults"})
  <2>1. CASE ev.e = "garbage"
    BY <1>1, <2>1, ErrorReads DEF Same
  <2>2. CASE ev.e = "block_stop"
    BY <1>1, <2>2, BlockStopReads DEF Same
  <2>3. CASE ev.e = "message_stop"
    <3>1. m.open = Nothing \/ m.failed
      BY <1>1, <1>5, <2>3, MessageStopReads
    <3>2. b = End(m)
      BY <1>1, <2>3, <3>1, MessageStopReads
    <3> QED BY <1>1, <3>2, EndIs DEF Same
  <2> QED BY <2>1, <2>2, <2>3
<1> HIDE DEF b
<1>7. /\ b.text = m.text /\ b.think = m.think /\ b.calls = m.calls /\ b.failed = m.failed
      /\ b.at = m.at /\ b.started = m.started /\ b.stop = m.stop /\ b.cut = m.cut
      /\ b.tokens = m.tokens /\ b.repeats = m.repeats
  BY <1>6 DEF Same, Fields
<1>8. CoupledAn(s, b, g)
  BY <1>5, <1>6, <1>7
     DEF AnBefore, CoupledAn, SameContent, AnLive, AnCalls, AnSums, AnTold
<1> QED BY <1>3, <1>4, <1>8 DEF AnAfter, AnOut, b

LEMMA AnBegins ==
  ASSUME NEW s, NEW m, NEW g, NEW ev, AnBefore(s, m, g, ev), ~m.failed,
         ev.e = "message_start"
  PROVE  AnAfter(s, m, g, ev)
<1> DEFINE b == ReadAnthropic(m, ev)
           u == AnStart(s.usage, ev.use)
           t == [s EXCEPT !.usage = u]
           c == OpenAiChunk(NoReport, <<>>)
           h == Reads("openai", g, <<c>>)
<1>1. /\ ~s.finished /\ WellRead(m) /\ WellRead(g) /\ ~Over(g) /\ AnConv(s)
      /\ AnLive(s, m, g) /\ ev.use \in Started /\ b.faults = {}
  BY DEF AnBefore, CoupledAn, AnAllowed, AnEvent, Over
<1>2. AnPush(s, ev) = Says(t, <<c>>)
  BY <1>1 DEF AnPush, AnChunk
<1>3. AnPush(s, ev).s = t /\ AnPush(s, ev).out = <<c>>
  BY <1>2 DEF Says
<1>4. Summed(u) /\ u.unc = Sat(ev.use.in + ev.use.cc) /\ u.out = s.usage.out /\ u.cached = ev.use.cr
  BY <1>1, AnStartIs DEF AnConv, Summed
<1>5. ~m.started /\ WellRead(b) /\ Same(b, m, {"started", "tokens"}) /\ b.started = TRUE
      /\ b.tokens = [ev.use EXCEPT !.out = 0]
  BY <1>1, StartReads
<1>6. WellRead(h) /\ Same(h, g, {"started", "read"}) /\ h.started = TRUE /\ h.read = g.read
  <2>1. PICK ps : ps = <<>>
    OBVIOUS
  <2>2. g = Fold("piece", g, ps)
    BY <2>1, PiecesOf
  <2>3. PICK use \in UsageObjects : use = NoReport /\ ~Counts(use)
    BY NoUsageIs DEF NoReport, Counts, Nothing
  <2>4. h = Reads("openai", g, <<OpenAiChunk(use, ps)>>)
    BY <2>1, <2>3
  <2> HIDE DEF h
  <2> QED BY <1>1, <2>2, <2>3, <2>4, ChunkReads
<1> HIDE DEF b, u, c, h
<1>7. t = [s EXCEPT !.usage = u] /\ AnConv(t) /\ t.usage = u /\ t.tcs = s.tcs /\ t.next = s.next
      /\ t.finished = s.finished
  BY <1>1, <1>4 DEF AnConv
<1> HIDE DEF t
<1>8. /\ b.text = m.text /\ b.think = m.think /\ b.calls = m.calls /\ b.failed = m.failed
      /\ b.at = m.at /\ b.stop = m.stop /\ b.cut = m.cut /\ b.repeats = m.repeats
  BY <1>5 DEF Same, Fields
<1>9. /\ h.text = g.text /\ h.think = g.think /\ h.calls = g.calls /\ h.failed = g.failed
      /\ h.at = g.at /\ h.stop = g.stop /\ h.cut = g.cut
      /\ h.faults = g.faults /\ h.ends = g.ends
  BY <1>6 DEF Same, Fields
<1>10. AnCalls(t, b, h)
  BY <1>1, <1>7, <1>8, <1>9 DEF AnLive, AnCalls, OnlyCalls
<1>11. AnSums(t.usage, b)
  <2>1. m.repeats = 0 /\ s.usage.out = 0
    BY <1>1, <1>5 DEF AnLive, AnSums
  <2>2. /\ b.tokens.in = ev.use.in /\ b.tokens.cc = ev.use.cc /\ b.tokens.cr = ev.use.cr
        /\ b.tokens.out = 0
    BY <1>1, <1>5 DEF Started
  <2>3. ev.use.in + ev.use.cc + 0 = ev.use.in + ev.use.cc
    BY <1>1, ConverterAssumption DEF Started
  <2> QED BY <1>4, <1>5, <1>7, <1>8, <2>1, <2>2, <2>3 DEF AnSums
<1>12. AnTold(t, b, h)
  BY <1>1, <1>5, <1>6, <1>7, <1>8, <1>9 DEF AnLive, AnTold, AnSums
<1>13. CoupledAn(t, b, h)
  BY <1>1, <1>5, <1>6, <1>7, <1>8, <1>9, <1>10, <1>11, <1>12
     DEF AnBefore, CoupledAn, SameContent, AnLive
<1>14. AnOut(g, <<c>>)
  <2>1. OaEvent(g, c)
    BY NoUsageIs DEF c, OpenAiChunk, OaEvent, GoodPieces
  <2> QED BY <2>1 DEF AnOut
<1> QED BY <1>3, <1>13, <1>14 DEF AnAfter, b, h

\* A chunk of one piece and no report.
LEMMA OnePiece ==
  ASSUME NEW g, ~Over(g), NEW p, GoodPiece(g, p), NEW x, x = ReadPiece(g, p), WellRead(x)
  PROVE  LET h == Reads("openai", g, AnChunk(<<p>>))
         IN /\ WellRead(h) /\ Same(h, x, {"started"}) /\ h.started = TRUE
            /\ AnOut(g, AnChunk(<<p>>))
<1>1. PICK ps : ps = <<p>>
  OBVIOUS
<1>2. x = Fold("piece", g, ps)
  BY <1>1, PiecesOf
<1>3. PICK use \in UsageObjects : use = NoReport /\ ~Counts(use)
  BY NoUsageIs DEF NoReport, Counts, Nothing
<1>4. PICK h : h = Reads("openai", g, AnChunk(<<p>>))
  OBVIOUS
<1>5. h = Reads("openai", g, <<OpenAiChunk(use, ps)>>)
  BY <1>1, <1>3, <1>4 DEF AnChunk
<1>6. WellRead(h) /\ Same(h, x, {"started", "read"}) /\ h.started = TRUE /\ h.read = x.read
  BY <1>2, <1>3, <1>5, ChunkReads
<1>7. Same(h, x, {"started"})
  BY <1>6 DEF Same
<1>8. AnOut(g, <<OpenAiChunk(use, ps)>>)
  <2>1. PICK c : c = OpenAiChunk(use, ps)
    OBVIOUS
  <2>2. GoodPieces(g, ps)
    BY <1>1 DEF GoodPieces
  <2>3. OaEvent(g, c)
    BY <2>1, <2>2 DEF OaEvent, OpenAiChunk
  <2> QED BY <2>1, <2>3 DEF AnOut
<1> QED BY <1>1, <1>3, <1>4, <1>6, <1>7, <1>8 DEF AnChunk

LEMMA AnOpensContent ==
  ASSUME NEW s, NEW m, NEW g, NEW ev, AnBefore(s, m, g, ev), ~m.failed,
         ev.e = "block_start", ev.type \in {"text", "think"}
  PROVE  AnAfter(s, m, g, ev)
<1> DEFINE b == ReadAnthropic(m, ev)
           new == [type |-> ev.type, id |-> NoCall, size |-> 0]
<1>1. /\ ~s.finished /\ WellRead(m) /\ AnLive(s, m, g) /\ b.faults = {} /\ m.faults = {}
      /\ ev.id = NoCall /\ ev.type \in Kinds /\ ev.type # "tool"
  BY DEF AnBefore, CoupledAn, AnLive, AnAllowed, AnEvent, Kinds
<1>2. AnPush(s, ev) = Says(s, <<>>)
  BY <1>1 DEF AnPush
<1>3. AnPush(s, ev).s = s /\ AnPush(s, ev).out = <<>>
  BY <1>2 DEF Says
<1>4. Reads("openai", g, <<>>) = g
  BY ReadsNone DEF Protocols
<1>5. /\ ev.i = Cardinality(DOMAIN m.at) /\ WellRead(b) /\ Same(b, m, {"at", "calls", "open"})
      /\ b.at = With(m.at, ev.i, new) /\ b.calls = m.calls /\ m.started
  BY <1>1, BlockStartReads
<1> HIDE DEF b
<1>6. /\ b.text = m.text /\ b.think = m.think /\ b.failed = m.failed
      /\ b.started = m.started /\ b.stop = m.stop /\ b.cut = m.cut
      /\ b.tokens = m.tokens /\ b.repeats = m.repeats
  BY <1>5 DEF Same, Fields
<1>7. PICK k : Row(DOMAIN m.at, k)
  BY <1>1 DEF AnLive, AnCalls
<1>8. ev.i = k /\ k \notin DOMAIN m.at /\ Row(DOMAIN m.at \cup {k}, k + 1)
  BY <1>5, <1>7, RowIs
<1>9. /\ DOMAIN b.at = DOMAIN m.at \cup {k} /\ b.at[k].type = ev.type
      /\ \A i \in DOMAIN m.at : b.at[i] = m.at[i]
  BY <1>5, <1>8 DEF With
<1>10. AnCalls(s, b, g)
  <2>1. /\ DOMAIN s.tcs = {i \in DOMAIN m.at : m.at[i].type = "tool"}
        /\ \A i \in DOMAIN s.tcs : s.tcs[i] \in DOMAIN g.at /\ g.at[s.tcs[i]].id = m.at[i].id
        /\ Row(DOMAIN g.at, s.next) /\ OnlyCalls(g)
    BY <1>1 DEF AnLive, AnCalls
  <2>2. DOMAIN s.tcs = {i \in DOMAIN b.at : b.at[i].type = "tool"}
    BY <1>1, <1>9, <2>1
  <2>3. \A i \in DOMAIN s.tcs : s.tcs[i] \in DOMAIN g.at /\ g.at[s.tcs[i]].id = b.at[i].id
    BY <1>9, <2>1
  <2>4. \E j : Row(DOMAIN b.at, j)
    BY <1>8, <1>9
  <2> QED BY <2>1, <2>2, <2>3, <2>4 DEF AnCalls
<1>11. CoupledAn(s, b, g)
  BY <1>1, <1>5, <1>6, <1>10 DEF AnBefore, CoupledAn, SameContent, AnLive, AnSums, AnTold
<1> QED BY <1>3, <1>4, <1>11 DEF AnAfter, AnOut, b

LEMMA AnOpensCall ==
  ASSUME NEW s, NEW m, NEW g, NEW ev, AnBefore(s, m, g, ev), ~m.failed,
         ev.e = "block_start", ev.type = "tool"
  PROVE  AnAfter(s, m, g, ev)
<1> DEFINE b == ReadAnthropic(m, ev)
           new == [type |-> "tool", id |-> ev.id, size |-> 0]
           t == [s EXCEPT !.next = @ + 1, !.tcs = With(@, ev.i, s.next)]
           p == [p |-> "tool", i |-> s.next, id |-> ev.id, f |-> 0]
           x == ReadPiece(g, p)
           h == Reads("openai", g, AnChunk(<<p>>))
<1>1. /\ ~s.finished /\ WellRead(m) /\ WellRead(g) /\ ~Over(g) /\ AnConv(s)
      /\ AnLive(s, m, g) /\ b.faults = {} /\ m.faults = {}
      /\ ev.id \in Calls \ DOMAIN m.calls /\ ev.type \in Kinds /\ g.calls = m.calls
  BY DEF AnBefore, CoupledAn, AnLive, AnAllowed, AnEvent, Kinds, Over, SameContent
<1>2. AnPush(s, ev) = Says(t, AnChunk(<<p>>))
  BY <1>1 DEF AnPush, AnTool
<1>3. AnPush(s, ev).s = t /\ AnPush(s, ev).out = AnChunk(<<p>>)
  BY <1>2 DEF Says
<1>4. /\ ev.i = Cardinality(DOMAIN m.at) /\ WellRead(b) /\ Same(b, m, {"at", "calls", "open"})
      /\ b.at = With(m.at, ev.i, new) /\ b.calls = With(m.calls, ev.id, 0)
  BY <1>1, BlockStartReads
<1>5. NewCall(g, p)
  <2>1. Row(DOMAIN g.at, s.next)
    BY <1>1 DEF AnLive, AnCalls
  <2>2. s.next \in Nat \ DOMAIN g.at
    <3>1. s.next \in Nat
      BY <1>1 DEF AnConv
    <3> QED BY <2>1, <3>1, RowIs
  <2>3. p.p = "tool" /\ p.i = s.next /\ p.id = ev.id /\ p.f = 0
    OBVIOUS
  <2> HIDE DEF p
  <2> QED BY <1>1, <2>2, <2>3 DEF NewCall
<1>6. /\ p.i = s.next /\ p.id = ev.id /\ p.f = 0
  OBVIOUS
<1> HIDE DEF p
<1>7. /\ WellRead(x) /\ OnlyCalls(x) /\ Same(x, g, {"at", "calls", "latest"})
      /\ x.at = With(g.at, s.next, new) /\ x.calls = With(g.calls, ev.id, 0)
  BY <1>1, <1>5, <1>6, NewCallIs DEF AnLive, AnCalls
<1>8. WellRead(h) /\ Same(h, x, {"started"}) /\ h.started = TRUE /\ AnOut(g, AnChunk(<<p>>))
  BY <1>1, <1>5, <1>7, OnePiece DEF GoodPiece
<1> HIDE DEF b, x, h
<1>9. /\ AnConv(t) /\ t.usage = s.usage /\ t.next = s.next + 1 /\ t.finished = s.finished
      /\ t.tcs = With(s.tcs, ev.i, s.next)
  BY <1>1 DEF AnConv
<1> HIDE DEF t
<1>10. /\ b.text = m.text /\ b.think = m.think /\ b.failed = m.failed /\ b.faults = m.faults
       /\ b.started = m.started /\ b.stop = m.stop /\ b.cut = m.cut
       /\ b.tokens = m.tokens /\ b.repeats = m.repeats
  BY <1>4 DEF Same, Fields
<1>11. /\ h.text = g.text /\ h.think = g.think /\ h.failed = g.failed /\ h.faults = g.faults
       /\ h.stop = g.stop /\ h.cut = g.cut /\ h.read = g.read /\ h.ends = g.ends
       /\ h.at = x.at /\ h.calls = x.calls
  BY <1>7, <1>8 DEF Same, Fields
<1>12. PICK k : Row(DOMAIN m.at, k)
  BY <1>1 DEF AnLive, AnCalls
<1>13. ev.i = k /\ k \notin DOMAIN m.at /\ Row(DOMAIN m.at \cup {k}, k + 1)
  BY <1>4, <1>12, RowIs
<1>14. /\ DOMAIN b.at = DOMAIN m.at \cup {k} /\ b.at[k] = new
       /\ \A i \in DOMAIN m.at : b.at[i] = m.at[i]
  BY <1>4, <1>13 DEF With
<1>15. /\ Row(DOMAIN g.at, s.next) /\ s.next \notin DOMAIN g.at
       /\ Row(DOMAIN g.at \cup {s.next}, s.next + 1)
  BY <1>1, RowIs DEF AnLive, AnCalls
<1>16. /\ DOMAIN h.at = DOMAIN g.at \cup {s.next} /\ h.at[s.next] = new
       /\ \A i \in DOMAIN g.at : h.at[i] = g.at[i]
  BY <1>7, <1>11, <1>15 DEF With
<1>17. /\ DOMAIN t.tcs = DOMAIN s.tcs \cup {k} /\ t.tcs[k] = s.next
       /\ \A i \in DOMAIN s.tcs : i # k => t.tcs[i] = s.tcs[i]
  BY <1>9, <1>13 DEF With
<1>18. AnCalls(t, b, h)
  <2>1. /\ DOMAIN s.tcs = {i \in DOMAIN m.at : m.at[i].type = "tool"}
        /\ \A i \in DOMAIN s.tcs : s.tcs[i] \in DOMAIN g.at /\ g.at[s.tcs[i]].id = m.at[i].id
    BY <1>1 DEF AnLive, AnCalls
  <2>2. new.type = "tool" /\ new.id = ev.id
    OBVIOUS
  <2>3. DOMAIN t.tcs = {i \in DOMAIN b.at : b.at[i].type = "tool"}
    BY <1>14, <1>17, <2>1, <2>2
  <2>4. ASSUME NEW i \in DOMAIN t.tcs
        PROVE  t.tcs[i] \in DOMAIN h.at /\ h.at[t.tcs[i]].id = b.at[i].id
    <3>1. CASE i = k
      BY <1>14, <1>16, <1>17, <3>1
    <3>2. CASE i # k
      <4>1. i \in DOMAIN s.tcs /\ t.tcs[i] = s.tcs[i]
        BY <1>17, <3>2
      <4> QED BY <1>14, <1>16, <2>1, <4>1
    <3> QED BY <3>1, <3>2
  <2>5. \E j : Row(DOMAIN b.at, j)
    BY <1>13, <1>14
  <2>6. OnlyCalls(h)
    BY <1>7, <1>11 DEF OnlyCalls
  <2>7. Row(DOMAIN h.at, t.next)
    BY <1>9, <1>15, <1>16
  <2> QED BY <2>3, <2>4, <2>5, <2>6, <2>7 DEF AnCalls
<1>19. h.calls = b.calls
  BY <1>1, <1>4, <1>7, <1>11
<1>20. b.started = TRUE
  <2>1. m.started
    BY <1>1, BlockStartReads DEF b
  <2> QED BY <1>10, <2>1, <1>1 DEF WellRead
<1>21. AnSums(t.usage, b) /\ AnTold(t, b, h)
  BY <1>1, <1>8, <1>9, <1>10, <1>11, <1>20 DEF AnLive, AnSums, AnTold
<1>22. CoupledAn(t, b, h)
  BY <1>1, <1>4, <1>8, <1>9, <1>10, <1>11, <1>18, <1>19, <1>21
     DEF AnBefore, CoupledAn, SameContent, AnLive
<1> QED BY <1>3, <1>8, <1>22 DEF AnAfter, b, h

LEMMA AnGrows ==
  ASSUME NEW s, NEW m, NEW g, NEW ev, AnBefore(s, m, g, ev), ~m.failed, ev.e = "block_delta"
  PROVE  AnAfter(s, m, g, ev)
<1> DEFINE b == ReadAnthropic(m, ev)
           it == m.at[ev.i]
<1>1. /\ ~s.finished /\ WellRead(m) /\ WellRead(g) /\ ~Over(g)
      /\ AnLive(s, m, g) /\ b.faults = {} /\ m.faults = {}
      /\ ev.type \in Kinds /\ ev.f \in Nat /\ SameContent(m, g)
  BY DEF AnBefore, CoupledAn, AnLive, AnAllowed, AnEvent, Over
<1>2. AnPush(s, ev) = Says(s, AnBlockDelta(s, ev))
  BY <1>1 DEF AnPush
<1>3. AnPush(s, ev).s = s /\ AnPush(s, ev).out = AnBlockDelta(s, ev)
  BY <1>2 DEF Says
<1>4. ev.i \in DOMAIN m.at /\ it.type = ev.type /\ b = Grow(m, ev.i, ev.f)
  BY <1>1, BlockDeltaReads
<1>5. /\ WellRead(b) /\ Same(b, m, {"at", "text", "think", "calls"})
      /\ b.at = [m.at EXCEPT ![ev.i].size = @ + ev.f]
      /\ b.text = IF ev.type = "text" THEN m.text + ev.f ELSE m.text
      /\ b.think = IF ev.type = "think" THEN m.think + ev.f ELSE m.think
      /\ b.calls = IF ev.type = "tool" THEN [m.calls EXCEPT ![it.id] = @ + ev.f] ELSE m.calls
  BY <1>1, <1>4, GrowIs
<1> HIDE DEF b
<1>6. /\ DOMAIN b.at = DOMAIN m.at
      /\ \A i \in DOMAIN m.at : b.at[i].type = m.at[i].type /\ b.at[i].id = m.at[i].id
  <2>1. m.at \in [DOMAIN m.at -> Items]
    BY <1>1 DEF WellRead
  <2> QED BY <1>5, <2>1 DEF Items
<1>7. /\ b.failed = m.failed /\ b.faults = m.faults
      /\ b.started = m.started /\ b.stop = m.stop /\ b.cut = m.cut
      /\ b.tokens = m.tokens /\ b.repeats = m.repeats
  BY <1>5 DEF Same, Fields
<1>8. m.started
  BY <1>1, <1>4 DEF AnLive, AnTold
\* The client reads the same fragment of the same content.
<1>9. ASSUME NEW h, WellRead(h), Same(h, g, {"at", "text", "think", "calls", "started", "latest", "mixed"}),
             h.started = TRUE \/ h.started = g.started, OnlyCalls(h),
             DOMAIN h.at = DOMAIN g.at, \A i \in DOMAIN g.at : h.at[i].id = g.at[i].id,
             SameContent(b, h)
      PROVE  CoupledAn(s, b, h)
  <2>1. /\ h.failed = g.failed /\ h.faults = g.faults
        /\ h.stop = g.stop /\ h.cut = g.cut /\ h.read = g.read /\ h.ends = g.ends
    BY <1>9 DEF Same, Fields
  <2>2. AnCalls(s, b, h)
    <3>1. /\ \E k : Row(DOMAIN m.at, k)
          /\ Row(DOMAIN g.at, s.next)
          /\ DOMAIN s.tcs = {i \in DOMAIN m.at : m.at[i].type = "tool"}
          /\ \A i \in DOMAIN s.tcs : s.tcs[i] \in DOMAIN g.at /\ g.at[s.tcs[i]].id = m.at[i].id
      BY <1>1 DEF AnLive, AnCalls
    <3>2. DOMAIN s.tcs = {i \in DOMAIN b.at : b.at[i].type = "tool"}
      BY <1>6, <3>1
    <3>3. ASSUME NEW i \in DOMAIN s.tcs
          PROVE  s.tcs[i] \in DOMAIN h.at /\ h.at[s.tcs[i]].id = b.at[i].id
      <4>1. i \in DOMAIN m.at
        BY <3>1
      <4> QED BY <1>6, <1>9, <3>1, <4>1
    <3> QED BY <1>6, <1>9, <3>1, <3>2, <3>3 DEF AnCalls
  <2>3. h.started = TRUE
    BY <1>1, <1>8, <1>9 DEF AnLive, AnTold, WellRead
  <2>4. AnSums(s.usage, b) /\ AnTold(s, b, h)
    BY <1>1, <1>6, <1>7, <1>8, <2>1, <2>3 DEF AnLive, AnSums, AnTold
  <2> QED BY <1>1, <1>5, <1>7, <1>9, <2>1, <2>2, <2>4 DEF AnBefore, CoupledAn, AnLive
<1>10. CASE ev.type = "tool"
  <2> DEFINE p == [p |-> "tool", i |-> s.tcs[ev.i], id |-> NoCall, f |-> ev.f]
             x == ReadPiece(g, p)
             h == Reads("openai", g, AnChunk(<<p>>))
  <2>1. ev.i \in DOMAIN s.tcs /\ s.tcs[ev.i] \in DOMAIN g.at /\ g.at[s.tcs[ev.i]].id = it.id
    BY <1>1, <1>4, <1>10 DEF AnLive, AnCalls
  <2>2. AnBlockDelta(s, ev) = AnChunk(<<p>>)
    BY <1>10, <2>1 DEF AnBlockDelta, AnCall, AnTool
  <2>3. KnownCall(g, p) /\ p.i = s.tcs[ev.i] /\ p.f = ev.f
    BY <1>1, <2>1 DEF KnownCall
  <2> HIDE DEF p
  <2>4. /\ WellRead(x) /\ OnlyCalls(x) /\ Same(x, g, {"at", "calls", "mixed"})
        /\ x.at = [g.at EXCEPT ![s.tcs[ev.i]].size = @ + ev.f]
        /\ x.calls = [g.calls EXCEPT ![it.id] = @ + ev.f]
    BY <1>1, <2>1, <2>3, KnownCallIs DEF AnLive, AnCalls
  <2>5. WellRead(h) /\ Same(h, x, {"started"}) /\ h.started = TRUE /\ AnOut(g, AnChunk(<<p>>))
    BY <1>1, <2>3, <2>4, OnePiece DEF GoodPiece
  <2> HIDE DEF x, h
  <2>6. h.at = x.at /\ h.calls = x.calls /\ h.text = g.text /\ h.think = g.think
    BY <2>4, <2>5 DEF Same, Fields
  <2>7. Same(h, g, {"at", "text", "think", "calls", "started", "latest", "mixed"})
    BY <2>4, <2>5 DEF Same
  <2>8. DOMAIN h.at = DOMAIN g.at /\ \A i \in DOMAIN g.at : h.at[i].id = g.at[i].id
    <3>1. g.at \in [DOMAIN g.at -> Items]
      BY <1>1 DEF WellRead
    <3> QED BY <2>4, <2>6, <3>1 DEF Items
  <2>9. SameContent(b, h)
    BY <1>1, <1>5, <1>10, <2>4, <2>6 DEF SameContent
  <2>10. OnlyCalls(h)
    BY <2>4, <2>6 DEF OnlyCalls
  <2>11. CoupledAn(s, b, h)
    BY <1>9, <2>5, <2>7, <2>8, <2>9, <2>10
  <2> QED BY <1>3, <2>2, <2>5, <2>11 DEF AnAfter, b, h
<1>11. CASE ev.type # "tool" /\ ev.f > 0
  <2> DEFINE p == [p |-> ev.type, f |-> ev.f]
             x == ReadPiece(g, p)
             h == Reads("openai", g, AnChunk(<<p>>))
  <2>1. ev.type \in {"text", "think"}
    BY <1>1, <1>11 DEF Kinds
  <2>2. AnBlockDelta(s, ev) = AnChunk(<<p>>)
    BY <1>11, <2>1 DEF AnBlockDelta
  <2>3. Content(p) /\ p.p = ev.type /\ p.f = ev.f
    BY <1>1, <2>1 DEF Content
  <2> HIDE DEF p
  <2>4. /\ WellRead(x) /\ Same(x, g, {"text", "think", "latest"})
        /\ x.text = IF ev.type = "text" THEN g.text + ev.f ELSE g.text
        /\ x.think = IF ev.type = "think" THEN g.think + ev.f ELSE g.think
    BY <1>1, <2>3, ContentIs
  <2>5. WellRead(h) /\ Same(h, x, {"started"}) /\ h.started = TRUE /\ AnOut(g, AnChunk(<<p>>))
    BY <1>1, <2>3, <2>4, OnePiece DEF GoodPiece
  <2> HIDE DEF x, h
  <2>6. h.at = g.at /\ h.calls = g.calls /\ h.text = x.text /\ h.think = x.think
    BY <2>4, <2>5 DEF Same, Fields
  <2>7. Same(h, g, {"at", "text", "think", "calls", "started", "latest", "mixed"})
    BY <2>4, <2>5 DEF Same
  <2>8. SameContent(b, h)
    BY <1>1, <1>5, <1>11, <2>4, <2>6 DEF SameContent
  <2>9. OnlyCalls(h)
    BY <1>1, <2>6 DEF OnlyCalls, AnLive, AnCalls
  <2>10. CoupledAn(s, b, h)
    BY <1>9, <2>5, <2>6, <2>7, <2>8, <2>9
  <2> QED BY <1>3, <2>2, <2>5, <2>10 DEF AnAfter, b, h
<1>12. CASE ev.type # "tool" /\ ev.f = 0
  <2>1. AnBlockDelta(s, ev) = <<>>
    BY <1>12 DEF AnBlockDelta
  <2>2. Reads("openai", g, <<>>) = g
    BY ReadsNone DEF Protocols
  <2>3. SameContent(b, g)
    BY <1>1, <1>5, <1>12 DEF SameContent, WellRead
  <2>4. CoupledAn(s, b, g)
    BY <1>1, <1>9, <2>3 DEF Same, AnLive, AnCalls
  <2> QED BY <1>3, <2>1, <2>2, <2>4 DEF AnAfter, AnOut, b
<1> QED BY <1>1, <1>10, <1>11, <1>12

\* The bill follows the provider's message_delta.
LEMMA AnSumsDelta ==
  ASSUME NEW m, WellRead(m), NEW b, NEW u, Summed(u), AnSums(u, m), NEW use \in Updates,
         m.started, use.in \in {Nothing, m.tokens.in}, b.started,
         b.tokens = Updated(m, use),
         b.repeats = Repeated(m, use),
         NEW keep \in BOOLEAN, keep \/ (use.out = Nothing => m.tokens.out = 0)
  PROVE  Summed(AnDelta(u, use, keep)) /\ AnSums(AnDelta(u, use, keep), b)
<1> DEFINE v == AnDelta(u, use, keep)
<1>1. u \in Bills
  BY DEF Summed
<1>2. /\ Summed(v) /\ v.unc = Sat(u.unc + Or0(use.cc))
      /\ v.out = IF keep THEN Given(use.out, u.out) ELSE Or0(use.out)
      /\ v.cached = Given(use.cr, u.cached)
  BY <1>1, AnDeltaIs
<1> HIDE DEF v
<1>3. PICK n \in Nat, k \in Nat : n = m.tokens.in + m.tokens.cc + m.repeats /\ k = Or0(use.cc)
  BY ConverterAssumption DEF WellRead, Updates, Optional, Or0, Nothing
<1>4. v.unc = Sat(n + k)
  BY <1>2, <1>3, SatIs DEF AnSums
<1>5. b.tokens.in = m.tokens.in /\ b.tokens.cc = m.tokens.cc /\ b.repeats = m.repeats + k
  BY <1>3 DEF Given, Or0, WellRead, Repeated, Updated
<1>6. b.tokens.in + b.tokens.cc + b.repeats = n + k
  BY <1>3, <1>5 DEF WellRead
<1>7. v.out = b.tokens.out /\ v.cached = b.tokens.cr
  BY <1>2 DEF AnSums, Given, Or0, Updated
<1> QED BY <1>2, <1>4, <1>6, <1>7 DEF AnSums, v

LEMMA AnDelivers ==
  ASSUME NEW s, NEW m, NEW g, NEW ev, AnBefore(s, m, g, ev), ~m.failed,
         ev.e = "message_delta"
  PROVE  AnAfter(s, m, g, ev)
<1> DEFINE b == ReadAnthropic(m, ev)
           u == AnDelta(s.usage, ev.use, TRUE)
           t == [s EXCEPT !.usage = u]
           p == [p |-> "finish", why |-> StopToFinish(ev.stop)]
           out == IF ev.stop = "none" THEN <<>> ELSE <<OpenAiChunk(Report(u), <<p>>)>>
<1>1. /\ ~s.finished /\ WellRead(m) /\ WellRead(g) /\ ~Over(g) /\ AnConv(s)
      /\ AnLive(s, m, g) /\ b.faults = {} /\ m.faults = {}
      /\ ev.use \in Updates /\ ev.stop \in Stops /\ m.stop = "none" /\ m.started
      /\ ev.use.in \in {Nothing, m.tokens.in}
  BY DEF AnBefore, CoupledAn, AnLive, AnAllowed, AnEvent, Over
<1>2. AnPush(s, ev) = Says(t, out)
  BY <1>1 DEF AnPush, AnMessageDelta
<1>3. AnPush(s, ev).s = t /\ AnPush(s, ev).out = out
  BY <1>2 DEF Says
<1>4. /\ WellRead(b) /\ Same(b, m, {"stop", "blank", "cut", "tokens", "repeats"})
      /\ b.stop = IF ev.stop \in {"none", ""} THEN m.stop ELSE ev.stop
      /\ (b.cut <=> m.cut \/ ev.stop \in CutReasons)
      /\ b.tokens = Updated(m, ev.use)
      /\ b.repeats = Repeated(m, ev.use)
  <2>1. WellRead(m) /\ ev.use \in Updates /\ b.faults = {}
    BY <1>1
  <2>2. m.started /\ m.open = Nothing /\ m.ends = 0
    BY <2>1, MessageDeltaReads
  <2> HIDE DEF b
  <2>3. /\ WellRead(b) /\ Same(b, m, {"stop", "blank", "cut", "tokens", "repeats"})
        /\ b.stop = IF ev.stop \in {"none", ""} THEN m.stop ELSE ev.stop
        /\ (b.cut <=> m.cut \/ ev.stop \in CutReasons)
    BY <2>1, <2>2, MessageDeltaReads DEF b
  <2>4. b.tokens = Updated(m, ev.use) /\ b.repeats = Repeated(m, ev.use)
    BY <2>1, <2>2, MessageDeltaCounts DEF b
  <2> QED BY <2>3, <2>4
<1> HIDE DEF b, u, out
<1>5. /\ b.text = m.text /\ b.think = m.think /\ b.calls = m.calls /\ b.failed = m.failed
      /\ b.faults = m.faults /\ b.at = m.at /\ b.started = m.started
  BY <1>4 DEF Same, Fields
<1>6. b.stop = ev.stop /\ (b.cut <=> b.stop = "max_tokens")
  BY <1>1, <1>4 DEF AnLive, AnTold, Stops, CutReasons
<1>7. Summed(u) /\ AnSums(u, b)
  <2>1. Summed(s.usage) /\ AnSums(s.usage, m) /\ b.started
    BY <1>1, <1>5 DEF AnConv, AnLive
  <2> QED BY <1>1, <1>4, <2>1, AnSumsDelta DEF u
<1>8. AnConv(t) /\ t.usage = u /\ t.tcs = s.tcs /\ t.next = s.next /\ t.finished = s.finished
  BY <1>1, <1>7 DEF AnConv
<1> HIDE DEF t
\* What is left to show of what the client reads.
<1>9. ASSUME NEW h, WellRead(h),
             Same(h, g, {"stop", "blank", "cut", "read", "started"}),
             h.started = g.started \/ h.started = TRUE,
             h.stop = IF ev.stop = "none" THEN "none" ELSE StopToFinish(ev.stop),
             h.cut <=> ev.stop = "max_tokens",
             h.read = IF ev.stop = "none" \/ u.total = 0 THEN NoReport ELSE Report(u)
      PROVE  CoupledAn(t, b, h)
  <2>1. /\ h.text = g.text /\ h.think = g.think /\ h.calls = g.calls /\ h.failed = g.failed
        /\ h.at = g.at /\ h.faults = g.faults /\ h.ends = g.ends
    BY <1>9 DEF Same, Fields
  <2>2. AnCalls(t, b, h)
    BY <1>1, <1>5, <1>8, <2>1 DEF AnLive, AnCalls, OnlyCalls
  <2>3. h.started = TRUE /\ b.started = TRUE
    BY <1>1, <1>5, <1>9 DEF AnLive, AnTold, WellRead
  <2>4. AnTold(t, b, h)
    BY <1>1, <1>5, <1>6, <1>8, <1>9, <2>3 DEF AnTold
  <2> QED BY <1>1, <1>4, <1>5, <1>7, <1>8, <1>9, <2>1, <2>2, <2>4
          DEF AnBefore, CoupledAn, SameContent, AnLive
<1>10. CASE ev.stop = "none"
  <2>1. out = <<>>
    BY <1>10 DEF out
  <2>2. Reads("openai", g, <<>>) = g
    BY ReadsNone DEF Protocols
  <2>3. CoupledAn(t, b, g)
    BY <1>1, <1>9, <1>10 DEF Same, AnLive, AnTold
  <2> QED BY <1>3, <2>1, <2>2, <2>3 DEF AnAfter, AnOut, b
<1>11. CASE ev.stop # "none"
  <2> DEFINE why == StopToFinish(ev.stop)
             ps == <<p>>
             x == Stop(g, why)
             c == OpenAiChunk(Report(u), ps)
             h == Reads("openai", g, <<c>>)
  <2>1. out = <<c>>
    BY <1>11 DEF out
  <2>2. why \in {"length", "tool_calls", "stop"} /\ (why = "length" <=> ev.stop = "max_tokens")
    BY DEF StopToFinish
  <2>3. Finishes(p)
    BY <2>2 DEF Finishes
  <2>4. x = Fold("piece", g, ps)
    <3>1. ReadPiece(g, p) = x
      BY <2>3, FinishIs
    <3> QED BY <3>1, PiecesOf
  <2> HIDE DEF why
  <2>5. /\ WellRead(x) /\ Same(x, g, {"stop", "blank", "cut"})
        /\ x.stop = IF why = "" THEN g.stop ELSE why
        /\ (x.cut <=> g.cut \/ why \in CutReasons)
    BY <1>1, StopIs
  <2>6. /\ Report(u) \in UsageObjects /\ u.total \in Nat
        /\ Counts(Report(u)) <=> u.total > 0
    BY <1>7, ReportIs, ConverterAssumption DEF Summed, Bills
  <2>7. GoodPieces(g, ps)
    BY <2>3 DEF GoodPieces, GoodPiece
  <2> HIDE DEF x, ps
  <2>8. /\ WellRead(h) /\ Same(h, x, {"started", "read"}) /\ h.started = TRUE
        /\ h.read = IF Counts(Report(u)) THEN Report(u) ELSE x.read
    <3>1. PICK use \in UsageObjects : use = Report(u)
      BY <2>6
    <3>2. h = Reads("openai", g, <<OpenAiChunk(use, ps)>>)
      BY <3>1
    <3> HIDE DEF h, c
    <3>3. /\ WellRead(h) /\ Same(h, x, {"started", "read"}) /\ h.started = TRUE
          /\ h.read = IF Counts(use) THEN use ELSE x.read
      BY <1>1, <2>4, <2>5, <3>2, ChunkReads
    <3> QED BY <3>1, <3>3
  <2>9. OaEvent(g, c)
    BY <2>6, <2>7 DEF OaEvent, OpenAiChunk
  <2> HIDE DEF h, c
  <2>10. h.stop = x.stop /\ h.cut = x.cut /\ x.read = g.read
    BY <2>5, <2>8 DEF Same, Fields
  <2>11. Same(h, g, {"stop", "blank", "cut", "read", "started"})
    BY <2>5, <2>8 DEF Same
  <2>12. g.read = NoReport /\ ~g.cut
    BY <1>1 DEF AnLive, AnTold
  <2>13. h.stop = why /\ (h.cut <=> ev.stop = "max_tokens")
    BY <2>2, <2>5, <2>10, <2>12 DEF CutReasons
  <2>14. h.read = IF u.total = 0 THEN NoReport ELSE Report(u)
    BY <2>6, <2>8, <2>10, <2>12
  <2>15. CoupledAn(t, b, h)
    BY <1>9, <1>11, <2>8, <2>11, <2>13, <2>14 DEF why
  <2>16. AnOut(g, <<c>>)
    BY <2>9 DEF AnOut
  <2> QED BY <1>3, <2>1, <2>15, <2>16 DEF AnAfter, b, h
<1> QED BY <1>10, <1>11

\* Every event keeps the converter, the provider's message and the client's
\* together.
LEMMA AnStep ==
  ASSUME NEW s, NEW m, NEW g, NEW ev, AnBefore(s, m, g, ev)
  PROVE  AnAfter(s, m, g, ev)
<1>1. AnEvent(m, ev)
  BY DEF AnBefore, AnAllowed
<1>2. CASE m.failed
  BY <1>2, AnDead
<1>3. CASE ~m.failed
  BY <1>1, <1>3, AnError, AnSilent, AnBegins, AnOpensContent, AnOpensCall, AnGrows, AnDelivers
     DEF AnEvent
<1> QED BY <1>2, <1>3

-----------------------------------------------------------------------------
(***************************************************************************)
(* From OpenAI to Anthropic: the blocks.  A result r is heard as g when a   *)
(* client that has g0 reads the events of r as g.                           *)
(***************************************************************************)
Heard(p, g0, r, g) ==
  DOMAIN r = {"s", "out"} /\ IsSeq(r.out) /\ g = Reads(p, g0, r.out)

LEMMA EmitIs ==
  ASSUME NEW p \in Protocols, NEW g0, NEW r, NEW g, Heard(p, g0, r, g), NEW ev
  PROVE  Emit(r, ev).s = r.s /\ Heard(p, g0, Emit(r, ev), Read(p, g, ev))
<1>1. IsSeq(Append(r.out, ev))
      /\ Reads(p, g0, Append(r.out, ev)) = Read(p, Reads(p, g0, r.out), ev)
  BY ReadsAppend DEF Heard
<1>2. DOMAIN Emit(r, ev) = {"s", "out"} /\ Emit(r, ev).s = r.s
      /\ Emit(r, ev).out = Append(r.out, ev)
  BY DEF Emit, Heard
<1> QED BY <1>1, <1>2 DEF Heard

\* A result of the same events and another state.
LEMMA HeardStays ==
  ASSUME NEW p, NEW g0, NEW r, NEW g, Heard(p, g0, r, g),
         NEW q, DOMAIN q = {"s", "out"}, q.out = r.out
  PROVE  Heard(p, g0, q, g)
  BY DEF Heard

OaFields == {"started", "finished", "next", "blk", "tools", "stop", "usage"}
Kept(t, s, F) == DOMAIN t = OaFields /\ \A f \in OaFields \ F : t[f] = s[f]

\* The block the client has open is the one the converter has.
Blk(g) ==
  [k \in Kinds |-> IF g.open # Nothing /\ g.at[g.open].type = k THEN g.open ELSE Nothing]
Blocks(s, g) ==
  /\ DOMAIN s = OaFields /\ Row(DOMAIN g.at, s.next)
  /\ g.open \in DOMAIN g.at \cup {Nothing} /\ s.blk = Blk(g)

ClosedOne(g0, g, s, c, k, h) ==
  /\ Heard("anthropic", g0, c, h) /\ WellRead(h) /\ Same(h, g, {"open"})
  /\ Blocks(c.s, h) /\ Kept(c.s, s, {"blk"})
  /\ h.open \in {g.open, Nothing} /\ (h.open # Nothing => g.at[h.open].type # k)

LEMMA CloseOneIs ==
  ASSUME NEW g0, NEW r, NEW g, Heard("anthropic", g0, r, g), WellRead(g), Blocks(r.s, g),
         NEW k \in Kinds
  PROVE  \E h : ClosedOne(g0, g, r.s, OaCloseOne(r, k), k, h)
<1> DEFINE s == r.s
           c == OaCloseOne(r, k)
<1>1. s.blk = Blk(g) /\ DOMAIN s = OaFields
  BY DEF Blocks
<1>2. CASE s.blk[k] = Nothing
  <2>1. c = r
    BY <1>2 DEF OaCloseOne
  <2>2. g.open # Nothing => g.at[g.open].type # k
    BY <1>1, <1>2 DEF Blk
  <2>3. ClosedOne(g0, g, s, c, k, g)
    BY <1>1, <2>1, <2>2 DEF ClosedOne, Same, Kept
  <2> QED BY <2>3
<1>3. CASE s.blk[k] # Nothing
  <2> DEFINE q == [r EXCEPT !.s.blk[k] = Nothing]
             t == [s EXCEPT !.blk[k] = Nothing]
  <2>1. PICK ev : ev = [e |-> "block_stop", i |-> s.blk[k]]
    OBVIOUS
  <2>2. c = Emit(q, ev)
    BY <1>3, <2>1 DEF OaCloseOne
  <2>3. DOMAIN q = {"s", "out"} /\ q.s = t /\ q.out = r.out
    BY DEF Heard
  <2>4. g.open # Nothing /\ g.at[g.open].type = k /\ s.blk[k] = g.open
    BY <1>1, <1>3 DEF Blk
  <2> HIDE DEF q
  <2>5. Heard("anthropic", g0, q, g)
    BY <2>3, HeardStays
  <2>6. PICK h : h = ReadAnthropic(g, ev)
    OBVIOUS
  <2>7. c.s = t /\ Heard("anthropic", g0, c, h)
    BY <2>2, <2>3, <2>5, <2>6, EmitIs, ReadIs DEF Protocols
  <2>8. ev.e = "block_stop" /\ ev.i = g.open
    BY <2>1, <2>4
  <2>9. WellRead(h) /\ Same(h, g, {"open", "faults"}) /\ h.faults = g.faults /\ h.open = Nothing
    BY <2>6, <2>8, BlockStopReads
  <2>10. Same(h, g, {"open"}) /\ h.at = g.at
    BY <2>9 DEF Same, Fields
  <2>11. DOMAIN t = OaFields /\ t.blk = [s.blk EXCEPT ![k] = Nothing] /\ Kept(t, s, {"blk"})
         /\ t.next = s.next
    BY <1>1 DEF Kept, OaFields
  <2>12. [s.blk EXCEPT ![k] = Nothing] = Blk(h)
    BY <1>1, <2>4, <2>9 DEF Blk
  <2> HIDE DEF t, c
  <2>13. Blocks(c.s, h)
    BY <2>7, <2>9, <2>10, <2>11, <2>12 DEF Blocks
  <2>14. ClosedOne(g0, g, s, c, k, h)
    BY <2>7, <2>9, <2>10, <2>11, <2>13 DEF ClosedOne
  <2> QED BY <2>14 DEF c
<1> QED BY <1>2, <1>3

LEMMA KeptTwice ==
  ASSUME NEW s, NEW t, NEW u, NEW F, NEW G, Kept(t, s, F), Kept(u, t, G)
  PROVE  Kept(u, s, F \cup G)
  BY DEF Kept

LEMMA SameTwice ==
  ASSUME NEW a, NEW b, NEW c, NEW F, NEW G, Same(b, a, F), Same(c, b, G)
  PROVE  Same(c, a, F \cup G)
  BY DEF Same

Opened(g0, g, r, o, kind, id, h) ==
  /\ Heard("anthropic", g0, o, h) /\ WellRead(h) /\ Same(h, g, {"at", "calls", "open"})
  /\ h.at = With(g.at, r.s.next, [type |-> kind, id |-> id, size |-> 0])
  /\ h.calls = IF kind = "tool" THEN With(g.calls, id, 0) ELSE g.calls
  /\ h.open = r.s.next
  /\ Blocks(o.s, h) /\ Kept(o.s, r.s, {"next", "blk"})

Shut(g0, g, s, c, h) ==
  /\ Heard("anthropic", g0, c, h) /\ WellRead(h) /\ Same(h, g, {"open"}) /\ h.open = Nothing
  /\ Blocks(c.s, h) /\ Kept(c.s, s, {"blk"})

LEMMA CloseOpenIs ==
  ASSUME NEW g0, NEW r, NEW g, Heard("anthropic", g0, r, g), WellRead(g), Blocks(r.s, g)
  PROVE  \E h : Shut(g0, g, r.s, OaCloseOpen(r), h)
<1>1. PICK a : a = OaCloseOne(r, "think")
  OBVIOUS
<1>2. PICK b : b = OaCloseOne(a, "text")
  OBVIOUS
<1>3. PICK c : c = OaCloseOne(b, "tool")
  OBVIOUS
<1>4. OaCloseOpen(r) = c
  <2>1. OaCloseOpen(r) = Fold("close", r, <<"think", "text", "tool">>)
    BY Closes DEF OaCloseOpen, BlockKinds
  <2>2. IsSeq(<<"think", "text">>) /\ Fold("close", r, <<"think", "text">>) = b
    BY <1>1, <1>2, FoldTwo DEF Do
  <2>3. <<"think", "text", "tool">> = Append(<<"think", "text">>, "tool")
    OBVIOUS
  <2>4. \A q : IsSeq(q) => Fold("close", r, Append(q, "tool")) = OaCloseOne(Fold("close", r, q), "tool")
    BY FoldAppend DEF Do
  <2> QED BY <1>3, <2>1, <2>2, <2>3, <2>4
<1>5. PICK x : ClosedOne(g0, g, r.s, a, "think", x)
  BY <1>1, CloseOneIs DEF Kinds
<1>6. PICK y : ClosedOne(g0, x, a.s, b, "text", y)
  BY <1>2, <1>5, CloseOneIs DEF Kinds, ClosedOne
<1>7. PICK z : ClosedOne(g0, y, b.s, c, "tool", z)
  BY <1>3, <1>6, CloseOneIs DEF Kinds, ClosedOne
<1>8. Same(z, g, {"open"}) /\ Kept(c.s, r.s, {"blk"})
  <2>1. Same(y, g, {"open"}) /\ Kept(b.s, r.s, {"blk"})
    BY <1>5, <1>6 DEF ClosedOne, Same, Kept
  <2> QED BY <1>7, <2>1 DEF ClosedOne, Same, Kept
<1>9. x.at = g.at /\ y.at = g.at
  BY <1>5, <1>6 DEF ClosedOne, Same, Fields
<1>10. z.open = Nothing
  <2> SUFFICES ASSUME z.open # Nothing PROVE FALSE
    OBVIOUS
  <2>1. z.open = y.open /\ y.open = x.open /\ x.open = g.open
    BY <1>5, <1>6, <1>7 DEF ClosedOne
  <2>2. g.at[z.open].type \notin Kinds
    BY <1>5, <1>6, <1>7, <1>9, <2>1 DEF ClosedOne, Kinds
  <2>3. z.open \in DOMAIN g.at
    BY <2>1 DEF Blocks
  <2> QED BY <2>2, <2>3 DEF WellRead, Items
<1> QED BY <1>4, <1>7, <1>8, <1>10 DEF Shut, ClosedOne

LEMMA OpenIs ==
  ASSUME NEW g0, NEW r, NEW g, Heard("anthropic", g0, r, g), WellRead(g), Blocks(r.s, g),
         ~Over(g), g.started, NEW kind \in Kinds, NEW id \in Calls \cup {NoCall},
         kind = "tool" => id \in Calls
  PROVE  \E h : Opened(g0, g, r, OaOpen(r, kind, id), kind, id, h)
<1>1. PICK c : c = OaCloseOpen(r)
  OBVIOUS
<1>2. PICK x : Shut(g0, g, r.s, c, x)
  BY <1>1, CloseOpenIs
<1>3. /\ Heard("anthropic", g0, c, x) /\ WellRead(x) /\ Same(x, g, {"open"}) /\ x.open = Nothing
      /\ Blocks(c.s, x) /\ Kept(c.s, r.s, {"blk"})
  BY <1>2 DEF Shut
<1>4. PICK n : n = r.s.next
  OBVIOUS
<1>5. c.s.next = n
  BY <1>3, <1>4 DEF Kept, OaFields
<1>6. x.at = g.at /\ x.calls = g.calls /\ x.started = g.started /\ (Over(x) <=> Over(g))
  BY <1>3 DEF Same, Fields, Over
<1>7. Row(DOMAIN x.at, n) /\ n = Cardinality(DOMAIN x.at) /\ n \notin DOMAIN x.at
      /\ Row(DOMAIN x.at \cup {n}, n + 1) /\ n \in Nat
  <2>1. Row(DOMAIN x.at, n)
    BY <1>3, <1>5 DEF Blocks
  <2> QED BY <2>1, RowIs DEF Row
<1> DEFINE o == OaOpen(r, kind, id)
           q == [c EXCEPT !.s.next = @ + 1, !.s.blk[kind] = n]
           t == [c.s EXCEPT !.next = @ + 1, !.blk[kind] = n]
<1>8. PICK ev : ev = [e |-> "block_start", i |-> n, type |-> kind, id |-> id]
  OBVIOUS
<1>9. o = Emit(q, ev)
  BY <1>1, <1>5, <1>8 DEF OaOpen
<1>10. DOMAIN q = {"s", "out"} /\ q.s = t /\ q.out = c.out
  BY <1>3 DEF Heard
<1> HIDE DEF q
<1>11. Heard("anthropic", g0, q, x)
  BY <1>3, <1>10, HeardStays
<1>12. PICK h : h = ReadAnthropic(x, ev)
  OBVIOUS
<1>13. o.s = t /\ Heard("anthropic", g0, o, h)
  BY <1>9, <1>10, <1>11, <1>12, EmitIs, ReadIs DEF Protocols
<1>14. ev.e = "block_start" /\ ev.type = kind /\ ev.id = id /\ ev.i = n
  BY <1>8
<1>15. /\ WellRead(h) /\ Same(h, x, {"at", "calls", "open"})
       /\ h.at = With(x.at, n, [type |-> kind, id |-> id, size |-> 0])
       /\ h.calls = IF kind = "tool" THEN With(x.calls, id, 0) ELSE x.calls
       /\ h.open = n
  <2>1. /\ ev.type \in Kinds /\ ev.id \in Calls \cup {NoCall}
        /\ (ev.type = "tool" => ev.id \in Calls)
        /\ ~Over(x) /\ x.started /\ x.open = Nothing /\ ev.i = Cardinality(DOMAIN x.at)
    BY <1>3, <1>6, <1>7, <1>14
  <2>2. /\ WellRead(h) /\ Same(h, x, {"at", "calls", "open"})
        /\ h.at = With(x.at, ev.i, [type |-> ev.type, id |-> ev.id, size |-> 0])
        /\ h.calls = IF ev.type = "tool" THEN With(x.calls, ev.id, 0) ELSE x.calls
        /\ h.open = ev.i
    BY <1>3, <1>12, <1>14, <2>1, BlockStartReads
  <2> QED BY <1>14, <2>2
<1>16. Same(h, g, {"at", "calls", "open"})
  BY <1>3, <1>15 DEF Same
<1>17. DOMAIN c.s = OaFields /\ c.s.blk = Blk(x)
  BY <1>3 DEF Blocks
<1>18. DOMAIN t = OaFields /\ t.next = n + 1 /\ t.blk = [Blk(x) EXCEPT ![kind] = n]
       /\ Kept(t, c.s, {"next", "blk"})
  BY <1>5, <1>17 DEF Kept, OaFields
<1> HIDE DEF t, o
<1>19. Kept(t, r.s, {"next", "blk"})
  BY <1>3, <1>18 DEF Kept
<1>20. h.at[n].type = kind /\ DOMAIN h.at = DOMAIN x.at \cup {n} /\ n # Nothing
  BY <1>7, <1>15 DEF With, Nothing
<1>21. [Blk(x) EXCEPT ![kind] = n] = Blk(h)
  BY <1>3, <1>15, <1>20 DEF Blk
<1>22. Blocks(t, h)
  BY <1>7, <1>15, <1>18, <1>20, <1>21 DEF Blocks
<1>23. Opened(g0, g, r, o, kind, id, h)
  BY <1>4, <1>6, <1>13, <1>15, <1>16, <1>19, <1>22 DEF Opened
<1> QED BY <1>23 DEF o

\* A fragment sent to the block i of the client.
SameItems(h, g) ==
  /\ DOMAIN h.at = DOMAIN g.at
  /\ \A i \in DOMAIN g.at : h.at[i].type = g.at[i].type /\ h.at[i].id = g.at[i].id

Grown(g, kind, id, f, h) ==
  /\ h.text = IF kind = "text" THEN g.text + f ELSE g.text
  /\ h.think = IF kind = "think" THEN g.think + f ELSE g.think
  /\ h.calls = IF kind = "tool" THEN [g.calls EXCEPT ![id] = @ + f] ELSE g.calls

Sent(g0, g, r, d, i, f, h) ==
  /\ Heard("anthropic", g0, d, h) /\ d.s = r.s /\ WellRead(h) /\ SameItems(h, g)
  /\ Same(h, g, {"at", "text", "think", "calls", "faults"})
  /\ Grown(g, g.at[i].type, g.at[i].id, f, h)
  /\ h.faults \subseteq g.faults \cup (IF f = 0 \/ g.open = i THEN {} ELSE {"closed"})

LEMMA DeltaIs ==
  ASSUME NEW g0, NEW r, NEW g, Heard("anthropic", g0, r, g), WellRead(g), ~Over(g),
         NEW i \in DOMAIN g.at, NEW f \in Nat
  PROVE  \E h : Sent(g0, g, r, OaDelta(r, i, g.at[i].type, f), i, f, h)
<1> DEFINE d == OaDelta(r, i, g.at[i].type, f)
           it == g.at[i]
<1>1. CASE f = 0
  <2>1. d = r
    BY <1>1 DEF OaDelta
  <2>2. Grown(g, it.type, it.id, f, g)
    BY <1>1 DEF Grown, WellRead
  <2>3. SameItems(g, g) /\ Same(g, g, {"at", "text", "think", "calls", "faults"})
    BY DEF SameItems, Same
  <2>4. Sent(g0, g, r, d, i, f, g)
    BY <2>1, <2>2, <2>3 DEF Sent
  <2> QED BY <2>4
<1>2. CASE f # 0
  <2>1. PICK ev : ev = [e |-> "block_delta", i |-> i, type |-> it.type, f |-> f]
    OBVIOUS
  <2>2. d = Emit(r, ev)
    BY <1>2, <2>1 DEF OaDelta
  <2>3. PICK h : h = ReadAnthropic(g, ev)
    OBVIOUS
  <2>4. d.s = r.s /\ Heard("anthropic", g0, d, h)
    BY <2>2, <2>3, EmitIs, ReadIs DEF Protocols
  <2>5. ev.e = "block_delta" /\ ev.i = i /\ ev.type = it.type /\ ev.f = f
    BY <2>1
  <2>6. PICK x : x = Grow(g, i, f)
    OBVIOUS
  <2>7. h = IF g.open = i THEN x ELSE Blame(x, "closed")
    BY <2>3, <2>5, <2>6, BlockDeltaReads
  <2>8. /\ WellRead(x) /\ Same(x, g, {"at", "text", "think", "calls"})
        /\ x.at = [g.at EXCEPT ![i].size = @ + f]
        /\ x.text = IF it.type = "text" THEN g.text + f ELSE g.text
        /\ x.think = IF it.type = "think" THEN g.think + f ELSE g.think
        /\ x.calls = IF it.type = "tool" THEN [g.calls EXCEPT ![it.id] = @ + f] ELSE g.calls
    BY <2>6, GrowIs
  <2>9. Grown(g, it.type, it.id, f, x)
    BY <2>8 DEF Grown
  <2>10. SameItems(x, g)
    <3>1. g.at \in [DOMAIN g.at -> Items]
      BY DEF WellRead
    <3> QED BY <2>8, <3>1 DEF SameItems, Items
  <2> HIDE DEF d, it
  <2>11. x.faults = g.faults
    BY <2>8 DEF Same, Fields
  <2>12. /\ WellRead(h) /\ Same(h, x, {"faults"})
         /\ h.faults \subseteq x.faults \cup (IF g.open = i THEN {} ELSE {"closed"})
    <3>1. CASE g.open = i
      BY <2>7, <2>8, <3>1 DEF Same
    <3>2. CASE g.open # i
      <4>1. h = Blame(x, "closed")
        BY <2>7, <3>2
      <4> QED BY <2>8, <3>2, <4>1, BlameIs
    <3> QED BY <3>1, <3>2
  <2>13. Same(h, g, {"at", "text", "think", "calls", "faults"})
    BY <2>8, <2>12 DEF Same
  <2>14. h.at = x.at /\ h.text = x.text /\ h.think = x.think /\ h.calls = x.calls
    BY <2>12 DEF Same, Fields
  <2>15. Grown(g, it.type, it.id, f, h) /\ SameItems(h, g)
    BY <2>9, <2>10, <2>14 DEF Grown, SameItems
  <2>16. h.faults \subseteq g.faults \cup (IF f = 0 \/ g.open = i THEN {} ELSE {"closed"})
    BY <1>2, <2>11, <2>12
  <2>17. Sent(g0, g, r, d, i, f, h)
    BY <2>4, <2>12, <2>13, <2>15, <2>16 DEF Sent, it
  <2> QED BY <2>17 DEF d
<1> QED BY <1>1, <1>2

\* A fragment leaves the blocks as they are.
LEMMA BlocksStay ==
  ASSUME NEW s, NEW g, WellRead(g), Blocks(s, g), NEW h, SameItems(h, g), h.open = g.open
  PROVE  Blocks(s, h)
<1>1. Blk(h) = Blk(g)
  BY DEF Blk, SameItems, Blocks
<1> QED BY <1>1 DEF Blocks, SameItems

-----------------------------------------------------------------------------
(***************************************************************************)
(* From OpenAI to Anthropic: what OaStreamState knows (s) of the message    *)
(* the provider has sent (m) and of the one the client has (g), from one    *)
(* piece of a chunk to the next.                                           *)
(***************************************************************************)
CallBlock(g, i, id) == i \in DOMAIN g.at /\ g.at[i].type = "tool" /\ g.at[i].id = id
Distinct(g) == \A i, j, id : CallBlock(g, i, id) /\ CallBlock(g, j, id) => i = j

\* Every call of the provider has a block, and the one it last opened is open.
OaTools(s, m, g) ==
  /\ OnlyCalls(m) /\ Distinct(g) /\ DOMAIN s.tools = DOMAIN m.at
  /\ \A i \in DOMAIN m.at : CallBlock(g, s.tools[i], m.at[i].id)
  /\ m.latest # NoCall => CallBlock(g, g.open, m.latest)

OaStop(s, m) ==
  /\ m.stop \in {"none", "stop", "length", "content_filter", "tool_calls"}
  /\ m.stop = "length" => m.cut
  /\ s.stop = IF m.blank THEN "end_turn"
              ELSE IF m.stop = "none" THEN "none" ELSE FinishToStop(m.stop)

OaFaults(m, g) == g.faults \subseteq IF m.mixed THEN {"closed"} ELSE {}

OaMid(s, m, g) ==
  /\ WellRead(m) /\ WellRead(g) /\ SameContent(m, g) /\ Blocks(s, g)
  /\ OaTools(s, m, g) /\ OaStop(s, m) /\ OaFaults(m, g)
  /\ g.started /\ ~Over(g) /\ ~g.cut

Said == {"text", "think", "calls", "at", "latest", "mixed", "stop", "blank", "cut"}

\* What a piece makes of a message, a result and what is heard of it.
Spoken(g0, m, r, b, o, h) ==
  /\ OaMid(o.s, b, h) /\ Heard("anthropic", g0, o, h)
  /\ Same(b, m, Said) /\ Kept(o.s, r.s, {"next", "blk", "tools", "stop"})

LEMMA OaFinishes ==
  ASSUME NEW g0, NEW m, NEW r, NEW g, OaMid(r.s, m, g), Heard("anthropic", g0, r, g),
         NEW p, Finishes(p)
  PROVE  \E h : Spoken(g0, m, r, ReadPiece(m, p), OaPiece(r, p), h)
<1> DEFINE s == r.s
           t == [s EXCEPT !.stop = FinishToStop(p.why)]
           b == Stop(m, p.why)
           o == [r EXCEPT !.s.stop = FinishToStop(p.why)]
<1>1. ReadPiece(m, p) = b /\ OaPiece(r, p) = o
  BY FinishIs DEF OaPiece, Finishes
<1>2. o.s = t /\ o.out = r.out /\ DOMAIN o = {"s", "out"}
  BY DEF Heard
<1>3. /\ WellRead(b) /\ Same(b, m, {"stop", "blank", "cut"})
      /\ b.stop = IF p.why = "" THEN m.stop ELSE p.why
      /\ (b.blank <=> p.why = "")
      /\ (b.cut <=> m.cut \/ p.why \in CutReasons)
  BY StopIs DEF OaMid
<1>4. DOMAIN s = OaFields
  BY DEF OaMid, Blocks
<1>5. Kept(t, s, {"stop"}) /\ t.stop = FinishToStop(p.why)
  BY <1>4 DEF Kept, OaFields
<1> HIDE DEF t, b, o
<1>6. t.next = s.next /\ t.blk = s.blk /\ t.tools = s.tools /\ DOMAIN t = OaFields
  BY <1>5 DEF Kept, OaFields
<1>7. /\ b.text = m.text /\ b.think = m.think /\ b.calls = m.calls /\ b.at = m.at
      /\ b.latest = m.latest /\ b.mixed = m.mixed
  BY <1>3 DEF Same, Fields
<1>8. OaStop(t, b)
  <2>1. p.why \in {"stop", "length", "content_filter", "tool_calls", ""}
    BY DEF Finishes
  <2>2. FinishToStop("") = "end_turn"
    BY DEF FinishToStop
  <2>3. (b.blank => p.why = "") /\ (p.why = "" => b.blank)
    BY <1>3
  <2>4. b.stop \in {"none", "stop", "length", "content_filter", "tool_calls"}
        /\ (b.stop = "length" => b.cut)
    BY <1>3, <2>1 DEF OaMid, OaStop, CutReasons
  <2>5. t.stop = IF b.blank THEN "end_turn"
                 ELSE IF b.stop = "none" THEN "none" ELSE FinishToStop(b.stop)
    BY <1>3, <1>5, <2>1, <2>2, <2>3
  <2> QED BY <2>4, <2>5 DEF OaStop
<1>9. OaMid(t, b, g)
  BY <1>3, <1>6, <1>7, <1>8 DEF OaMid, SameContent, Blocks, OaTools, OnlyCalls, OaFaults
<1>10. Same(b, m, Said) /\ Kept(t, s, {"next", "blk", "tools", "stop"})
  BY <1>3, <1>5 DEF Same, Said, Kept
<1>11. Heard("anthropic", g0, o, g)
  BY <1>2, HeardStays
<1>12. Spoken(g0, m, r, b, o, g)
  BY <1>2, <1>9, <1>10, <1>11 DEF Spoken
<1> QED BY <1>1, <1>12

\* The block of text or of reasoning under way, or a new one.
Ensured(g0, g, r, e, kind, x) ==
  /\ Heard("anthropic", g0, e, x) /\ WellRead(x) /\ Same(x, g, {"at", "open"})
  /\ Blocks(e.s, x) /\ Kept(e.s, r.s, {"next", "blk"})
  /\ e.s.blk[kind] = x.open /\ x.open \in DOMAIN x.at /\ x.at[x.open].type = kind
  /\ \A i, id : CallBlock(x, i, id) <=> CallBlock(g, i, id)

LEMMA EnsureIs ==
  ASSUME NEW g0, NEW r, NEW g, Heard("anthropic", g0, r, g), WellRead(g), Blocks(r.s, g),
         ~Over(g), g.started, NEW kind \in {"text", "think"}
  PROVE  \E x : Ensured(g0, g, r, OaEnsure(r, kind), kind, x)
<1> DEFINE e == OaEnsure(r, kind)
<1>1. kind \in Kinds /\ kind # "tool"
  BY DEF Kinds
<1>2. CASE r.s.blk[kind] # Nothing
  <2>1. e = r
    BY <1>2 DEF OaEnsure
  <2>2. g.open # Nothing /\ g.at[g.open].type = kind /\ r.s.blk[kind] = g.open
        /\ g.open \in DOMAIN g.at
    BY <1>1, <1>2 DEF Blocks, Blk
  <2>3. Same(g, g, {"at", "open"}) /\ Kept(r.s, r.s, {"next", "blk"})
    BY DEF Same, Kept, Blocks
  <2>4. Ensured(g0, g, r, e, kind, g)
    BY <2>1, <2>2, <2>3 DEF Ensured
  <2> QED BY <2>4
<1>3. CASE r.s.blk[kind] = Nothing
  <2>1. e = OaOpen(r, kind, NoCall)
    BY <1>3 DEF OaEnsure
  <2>2. PICK x : Opened(g0, g, r, e, kind, NoCall, x)
    BY <1>1, <2>1, OpenIs
  <2> HIDE DEF e
  <2>3. PICK n : n = r.s.next
    OBVIOUS
  <2>4. /\ Heard("anthropic", g0, e, x) /\ WellRead(x) /\ Same(x, g, {"at", "calls", "open"})
        /\ x.at = With(g.at, n, [type |-> kind, id |-> NoCall, size |-> 0])
        /\ x.calls = g.calls /\ x.open = n
        /\ Blocks(e.s, x) /\ Kept(e.s, r.s, {"next", "blk"})
    BY <1>1, <2>2, <2>3 DEF Opened
  <2>5. n \notin DOMAIN g.at /\ n # Nothing
    <3>1. Row(DOMAIN g.at, n)
      BY <2>3 DEF Blocks
    <3> QED BY <3>1, RowIs DEF Row, Nothing
  <2>6. /\ DOMAIN x.at = DOMAIN g.at \cup {n} /\ x.at[n].type = kind
        /\ \A i \in DOMAIN g.at : x.at[i] = g.at[i]
    BY <2>4, <2>5 DEF With
  <2>7. Same(x, g, {"at", "open"})
    BY <2>4 DEF Same
  <2>8. e.s.blk[kind] = x.open
    BY <1>1, <2>4, <2>5, <2>6 DEF Blocks, Blk
  <2>9. \A i, id : CallBlock(x, i, id) <=> CallBlock(g, i, id)
    BY <1>1, <2>5, <2>6 DEF CallBlock
  <2>10. Ensured(g0, g, r, e, kind, x)
    BY <2>4, <2>6, <2>7, <2>8, <2>9 DEF Ensured
  <2> QED BY <2>10 DEF e
<1> QED BY <1>2, <1>3

\* The message read of a fragment, on both sides.
LEMMA OaContents ==
  ASSUME NEW g0, NEW m, NEW r, NEW g, OaMid(r.s, m, g), Heard("anthropic", g0, r, g),
         NEW p, Content(p)
  PROVE  \E h : Spoken(g0, m, r, ReadPiece(m, p), OaPiece(r, p), h)
<1> DEFINE b == ReadPiece(m, p)
           o == OaPiece(r, p)
<1>1. p.p \in {"text", "think"} /\ p.f \in Nat
  BY DEF Content
<1>2. o = OaContent(r, p)
  BY <1>1 DEF OaPiece
<1>3. /\ WellRead(b) /\ Same(b, m, {"text", "think", "latest"})
      /\ b.text = IF p.p = "text" THEN m.text + p.f ELSE m.text
      /\ b.think = IF p.p = "think" THEN m.think + p.f ELSE m.think
      /\ b.latest = IF p.f = 0 THEN m.latest ELSE NoCall
  BY ContentIs DEF OaMid
<1> HIDE DEF b, o
<1>4. /\ b.calls = m.calls /\ b.at = m.at /\ b.mixed = m.mixed /\ b.stop = m.stop
      /\ b.blank = m.blank /\ b.cut = m.cut
  BY <1>3 DEF Same, Fields
<1>5. Same(b, m, Said)
  BY <1>3 DEF Same, Said
<1>6. CASE p.f = 0
  <2>1. o = r
    BY <1>2, <1>6 DEF OaContent
  <2>2. b.text = m.text /\ b.think = m.think /\ b.latest = m.latest
    BY <1>3, <1>6 DEF OaMid, WellRead
  <2>3. OaMid(r.s, b, g)
    BY <1>3, <1>4, <2>2 DEF OaMid, SameContent, OaTools, OnlyCalls, OaStop, OaFaults
  <2>4. Kept(r.s, r.s, {"next", "blk", "tools", "stop"})
    BY DEF Kept, OaMid, Blocks
  <2>5. Spoken(g0, m, r, b, o, g)
    BY <1>5, <2>1, <2>3, <2>4 DEF Spoken
  <2> QED BY <2>5 DEF b, o
<1>7. CASE p.f # 0
  <2>1. PICK e : e = OaEnsure(r, p.p)
    OBVIOUS
  <2>2. o = OaDelta(e, e.s.blk[p.p], p.p, p.f)
    BY <1>2, <1>7, <2>1 DEF OaContent
  <2>3. PICK x : Ensured(g0, g, r, e, p.p, x)
    BY <1>1, <2>1, EnsureIs DEF OaMid
  <2>4. PICK i : i = x.open
    OBVIOUS
  <2>5. i \in DOMAIN x.at /\ x.at[i].type = p.p /\ e.s.blk[p.p] = i /\ WellRead(x)
        /\ Heard("anthropic", g0, e, x) /\ Same(x, g, {"at", "open"}) /\ Blocks(e.s, x)
        /\ Kept(e.s, r.s, {"next", "blk"})
    BY <2>3, <2>4 DEF Ensured
  <2>6. /\ x.text = g.text /\ x.think = g.think /\ x.calls = g.calls /\ x.faults = g.faults
        /\ x.started = g.started /\ x.failed = g.failed /\ x.ends = g.ends /\ x.cut = g.cut
    BY <2>5 DEF Same, Fields
  <2>7. ~Over(x)
    BY <2>6 DEF Over, OaMid
  <2>8. PICK h : Sent(g0, x, e, OaDelta(e, i, x.at[i].type, p.f), i, p.f, h)
    BY <1>1, <2>5, <2>7, DeltaIs
  <2>9. Sent(g0, x, e, o, i, p.f, h)
    BY <2>2, <2>5, <2>8
  <2>10. /\ Heard("anthropic", g0, o, h) /\ o.s = e.s /\ WellRead(h) /\ SameItems(h, x)
         /\ Same(h, x, {"at", "text", "think", "calls", "faults"})
         /\ Grown(x, p.p, x.at[i].id, p.f, h) /\ h.faults \subseteq x.faults
    BY <2>4, <2>5, <2>9 DEF Sent
  <2>11. /\ h.open = x.open /\ h.started = x.started /\ h.failed = x.failed /\ h.ends = x.ends
         /\ h.cut = x.cut
    BY <2>10 DEF Same, Fields
  <2>12. Blocks(o.s, h)
    BY <2>5, <2>10, <2>11, BlocksStay
  <2>13. SameContent(b, h)
    <3>1. /\ h.text = IF p.p = "text" THEN x.text + p.f ELSE x.text
          /\ h.think = IF p.p = "think" THEN x.think + p.f ELSE x.think
          /\ h.calls = x.calls
      BY <1>1, <2>10 DEF Grown
    <3> QED BY <1>3, <1>4, <2>6, <3>1 DEF OaMid, SameContent
  <2>14. \A j, id : CallBlock(h, j, id) <=> CallBlock(g, j, id)
    <3>1. \A j, id : CallBlock(h, j, id) <=> CallBlock(x, j, id)
      BY <2>10 DEF SameItems, CallBlock
    <3> QED BY <2>3, <3>1 DEF Ensured
  <2>15. o.s.tools = r.s.tools /\ o.s.stop = r.s.stop
    BY <2>5, <2>10 DEF Kept, OaFields
  <2>16. OaTools(o.s, b, h)
    BY <1>3, <1>4, <1>7, <2>14, <2>15 DEF OaMid, OaTools, OnlyCalls, Distinct
  <2>17. OaMid(o.s, b, h)
    BY <1>3, <1>4, <2>6, <2>10, <2>11, <2>12, <2>13, <2>15, <2>16
       DEF OaMid, OaStop, OaFaults, Over
  <2>18. Kept(o.s, r.s, {"next", "blk", "tools", "stop"})
    BY <2>5, <2>10 DEF Kept
  <2>19. Spoken(g0, m, r, b, o, h)
    BY <1>5, <2>10, <2>17, <2>18 DEF Spoken
  <2> QED BY <2>19 DEF b, o
<1> QED BY <1>6, <1>7

LEMMA OaKnownCall ==
  ASSUME NEW g0, NEW m, NEW r, NEW g, OaMid(r.s, m, g), Heard("anthropic", g0, r, g),
         NEW p, KnownCall(m, p)
  PROVE  \E h : Spoken(g0, m, r, ReadPiece(m, p), OaPiece(r, p), h)
<1> DEFINE b == ReadPiece(m, p)
           o == OaPiece(r, p)
<1>1. p.p = "tool" /\ p.f \in Nat /\ p.i \in DOMAIN m.at
  BY DEF KnownCall
<1>2. PICK i, id : i = r.s.tools[p.i] /\ id = m.at[p.i].id
  OBVIOUS
<1>3. CallBlock(g, i, id) /\ p.i \in DOMAIN r.s.tools
  BY <1>1, <1>2 DEF OaMid, OaTools
<1>4. o = OaDelta(r, i, g.at[i].type, p.f)
  BY <1>1, <1>2, <1>3 DEF OaPiece, OaTool, CallBlock
<1>5. PICK h : Sent(g0, g, r, o, i, p.f, h)
  BY <1>1, <1>3, <1>4, DeltaIs DEF OaMid, CallBlock
<1>6. /\ WellRead(b) /\ OnlyCalls(b) /\ Same(b, m, {"at", "calls", "mixed"})
      /\ b.at = [m.at EXCEPT ![p.i].size = @ + p.f]
      /\ b.calls = [m.calls EXCEPT ![id] = @ + p.f]
      /\ (b.mixed <=> m.mixed \/ (p.f > 0 /\ id # m.latest))
  BY <1>2, KnownCallIs DEF OaMid, OaTools
<1> HIDE DEF b, o
<1>7. /\ b.text = m.text /\ b.think = m.think /\ b.latest = m.latest /\ b.stop = m.stop
      /\ b.blank = m.blank /\ b.cut = m.cut
  BY <1>6 DEF Same, Fields
<1>8. SameItems(b, m)
  <2>1. m.at \in [DOMAIN m.at -> Items]
    BY DEF OaMid, WellRead
  <2> QED BY <1>6, <2>1 DEF SameItems, Items
<1>9. /\ Heard("anthropic", g0, o, h) /\ o.s = r.s /\ WellRead(h) /\ SameItems(h, g)
      /\ Same(h, g, {"at", "text", "think", "calls", "faults"})
      /\ Grown(g, "tool", id, p.f, h)
      /\ h.faults \subseteq g.faults \cup (IF p.f = 0 \/ g.open = i THEN {} ELSE {"closed"})
  BY <1>3, <1>5 DEF Sent, CallBlock
<1>10. /\ h.open = g.open /\ h.started = g.started /\ h.failed = g.failed /\ h.ends = g.ends
       /\ h.cut = g.cut
  BY <1>9 DEF Same, Fields
<1>11. Blocks(o.s, h)
  BY <1>9, <1>10, BlocksStay DEF OaMid
<1>12. SameContent(b, h)
  BY <1>6, <1>7, <1>9 DEF Grown, OaMid, SameContent
<1>13. \A j, x : CallBlock(h, j, x) <=> CallBlock(g, j, x)
  BY <1>9 DEF SameItems, CallBlock
<1>14. OaTools(o.s, b, h)
  BY <1>6, <1>7, <1>8, <1>9, <1>10, <1>13 DEF OaMid, OaTools, Distinct, SameItems
\* A fragment for another block than the open one is one of a call resumed.
<1>15. OaFaults(b, h)
  <2>1. id # NoCall
    BY <1>1, <1>2, CallsAssumption DEF OaMid, OaTools, OnlyCalls, WellRead
  <2>2. p.f # 0 /\ g.open # i => id # m.latest
    BY <1>3, <2>1 DEF OaMid, OaTools, Distinct
  <2>3. p.f # 0 => p.f > 0
    BY <1>1
  <2>4. p.f = 0 \/ g.open = i \/ b.mixed
    BY <1>6, <2>2, <2>3
  <2>5. m.mixed => b.mixed
    BY <1>6
  <2> QED BY <1>9, <2>4, <2>5 DEF OaMid, OaFaults
<1>16. OaMid(o.s, b, h)
  BY <1>6, <1>7, <1>9, <1>10, <1>11, <1>12, <1>14, <1>15 DEF OaMid, OaStop, Over
<1>17. Same(b, m, Said) /\ Kept(o.s, r.s, {"next", "blk", "tools", "stop"})
  BY <1>6, <1>9 DEF Same, Said, Kept, OaMid, Blocks
<1>18. Spoken(g0, m, r, b, o, h)
  BY <1>9, <1>16, <1>17 DEF Spoken
<1> QED BY <1>18 DEF b, o

LEMMA OaNewCall ==
  ASSUME NEW g0, NEW m, NEW r, NEW g, OaMid(r.s, m, g), Heard("anthropic", g0, r, g),
         NEW p, NewCall(m, p)
  PROVE  \E h : Spoken(g0, m, r, ReadPiece(m, p), OaPiece(r, p), h)
<1> DEFINE b == ReadPiece(m, p)
           o == OaPiece(r, p)
<1>1. p.p = "tool" /\ p.f \in Nat /\ p.i \notin DOMAIN m.at
  BY DEF NewCall
<1>2. PICK id, n, i : id = p.id /\ n = r.s.next /\ i = p.i
  OBVIOUS
<1>3. id \in Calls /\ id \notin DOMAIN m.calls /\ id \notin DOMAIN g.calls /\ "tool" \in Kinds
  BY <1>2 DEF NewCall, OaMid, SameContent, Kinds
<1>4. PICK e : e = OaOpen(r, "tool", id)
  OBVIOUS
<1>5. PICK x : Opened(g0, g, r, e, "tool", id, x)
  BY <1>3, <1>4, OpenIs DEF OaMid
<1>6. /\ Heard("anthropic", g0, e, x) /\ WellRead(x) /\ Same(x, g, {"at", "calls", "open"})
      /\ x.at = With(g.at, n, [type |-> "tool", id |-> id, size |-> 0])
      /\ x.calls = With(g.calls, id, 0)
      /\ x.open = n /\ Blocks(e.s, x) /\ Kept(e.s, r.s, {"next", "blk"})
  BY <1>2, <1>5 DEF Opened
<1> DEFINE q == [e EXCEPT !.s.tools = With(@, i, n)]
           t == [e.s EXCEPT !.tools = With(@, i, n)]
<1>7. DOMAIN q = {"s", "out"} /\ q.s = t /\ q.out = e.out
  BY <1>6 DEF Heard
<1>8. DOMAIN e.s = OaFields
  BY <1>6 DEF Kept
<1>9. Kept(t, e.s, {"tools"}) /\ t.tools = With(e.s.tools, i, n)
  BY <1>8 DEF Kept, OaFields
<1>10. o = OaDelta(q, q.s.tools[p.i], "tool", p.f)
  BY <1>1, <1>2, <1>4 DEF OaPiece, OaTool, OaMid, OaTools
<1> HIDE DEF q, t
<1>11. e.s.tools = r.s.tools /\ Kept(t, r.s, {"next", "blk", "tools"})
  BY <1>6, <1>9 DEF Kept, OaFields
<1>12. t.tools = With(r.s.tools, i, n) /\ t.tools[i] = n
  BY <1>9, <1>11 DEF With
<1>13. n \notin DOMAIN g.at
  <2>1. Row(DOMAIN g.at, n)
    BY <1>2 DEF OaMid, Blocks
  <2> QED BY <2>1, RowIs
<1>14. /\ DOMAIN x.at = DOMAIN g.at \cup {n} /\ x.at[n].type = "tool" /\ x.at[n].id = id
       /\ \A j \in DOMAIN g.at : x.at[j] = g.at[j]
  BY <1>6, <1>13 DEF With
<1>15. Heard("anthropic", g0, q, x)
  BY <1>6, <1>7, HeardStays
<1>16. /\ x.text = g.text /\ x.think = g.think /\ x.faults = g.faults
       /\ x.started = g.started /\ x.failed = g.failed /\ x.ends = g.ends /\ x.cut = g.cut
  BY <1>6 DEF Same, Fields
<1>17. ~Over(x)
  BY <1>16 DEF Over, OaMid
<1>18. o = OaDelta(q, n, x.at[n].type, p.f)
  BY <1>2, <1>7, <1>10, <1>12, <1>14
<1>19. PICK h : Sent(g0, x, q, o, n, p.f, h)
  BY <1>1, <1>6, <1>14, <1>15, <1>17, <1>18, DeltaIs
<1>20. /\ Heard("anthropic", g0, o, h) /\ o.s = t /\ WellRead(h) /\ SameItems(h, x)
       /\ Same(h, x, {"at", "text", "think", "calls", "faults"})
       /\ Grown(x, "tool", id, p.f, h)
       /\ h.faults \subseteq x.faults
  BY <1>6, <1>7, <1>14, <1>19 DEF Sent
<1>21. /\ WellRead(b) /\ OnlyCalls(b) /\ Same(b, m, {"at", "calls", "latest"})
       /\ b.at = With(m.at, i, [type |-> "tool", id |-> id, size |-> p.f])
       /\ b.calls = With(m.calls, id, p.f)
       /\ b.latest = id
  BY <1>2, NewCallIs DEF OaMid, OaTools
<1> HIDE DEF b, o
<1>22. /\ b.text = m.text /\ b.think = m.think /\ b.mixed = m.mixed /\ b.stop = m.stop
       /\ b.blank = m.blank /\ b.cut = m.cut
  BY <1>21 DEF Same, Fields
<1>23. /\ h.open = x.open /\ h.started = x.started /\ h.failed = x.failed /\ h.ends = x.ends
       /\ h.cut = x.cut
  BY <1>20 DEF Same, Fields
<1>24. Blocks(o.s, h)
  <2>1. Blocks(t, x)
    BY <1>6, <1>9 DEF Kept, OaFields, Blocks
  <2> QED BY <1>6, <1>20, <1>23, <2>1, BlocksStay
<1>25. SameContent(b, h)
  <2>1. h.text = x.text /\ h.think = x.think /\ h.calls = [x.calls EXCEPT ![id] = @ + p.f]
    BY <1>20 DEF Grown
  <2>2. x.calls[id] + p.f = p.f
    BY <1>1, <1>6 DEF With
  <2>3. h.calls = [x.calls EXCEPT ![id] = p.f]
    BY <2>1, <2>2
  <2>4. h.calls = With(g.calls, id, p.f)
    BY <1>6, <2>3, WithTwice
  <2> QED BY <1>16, <1>21, <1>22, <2>1, <2>4 DEF OaMid, SameContent
<1>26. \A j, y : CallBlock(h, j, y) <=> CallBlock(g, j, y) \/ (j = n /\ y = id)
  <2>1. \A j, y : CallBlock(h, j, y) <=> CallBlock(x, j, y)
    BY <1>20 DEF SameItems, CallBlock
  <2> QED BY <1>13, <1>14, <2>1 DEF CallBlock
<1>27. \A j : ~CallBlock(g, j, id)
  BY <1>3 DEF OaMid, WellRead, CallBlock
<1>28. Distinct(h)
  BY <1>26, <1>27 DEF OaMid, OaTools, Distinct
<1>29. OaTools(o.s, b, h)
  <2>1. /\ DOMAIN b.at = DOMAIN m.at \cup {i} /\ b.at[i].id = id
        /\ \A j \in DOMAIN m.at : b.at[j] = m.at[j]
    BY <1>1, <1>2, <1>21 DEF With
  <2>2. /\ DOMAIN t.tools = DOMAIN m.at \cup {i}
        /\ \A j \in DOMAIN m.at : t.tools[j] = r.s.tools[j]
    BY <1>1, <1>2, <1>12 DEF With, OaMid, OaTools
  <2>3. \A j \in DOMAIN b.at : CallBlock(h, t.tools[j], b.at[j].id)
    BY <1>12, <1>26, <2>1, <2>2 DEF OaMid, OaTools
  <2>4. CallBlock(h, h.open, id)
    BY <1>6, <1>23, <1>26
  <2> QED BY <1>20, <1>21, <1>28, <2>1, <2>2, <2>3, <2>4 DEF OaTools
<1>30. o.s.stop = r.s.stop /\ Kept(o.s, r.s, {"next", "blk", "tools", "stop"})
  BY <1>11, <1>20 DEF Kept, OaFields
<1>31. OaMid(o.s, b, h)
  BY <1>16, <1>20, <1>21, <1>22, <1>23, <1>24, <1>25, <1>29, <1>30
     DEF OaMid, OaStop, OaFaults, Over
<1>32. Spoken(g0, m, r, b, o, h)
  BY <1>20, <1>21, <1>30, <1>31 DEF Spoken, Same, Said
<1> QED BY <1>32 DEF b, o

LEMMA OaPieceIs ==
  ASSUME NEW g0, NEW m, NEW r, NEW g, OaMid(r.s, m, g), Heard("anthropic", g0, r, g),
         NEW p, GoodPiece(m, p)
  PROVE  \E h : Spoken(g0, m, r, ReadPiece(m, p), OaPiece(r, p), h)
  BY OaContents, OaNewCall, OaKnownCall, OaFinishes DEF GoodPiece

LEMMA StillGood ==
  ASSUME NEW m, WellRead(m), NEW q, Content(q), NEW p, GoodPiece(m, p)
  PROVE  GoodPiece(ReadPiece(m, q), p)
<1>1. ReadPiece(m, q).at = m.at /\ ReadPiece(m, q).calls = m.calls
  <2>1. Same(ReadPiece(m, q), m, {"text", "think", "latest"})
    BY ContentIs
  <2> QED BY <2>1 DEF Same, Fields
<1> QED BY <1>1 DEF GoodPiece, NewCall, KnownCall

\* The pieces of a chunk.
LEMMA OaPiecesAre ==
  ASSUME NEW g0, NEW m, NEW r, NEW g, OaMid(r.s, m, g), Heard("anthropic", g0, r, g),
         NEW ps, GoodPieces(m, ps)
  PROVE  \E h : Spoken(g0, m, r, Fold("piece", m, ps), Fold("oa", r, ps), h)
<1>1. CASE ps = <<>>
  <2>1. Fold("piece", m, ps) = m /\ Fold("oa", r, ps) = r
    BY <1>1, FoldEmpty
  <2>2. Same(m, m, Said) /\ Kept(r.s, r.s, {"next", "blk", "tools", "stop"})
    BY DEF Same, Kept, OaMid, Blocks
  <2>3. Spoken(g0, m, r, m, r, g)
    BY <2>2 DEF Spoken
  <2> QED BY <2>1, <2>3
<1>2. ASSUME NEW p, ps = <<p>>, GoodPiece(m, p)
      PROVE  \E h : Spoken(g0, m, r, Fold("piece", m, ps), Fold("oa", r, ps), h)
  <2>1. Fold("piece", m, ps) = ReadPiece(m, p) /\ Fold("oa", r, ps) = OaPiece(r, p)
    BY <1>2, FoldOne DEF Do
  <2> QED BY <1>2, <2>1, OaPieceIs
<1>3. ASSUME NEW q, NEW p, ps = <<q, p>>, Content(q), GoodPiece(m, p)
      PROVE  \E h : Spoken(g0, m, r, Fold("piece", m, ps), Fold("oa", r, ps), h)
  <2>1. PICK a, c : a = ReadPiece(m, q) /\ c = OaPiece(r, q)
    OBVIOUS
  <2>2. PICK b, o : b = ReadPiece(a, p) /\ o = OaPiece(c, p)
    OBVIOUS
  <2>3. Fold("piece", m, ps) = b /\ Fold("oa", r, ps) = o
    BY <1>3, <2>1, <2>2, FoldTwo DEF Do
  <2>4. PICK x : Spoken(g0, m, r, a, c, x)
    BY <1>3, <2>1, OaPieceIs DEF GoodPiece
  <2>5. GoodPiece(a, p)
    BY <1>3, <2>1, StillGood DEF OaMid
  <2>6. PICK h : Spoken(g0, a, c, b, o, h)
    BY <2>2, <2>4, <2>5, OaPieceIs DEF Spoken
  <2>7. Same(b, m, Said) /\ Kept(o.s, r.s, {"next", "blk", "tools", "stop"})
    BY <2>4, <2>6 DEF Spoken, Same, Kept
  <2>8. Spoken(g0, m, r, b, o, h)
    BY <2>6, <2>7 DEF Spoken
  <2> QED BY <2>3, <2>8
<1> QED BY <1>1, <1>2, <1>3 DEF GoodPieces

\* The end of a stream: the open block is closed, reason and counts are told.
Bye(s, g, h) ==
  /\ WellRead(h) /\ Same(h, g, {"open", "stop", "blank", "cut", "tokens", "repeats", "ends"})
  /\ h.ends = g.ends + 1 /\ h.tokens.in = s.usage.unc /\ h.tokens.out = s.usage.out
  /\ (h.cut <=> g.cut \/ s.stop = "max_tokens")

Terminated(out) == \E k \in DOMAIN out : IsTerminal(out[k])

LEMMA OaFinalizes ==
  ASSUME NEW s, NEW g, WellRead(g), Blocks(s, g), g.started, g.ends = 0,
         s.started, ~s.finished, s.usage \in Bills, s.stop \in Stops,
         NEW r, r = OaFinalize(s)
  PROVE  /\ IsSeq(r.out) /\ Terminated(r.out) /\ Bye(s, g, Reads("anthropic", g, r.out))
         /\ r.s.finished = TRUE /\ r.s.started = s.started
         /\ r.s.usage = s.usage /\ r.s.stop = s.stop
<1> DEFINE t == [s EXCEPT !.finished = TRUE, !.tools = <<>>]
           q == Says(t, <<>>)
<1>1. DOMAIN s = OaFields
  BY DEF Blocks
<1>2. /\ DOMAIN t = OaFields /\ t.finished = TRUE /\ t.started = s.started /\ t.usage = s.usage
      /\ t.stop = s.stop /\ t.next = s.next /\ t.blk = s.blk
  BY <1>1 DEF OaFields
<1>3. DOMAIN q = {"s", "out"} /\ q.s = t /\ q.out = <<>>
  BY DEF Says
<1>4. PICK c : c = OaCloseOpen(q)
  OBVIOUS
<1>5. PICK stop \in {"end_turn", "max_tokens", "tool_use"} :
        /\ stop = (IF s.stop = "none" THEN "end_turn" ELSE s.stop)
        /\ (stop \in CutReasons <=> s.stop = "max_tokens")
  BY DEF Stops, CutReasons
<1>6. PICK use : use = AnUse(s.usage.unc, s.usage.out)
  OBVIOUS
<1>7. PICK d : d = [e |-> "message_delta", use |-> use, stop |-> stop]
  OBVIOUS
<1>8. PICK e : e = [e |-> "message_stop"]
  OBVIOUS
<1>9. r = [c EXCEPT !.out = @ \o <<d, e>>]
  BY <1>4, <1>5, <1>6, <1>7, <1>8 DEF OaFinalize
<1> HIDE DEF t, q
<1>10. Heard("anthropic", g, q, g)
  BY <1>3, ReadsNone DEF Heard, IsSeq, Protocols
<1>11. Blocks(q.s, g)
  BY <1>2, <1>3 DEF Blocks
<1>12. PICK x : Shut(g, g, q.s, c, x)
  BY <1>4, <1>10, <1>11, CloseOpenIs
<1>13. /\ Heard("anthropic", g, c, x) /\ WellRead(x) /\ Same(x, g, {"open"}) /\ x.open = Nothing
       /\ Kept(c.s, t, {"blk"})
  BY <1>3, <1>12 DEF Shut
<1>14. /\ r.s.finished = TRUE /\ r.s.started = s.started
       /\ r.s.usage = s.usage /\ r.s.stop = s.stop /\ r.out = c.out \o <<d, e>>
  <2>1. r.s = c.s /\ r.out = c.out \o <<d, e>>
    BY <1>9, <1>13 DEF Heard
  <2> QED BY <1>2, <1>13, <2>1 DEF Kept, OaFields
<1>15. PICK y : y = ReadAnthropic(x, d)
  OBVIOUS
<1>16. PICK h : h = ReadAnthropic(y, e)
  OBVIOUS
<1>17. IsSeq(c.out) /\ x = Reads("anthropic", g, c.out)
  BY <1>13 DEF Heard
<1>18. IsSeq(r.out) /\ Len(r.out) = Len(c.out) + 2 /\ r.out[Len(c.out) + 2] = e
       /\ h = Reads("anthropic", g, r.out)
  <2>1. PICK tail : tail = <<d, e>>
    OBVIOUS
  <2>2. IsSeq(tail) /\ Len(tail) = 2 /\ tail[2] = e
    BY <2>1, FoldTwo
  <2>3. Reads("anthropic", x, tail) = h
    <3>1. Reads("anthropic", x, tail) = Fold("anthropic", x, tail)
      BY ReadsIs
    <3>2. Fold("anthropic", x, tail) = Do("anthropic", Do("anthropic", x, d), e)
      BY <2>1, FoldTwo
    <3>3. \A a, ev : Do("anthropic", a, ev) = ReadAnthropic(a, ev)
      BY ReadIs DEF Do
    <3> QED BY <1>15, <1>16, <3>1, <3>2, <3>3
  <2>4. /\ IsSeq(c.out \o tail) /\ Len(c.out \o tail) = Len(c.out) + Len(tail)
        /\ \A i \in 1..Len(tail) : (c.out \o tail)[Len(c.out) + i] = tail[i]
    <3>1. PICK a : a = c.out
      OBVIOUS
    <3>2. IsSeq(a)
      BY <1>17, <3>1
    <3>3. IsSeq(a \o tail) /\ Len(a \o tail) = Len(a) + Len(tail)
      BY <2>2, <3>2, ConcatIsSeq
    <3>4. \A i \in 1..Len(tail) : (a \o tail)[Len(a) + i] = tail[i]
      BY <2>2, <3>2, ConcatIsSeq
    <3> QED BY <3>1, <3>3, <3>4
  <2>5. Reads("anthropic", g, c.out \o tail) = Reads("anthropic", x, tail)
    BY <1>17, <2>2, ReadsConcat DEF Protocols
  <2>6. (c.out \o tail)[Len(c.out) + 2] = e
    <3>1. 2 \in 1..Len(tail)
      BY <2>2
    <3> QED BY <2>2, <2>4, <3>1
  <2> QED BY <1>14, <2>1, <2>2, <2>3, <2>4, <2>5, <2>6
<1>19. Terminated(r.out)
  <2>1. Len(c.out) + 2 \in DOMAIN r.out
    BY <1>17, <1>18 DEF IsSeq
  <2>2. IsTerminal(e)
    BY <1>8 DEF IsTerminal
  <2> QED BY <1>18, <2>1, <2>2 DEF Terminated
<1>20. d.e = "message_delta" /\ d.use = use /\ d.stop = stop /\ use \in Updates
       /\ use.in = s.usage.unc /\ use.out = s.usage.out /\ use.in # Nothing /\ use.out # Nothing
  <2>1. s.usage.unc \in 0..MaxTok /\ s.usage.out \in 0..MaxTok
    BY DEF Bills
  <2>2. use \in Updates /\ use.in = s.usage.unc /\ use.out = s.usage.out
    BY <1>6, <2>1, ConverterAssumption DEF AnUse, Updates, Optional
  <2>3. \A k \in 0..MaxTok : k # Nothing
    BY ConverterAssumption DEF Nothing
  <2> QED BY <1>7, <2>1, <2>2, <2>3
<1>21. x.started = g.started /\ x.ends = 0 /\ x.cut = g.cut
  BY <1>13 DEF Same, Fields
<1>22. /\ WellRead(y) /\ Same(y, x, {"stop", "blank", "cut", "tokens", "repeats"})
       /\ (y.cut <=> x.cut \/ s.stop = "max_tokens")
  <2>1. /\ WellRead(y) /\ Same(y, x, {"stop", "blank", "cut", "tokens", "repeats"})
        /\ (y.cut <=> x.cut \/ d.stop \in CutReasons)
    BY <1>13, <1>15, <1>20, <1>21, MessageDeltaReads
  <2> QED BY <1>5, <1>20, <2>1
<1>23. y.tokens.in = s.usage.unc /\ y.tokens.out = s.usage.out
  <2>1. y.tokens = Updated(x, use)
    BY <1>13, <1>15, <1>20, <1>21, MessageDeltaCounts
  <2> QED BY <1>20, <2>1 DEF Updated, Given
<1>24. y.open = Nothing /\ y.ends = g.ends
  BY <1>13, <1>21, <1>22 DEF Same, Fields
<1>25. h = End(y)
  <2>1. e.e = "message_stop"
    BY <1>8
  <2> QED BY <1>16, <1>22, <1>24, <2>1, MessageStopReads
<1>26. WellRead(h) /\ Same(h, y, {"ends"}) /\ h.ends = g.ends + 1
  BY <1>22, <1>24, <1>25, EndIs
<1>27. Same(h, g, {"open", "stop", "blank", "cut", "tokens", "repeats", "ends"})
  BY <1>13, <1>22, <1>26 DEF Same
<1>28. h.tokens = y.tokens /\ h.cut = y.cut
  BY <1>26 DEF Same, Fields
<1>29. Bye(s, g, h)
  BY <1>21, <1>22, <1>23, <1>26, <1>27, <1>28 DEF Bye
<1> QED BY <1>14, <1>18, <1>19, <1>29

-----------------------------------------------------------------------------
(***************************************************************************)
(* From OpenAI to Anthropic: from one event to the next.                   *)
(***************************************************************************)
OaLive(s, m, g) ==
  /\ Blocks(s, g) /\ OaTools(s, m, g) /\ OaStop(s, m) /\ ~Over(g) /\ ~g.cut
  /\ (g.started <=> s.started) /\ (s.started <=> m.started)
  /\ ~m.failed /\ (m.ends = 0 \/ ~m.started)

\* The client's stream is over: by an error, or closed with reason and bill.
OaDone(s, m, g) ==
  /\ m.failed \/ (m.ends > 0 /\ m.started)
  /\ OaStop(s, m)
  /\ \/ m.failed /\ g.failed /\ g.ends = 0
     \/ /\ g.ends = 1 /\ ~g.failed /\ m.ends = 1 /\ (g.cut <=> s.stop = "max_tokens")
        /\ g.tokens.in = s.usage.unc /\ g.tokens.out = s.usage.out

CoupledOa(s, m, g) ==
  /\ WellRead(m) /\ WellRead(g) /\ SameContent(m, g) /\ OaFaults(m, g)
  /\ m.ends \in {0, 1} /\ s.started \in BOOLEAN /\ s.finished \in BOOLEAN
  /\ s.usage = Extract(m.read)
  /\ s.finished => OaDone(s, m, g)
  /\ ~s.finished => OaLive(s, m, g)

OaAllowed(m, ev) ==
  /\ OaEvent(m, ev) /\ (m.failed \/ ReadOpenAi(m, ev).faults = {})
  /\ ev.e = "[DONE]" => ~Over(m)

OaBefore(s, m, g, ev) == CoupledOa(s, m, g) /\ OaAllowed(m, ev)
OaAfter(s, m, g, ev) ==
  LET r == OaPush(s, ev)
  IN IsSeq(r.out) /\ CoupledOa(r.s, ReadOpenAi(m, ev), Reads("anthropic", g, r.out))

\* An event that changes neither the message nor what is known of it.
Aside(s, m, b) ==
  /\ WellRead(b) /\ Same(b, m, {"faults", "failed", "ends"})
  /\ (b.failed <=> m.failed) \/ (s.finished /\ b.failed)
  /\ b.ends = m.ends \/ (~m.started /\ ~s.finished /\ b.ends = 1)

LEMMA OaAside ==
  ASSUME NEW s, NEW m, NEW g, NEW ev, OaBefore(s, m, g, ev), OaPush(s, ev) = Says(s, <<>>),
         Aside(s, m, ReadOpenAi(m, ev))
  PROVE  OaAfter(s, m, g, ev)
<1>0. PICK b : b = ReadOpenAi(m, ev)
  OBVIOUS
<1>1. OaPush(s, ev).s = s /\ OaPush(s, ev).out = <<>> /\ IsSeq(<<>>)
  BY DEF Says, IsSeq
<1>2. Reads("anthropic", g, <<>>) = g
  BY ReadsNone DEF Protocols
<1>3. /\ b.text = m.text /\ b.think = m.think /\ b.calls = m.calls /\ b.at = m.at
      /\ b.latest = m.latest /\ b.mixed = m.mixed /\ b.stop = m.stop /\ b.blank = m.blank
      /\ b.cut = m.cut /\ b.read = m.read /\ b.started = m.started
  BY <1>0 DEF Aside, Same, Fields
<1>4. SameContent(b, g) /\ OaFaults(b, g) /\ b.ends \in {0, 1} /\ s.usage = Extract(b.read)
  BY <1>0, <1>3 DEF OaBefore, CoupledOa, OaLive, SameContent, OaFaults, Aside
<1>5. OaStop(s, m) => OaStop(s, b)
  BY <1>3 DEF OaStop
<1>6. s.finished => OaDone(s, b, g)
  BY <1>0, <1>3, <1>5 DEF Aside, OaBefore, CoupledOa, OaDone
<1>7. ~s.finished => OaLive(s, b, g)
  BY <1>0, <1>3, <1>5 DEF Aside, OaBefore, CoupledOa, OaLive, OaTools, OnlyCalls
<1>8. CoupledOa(s, b, g)
  BY <1>0, <1>4, <1>6, <1>7 DEF OaBefore, CoupledOa, Aside
<1> QED BY <1>0, <1>1, <1>2, <1>8 DEF OaAfter

LEMMA OaOver ==
  ASSUME NEW s, NEW m, NEW g, NEW ev, OaBefore(s, m, g, ev), s.finished
  PROVE  OaAfter(s, m, g, ev)
<1>1. PICK b : b = ReadOpenAi(m, ev)
  OBVIOUS
<1>2. WellRead(m) /\ Over(m) /\ m.failed \in BOOLEAN /\ m.ends \in Nat
  BY DEF OaBefore, CoupledOa, OaDone, Over, WellRead
<1>3. OaPush(s, ev) = Says(s, <<>>)
  BY DEF OaPush
<1>4. Aside(s, m, b)
  <2>1. CASE ev.e = "chunk"
    <3>1. b = Blame(m, "late")
      BY <1>1, <1>2, <2>1, OpenAiReads
    <3>2. WellRead(b) /\ Same(b, m, {"faults"})
      BY <1>2, <3>1, BlameIs
    <3> QED BY <3>2 DEF Aside, Same, Fields
  <2>2. CASE ev.e = "[DONE]"
    BY <1>2, <2>2 DEF OaBefore, OaAllowed
  <2>3. CASE ev.e = "error"
    <3>1. b = Fail(m)
      BY <1>1, <2>3, OpenAiReads
    <3>2. WellRead(b) /\ Same(b, m, {"failed"}) /\ b.failed = TRUE
      BY <1>2, <3>1, FailIs
    <3> QED BY <3>2 DEF Aside, Same, Fields
  <2>4. CASE ev.e = "garbage"
    <3>1. b = m
      BY <1>1, <2>4, OpenAiReads
    <3> QED BY <1>2, <3>1 DEF Aside, Same
  <2> QED BY <2>1, <2>2, <2>3, <2>4 DEF OaBefore, OaAllowed, OaEvent
<1> QED BY <1>1, <1>3, <1>4, OaAside

LEMMA OaError ==
  ASSUME NEW s, NEW m, NEW g, NEW ev, OaBefore(s, m, g, ev), ~s.finished, ev.e = "error"
  PROVE  OaAfter(s, m, g, ev)
<1> DEFINE t == [s EXCEPT !.finished = TRUE]
<1>1. OaPush(s, ev) = Says(t, <<Error>>)
  BY DEF OaPush
<1>2. OaPush(s, ev).s = t /\ OaPush(s, ev).out = <<Error>> /\ IsSeq(<<Error>>)
  BY <1>1, FoldOne DEF Says
<1>3. WellRead(m) /\ WellRead(g) /\ OaLive(s, m, g) /\ DOMAIN s = OaFields
  BY DEF OaBefore, CoupledOa, OaLive, Blocks
<1>4. t.finished = TRUE /\ t.started = s.started /\ t.usage = s.usage /\ t.stop = s.stop
  BY <1>3 DEF OaFields
<1> HIDE DEF t
<1>5. PICK b : b = ReadOpenAi(m, ev)
  OBVIOUS
<1>6. WellRead(b) /\ Same(b, m, {"failed"}) /\ b.failed = TRUE
  <2>1. b = Fail(m)
    BY <1>5, OpenAiReads
  <2> QED BY <1>3, <2>1, FailIs
<1>7. PICK h : h = Reads("anthropic", g, <<Error>>)
  OBVIOUS
<1>8. WellRead(h) /\ Same(h, g, {"failed"}) /\ h.failed = TRUE
  <2>1. Error.e = "error"
    BY DEF Error
  <2>2. h = Fail(g)
    BY <1>7, <2>1, ReadsOne, ReadIs, ErrorReads DEF Protocols
  <2> QED BY <1>3, <2>2, FailIs
<1>9. /\ b.text = m.text /\ b.think = m.think /\ b.calls = m.calls /\ b.mixed = m.mixed
      /\ b.stop = m.stop /\ b.blank = m.blank /\ b.cut = m.cut /\ b.read = m.read /\ b.ends = m.ends
      /\ h.text = g.text /\ h.think = g.think /\ h.calls = g.calls
      /\ h.faults = g.faults /\ h.ends = g.ends
  BY <1>6, <1>8 DEF Same, Fields
<1>10. g.ends = 0
  BY <1>3 DEF OaLive, Over, WellRead
<1>11. OaDone(t, b, h)
  BY <1>3, <1>4, <1>6, <1>8, <1>9, <1>10 DEF OaDone, OaLive, OaStop
<1>12. CoupledOa(t, b, h)
  BY <1>4, <1>6, <1>8, <1>9, <1>11 DEF OaBefore, CoupledOa, SameContent, OaFaults
<1> QED BY <1>2, <1>5, <1>7, <1>12 DEF OaAfter

LEMMA OaEnds ==
  ASSUME NEW s, NEW m, NEW g, NEW ev, OaBefore(s, m, g, ev), ~s.finished, ev.e = "[DONE]"
  PROVE  OaAfter(s, m, g, ev)
<1>1. PICK b : b = ReadOpenAi(m, ev)
  OBVIOUS
<1>2. /\ WellRead(m) /\ WellRead(g) /\ OaLive(s, m, g) /\ m.ends = 0
      /\ ~m.failed /\ s.started \in BOOLEAN /\ g.ends = 0 /\ ~g.failed /\ ~g.cut
  BY DEF OaBefore, CoupledOa, OaAllowed, OaLive, Over, WellRead
<1>3. WellRead(b) /\ Same(b, m, {"ends"}) /\ b.ends = 1
  <2>1. b = End(m)
    BY <1>1, OpenAiReads
  <2> QED BY <1>2, <2>1, EndIs
<1>4. /\ b.text = m.text /\ b.think = m.think /\ b.calls = m.calls /\ b.mixed = m.mixed
      /\ b.stop = m.stop /\ b.blank = m.blank /\ b.cut = m.cut /\ b.read = m.read
      /\ b.started = m.started /\ b.failed = m.failed
  BY <1>3 DEF Same, Fields
<1>5. PICK r : r = OaFinalize(s)
  OBVIOUS
<1>6. OaPush(s, ev) = r
  BY <1>5 DEF OaPush
<1>7. CASE ~s.started
  <2>1. r = Says(s, <<>>)
    BY <1>5, <1>7 DEF OaFinalize
  <2>2. ~m.started
    BY <1>2, <1>7 DEF OaLive
  <2>3. Aside(s, m, b)
    BY <1>3, <1>4, <2>2 DEF Aside, Same
  <2> QED BY <1>1, <1>6, <2>1, <2>3, OaAside
<1>8. CASE s.started
  <2>1. g.started /\ m.started /\ Blocks(s, g) /\ OaStop(s, m)
    BY <1>2, <1>8 DEF OaLive
  <2>2. s.usage \in Bills
    BY ExtractIs DEF OaBefore, CoupledOa, WellRead
  <2>3. s.stop \in Stops
    BY <2>1 DEF OaStop, Stops, FinishToStop
  <2>4. PICK h : h = Reads("anthropic", g, r.out)
    OBVIOUS
  <2>5. /\ IsSeq(r.out) /\ Bye(s, g, h)
        /\ r.s.finished = TRUE /\ r.s.started = s.started
        /\ r.s.usage = s.usage /\ r.s.stop = s.stop
    BY <1>2, <1>5, <1>8, <2>1, <2>2, <2>3, <2>4, OaFinalizes
  <2>6. /\ WellRead(h) /\ h.ends = 1 /\ h.tokens.in = s.usage.unc /\ h.tokens.out = s.usage.out
        /\ (h.cut <=> s.stop = "max_tokens")
        /\ h.text = g.text /\ h.think = g.think /\ h.calls = g.calls /\ h.faults = g.faults
        /\ ~h.failed
    BY <1>2, <2>5 DEF Bye, Same, Fields
  <2>7. OaDone(r.s, b, h)
    BY <1>3, <1>4, <2>1, <2>5, <2>6 DEF OaDone, OaStop
  <2>8. CoupledOa(r.s, b, h)
    BY <1>2, <1>3, <1>4, <2>5, <2>6, <2>7 DEF OaBefore, CoupledOa, SameContent, OaFaults
  <2> QED BY <1>1, <1>6, <2>4, <2>5, <2>8 DEF OaAfter
<1> QED BY <1>7, <1>8

\* message_start, when it is due.
LEMMA OaStarts ==
  ASSUME NEW s, NEW m, NEW g, CoupledOa(s, m, g), ~s.finished, NEW use \in UsageObjects
  PROVE  LET r == [OaStart(s) EXCEPT !.s.usage = Capture(@, use)]
         IN \E h : /\ Heard("anthropic", g, r, h) /\ OaMid(r.s, m, h)
                   /\ r.s.usage = Capture(s.usage, use)
                   /\ r.s.started = TRUE /\ r.s.finished = s.finished
<1> DEFINE r == [OaStart(s) EXCEPT !.s.usage = Capture(@, use)]
<1>1. /\ WellRead(m) /\ WellRead(g) /\ OaLive(s, m, g) /\ DOMAIN s = OaFields
      /\ SameContent(m, g) /\ OaFaults(m, g) /\ s.started \in BOOLEAN
  BY DEF CoupledOa, OaLive, Blocks
<1>2. PICK u : u = Capture(s.usage, use)
  OBVIOUS
\* What is left to show of the message heard.
<1>3. ASSUME NEW h, WellRead(h), Same(h, g, {"started", "tokens"}), h.started = TRUE,
             Heard("anthropic", g, r, h), NEW t, r.s = t, Kept(t, s, {"started", "usage"}),
             t.started = TRUE, t.usage = u
      PROVE  OaMid(t, m, h) /\ t.finished = s.finished
  <2>1. /\ h.text = g.text /\ h.think = g.think /\ h.calls = g.calls /\ h.at = g.at
        /\ h.open = g.open /\ h.faults = g.faults /\ h.failed = g.failed /\ h.ends = g.ends
        /\ h.cut = g.cut
    BY <1>3 DEF Same, Fields
  <2>2. /\ DOMAIN t = OaFields /\ t.next = s.next /\ t.blk = s.blk /\ t.tools = s.tools
        /\ t.stop = s.stop /\ t.finished = s.finished
    BY <1>3 DEF Kept, OaFields
  <2>3. Blocks(t, h)
    BY <1>1, <2>1, <2>2 DEF OaLive, Blocks, Blk
  <2>4. OaTools(t, m, h)
    BY <1>1, <2>1, <2>2 DEF OaLive, OaTools, Distinct, CallBlock
  <2> QED BY <1>1, <1>3, <2>1, <2>2, <2>3, <2>4
          DEF OaMid, OaLive, SameContent, OaStop, OaFaults, Over
<1>4. CASE s.started
  <2> DEFINE t == [s EXCEPT !.usage = Capture(@, use)]
  <2>1. OaStart(s) = Says(s, <<>>)
    BY <1>4 DEF OaStart
  <2>2. DOMAIN r = {"s", "out"} /\ r.s = t /\ r.out = <<>>
    BY <2>1 DEF Says
  <2>3. Heard("anthropic", g, r, g)
    <3> HIDE DEF r, t
    <3>1. PICK none : none = <<>>
      OBVIOUS
    <3>2. IsSeq(none) /\ r.out = none
      BY <2>2, <3>1 DEF IsSeq
    <3>3. Reads("anthropic", g, none) = g
      BY <3>1, ReadsNone DEF Protocols
    <3> QED BY <2>2, <3>2, <3>3 DEF Heard
  <2>4. Kept(t, s, {"started", "usage"}) /\ t.started = TRUE /\ t.usage = u
    BY <1>1, <1>2, <1>4 DEF Kept, OaFields
  <2>5. g.started = TRUE /\ Same(g, g, {"started", "tokens"})
    BY <1>1, <1>4 DEF OaLive, Same, WellRead
  <2> HIDE DEF r, t
  <2>6. OaMid(t, m, g) /\ t.finished = s.finished
    BY <1>1, <1>3, <2>2, <2>3, <2>4, <2>5
  <2> QED BY <1>2, <2>2, <2>3, <2>4, <2>6 DEF r
<1>5. CASE ~s.started
  <2>0. PICK a : a = [s EXCEPT !.started = TRUE]
    OBVIOUS
  <2> DEFINE t == [a EXCEPT !.usage = Capture(@, use)]
  <2>1. PICK ev : ev = [e |-> "message_start",
                        use |-> [in |-> s.usage.unc, out |-> 0, cr |-> 0, cc |-> 0]]
    OBVIOUS
  <2>2. OaStart(s) = Says(a, <<ev>>)
    BY <1>5, <2>0, <2>1 DEF OaStart
  <2>3. DOMAIN r = {"s", "out"} /\ r.s = t /\ r.out = <<ev>>
    BY <2>2 DEF Says
  <2>4. ev.e = "message_start" /\ ev.use \in Started
    <3>1. s.usage \in Bills
      BY ExtractIs DEF CoupledOa, WellRead
    <3> QED BY <2>1, <3>1, ConverterAssumption DEF Bills, Started
  <2>5. PICK h : h = ReadAnthropic(g, ev)
    OBVIOUS
  <2> HIDE DEF r
  <2>6. Heard("anthropic", g, r, h)
    BY <2>3, <2>5, ReadsOne, ReadIs DEF Heard, Protocols
  <2>7. ~g.started /\ ~Over(g)
    BY <1>1, <1>5 DEF OaLive
  <2>8. WellRead(h) /\ Same(h, g, {"started", "tokens"}) /\ h.started = TRUE
    BY <1>1, <2>4, <2>5, <2>7, StartReads
  <2>9. Kept(t, s, {"started", "usage"}) /\ t.started = TRUE /\ t.usage = u
    BY <1>1, <1>2, <2>0 DEF Kept, OaFields
  <2> HIDE DEF t
  <2>10. OaMid(t, m, h) /\ t.finished = s.finished
    BY <1>3, <2>3, <2>6, <2>8, <2>9
  <2> QED BY <1>2, <2>3, <2>6, <2>9, <2>10 DEF r
<1> QED BY <1>1, <1>4, <1>5

LEMMA CaptureIs ==
  ASSUME NEW m, WellRead(m), NEW use \in UsageObjects, NEW u, u = Extract(m.read)
  PROVE  Capture(u, use) = Extract(IF Counts(use) THEN use ELSE m.read)
  BY ExtractIs DEF Capture

LEMMA OaChunk ==
  ASSUME NEW s, NEW m, NEW g, NEW ev, OaBefore(s, m, g, ev), ~s.finished, ev.e = "chunk"
  PROVE  OaAfter(s, m, g, ev) /\ OaPush(s, ev).s.usage = Capture(s.usage, ev.use)
<1>1. PICK ps, use : ps = ev.pieces /\ use = ev.use
  OBVIOUS
<1>2. GoodPieces(m, ps) /\ use \in UsageObjects /\ CoupledOa(s, m, g) /\ WellRead(m)
  BY <1>1 DEF OaBefore, OaAllowed, OaEvent, CoupledOa
<1>3. PICK b : b = ReadOpenAi(m, ev)
  OBVIOUS
<1>4. ~m.failed /\ ~Over(m) /\ m.ends = 0
  <2>1. ~m.failed /\ b.faults = {}
    BY <1>3 DEF OaBefore, CoupledOa, OaLive, OaAllowed
  <2>2. ~Over(m)
    BY <1>2, <1>3, <2>1, OpenAiReads, FaultStays
  <2> QED BY <1>2, <2>1, <2>2 DEF Over, WellRead
<1>5. PICK q : q = [OaStart(s) EXCEPT !.s.usage = Capture(@, use)]
  OBVIOUS
<1>6. PICK x : /\ Heard("anthropic", g, q, x) /\ OaMid(q.s, m, x)
               /\ q.s.usage = Capture(s.usage, use)
               /\ q.s.started = TRUE /\ q.s.finished = s.finished
  BY <1>2, <1>5, OaStarts
<1>7. PICK a, o : a = Fold("piece", m, ps) /\ o = Fold("oa", q, ps)
  OBVIOUS
<1>8. PICK h : Spoken(g, m, q, a, o, h)
  BY <1>2, <1>6, <1>7, OaPiecesAre
<1>9. OaPush(s, ev) = o
  <2>1. FoldLeft(OaPiece, q, ps) = o
    BY <1>7, OaPieces
  <2> QED BY <1>1, <1>5, <2>1 DEF OaPush
<1>10. b = ChunkEnd(a, use)
  BY <1>1, <1>3, <1>4, <1>7, OpenAiReads DEF ChunkRead
<1>11. /\ OaMid(o.s, a, h) /\ Heard("anthropic", g, o, h)
       /\ Same(a, m, Said) /\ Kept(o.s, q.s, {"next", "blk", "tools", "stop"})
  BY <1>8 DEF Spoken
<1>12. /\ WellRead(b) /\ Same(b, a, {"started", "read"}) /\ b.started = TRUE
       /\ b.read = IF Counts(use) THEN use ELSE a.read
  BY <1>2, <1>10, <1>11, ChunkEnds DEF OaMid
<1>13. /\ a.read = m.read /\ a.failed = m.failed /\ a.ends = m.ends
  BY <1>11 DEF Same, Fields, Said
<1>14. /\ b.text = a.text /\ b.think = a.think /\ b.calls = a.calls /\ b.at = a.at
       /\ b.latest = a.latest /\ b.mixed = a.mixed /\ b.stop = a.stop /\ b.blank = a.blank
       /\ b.cut = a.cut /\ b.failed = a.failed /\ b.ends = a.ends
  BY <1>12 DEF Same, Fields
<1>15. o.s.usage = q.s.usage /\ o.s.started = TRUE /\ o.s.finished = s.finished
  BY <1>6, <1>11 DEF Kept, OaFields
<1>16. o.s.usage = Extract(b.read)
  <2>1. s.usage = Extract(m.read)
    BY <1>2 DEF CoupledOa
  <2>2. Capture(s.usage, use) = Extract(IF Counts(use) THEN use ELSE m.read)
    BY <1>2, <2>1, CaptureIs
  <2> QED BY <1>6, <1>12, <1>13, <1>15, <2>2
<1>17. OaLive(o.s, b, h)
  BY <1>4, <1>11, <1>12, <1>13, <1>14, <1>15 DEF OaMid, OaLive, OaTools, OnlyCalls, OaStop
<1>18. CoupledOa(o.s, b, h)
  BY <1>2, <1>4, <1>11, <1>12, <1>13, <1>14, <1>15, <1>16, <1>17
     DEF OaMid, CoupledOa, SameContent, OaFaults
<1>19. OaAfter(s, m, g, ev)
  BY <1>3, <1>9, <1>11, <1>18 DEF OaAfter, Heard
<1>20. OaPush(s, ev).s.usage = Capture(s.usage, ev.use)
  BY <1>1, <1>6, <1>9, <1>15
<1> QED BY <1>19, <1>20

\* Every event keeps the three together.
LEMMA OaStep ==
  ASSUME NEW s, NEW m, NEW g, NEW ev, OaBefore(s, m, g, ev)
  PROVE  OaAfter(s, m, g, ev)
<1>1. CASE s.finished
  BY <1>1, OaOver
<1>2. CASE ~s.finished /\ ev.e = "garbage"
  <2>1. PICK b : b = ReadOpenAi(m, ev)
    OBVIOUS
  <2>2. b = m
    BY <1>2, <2>1, OpenAiReads
  <2>3. OaPush(s, ev) = Says(s, <<>>)
    BY <1>2 DEF OaPush
  <2>4. Aside(s, m, b)
    BY <2>2 DEF OaBefore, CoupledOa, Aside, Same
  <2> QED BY <2>1, <2>3, <2>4, OaAside
<1>3. CASE ~s.finished /\ ev.e # "garbage"
  BY <1>3, OaError, OaEnds, OaChunk DEF OaBefore, OaAllowed, OaEvent
<1> QED BY <1>1, <1>2, <1>3

-----------------------------------------------------------------------------
(***************************************************************************)
(* From OpenAI to Responses: what OarStreamState knows (s) of the message   *)
(* the provider has sent (m) and of the one the client has (g).            *)
(***************************************************************************)
OarFields == {"started", "finished", "textIx", "text", "tools", "next", "usage", "finish"}
OarKept(t, s, F) == DOMAIN t = OarFields /\ \A f \in OarFields \ F : t[f] = s[f]

\* The item of a call: its index, and what has been said of it.
CallAt(g, t, id) ==
  /\ DOMAIN t = {"i", "id", "size"} /\ t.i \in DOMAIN g.at /\ t.id = id
  /\ g.at[t.i] = OarCallItem(t)

\* Every item of the client is the text or a call, and no two are the same.
OarItems(s, m, g) ==
  /\ DOMAIN s = OarFields /\ Row(DOMAIN g.at, s.next)
  /\ OnlyCalls(m) /\ DOMAIN s.tools = DOMAIN m.at
  /\ s.text = m.text /\ (s.textIx = Nothing => s.text = 0)
  /\ s.textIx # Nothing => s.textIx \in DOMAIN g.at /\ g.at[s.textIx] = OarTextItem(s)
  /\ \A i \in DOMAIN m.at : CallAt(g, s.tools[i], m.at[i].id)
  /\ \A i, j \in DOMAIN m.at : s.tools[i].i = s.tools[j].i => i = j
  /\ \A n \in DOMAIN g.at : n = s.textIx \/ \E i \in DOMAIN m.at : s.tools[i].i = n

OarStop(s, m) ==
  /\ m.stop \in {"none", "stop", "length", "content_filter", "tool_calls"}
  /\ m.stop \in {"length", "content_filter"} => m.cut
  /\ s.finish = IF m.stop = "none" THEN "" ELSE m.stop

\* Reasoning is not told.
OarSame(m, g) == g.text = m.text /\ g.calls = m.calls /\ g.think = 0

OarMid(s, m, g) ==
  /\ WellRead(m) /\ WellRead(g) /\ OarSame(m, g) /\ OarItems(s, m, g) /\ OarStop(s, m)
  /\ g.faults = {} /\ g.shut = {} /\ g.started /\ ~Over(g) /\ ~g.cut /\ g.read = NoReport

OarSpoken(g0, m, r, b, o, h) ==
  /\ OarMid(o.s, b, h) /\ Heard("responses", g0, o, h) /\ Same(b, m, Said)
  /\ OarKept(o.s, r.s, {"textIx", "text", "tools", "next", "finish"})

\* An item is added.
Added(g0, g, o, n, type, id, h) ==
  /\ Heard("responses", g0, o, h) /\ WellRead(h) /\ Same(h, g, {"at", "calls"})
  /\ h.at = With(g.at, n, [type |-> type, id |-> id, size |-> 0])
  /\ h.calls = IF type = "tool" THEN With(g.calls, id, 0) ELSE g.calls

LEMMA AddIs ==
  ASSUME NEW g0, NEW q, NEW g, Heard("responses", g0, q, g), WellRead(g), ~Over(g), g.started,
         NEW n, Row(DOMAIN g.at, n), NEW type \in Kinds, NEW id \in Calls \cup {NoCall},
         type = "tool" => id \in Calls
  PROVE  \E h : Added(g0, g, Emit(q, [e |-> "item_added", i |-> n, type |-> type, id |-> id]),
                      n, type, id, h)
<1>1. PICK ev : ev = [e |-> "item_added", i |-> n, type |-> type, id |-> id]
  OBVIOUS
<1>2. PICK o : o = Emit(q, ev)
  OBVIOUS
<1>3. PICK h : h = ReadResponses(g, ev)
  OBVIOUS
<1>4. Heard("responses", g0, o, h)
  BY <1>2, <1>3, EmitIs, ReadIs DEF Protocols
<1>5. Cardinality(DOMAIN g.at) = n
  BY RowIs
<1>6. h = Begin(g, n, type, id)
  BY <1>1, <1>3, <1>5 DEF ReadResponses
<1>7. WellRead(h) /\ Same(h, g, {"at", "calls"})
      /\ h.at = With(g.at, n, [type |-> type, id |-> id, size |-> 0])
      /\ h.calls = IF type = "tool" THEN With(g.calls, id, 0) ELSE g.calls
  BY <1>6, BeginIs
<1>8. Added(g0, g, o, n, type, id, h)
  BY <1>4, <1>7 DEF Added
<1> QED BY <1>1, <1>2, <1>8

\* An item grows.
Extended(g0, g, o, i, f, h) ==
  /\ Heard("responses", g0, o, h) /\ WellRead(h) /\ Same(h, g, {"at", "text", "think", "calls"})
  /\ h.at = [g.at EXCEPT ![i].size = @ + f] /\ Grown(g, g.at[i].type, g.at[i].id, f, h)

LEMMA ExtendIs ==
  ASSUME NEW g0, NEW q, NEW g, Heard("responses", g0, q, g), WellRead(g), ~Over(g),
         NEW i \in DOMAIN g.at, NEW f \in Nat
  PROVE  \E h : Extended(g0, g, Emit(q, [e |-> "item_delta", i |-> i, type |-> g.at[i].type,
                                         f |-> f]), i, f, h)
<1>1. PICK ev : ev = [e |-> "item_delta", i |-> i, type |-> g.at[i].type, f |-> f]
  OBVIOUS
<1>2. PICK o : o = Emit(q, ev)
  OBVIOUS
<1>3. PICK h : h = ReadResponses(g, ev)
  OBVIOUS
<1>4. Heard("responses", g0, o, h)
  BY <1>2, <1>3, EmitIs, ReadIs DEF Protocols
<1>5. h = Grow(g, i, f)
  BY <1>1, <1>3 DEF ReadResponses
<1>6. /\ WellRead(h) /\ Same(h, g, {"at", "text", "think", "calls"})
      /\ h.at = [g.at EXCEPT ![i].size = @ + f]
      /\ h.text = IF g.at[i].type = "text" THEN g.text + f ELSE g.text
      /\ h.think = IF g.at[i].type = "think" THEN g.think + f ELSE g.think
      /\ h.calls = IF g.at[i].type = "tool" THEN [g.calls EXCEPT ![g.at[i].id] = @ + f] ELSE g.calls
  BY <1>5, GrowIs
<1>7. Extended(g0, g, o, i, f, h)
  BY <1>4, <1>6 DEF Extended, Grown
<1> QED BY <1>1, <1>2, <1>7

LEMMA OarItemsStay ==
  ASSUME NEW s, NEW m, NEW g, OarItems(s, m, g), NEW t, DOMAIN t = OarFields,
         t.next = s.next, t.textIx = s.textIx, t.text = s.text, t.tools = s.tools,
         NEW b, b.at = m.at, b.text = m.text, b.calls = m.calls, NEW h, h.at = g.at
  PROVE  OarItems(t, b, h)
<1>1. OnlyCalls(b) /\ OarTextItem(t) = OarTextItem(s)
  BY DEF OarItems, OnlyCalls, OarTextItem
<1>2. \A x, id : CallAt(h, x, id) <=> CallAt(g, x, id)
  BY DEF CallAt
<1> QED BY <1>1, <1>2 DEF OarItems

LEMMA OarFinishes ==
  ASSUME NEW g0, NEW m, NEW r, NEW g, OarMid(r.s, m, g), Heard("responses", g0, r, g),
         NEW p, Finishes(p)
  PROVE  \E h : OarSpoken(g0, m, r, ReadPiece(m, p), OarPiece(r, p), h)
<1>1. PICK s : s = r.s
  OBVIOUS
<1>2. PICK t, o : /\ t = IF p.why = "" THEN s ELSE [s EXCEPT !.finish = p.why]
                  /\ o = OarPiece(r, p)
  OBVIOUS
<1>3. DOMAIN s = OarFields
  BY <1>1 DEF OarMid, OarItems
<1>4. o.s = t /\ o.out = r.out /\ DOMAIN o = {"s", "out"}
  BY <1>1, <1>2 DEF OarPiece, Finishes, Heard
<1>5. OarKept(t, s, {"finish"}) /\ t.finish = IF p.why = "" THEN s.finish ELSE p.why
  BY <1>2, <1>3 DEF OarKept, OarFields
<1>6. PICK b : b = ReadPiece(m, p)
  OBVIOUS
<1>7. /\ WellRead(b) /\ Same(b, m, {"stop", "blank", "cut"})
      /\ b.stop = IF p.why = "" THEN m.stop ELSE p.why
      /\ (b.cut <=> m.cut \/ p.why \in CutReasons)
  <2>1. b = Stop(m, p.why)
    BY <1>6, FinishIs
  <2>2. WellRead(m)
    BY DEF OarMid
  <2> QED BY <2>1, <2>2, StopIs
<1>8. b.text = m.text /\ b.calls = m.calls /\ b.at = m.at
  BY <1>7 DEF Same, Fields
<1>9. OarStop(t, b)
  <2>1. p.why \in {"stop", "length", "content_filter", "tool_calls", ""}
    BY DEF Finishes
  <2> QED BY <1>1, <1>5, <1>7, <2>1 DEF OarMid, OarStop, CutReasons
<1>10. OarItems(t, b, g)
  <2>1. OarItems(s, m, g)
    BY <1>1 DEF OarMid
  <2>2. /\ DOMAIN t = OarFields /\ t.next = s.next /\ t.textIx = s.textIx /\ t.text = s.text
        /\ t.tools = s.tools
    BY <1>5 DEF OarKept, OarFields
  <2> QED BY <1>8, <2>1, <2>2, OarItemsStay
<1>11. OarMid(t, b, g)
  BY <1>7, <1>8, <1>9, <1>10 DEF OarMid, OarSame
<1>12. Heard("responses", g0, o, g)
  BY <1>4, HeardStays
<1>13. OarSpoken(g0, m, r, b, o, g)
  BY <1>1, <1>4, <1>5, <1>7, <1>11, <1>12 DEF OarSpoken, OarKept, Same, Said
<1> QED BY <1>2, <1>6, <1>13

LEMMA OarMidStays ==
  ASSUME NEW s, NEW m, NEW g, OarMid(s, m, g), NEW b, WellRead(b), b.text = m.text,
         b.calls = m.calls, b.at = m.at, b.stop = m.stop, b.cut = m.cut
  PROVE  OarMid(s, b, g)
<1>1. OarItems(s, m, g)
  BY DEF OarMid
<1>2. DOMAIN s = OarFields
  BY <1>1 DEF OarItems
<1>3. OarItems(s, b, g)
  BY <1>1, <1>2, OarItemsStay
<1> QED BY <1>3 DEF OarMid, OarSame, OarStop

\* The text has an item.
OarTextAt(g0, r, m, q, x) ==
  /\ OarMid(q.s, m, x) /\ Heard("responses", g0, q, x) /\ q.s.textIx # Nothing
  /\ OarKept(q.s, r.s, {"textIx", "next"})

LEMMA OarTextBegins ==
  ASSUME NEW g0, NEW m, NEW r, NEW g, OarMid(r.s, m, g), Heard("responses", g0, r, g)
  PROVE  LET n == r.s.next
             q == IF r.s.textIx # Nothing THEN r
                  ELSE Emit([r EXCEPT !.s.textIx = n, !.s.next = n + 1],
                            [e |-> "item_added", i |-> n, type |-> "text", id |-> NoCall])
         IN \E x : OarTextAt(g0, r, m, q, x)
<1>1. CASE r.s.textIx # Nothing
  <2>1. OarKept(r.s, r.s, {"textIx", "next"})
    BY DEF OarKept, OarMid, OarItems
  <2>2. OarTextAt(g0, r, m, r, g)
    BY <1>1, <2>1 DEF OarTextAt
  <2> QED BY <1>1, <2>2
<1>2. CASE r.s.textIx = Nothing
  <2>1. PICK s, n : s = r.s /\ n = s.next
    OBVIOUS
  <2>2. PICK y : y = [r EXCEPT !.s.textIx = n, !.s.next = n + 1]
    OBVIOUS
  <2>3. PICK t : t = [s EXCEPT !.textIx = n, !.next = n + 1]
    OBVIOUS
  <2>4. y.s = t /\ y.out = r.out /\ DOMAIN y = {"s", "out"}
    BY <2>1, <2>2, <2>3 DEF Heard
  <2>5. Heard("responses", g0, y, g)
    BY <2>4, HeardStays
  <2>6. OarItems(s, m, g) /\ WellRead(g) /\ ~Over(g) /\ g.started /\ Row(DOMAIN g.at, n)
        /\ DOMAIN s = OarFields
    BY <2>1 DEF OarMid, OarItems
  <2>7. "text" \in Kinds /\ "text" # "tool"
    BY DEF Kinds
  <2>8. PICK ev : ev = [e |-> "item_added", i |-> n, type |-> "text", id |-> NoCall]
    OBVIOUS
  <2>9. PICK q : q = Emit(y, ev)
    OBVIOUS
  <2>10. PICK x : Added(g0, g, q, n, "text", NoCall, x)
    BY <2>5, <2>6, <2>7, <2>8, <2>9, AddIs
  <2>11. q.s = t
    BY <2>4, <2>5, <2>9, EmitIs DEF Protocols
  <2>12. /\ DOMAIN t = OarFields /\ t.textIx = n /\ t.next = n + 1 /\ t.text = s.text
         /\ t.tools = s.tools /\ t.finish = s.finish /\ OarKept(t, s, {"textIx", "next"})
    BY <2>3, <2>6 DEF OarKept, OarFields
  <2>13. /\ Heard("responses", g0, q, x) /\ WellRead(x) /\ Same(x, g, {"at", "calls"})
         /\ x.at = With(g.at, n, [type |-> "text", id |-> NoCall, size |-> 0])
         /\ x.calls = g.calls
    BY <2>7, <2>10 DEF Added
  <2>14. n \notin DOMAIN g.at /\ n # Nothing /\ Row(DOMAIN g.at \cup {n}, n + 1)
    BY <2>6, RowIs DEF Row, Nothing
  <2>15. /\ DOMAIN x.at = DOMAIN g.at \cup {n}
         /\ x.at[n] = [type |-> "text", id |-> NoCall, size |-> 0]
         /\ \A i \in DOMAIN g.at : x.at[i] = g.at[i]
    BY <2>13, <2>14 DEF With
  <2>16. \A z, id : CallAt(g, z, id) => CallAt(x, z, id)
    BY <2>15 DEF CallAt
  <2>17. x.at[n] = OarTextItem(t)
    BY <1>2, <2>1, <2>6, <2>12, <2>15 DEF OarItems, OarTextItem
  <2>18. \A i \in DOMAIN x.at : i = t.textIx \/ \E j \in DOMAIN m.at : t.tools[j].i = i
    <3>1. Nothing \notin DOMAIN g.at
      BY <2>6 DEF Row, Nothing
    <3>2. \A i \in DOMAIN g.at : \E j \in DOMAIN m.at : s.tools[j].i = i
      BY <1>2, <2>1, <2>6, <3>1 DEF OarItems
    <3> QED BY <2>12, <2>15, <3>2
  <2>19. OarItems(t, m, x)
    BY <1>2, <2>1, <2>6, <2>12, <2>14, <2>15, <2>16, <2>17, <2>18 DEF OarItems
  <2>20. /\ x.text = g.text /\ x.think = g.think /\ x.faults = g.faults /\ x.shut = g.shut
         /\ x.started = g.started /\ x.failed = g.failed /\ x.ends = g.ends /\ x.cut = g.cut
         /\ x.read = g.read
    BY <2>13 DEF Same, Fields
  <2>21. OarMid(t, m, x)
    BY <2>1, <2>12, <2>13, <2>19, <2>20 DEF OarMid, OarSame, OarStop, Over
  <2>22. OarTextAt(g0, r, m, q, x)
    BY <2>1, <2>11, <2>12, <2>13, <2>14, <2>21 DEF OarTextAt
  <2> QED BY <1>2, <2>1, <2>2, <2>8, <2>9, <2>22
<1> QED BY <1>1, <1>2

LEMMA OarTexts ==
  ASSUME NEW g0, NEW m, NEW r, NEW g, OarMid(r.s, m, g), Heard("responses", g0, r, g),
         NEW p, Content(p)
  PROVE  \E h : OarSpoken(g0, m, r, ReadPiece(m, p), OarPiece(r, p), h)
<1>1. PICK b, o : b = ReadPiece(m, p) /\ o = OarPiece(r, p)
  OBVIOUS
<1>2. p.p \in {"text", "think"} /\ p.f \in Nat
  BY DEF Content
<1>3. /\ WellRead(b) /\ Same(b, m, {"text", "think", "latest"})
      /\ b.text = IF p.p = "text" THEN m.text + p.f ELSE m.text
  BY <1>1, ContentIs DEF OarMid
<1>4. b.calls = m.calls /\ b.at = m.at /\ b.stop = m.stop /\ b.cut = m.cut /\ Same(b, m, Said)
  BY <1>3 DEF Same, Fields, Said
<1>5. CASE p.p = "think" \/ p.f = 0
  <2>1. o = r
    BY <1>1, <1>2, <1>5 DEF OarPiece, OarText
  <2>2. b.text = m.text
    BY <1>2, <1>3, <1>5 DEF OarMid, WellRead
  <2>3. OarMid(r.s, b, g)
    BY <1>3, <1>4, <2>2, OarMidStays
  <2>4. OarKept(r.s, r.s, {"textIx", "text", "tools", "next", "finish"})
    BY DEF OarKept, OarMid, OarItems
  <2>5. OarSpoken(g0, m, r, b, o, g)
    BY <1>4, <2>1, <2>3, <2>4 DEF OarSpoken
  <2> QED BY <1>1, <2>5
<1>6. CASE p.p = "text" /\ p.f # 0
  <2> DEFINE n == r.s.next
             q == IF r.s.textIx # Nothing THEN r
                  ELSE Emit([r EXCEPT !.s.textIx = n, !.s.next = n + 1],
                            [e |-> "item_added", i |-> n, type |-> "text", id |-> NoCall])
  <2>1. o = Emit([q EXCEPT !.s.text = @ + p.f],
                 [e |-> "item_delta", i |-> q.s.textIx, type |-> "text", f |-> p.f])
    BY <1>1, <1>6 DEF OarPiece, OarText
  <2>2. PICK x : OarTextAt(g0, r, m, q, x)
    BY OarTextBegins
  <2> HIDE DEF q, n
  <2>3. PICK f, i, s : f = p.f /\ s = q.s /\ i = s.textIx
    OBVIOUS
  <2>4. OarMid(s, m, x) /\ Heard("responses", g0, q, x) /\ i # Nothing
        /\ OarKept(s, r.s, {"textIx", "next"})
    BY <2>2, <2>3 DEF OarTextAt
  <2>5. PICK y, t : y = [q EXCEPT !.s.text = @ + f] /\ t = [s EXCEPT !.text = @ + f]
    OBVIOUS
  <2>6. y.s = t /\ y.out = q.out /\ DOMAIN y = {"s", "out"}
    BY <2>3, <2>4, <2>5 DEF Heard
  <2>7. Heard("responses", g0, y, x)
    BY <2>4, <2>6, HeardStays
  <2>8. OarItems(s, m, x) /\ WellRead(x) /\ ~Over(x) /\ DOMAIN s = OarFields
    BY <2>4 DEF OarMid, OarItems
  <2>9. i \in DOMAIN x.at /\ x.at[i] = OarTextItem(s)
    BY <2>3, <2>4, <2>8 DEF OarItems
  <2>10. x.at[i].type = "text"
    BY <2>9 DEF OarTextItem
  <2>11. o = Emit(y, [e |-> "item_delta", i |-> i, type |-> x.at[i].type, f |-> f])
    BY <2>1, <2>3, <2>5, <2>10
  <2>12. PICK h : Extended(g0, x, o, i, f, h)
    BY <1>2, <2>3, <2>7, <2>8, <2>9, <2>11, ExtendIs
  <2>13. o.s = t
    BY <2>6, <2>7, <2>11, EmitIs DEF Protocols
  <2>14. /\ DOMAIN t = OarFields /\ t.textIx = i /\ t.next = s.next /\ t.text = s.text + f
         /\ t.tools = s.tools /\ t.finish = s.finish /\ OarKept(t, s, {"text"})
    BY <2>3, <2>5, <2>8 DEF OarKept, OarFields
  <2>15. /\ Heard("responses", g0, o, h) /\ WellRead(h)
         /\ Same(h, x, {"at", "text", "think", "calls"})
         /\ h.at = [x.at EXCEPT ![i].size = @ + f] /\ Grown(x, "text", x.at[i].id, f, h)
    BY <2>10, <2>12 DEF Extended
  <2>16. DOMAIN h.at = DOMAIN x.at /\ h.at[i] = OarTextItem(t)
         /\ \A j \in DOMAIN x.at : j # i => h.at[j] = x.at[j]
    BY <2>9, <2>14, <2>15 DEF OarTextItem
  <2>17. \A j \in DOMAIN m.at : CallAt(h, t.tools[j], m.at[j].id)
    <3> SUFFICES ASSUME NEW j \in DOMAIN m.at PROVE CallAt(h, t.tools[j], m.at[j].id)
      OBVIOUS
    <3>1. CallAt(x, s.tools[j], m.at[j].id)
      BY <2>8 DEF OarItems
    <3>2. s.tools[j].i # i
      BY <2>10, <3>1 DEF CallAt, OarCallItem
    <3> QED BY <2>14, <2>16, <3>1, <3>2 DEF CallAt
  <2>18. b.text = s.text + f
    BY <1>3, <1>6, <2>3, <2>8 DEF OarItems
  <2>19. OarItems(t, b, h)
    BY <1>4, <2>3, <2>4, <2>8, <2>9, <2>14, <2>16, <2>17, <2>18 DEF OarItems, OnlyCalls
  <2>20. /\ h.faults = x.faults /\ h.shut = x.shut /\ h.started = x.started
         /\ h.failed = x.failed /\ h.ends = x.ends /\ h.cut = x.cut /\ h.read = x.read
    BY <2>15 DEF Same, Fields
  <2>21. h.text = x.text + f /\ h.calls = x.calls /\ h.think = x.think
    BY <2>15 DEF Grown
  <2>22. OarSame(b, h)
    <3>1. x.text = s.text
      BY <2>4, <2>8 DEF OarMid, OarSame, OarItems
    <3> QED BY <1>4, <2>4, <2>18, <2>21, <3>1 DEF OarMid, OarSame
  <2>23. OarStop(t, b)
    BY <1>4, <2>4, <2>14 DEF OarMid, OarStop
  <2>24. OarMid(t, b, h)
    BY <1>3, <2>4, <2>15, <2>19, <2>20, <2>22, <2>23 DEF OarMid, Over
  <2>25. OarKept(t, r.s, {"textIx", "text", "tools", "next", "finish"})
    BY <2>4, <2>14 DEF OarKept
  <2>26. OarSpoken(g0, m, r, b, o, h)
    BY <1>4, <2>13, <2>15, <2>24, <2>25 DEF OarSpoken
  <2> QED BY <1>1, <2>26
<1> QED BY <1>2, <1>5, <1>6

\* A fragment of the arguments of a call the client has an item for.
LEMMA OarCallGrows ==
  ASSUME NEW g0, NEW m, NEW q, NEW g, OarMid(q.s, m, g), Heard("responses", g0, q, g),
         NEW i \in DOMAIN m.at, NEW f \in Nat, NEW b, WellRead(b), OnlyCalls(b),
         Same(b, m, {"at", "calls", "latest", "mixed"}),
         b.at = [m.at EXCEPT ![i].size = @ + f],
         b.calls = [m.calls EXCEPT ![m.at[i].id] = @ + f],
         NEW o, o = IF f = 0 THEN q
                    ELSE Emit([q EXCEPT !.s.tools[i].size = @ + f],
                              [e |-> "item_delta", i |-> q.s.tools[i].i, type |-> "tool", f |-> f])
  PROVE  \E h : OarMid(o.s, b, h) /\ Heard("responses", g0, o, h) /\ OarKept(o.s, q.s, {"tools"})
<1>1. /\ b.text = m.text /\ b.stop = m.stop /\ b.cut = m.cut
  BY DEF Same, Fields
<1>2. /\ WellRead(m) /\ WellRead(g) /\ ~Over(g) /\ OarItems(q.s, m, g)
      /\ DOMAIN q.s = OarFields
  BY DEF OarMid, OarItems
<1>3. PICK id : id = m.at[i].id
  OBVIOUS
<1>4. m.at[i].type = "tool" /\ id \in DOMAIN m.calls
  BY <1>2, <1>3 DEF OarItems, OnlyCalls
<1>5. CASE f = 0
  <2>1. b.at = m.at
    <3>1. m.at \in [DOMAIN m.at -> Items]
      BY <1>2 DEF WellRead
    <3>2. m.at[i].size + 0 = m.at[i].size
      BY <3>1 DEF Items
    <3> QED BY <1>5, <3>1, <3>2 DEF Items
  <2>2. b.calls = m.calls
    BY <1>2, <1>3, <1>4, <1>5 DEF WellRead
  <2>3. OarMid(q.s, b, g)
    BY <1>1, <2>1, <2>2, OarMidStays
  <2>4. OarKept(q.s, q.s, {"tools"})
    BY <1>2 DEF OarKept
  <2> QED BY <1>5, <2>3, <2>4
<1>6. CASE f # 0
  <2>1. PICK s, c : s = q.s /\ c = s.tools[i]
    OBVIOUS
  <2>2. PICK y, t : y = [q EXCEPT !.s.tools[i].size = @ + f] /\ t = [s EXCEPT !.tools[i].size = @ + f]
    OBVIOUS
  <2>3. y.s = t /\ y.out = q.out /\ DOMAIN y = {"s", "out"}
    BY <2>1, <2>2 DEF Heard
  <2>4. Heard("responses", g0, y, g)
    BY <2>3, HeardStays
  <2>5. CallAt(g, c, id)
    BY <1>2, <1>3, <2>1 DEF OarItems
  <2>6. PICK k : k = c.i
    OBVIOUS
  <2>7. k \in DOMAIN g.at /\ g.at[k].type = "tool" /\ g.at[k].id = id /\ g.at[k].size = c.size
    BY <2>5, <2>6 DEF CallAt, OarCallItem
  <2>8. o = Emit(y, [e |-> "item_delta", i |-> k, type |-> g.at[k].type, f |-> f])
    BY <1>6, <2>1, <2>2, <2>6, <2>7
  <2>9. PICK h : Extended(g0, g, o, k, f, h)
    BY <1>2, <2>4, <2>7, <2>8, ExtendIs
  <2>10. o.s = t
    BY <2>3, <2>4, <2>8, EmitIs DEF Protocols
  <2>11. /\ DOMAIN t = OarFields /\ t.textIx = s.textIx /\ t.next = s.next /\ t.text = s.text
         /\ t.finish = s.finish /\ OarKept(t, s, {"tools"})
         /\ t.tools = [s.tools EXCEPT ![i].size = @ + f]
    BY <1>2, <2>1, <2>2 DEF OarKept, OarFields
  <2>12. DOMAIN s.tools = DOMAIN m.at
    BY <1>2, <2>1 DEF OarItems
  <2>13. /\ DOMAIN t.tools = DOMAIN m.at /\ t.tools[i] = [c EXCEPT !.size = @ + f]
         /\ \A j \in DOMAIN m.at : j # i => t.tools[j] = s.tools[j]
    BY <2>1, <2>11, <2>12
  <2>14. /\ DOMAIN t.tools[i] = {"i", "id", "size"} /\ t.tools[i].i = k /\ t.tools[i].id = id
         /\ t.tools[i].size = c.size + f
    BY <2>5, <2>6, <2>13 DEF CallAt
  <2>15. /\ Heard("responses", g0, o, h) /\ WellRead(h)
         /\ Same(h, g, {"at", "text", "think", "calls"})
         /\ h.at = [g.at EXCEPT ![k].size = @ + f] /\ Grown(g, "tool", id, f, h)
    BY <2>7, <2>9 DEF Extended
  <2>16. g.at[k] = [type |-> "tool", id |-> id, size |-> c.size]
    BY <2>5, <2>6 DEF CallAt, OarCallItem
  <2>17. DOMAIN h.at = DOMAIN g.at /\ h.at[k] = [type |-> "tool", id |-> id, size |-> c.size + f]
         /\ \A j \in DOMAIN g.at : j # k => h.at[j] = g.at[j]
    BY <2>7, <2>15, <2>16
  <2>18. /\ DOMAIN b.at = DOMAIN m.at /\ \A j \in DOMAIN m.at : b.at[j].id = m.at[j].id
    <3>1. m.at \in [DOMAIN m.at -> Items]
      BY <1>2 DEF WellRead
    <3> QED BY <3>1 DEF Items
  <2>19. \A j \in DOMAIN m.at : t.tools[j].i = s.tools[j].i
    BY <2>1, <2>6, <2>13, <2>14
  <2>20. \A j \in DOMAIN m.at : CallAt(h, t.tools[j], m.at[j].id)
    <3>1. CallAt(h, t.tools[i], id)
      BY <2>7, <2>14, <2>17 DEF CallAt, OarCallItem
    <3>2. ASSUME NEW j \in DOMAIN m.at, j # i PROVE CallAt(h, t.tools[j], m.at[j].id)
      <4>1. CallAt(g, s.tools[j], m.at[j].id)
        BY <1>2, <2>1 DEF OarItems
      <4>2. s.tools[j].i # k
        BY <1>2, <2>1, <2>6, <3>2 DEF OarItems
      <4> QED BY <2>13, <2>17, <3>2, <4>1, <4>2 DEF CallAt
    <3> QED BY <1>3, <3>1, <3>2
  <2>21. t.textIx # Nothing => t.textIx \in DOMAIN h.at /\ h.at[t.textIx] = OarTextItem(t)
    <3>1. ASSUME t.textIx # Nothing
          PROVE  t.textIx \in DOMAIN h.at /\ h.at[t.textIx] = OarTextItem(t)
      <4>1. s.textIx \in DOMAIN g.at /\ g.at[s.textIx] = OarTextItem(s)
        BY <1>2, <2>1, <2>11, <3>1 DEF OarItems
      <4>2. s.textIx # k
        BY <2>7, <4>1 DEF OarTextItem
      <4> QED BY <2>11, <2>17, <4>1, <4>2 DEF OarTextItem
    <3> QED BY <3>1
  <2>22. /\ \A j, l \in DOMAIN m.at : t.tools[j].i = t.tools[l].i => j = l
         /\ \A n \in DOMAIN h.at : n = t.textIx \/ \E j \in DOMAIN m.at : t.tools[j].i = n
    BY <1>2, <2>1, <2>11, <2>17, <2>19 DEF OarItems
  <2>23. OarItems(t, b, h)
    BY <1>1, <1>2, <2>1, <2>11, <2>13, <2>17, <2>18, <2>20, <2>21, <2>22 DEF OarItems
  <2>24. /\ h.faults = g.faults /\ h.shut = g.shut /\ h.started = g.started
         /\ h.failed = g.failed /\ h.ends = g.ends /\ h.cut = g.cut /\ h.read = g.read
    BY <2>15 DEF Same, Fields
  <2>25. OarSame(b, h)
    BY <1>1, <1>3, <2>15 DEF OarMid, OarSame, Grown
  <2>26. OarStop(t, b)
    BY <1>1, <2>1, <2>11 DEF OarMid, OarStop
  <2>27. OarMid(t, b, h)
    BY <2>15, <2>23, <2>24, <2>25, <2>26 DEF OarMid, Over
  <2> QED BY <2>1, <2>10, <2>11, <2>15, <2>27
<1> QED BY <1>5, <1>6

LEMMA OarKnownCall ==
  ASSUME NEW g0, NEW m, NEW r, NEW g, OarMid(r.s, m, g), Heard("responses", g0, r, g),
         NEW p, KnownCall(m, p)
  PROVE  \E h : OarSpoken(g0, m, r, ReadPiece(m, p), OarPiece(r, p), h)
<1>1. PICK b, o : b = ReadPiece(m, p) /\ o = OarPiece(r, p)
  OBVIOUS
<1>2. PICK i, f : i = p.i /\ f = p.f
  OBVIOUS
<1>3. p.p = "tool" /\ f \in Nat /\ i \in DOMAIN m.at /\ i \in DOMAIN r.s.tools
  BY <1>2 DEF KnownCall, OarMid, OarItems
<1>4. o = IF f = 0 THEN r
          ELSE Emit([r EXCEPT !.s.tools[i].size = @ + f],
                    [e |-> "item_delta", i |-> r.s.tools[i].i, type |-> "tool", f |-> f])
  BY <1>1, <1>2, <1>3 DEF OarPiece, OarTool
<1>5. /\ WellRead(b) /\ OnlyCalls(b) /\ Same(b, m, {"at", "calls", "mixed"})
      /\ b.at = [m.at EXCEPT ![i].size = @ + f]
      /\ b.calls = [m.calls EXCEPT ![m.at[i].id] = @ + f]
  BY <1>1, <1>2, KnownCallIs DEF OarMid, OarItems
<1>6. Same(b, m, {"at", "calls", "latest", "mixed"}) /\ Same(b, m, Said)
  BY <1>5 DEF Same, Said
<1>7. PICK h : OarMid(o.s, b, h) /\ Heard("responses", g0, o, h) /\ OarKept(o.s, r.s, {"tools"})
  BY <1>3, <1>4, <1>5, <1>6, OarCallGrows
<1>8. OarSpoken(g0, m, r, b, o, h)
  BY <1>6, <1>7 DEF OarSpoken, OarKept
<1> QED BY <1>1, <1>8

\* The item of a new call.
OarCallBegun(g0, r, a, q, x) ==
  /\ OarMid(q.s, a, x) /\ Heard("responses", g0, q, x) /\ OarKept(q.s, r.s, {"tools", "next"})

LEMMA OarCallBegins ==
  ASSUME NEW g0, NEW m, NEW r, NEW g, OarMid(r.s, m, g), Heard("responses", g0, r, g),
         NEW i, i \notin DOMAIN m.at, NEW id \in Calls \ DOMAIN m.calls,
         NEW a, a = Begin(m, i, "tool", id)
  PROVE  LET n == r.s.next
             q == Emit([r EXCEPT !.s.next = n + 1,
                                 !.s.tools = With(@, i, [i |-> n, id |-> id, size |-> 0])],
                       [e |-> "item_added", i |-> n, type |-> "tool", id |-> id])
         IN \E x : OarCallBegun(g0, r, a, q, x)
<1>1. PICK s, n : s = r.s /\ n = s.next
  OBVIOUS
<1>2. PICK c : c = [i |-> n, id |-> id, size |-> 0]
  OBVIOUS
<1>3. PICK y : y = [r EXCEPT !.s.next = n + 1, !.s.tools = With(@, i, c)]
  OBVIOUS
<1>4. PICK t : t = [s EXCEPT !.next = n + 1, !.tools = With(@, i, c)]
  OBVIOUS
<1>5. /\ WellRead(m) /\ WellRead(g) /\ OarItems(s, m, g) /\ ~Over(g) /\ g.started
      /\ Row(DOMAIN g.at, n) /\ DOMAIN s = OarFields
  BY <1>1 DEF OarMid, OarItems
<1>6. /\ DOMAIN t = OarFields /\ t.textIx = s.textIx /\ t.next = n + 1 /\ t.text = s.text
      /\ t.tools = With(s.tools, i, c) /\ t.finish = s.finish /\ OarKept(t, s, {"tools", "next"})
  BY <1>4, <1>5 DEF OarKept, OarFields
<1>7. y.s = t /\ y.out = r.out /\ DOMAIN y = {"s", "out"}
  <2>1. y.s = [[s EXCEPT !.next = n + 1] EXCEPT !.tools = With([s EXCEPT !.next = n + 1].tools, i, c)]
    BY <1>1, <1>3 DEF Heard
  <2>2. [s EXCEPT !.next = n + 1].tools = s.tools
    BY <1>5 DEF OarFields
  <2> QED BY <1>3, <1>4, <2>1, <2>2 DEF Heard
<1>8. Heard("responses", g0, y, g)
  BY <1>7, HeardStays
<1>9. PICK ev : ev = [e |-> "item_added", i |-> n, type |-> "tool", id |-> id]
  OBVIOUS
<1>10. PICK q : q = Emit(y, ev)
  OBVIOUS
<1>11. "tool" \in Kinds /\ id \in Calls /\ id \in Calls \cup {NoCall} /\ id \notin DOMAIN m.calls
  BY DEF Kinds
<1>12. PICK x : Added(g0, g, q, n, "tool", id, x)
  BY <1>5, <1>8, <1>9, <1>10, <1>11, AddIs
<1>13. q.s = t
  BY <1>7, <1>8, <1>10, EmitIs DEF Protocols
<1>14. /\ Heard("responses", g0, q, x) /\ WellRead(x) /\ Same(x, g, {"at", "calls"})
       /\ x.at = With(g.at, n, [type |-> "tool", id |-> id, size |-> 0])
       /\ x.calls = With(g.calls, id, 0)
  BY <1>12 DEF Added
<1>15. n \notin DOMAIN g.at /\ Row(DOMAIN g.at \cup {n}, n + 1)
  BY <1>5, RowIs
<1>16. /\ DOMAIN x.at = DOMAIN g.at \cup {n}
       /\ x.at[n] = [type |-> "tool", id |-> id, size |-> 0]
       /\ \A j \in DOMAIN g.at : x.at[j] = g.at[j]
  BY <1>14, <1>15 DEF With
<1>17. /\ WellRead(a) /\ Same(a, m, {"at", "calls"})
       /\ a.at = With(m.at, i, [type |-> "tool", id |-> id, size |-> 0])
       /\ a.calls = With(m.calls, id, 0)
  BY <1>5, <1>11, BeginIs
<1>18. /\ DOMAIN a.at = DOMAIN m.at \cup {i} /\ a.at[i].id = id /\ a.at[i].type = "tool"
       /\ \A j \in DOMAIN m.at : a.at[j] = m.at[j]
       /\ DOMAIN a.calls = DOMAIN m.calls \cup {id}
  BY <1>17 DEF With
<1>19. a.text = m.text /\ a.stop = m.stop /\ a.cut = m.cut
  BY <1>17 DEF Same, Fields
<1>20. OnlyCalls(a)
  BY <1>5, <1>18 DEF OarItems, OnlyCalls
<1>21. /\ DOMAIN t.tools = DOMAIN m.at \cup {i} /\ t.tools[i] = c
       /\ \A j \in DOMAIN m.at : t.tools[j] = s.tools[j]
  BY <1>5, <1>6 DEF OarItems, With
<1>22. DOMAIN c = {"i", "id", "size"} /\ c.i = n /\ c.id = id /\ c.size = 0
  BY <1>2
<1>23. \A j \in DOMAIN a.at : CallAt(x, t.tools[j], a.at[j].id)
  <2>1. CallAt(x, t.tools[i], id)
    BY <1>16, <1>21, <1>22 DEF CallAt, OarCallItem
  <2>2. ASSUME NEW j \in DOMAIN m.at PROVE CallAt(x, t.tools[j], m.at[j].id)
    <3>1. CallAt(g, s.tools[j], m.at[j].id)
      BY <1>5 DEF OarItems
    <3> QED BY <1>16, <1>21, <3>1 DEF CallAt
  <2> QED BY <1>18, <2>1, <2>2
<1>24. \A j \in DOMAIN m.at : t.tools[j].i \in DOMAIN g.at
  BY <1>5, <1>21 DEF OarItems, CallAt
<1>25. \A j, l \in DOMAIN a.at : t.tools[j].i = t.tools[l].i => j = l
  <2>1. \A j, l \in DOMAIN m.at : t.tools[j].i = t.tools[l].i => j = l
    BY <1>5, <1>21 DEF OarItems
  <2> QED BY <1>15, <1>18, <1>21, <1>22, <1>24, <2>1
<1>26. \A k \in DOMAIN x.at : k = t.textIx \/ \E j \in DOMAIN a.at : t.tools[j].i = k
  <2>1. \A k \in DOMAIN g.at : k = t.textIx \/ \E j \in DOMAIN m.at : t.tools[j].i = k
    BY <1>5, <1>6, <1>21 DEF OarItems
  <2> QED BY <1>16, <1>18, <1>21, <1>22, <2>1
<1>27. t.textIx # Nothing => t.textIx \in DOMAIN x.at /\ x.at[t.textIx] = OarTextItem(t)
  BY <1>5, <1>6, <1>16 DEF OarItems, OarTextItem
<1>28. OarItems(t, a, x)
  BY <1>5, <1>6, <1>15, <1>16, <1>18, <1>19, <1>20, <1>21, <1>23, <1>25, <1>26, <1>27 DEF OarItems
<1>29. /\ x.text = g.text /\ x.think = g.think /\ x.faults = g.faults /\ x.shut = g.shut
       /\ x.started = g.started /\ x.failed = g.failed /\ x.ends = g.ends /\ x.cut = g.cut
       /\ x.read = g.read
  BY <1>14 DEF Same, Fields
<1>30. OarMid(t, a, x)
  BY <1>1, <1>6, <1>14, <1>17, <1>19, <1>28, <1>29 DEF OarMid, OarSame, OarStop, Over
<1>31. OarCallBegun(g0, r, a, q, x)
  BY <1>1, <1>6, <1>13, <1>14, <1>30 DEF OarCallBegun
<1> QED BY <1>1, <1>2, <1>3, <1>9, <1>10, <1>31

LEMMA OarNewCall ==
  ASSUME NEW g0, NEW m, NEW r, NEW g, OarMid(r.s, m, g), Heard("responses", g0, r, g),
         NEW p, NewCall(m, p)
  PROVE  \E h : OarSpoken(g0, m, r, ReadPiece(m, p), OarPiece(r, p), h)
<1>1. PICK b, o : b = ReadPiece(m, p) /\ o = OarPiece(r, p)
  OBVIOUS
<1>2. PICK i, id, f, a : i = p.i /\ id = p.id /\ f = p.f /\ a = Begin(m, i, "tool", id)
  OBVIOUS
<1>3. /\ p.p = "tool" /\ f \in Nat /\ i \notin DOMAIN m.at /\ i \notin DOMAIN r.s.tools
      /\ id \in Calls \ DOMAIN m.calls /\ WellRead(m) /\ OnlyCalls(m)
  BY <1>2 DEF NewCall, OarMid, OarItems
<1> DEFINE n == r.s.next
           q == Emit([r EXCEPT !.s.next = n + 1,
                               !.s.tools = With(@, i, [i |-> n, id |-> id, size |-> 0])],
                     [e |-> "item_added", i |-> n, type |-> "tool", id |-> id])
<1>4. o = IF f = 0 THEN q
          ELSE Emit([q EXCEPT !.s.tools[i].size = @ + f],
                    [e |-> "item_delta", i |-> q.s.tools[i].i, type |-> "tool", f |-> f])
  <2>1. OarPiece(r, p) = OarTool(r, p)
    BY <1>3 DEF OarPiece
  <2>2. OarTool(r, p) =
          IF p.f = 0 THEN q
          ELSE Emit([q EXCEPT !.s.tools[p.i].size = @ + p.f],
                    [e |-> "item_delta", i |-> q.s.tools[p.i].i, type |-> "tool", f |-> p.f])
    BY <1>2, <1>3 DEF OarTool
  <2> HIDE DEF q
  <2> QED BY <1>1, <1>2, <2>1, <2>2
<1>5. PICK x : OarCallBegun(g0, r, a, q, x)
  BY <1>2, <1>3, OarCallBegins
<1> HIDE DEF q, n
<1>6. OarMid(q.s, a, x) /\ Heard("responses", g0, q, x) /\ OarKept(q.s, r.s, {"tools", "next"})
  BY <1>5 DEF OarCallBegun
<1>7. /\ WellRead(b) /\ OnlyCalls(b) /\ Same(b, m, {"at", "calls", "latest"})
      /\ b.at = With(m.at, i, [type |-> "tool", id |-> id, size |-> f])
      /\ b.calls = With(m.calls, id, f)
  BY <1>1, <1>2, <1>3, NewCallIs
<1>8. /\ Same(a, m, {"at", "calls"})
      /\ a.at = With(m.at, i, [type |-> "tool", id |-> id, size |-> 0])
      /\ a.calls = With(m.calls, id, 0)
  BY <1>2, <1>3, BeginIs DEF Kinds
<1>9. Same(b, a, {"at", "calls", "latest", "mixed"})
  BY <1>7, <1>8 DEF Same
<1>10. i \in DOMAIN a.at /\ a.at[i] = [type |-> "tool", id |-> id, size |-> 0] /\ a.calls[id] = 0
  BY <1>8 DEF With
<1>11. b.at = [a.at EXCEPT ![i].size = @ + f]
  <2>1. PICK new, now : new = [type |-> "tool", id |-> id, size |-> 0]
                        /\ now = [type |-> "tool", id |-> id, size |-> f]
    OBVIOUS
  <2>2. [new EXCEPT !.size = @ + f] = now
    BY <1>3, <2>1
  <2>3. [a.at EXCEPT ![i].size = @ + f] = [a.at EXCEPT ![i] = now]
    BY <1>10, <2>1, <2>2
  <2>4. [a.at EXCEPT ![i] = now] = With(m.at, i, now)
    BY <1>8, WithTwice
  <2> QED BY <1>7, <2>1, <2>3, <2>4
<1>12. b.calls = [a.calls EXCEPT ![a.at[i].id] = @ + f]
  <2>1. a.at[i].id = id /\ a.calls[id] + f = f
    BY <1>3, <1>10
  <2>2. [a.calls EXCEPT ![id] = @ + f] = [a.calls EXCEPT ![id] = f]
    BY <2>1
  <2>3. [a.calls EXCEPT ![id] = f] = With(m.calls, id, f)
    BY <1>8, WithTwice
  <2> QED BY <1>7, <2>1, <2>2, <2>3
<1>13. PICK h : OarMid(o.s, b, h) /\ Heard("responses", g0, o, h) /\ OarKept(o.s, q.s, {"tools"})
  <2>1. i \in DOMAIN a.at /\ f \in Nat /\ WellRead(b) /\ OnlyCalls(b)
    BY <1>3, <1>7, <1>10
  <2> QED BY <1>4, <1>6, <1>9, <1>11, <1>12, <2>1, OarCallGrows
<1>14. Same(b, m, Said) /\ OarKept(o.s, r.s, {"textIx", "text", "tools", "next", "finish"})
  BY <1>6, <1>7, <1>13 DEF Same, Said, OarKept
<1>15. OarSpoken(g0, m, r, b, o, h)
  BY <1>13, <1>14 DEF OarSpoken
<1> QED BY <1>1, <1>15

LEMMA OarPieceIs ==
  ASSUME NEW g0, NEW m, NEW r, NEW g, OarMid(r.s, m, g), Heard("responses", g0, r, g),
         NEW p, GoodPiece(m, p)
  PROVE  \E h : OarSpoken(g0, m, r, ReadPiece(m, p), OarPiece(r, p), h)
  BY OarTexts, OarNewCall, OarKnownCall, OarFinishes DEF GoodPiece

\* The pieces of a chunk.
LEMMA OarPiecesAre ==
  ASSUME NEW g0, NEW m, NEW r, NEW g, OarMid(r.s, m, g), Heard("responses", g0, r, g),
         NEW ps, GoodPieces(m, ps)
  PROVE  \E h : OarSpoken(g0, m, r, Fold("piece", m, ps), Fold("oar", r, ps), h)
<1>1. CASE ps = <<>>
  <2>1. Fold("piece", m, ps) = m /\ Fold("oar", r, ps) = r
    BY <1>1, FoldEmpty
  <2>2. Same(m, m, Said) /\ OarKept(r.s, r.s, {"textIx", "text", "tools", "next", "finish"})
    BY DEF Same, OarKept, OarMid, OarItems
  <2>3. OarSpoken(g0, m, r, m, r, g)
    BY <2>2 DEF OarSpoken
  <2> QED BY <2>1, <2>3
<1>2. ASSUME NEW p, ps = <<p>>, GoodPiece(m, p)
      PROVE  \E h : OarSpoken(g0, m, r, Fold("piece", m, ps), Fold("oar", r, ps), h)
  <2>1. Fold("piece", m, ps) = ReadPiece(m, p) /\ Fold("oar", r, ps) = OarPiece(r, p)
    BY <1>2, FoldOne DEF Do
  <2> QED BY <1>2, <2>1, OarPieceIs
<1>3. ASSUME NEW c, NEW p, ps = <<c, p>>, Content(c), GoodPiece(m, p)
      PROVE  \E h : OarSpoken(g0, m, r, Fold("piece", m, ps), Fold("oar", r, ps), h)
  <2>1. PICK a, q : a = ReadPiece(m, c) /\ q = OarPiece(r, c)
    OBVIOUS
  <2>2. PICK b, o : b = ReadPiece(a, p) /\ o = OarPiece(q, p)
    OBVIOUS
  <2>3. Fold("piece", m, ps) = b /\ Fold("oar", r, ps) = o
    BY <1>3, <2>1, <2>2, FoldTwo DEF Do
  <2>4. PICK x : OarSpoken(g0, m, r, a, q, x)
    BY <1>3, <2>1, OarPieceIs DEF GoodPiece
  <2>5. GoodPiece(a, p)
    BY <1>3, <2>1, StillGood DEF OarMid
  <2>6. PICK h : OarSpoken(g0, a, q, b, o, h)
    BY <2>2, <2>4, <2>5, OarPieceIs DEF OarSpoken
  <2>7. Same(b, m, Said) /\ OarKept(o.s, r.s, {"textIx", "text", "tools", "next", "finish"})
    BY <2>4, <2>6 DEF OarSpoken, Same, OarKept
  <2>8. OarSpoken(g0, m, r, b, o, h)
    BY <2>6, <2>7 DEF OarSpoken
  <2> QED BY <2>3, <2>8
<1> QED BY <1>1, <1>2, <1>3 DEF GoodPieces

-----------------------------------------------------------------------------
(***************************************************************************)
(* The items by their index: InOrder lists a set of items, each once, and   *)
(* the k-th has k - 1 before it.                                           *)
(***************************************************************************)
LEMMA TableIsSeq ==
  ASSUME NEW n \in Nat, NEW q, q = [k \in 1..n |-> q[k]]
  PROVE  IsSeq(q) /\ Len(q) = n
<1> DEFINE S == {q[k] : k \in 1..n}
<1>1. q \in [1..n -> S]
  OBVIOUS
<1> HIDE DEF S
<1>2. q \in Seq(S)
  BY <1>1, IsASeq
<1>3. Len(q) \in Nat /\ DOMAIN q = 1..Len(q)
  BY <1>2, LenProperties
<1>4. Len(q) = n
  <2>1. DOMAIN q = 1..n
    BY <1>1
  <2> QED BY <1>3, <2>1
<1> QED BY <1>4 DEF IsSeq

Before(S, n) == {y \in S : y.i < n}

\* The items of S have different indices, all in B.
Indexed(S, B) ==
  /\ IsFiniteSet(B) /\ B \subseteq Nat /\ \A x \in S : x.i \in B
  /\ \A x, y \in S : x.i = y.i => x = y

LEMMA Ranks ==
  ASSUME NEW S, NEW B, Indexed(S, B)
  PROVE  /\ IsFiniteSet(S) /\ Cardinality(S) \in Nat
         /\ \A x \in S : Cardinality(Before(S, x.i)) \in 0..(Cardinality(S) - 1)
         /\ \A x, y \in S : Cardinality(Before(S, x.i)) = Cardinality(Before(S, y.i)) => x = y
<1>1. IsFiniteSet(S)
  <2> DEFINE f == [x \in S |-> x.i]
  <2>1. f \in Injection(S, B)
    BY DEF Indexed, Injection, IsInjective
  <2> QED BY <2>1, FS_Injection DEF Indexed
<1>2. Cardinality(S) \in Nat
  BY <1>1, FS_CardinalityType
<1>3. \A n : Before(S, n) \in SUBSET S /\ IsFiniteSet(Before(S, n)) /\ Cardinality(Before(S, n)) \in Nat
  <2> TAKE n
  <2>1. Before(S, n) \in SUBSET S
    BY DEF Before
  <2> QED BY <1>1, <2>1, FS_Subset, FS_CardinalityType
<1>4. ASSUME NEW x \in S PROVE Cardinality(Before(S, x.i)) \in 0..(Cardinality(S) - 1)
  <2>1. x.i \in Nat
    BY DEF Indexed
  <2>2. Before(S, x.i) # S
    BY <2>1 DEF Before
  <2>3. Cardinality(Before(S, x.i)) <= Cardinality(S) /\ Cardinality(S) # Cardinality(Before(S, x.i))
    BY <1>1, <1>3, <2>2, FS_Subset
  <2>4. PICK k \in Nat : k = Cardinality(Before(S, x.i))
    BY <1>3
  <2> QED BY <1>2, <2>3, <2>4
<1>5. ASSUME NEW x \in S, NEW y \in S, x.i < y.i
      PROVE  Cardinality(Before(S, x.i)) # Cardinality(Before(S, y.i))
  <2>1. x.i \in Nat /\ y.i \in Nat
    BY DEF Indexed
  <2>2. Before(S, x.i) \in SUBSET Before(S, y.i)
    <3>1. \A z \in S : z.i \in Nat
      BY DEF Indexed
    <3>2. \A z \in S : z.i < x.i => z.i < y.i
      BY <1>5, <2>1, <3>1
    <3> QED BY <3>2 DEF Before
  <2>3. x \in Before(S, y.i) /\ x \notin Before(S, x.i)
    BY <1>5, <2>1 DEF Before
  <2> QED BY <1>3, <2>2, <2>3, FS_Subset
<1>6. ASSUME NEW x \in S, NEW y \in S, Cardinality(Before(S, x.i)) = Cardinality(Before(S, y.i))
      PROVE  x = y
  <2>1. ~(x.i < y.i) /\ ~(y.i < x.i)
    BY <1>5, <1>6
  <2>2. x.i \in Nat /\ y.i \in Nat
    BY DEF Indexed
  <2>3. x.i = y.i
    BY <2>1, <2>2
  <2> QED BY <2>3 DEF Indexed
<1> QED BY <1>1, <1>2, <1>4, <1>6

Ordered(S, q) ==
  /\ IsSeq(q) /\ Len(q) = Cardinality(S)
  /\ \A k \in 1..Len(q) : q[k] \in S /\ Cardinality(Before(S, q[k].i)) = k - 1
  /\ \A x \in S : \E k \in 1..Len(q) : q[k] = x

LEMMA InOrderIs ==
  ASSUME NEW S, NEW B, Indexed(S, B)
  PROVE  Ordered(S, InOrder(S))
<1>1. PICK n : n = Cardinality(S)
  OBVIOUS
<1> DEFINE rank == [x \in S |-> Cardinality(Before(S, x.i))]
           q == InOrder(S)
<1>2. n \in Nat /\ IsFiniteSet(S)
  BY <1>1, Ranks
<1>3. PICK C : C = 0..(n - 1)
  OBVIOUS
<1>4. IsFiniteSet(C) /\ Cardinality(C) = n
  <2>1. Row(C, n)
    BY <1>2, <1>3 DEF Row
  <2> QED BY <2>1, RowIs
<1>5. rank \in Injection(S, C)
  BY <1>1, <1>3, Ranks DEF Injection, IsInjective
<1>6. rank \in Surjection(S, C)
  BY <1>1, <1>4, <1>5, FS_Injection
<1>7. \A k \in C : \E x \in S : Cardinality(Before(S, x.i)) = k
  BY <1>6 DEF Surjection
<1>8. q = [k \in 1..n |-> CHOOSE x \in S : Cardinality(Before(S, x.i)) = k - 1]
  BY <1>1 DEF InOrder, Before
<1>9. ASSUME NEW k \in 1..n PROVE q[k] \in S /\ Cardinality(Before(S, q[k].i)) = k - 1
  <2>1. k - 1 \in C
    BY <1>2, <1>3
  <2>2. \E x \in S : Cardinality(Before(S, x.i)) = k - 1
    BY <1>7, <2>1
  <2>3. q[k] = CHOOSE x \in S : Cardinality(Before(S, x.i)) = k - 1
    BY <1>8
  <2> HIDE DEF q
  <2> QED BY <2>2, <2>3
<1>10. q = [k \in 1..n |-> q[k]]
  BY <1>8
<1> HIDE DEF q
<1>11. IsSeq(q) /\ Len(q) = n
  BY <1>2, <1>10, TableIsSeq
<1>12. ASSUME NEW x \in S PROVE \E k \in 1..n : q[k] = x
  <2>1. PICK j : j = Cardinality(Before(S, x.i))
    OBVIOUS
  <2>2. j \in 0..(n - 1)
    BY <1>1, <2>1, Ranks
  <2>3. PICK k \in 1..n : k - 1 = j
    BY <1>2, <2>2
  <2>4. q[k] \in S /\ Cardinality(Before(S, q[k].i)) = j
    BY <1>9, <2>3
  <2>5. q[k] = x
    BY <2>1, <2>4, Ranks
  <2> QED BY <2>5
<1>13. Ordered(S, q)
  BY <1>1, <1>9, <1>11, <1>12 DEF Ordered
<1> QED BY <1>13 DEF q

\* Items numbered from 0 on are listed as they are numbered.
RowItems(F, n) == {[i |-> j, item |-> F[j]] : j \in 0..(n - 1)}

LEMMA RowInOrder ==
  ASSUME NEW n \in Nat, NEW F, NEW S, S = RowItems(F, n),
         NEW q, q = InOrder(S)
  PROVE  IsSeq(q) /\ Len(q) = n /\ \A k \in 1..n : q[k].item = F[k - 1]
<1>1. PICK C : C = 0..(n - 1)
  OBVIOUS
<1>2. IsFiniteSet(C) /\ Cardinality(C) = n /\ C \subseteq Nat
  <2>1. Row(C, n)
    BY <1>1 DEF Row
  <2>2. C \subseteq Nat
    BY <1>1
  <2> QED BY <2>1, <2>2, RowIs
<1>0. S = {[i |-> j, item |-> F[j]] : j \in C}
  BY <1>1 DEF RowItems
<1>3. \A x \in S : x.i \in C /\ x.item = F[x.i] /\ x = [i |-> x.i, item |-> F[x.i]]
  BY <1>0
<1>4. Indexed(S, C)
  BY <1>2, <1>3 DEF Indexed
<1>6. Ordered(S, q)
  BY <1>4, InOrderIs
<1>7. \A j \in 0..n : Cardinality(Before(S, j)) = j
  <2> SUFFICES ASSUME NEW j \in 0..n PROVE Cardinality(Before(S, j)) = j
    OBVIOUS
  <2>1. PICK D : D = 0..(j - 1)
    OBVIOUS
  <2>2. IsFiniteSet(D) /\ Cardinality(D) = j
    <3>1. Row(D, j)
      BY <2>1 DEF Row
    <3> QED BY <3>1, RowIs
  <2> DEFINE f == [x \in D |-> [i |-> x, item |-> F[x]]]
  <2>3. Before(S, j) = {[i |-> x, item |-> F[x]] : x \in D}
    <3>1. \A x \in D : x \in 0..(n - 1) /\ x < j
      BY <2>1
    <3>2. \A x \in 0..(n - 1) : x < j => x \in D
      BY <2>1
    <3> QED BY <1>0, <1>1, <3>1, <3>2 DEF Before
  <2>4. f \in Bijection(D, Before(S, j))
    BY <2>3 DEF Bijection, Injection, IsInjective, Surjection
  <2>5. ExistsBijection(D, Before(S, j))
    BY <2>4 DEF ExistsBijection
  <2> QED BY <2>2, <2>5, FS_Bijection
<1>8. Len(q) = n
  <2>1. Before(S, n) = S
    BY <1>1, <1>3 DEF Before
  <2>2. n \in 0..n
    OBVIOUS
  <2> QED BY <1>6, <1>7, <2>1, <2>2 DEF Ordered
<1>9. \A k \in 1..n : q[k].item = F[k - 1]
  <2> SUFFICES ASSUME NEW k \in 1..n PROVE q[k].item = F[k - 1]
    OBVIOUS
  <2>1. q[k] \in S /\ Cardinality(Before(S, q[k].i)) = k - 1
    BY <1>6, <1>8 DEF Ordered
  <2>2. q[k].i \in 0..n
    <3>1. q[k].i \in C
      BY <1>3, <2>1
    <3> QED BY <1>1, <3>1
  <2>3. q[k].i = k - 1
    BY <1>7, <2>1, <2>2
  <2> QED BY <1>3, <2>1, <2>3
<1> QED BY <1>6, <1>8, <1>9 DEF Ordered

-----------------------------------------------------------------------------
(***************************************************************************)
(* From OpenAI to Responses: the end of a stream.                          *)
(***************************************************************************)
\* The events of c close the items D of the client, each once, as they are.
Lists(g, c, D) ==
  /\ IsSeq(c)
  /\ \A k \in 1..Len(c) : c[k].e = "item_done" /\ c[k].i \in D /\ c[k].item = Item(g.at[c[k].i])
  /\ \A k, l \in 1..Len(c) : c[k].i = c[l].i => k = l
  /\ \A n \in D : \E k \in 1..Len(c) : c[k].i = n

LEMMA ListsBoth ==
  ASSUME NEW g, NEW a, NEW D, Lists(g, a, D), NEW b, NEW E, Lists(g, b, E), D \cap E = {}
  PROVE  Lists(g, a \o b, D \cup E)
<1>1. PICK c, n, l : c = a \o b /\ n = Len(a) /\ l = Len(b)
  OBVIOUS
<1>2. /\ IsSeq(c) /\ Len(c) = n + l /\ n \in Nat /\ l \in Nat
      /\ \A i \in 1..n : c[i] = a[i]
      /\ \A i \in 1..l : c[n + i] = b[i]
  <2>1. IsSeq(a) /\ IsSeq(b)
    BY DEF Lists
  <2> QED BY <1>1, <2>1, ConcatIsSeq DEF IsSeq
<1>3. \A k \in 1..Len(c) : (k \in 1..n /\ c[k] = a[k])
                           \/ (k - n \in 1..l /\ c[k] = b[k - n])
  <2> SUFFICES ASSUME NEW k \in 1..Len(c), k \notin 1..n
               PROVE  k - n \in 1..l /\ c[k] = b[k - n]
    BY <1>2
  <2>1. k - n \in 1..l /\ n + (k - n) = k
    BY <1>2
  <2> QED BY <1>2, <2>1
<1>4. \A k \in 1..n : a[k].i \in D /\ a[k].e = "item_done" /\ a[k].item = Item(g.at[a[k].i])
  BY <1>1 DEF Lists
<1>5. \A k \in 1..l : b[k].i \in E /\ b[k].e = "item_done" /\ b[k].item = Item(g.at[b[k].i])
  BY <1>1 DEF Lists
<1>6. ASSUME NEW k \in 1..Len(c)
      PROVE  c[k].e = "item_done" /\ c[k].i \in D \cup E /\ c[k].item = Item(g.at[c[k].i])
  BY <1>3, <1>4, <1>5
<1>7. ASSUME NEW k \in 1..Len(c), NEW j \in 1..Len(c), c[k].i = c[j].i
      PROVE  k = j
  <2>1. CASE k \in 1..n /\ c[k] = a[k] /\ j \in 1..n /\ c[j] = a[j]
    BY <1>1, <1>7, <2>1 DEF Lists
  <2>2. CASE k - n \in 1..l /\ c[k] = b[k - n] /\ j - n \in 1..l /\ c[j] = b[j - n]
    <3>1. k - n = j - n
      BY <1>1, <1>7, <2>2 DEF Lists
    <3> QED BY <1>2, <3>1
  <2>3. \A x \in 1..n, y \in 1..l : a[x].i # b[y].i
    BY <1>4, <1>5
  <2> QED BY <1>3, <1>7, <2>1, <2>2, <2>3
<1>8. ASSUME NEW x \in D \cup E PROVE \E k \in 1..Len(c) : c[k].i = x
  <2>1. CASE x \in D
    <3>1. PICK k \in 1..n : a[k].i = x
      BY <1>1, <2>1 DEF Lists
    <3>2. k \in 1..Len(c) /\ c[k] = a[k]
      BY <1>2
    <3> QED BY <3>1, <3>2
  <2>2. CASE x \in E
    <3>1. PICK k \in 1..l : b[k].i = x
      BY <1>1, <2>2 DEF Lists
    <3>2. n + k \in 1..Len(c) /\ c[n + k] = b[k]
      BY <1>2
    <3> QED BY <3>1, <3>2
  <2> QED BY <2>1, <2>2
<1>9. Lists(g, c, D \cup E)
  BY <1>2, <1>6, <1>7, <1>8 DEF Lists
<1> QED BY <1>1, <1>9

LEMMA OarClosingIs ==
  ASSUME NEW s, NEW m, NEW g, OarItems(s, m, g), WellRead(g)
  PROVE  Lists(g, OarClosing(s), DOMAIN g.at)
<1>1. PICK S : S = {s.tools[t] : t \in DOMAIN s.tools}
  OBVIOUS
<1>2. PICK q : q = InOrder(S)
  OBVIOUS
<1>3. OarCallsInOrder(s) = q
  BY <1>1, <1>2 DEF OarCallsInOrder
<1>4. DOMAIN s.tools = DOMAIN m.at
  BY DEF OarItems
<1>5. \A x \in S : x.i \in DOMAIN g.at /\ g.at[x.i] = OarCallItem(x)
  BY <1>1, <1>4 DEF OarItems, CallAt
<1>6. Indexed(S, DOMAIN g.at)
  <2>1. IsFiniteSet(DOMAIN g.at) /\ DOMAIN g.at \subseteq Nat
    <3>1. Row(DOMAIN g.at, s.next)
      BY DEF OarItems
    <3>2. DOMAIN g.at \subseteq Nat
      BY <3>1 DEF Row
    <3> QED BY <3>1, <3>2, RowIs
  <2>2. \A x, y \in S : x.i = y.i => x = y
    BY <1>1, <1>4 DEF OarItems
  <2> QED BY <1>5, <2>1, <2>2 DEF Indexed
<1>7. Ordered(S, q)
  BY <1>2, <1>6, InOrderIs
<1>8. PICK a : a = IF s.textIx = Nothing THEN <<>>
                   ELSE <<[e |-> "item_done", i |-> s.textIx, item |-> OarTextItem(s)]>>
  OBVIOUS
<1>9. PICK b : b = [k \in 1..Len(q) |->
                      LET t == q[k] IN [e |-> "item_done", i |-> t.i, item |-> OarCallItem(t)]]
  OBVIOUS
<1>10. OarClosing(s) = a \o b
  BY <1>3, <1>8, <1>9 DEF OarClosing
<1>11. PICK D : D = IF s.textIx = Nothing THEN {} ELSE {s.textIx}
  OBVIOUS
<1>12. PICK E : E = {x.i : x \in S}
  OBVIOUS
<1>13. s.textIx # Nothing => s.textIx \in DOMAIN g.at /\ g.at[s.textIx] = OarTextItem(s)
  BY DEF OarItems
<1>14. Lists(g, a, D)
  <2>1. CASE s.textIx = Nothing
    <3>1. a = <<>> /\ D = {} /\ IsSeq(<<>>) /\ Len(<<>>) = 0
      BY <1>8, <1>11, <2>1 DEF IsSeq
    <3>2. 1..Len(a) = {}
      BY <3>1
    <3> QED BY <3>1, <3>2 DEF Lists
  <2>2. CASE s.textIx # Nothing
    <3>1. PICK ev : ev = [e |-> "item_done", i |-> s.textIx, item |-> OarTextItem(s)]
      OBVIOUS
    <3>2. a = <<ev>> /\ D = {s.textIx} /\ IsSeq(a) /\ Len(a) = 1 /\ a[1] = ev
      BY <1>8, <1>11, <2>2, <3>1 DEF IsSeq
    <3>3. ev.e = "item_done" /\ ev.i = s.textIx /\ ev.item = OarTextItem(s)
      BY <3>1
    <3>4. Item(g.at[s.textIx]) = OarTextItem(s)
      BY <1>13, <2>2 DEF Item, OarTextItem
    <3>5. 1..Len(a) = {1}
      BY <3>2
    <3> HIDE <1>8, <1>11
    <3> QED BY <3>2, <3>3, <3>4, <3>5 DEF Lists
  <2> QED BY <2>1, <2>2
<1>15. Lists(g, b, E)
  <2>1. IsSeq(q) /\ Len(q) \in Nat
    BY <1>7 DEF Ordered, IsSeq
  <2>2. PICK n \in Nat : n = Len(q)
    BY <2>1
  <2>3. \A k \in 1..n : b[k].e = "item_done" /\ b[k].i = q[k].i /\ b[k].item = OarCallItem(q[k])
    BY <1>9, <2>2
  <2>4. IsSeq(b) /\ Len(b) = n
    <3>1. b = [k \in 1..n |-> b[k]]
      BY <1>9, <2>2
    <3> QED BY <3>1, TableIsSeq
  <2>5. \A k \in 1..n : q[k] \in S
    BY <1>7, <2>2 DEF Ordered
  <2>6. \A k \in 1..n : b[k].i \in E /\ b[k].item = Item(g.at[b[k].i])
    <3> SUFFICES ASSUME NEW k \in 1..n PROVE b[k].i \in E /\ b[k].item = Item(g.at[b[k].i])
      OBVIOUS
    <3>1. PICK x \in S : x = q[k]
      BY <2>5
    <3>2. Item(g.at[x.i]) = OarCallItem(x)
      BY <1>5 DEF Item, OarCallItem
    <3> QED BY <1>12, <2>3, <3>1, <3>2
  <2>7. \A k, l \in 1..n : b[k].i = b[l].i => k = l
    <3> SUFFICES ASSUME NEW k \in 1..n, NEW l \in 1..n, b[k].i = b[l].i PROVE k = l
      OBVIOUS
    <3>1. q[k] = q[l]
      BY <1>6, <2>3, <2>5 DEF Indexed
    <3>2. k - 1 = l - 1
      BY <1>7, <2>2, <3>1 DEF Ordered
    <3> QED BY <3>2
  <2>8. \A x \in E : \E k \in 1..n : b[k].i = x
    BY <1>7, <1>12, <2>2, <2>3 DEF Ordered
  <2> QED BY <2>3, <2>4, <2>6, <2>7, <2>8 DEF Lists
<1>16. D \cap E = {}
  <2>1. \A x \in S : g.at[x.i].type = "tool"
    <3>1. \A x \in S : g.at[x.i] = OarCallItem(x)
      BY <1>5
    <3>2. \A x : OarCallItem(x).type = "tool"
      BY DEF OarCallItem
    <3> QED BY <3>1, <3>2
  <2>2. s.textIx # Nothing => g.at[s.textIx].type = "text"
    BY <1>13 DEF OarTextItem
  <2> QED BY <1>11, <1>12, <2>1, <2>2
<1>17. D \cup E = DOMAIN g.at
  <2>1. D \cup E \subseteq DOMAIN g.at
    BY <1>5, <1>11, <1>12, <1>13
  <2>2. ASSUME NEW n \in DOMAIN g.at PROVE n \in D \cup E
    <3>1. n = s.textIx \/ \E i \in DOMAIN m.at : s.tools[i].i = n
      BY DEF OarItems
    <3>2. n # Nothing
      BY DEF OarItems, Row, Nothing
    <3> QED BY <1>1, <1>4, <1>11, <1>12, <3>1, <3>2
  <2> QED BY <2>1, <2>2
<1> QED BY <1>10, <1>14, <1>15, <1>16, <1>17, ListsBoth

LEMMA OarOutputIs ==
  ASSUME NEW s, NEW g, Lists(g, OarClosing(s), DOMAIN g.at), NEW n, Row(DOMAIN g.at, n)
  PROVE  OarOutput(s) = [k \in 1..n |-> Item(g.at[k - 1])]
<1>1. PICK c : c = OarClosing(s)
  OBVIOUS
<1>2. PICK F : F = [j \in 0..(n - 1) |-> Item(g.at[j])]
  OBVIOUS
<1>3. n \in Nat /\ DOMAIN g.at = 0..(n - 1)
  BY DEF Row
<1>4. PICK items : items = {[i |-> x.i, item |-> x.item] : x \in ToSet(c)}
  OBVIOUS
<1>5. IsSeq(c) /\ DOMAIN c = 1..Len(c)
  BY <1>1 DEF Lists, IsSeq
<1>6. ToSet(c) = {c[k] : k \in 1..Len(c)}
  BY <1>5 DEF ToSet
<1>7. /\ \A k \in 1..Len(c) : c[k].i \in 0..(n - 1) /\ c[k].item = F[c[k].i]
      /\ \A j \in 0..(n - 1) : \E k \in 1..Len(c) : c[k].i = j
  BY <1>1, <1>2, <1>3 DEF Lists
<1>8. items = RowItems(F, n)
  <2>1. ASSUME NEW y \in items PROVE y \in {[i |-> j, item |-> F[j]] : j \in 0..(n - 1)}
    <3>1. PICK k \in 1..Len(c) : y = [i |-> c[k].i, item |-> c[k].item]
      BY <1>4, <1>6
    <3> QED BY <1>7, <3>1
  <2>2. ASSUME NEW j \in 0..(n - 1) PROVE [i |-> j, item |-> F[j]] \in items
    <3>1. PICK k \in 1..Len(c) : c[k].i = j
      BY <1>7
    <3>2. c[k] \in ToSet(c) /\ [i |-> c[k].i, item |-> c[k].item] = [i |-> j, item |-> F[j]]
      BY <1>6, <1>7, <3>1
    <3> QED BY <1>4, <3>2
  <2> QED BY <2>1, <2>2 DEF RowItems
<1>9. PICK q : q = InOrder(items)
  OBVIOUS
<1>10. IsSeq(q) /\ Len(q) = n /\ \A k \in 1..n : q[k].item = F[k - 1]
  BY <1>3, <1>8, <1>9, RowInOrder
<1>11. OarOutput(s) = [k \in 1..Len(q) |-> q[k].item]
  BY <1>1, <1>4, <1>9 DEF OarOutput
<1>12. \A k \in 1..n : q[k].item = Item(g.at[k - 1])
  <2> SUFFICES ASSUME NEW k \in 1..n PROVE q[k].item = Item(g.at[k - 1])
    OBVIOUS
  <2>1. k - 1 \in 0..(n - 1)
    BY <1>3
  <2> QED BY <1>2, <1>10, <2>1
<1> QED BY <1>10, <1>11, <1>12

\* The items closed by the first k events of c.
ClosedUpTo(g, c, k, x) ==
  WellRead(x) /\ Same(x, g, {"shut"}) /\ x.shut = {c[j].i : j \in 1..k}

LEMMA DoneReads ==
  ASSUME NEW g, WellRead(g), ~Over(g), g.shut = {}, NEW c, Lists(g, c, DOMAIN g.at),
         NEW h, h = Reads("responses", g, c)
  PROVE  WellRead(h) /\ Same(h, g, {"shut"}) /\ h.shut = DOMAIN g.at
<1>1. PICK n : n = Len(c)
  OBVIOUS
<1>2. IsSeq(c) /\ n \in Nat
  BY <1>1 DEF Lists, IsSeq
<1>3. PICK f : IsFold("responses", g, c, n, f) /\ Fold("responses", g, c) = f[1..n]
  BY <1>1, <1>2, FoldIs
<1>4. f[{}] = g /\ \A k \in Nat : k + 1 <= n => f[1..(k + 1)] = Do("responses", f[1..k], c[k + 1])
  <2>1. Steps("responses", g, c, n, f)
    BY <1>2, <1>3, FoldSteps
  <2> QED BY <2>1 DEF Steps
<1>5. \A a, x : Do("responses", a, x) = ReadResponses(a, x)
  BY DEF Do, Read
<1> DEFINE N == {k \in Nat : k <= n => ClosedUpTo(g, c, k, f[1..k])}
<1>6. 0 \in N
  <2>1. 1..0 = {}
    OBVIOUS
  <2>2. Same(g, g, {"shut"})
    BY DEF Same
  <2> QED BY <1>4, <2>1, <2>2 DEF ClosedUpTo
<1>7. ASSUME NEW k \in Nat, k \in N PROVE k + 1 \in N
  <2> SUFFICES ASSUME k + 1 <= n PROVE ClosedUpTo(g, c, k + 1, f[1..(k + 1)])
    OBVIOUS
  <2>1. PICK x : x = f[1..k]
    OBVIOUS
  <2>2. ClosedUpTo(g, c, k, x)
    BY <1>2, <1>7, <2>1
  <2>3. PICK l \in 1..n : l = k + 1
    BY <1>2
  <2>4. PICK ev, i : ev = c[l] /\ i = ev.i
    OBVIOUS
  <2>5. ev.e = "item_done" /\ i \in DOMAIN g.at /\ ev.item = Item(g.at[i])
    BY <1>1, <2>4 DEF Lists
  <2>6. f[1..(k + 1)] = ReadResponses(x, ev)
    BY <1>4, <1>5, <2>1, <2>3, <2>4
  <2>7. WellRead(x) /\ x.at = g.at /\ ~Over(x) /\ x.shut = {c[j].i : j \in 1..k}
    BY <2>2 DEF ClosedUpTo, Same, Fields, Over
  <2>8. i \notin x.shut
    <3>1. \A j \in 1..k : j \in 1..n /\ j # l
      BY <1>2, <2>3
    <3>2. \A j \in 1..k : c[j].i # i
      BY <1>1, <2>3, <2>4, <3>1 DEF Lists
    <3> QED BY <2>7, <3>2
  <2>9. ReadResponses(x, ev) = [x EXCEPT !.shut = @ \cup {i}]
    BY <2>4, <2>5, <2>7, <2>8 DEF ReadResponses
  <2>10. PICK y : y = [x EXCEPT !.shut = @ \cup {i}]
    OBVIOUS
  <2>11. WellRead(y) /\ Same(y, x, {"shut"}) /\ y.shut = x.shut \cup {i}
    BY <2>7, <2>10 DEF WellRead, Same, Fields
  <2>12. {c[j].i : j \in 1..(k + 1)} = {c[j].i : j \in 1..k} \cup {i}
    <3>1. 1..(k + 1) = 1..k \cup {l}
      BY <2>3
    <3> QED BY <2>4, <3>1
  <2>13. ClosedUpTo(g, c, k + 1, y)
    BY <2>2, <2>7, <2>11, <2>12 DEF ClosedUpTo, Same
  <2> QED BY <2>6, <2>9, <2>10, <2>13
<1>8. n \in N
  <2>1. Nat \subseteq N
    <3> HIDE DEF N
    <3> QED BY <1>6, <1>7, Inductive
  <2> QED BY <1>2, <2>1
<1>9. h = f[1..n]
  BY <1>3, ReadsIs
<1>10. ClosedUpTo(g, c, n, h)
  BY <1>2, <1>8, <1>9
<1>11. {c[j].i : j \in 1..n} = DOMAIN g.at
  BY <1>1 DEF Lists
<1> QED BY <1>10, <1>11 DEF ClosedUpTo

\* Every item is closed, and the answer is told whole with its bill.
OarBye(s, g, h) ==
  /\ WellRead(h) /\ Same(h, g, {"shut", "stop", "cut", "read", "ends"})
  /\ h.ends = g.ends + 1 /\ (h.cut <=> s.finish \in {"length", "content_filter"})
  /\ h.read = IF s.usage.total > 0 THEN Report(s.usage) ELSE g.read

LEMMA CompletedReads ==
  ASSUME NEW g, WellRead(g), g.started, g.shut = DOMAIN g.at, NEW n, Row(DOMAIN g.at, n),
         NEW ev, ev.e \in {"completed", "incomplete"}, ev.use \in UsageObjects,
         ev.output = [k \in 1..n |-> Item(g.at[k - 1])],
         NEW h, h = ReadResponses(g, ev)
  PROVE  /\ WellRead(h) /\ Same(h, g, {"stop", "cut", "read", "ends"})
         /\ h.ends = g.ends + 1 /\ (h.cut <=> ev.e = "incomplete")
         /\ h.read = IF Counts(ev.use) THEN ev.use ELSE g.read
<1>1. Cardinality(DOMAIN g.at) = n
  BY RowIs
<1>2. PICK e : e = End(g)
  OBVIOUS
<1>3. WellRead(e) /\ Same(e, g, {"ends"}) /\ e.ends = g.ends + 1
  BY <1>2, EndIs
<1>4. PICK b \in BOOLEAN : b = (ev.e = "incomplete")
  OBVIOUS
<1>5. h = [e EXCEPT !.stop = ev.e, !.cut = b, !.read = IF Counts(ev.use) THEN ev.use ELSE @]
  BY <1>1, <1>2, <1>4 DEF ReadResponses
<1>6. /\ DOMAIN h = Fields /\ Same(h, e, {"stop", "cut", "read"}) /\ h.cut = b
      /\ h.read = IF Counts(ev.use) THEN ev.use ELSE e.read
  BY <1>3, <1>5 DEF WellRead, Same, Fields
<1>7. e.read = g.read
  BY <1>3 DEF Same, Fields
<1>8. h.read \in UsageObjects /\ h.ends = e.ends
  BY <1>3, <1>6 DEF WellRead, Same, Fields
<1>9. WellRead(h)
  BY <1>3, <1>6, <1>8 DEF WellRead, Same, Fields
<1>10. Same(h, g, {"stop", "cut", "read", "ends"})
  BY <1>3, <1>6 DEF Same
<1> QED BY <1>3, <1>4, <1>6, <1>7, <1>8, <1>9, <1>10

LEMMA OarFinalizes ==
  ASSUME NEW s, NEW m, NEW g, OarItems(s, m, g), WellRead(g), g.started, ~Over(g), g.shut = {},
         s.started, ~s.finished, s.usage \in Bills, NEW r, r = OarFinalize(s)
  PROVE  /\ IsSeq(r.out) /\ OarBye(s, g, Reads("responses", g, r.out))
         /\ r.s = [s EXCEPT !.finished = TRUE]
<1>1. PICK c, n : c = OarClosing(s) /\ n = s.next
  OBVIOUS
<1>2. Lists(g, c, DOMAIN g.at) /\ Row(DOMAIN g.at, n)
  BY <1>1, OarClosingIs DEF OarItems
<1>3. PICK x : x = Reads("responses", g, c)
  OBVIOUS
<1>4. WellRead(x) /\ Same(x, g, {"shut"}) /\ x.shut = DOMAIN g.at
  BY <1>2, <1>3, DoneReads
<1>5. x.at = g.at /\ x.started = g.started /\ x.ends = g.ends /\ x.read = g.read
  BY <1>4 DEF Same, Fields
<1>6. PICK ev : ev = [e |-> OarVerdict(s), output |-> OarOutput(s), use |-> Report(s.usage)]
  OBVIOUS
<1>7. ev.e = OarVerdict(s) /\ ev.output = OarOutput(s) /\ ev.use = Report(s.usage)
  BY <1>6
<1>8. ev.e \in {"completed", "incomplete"}
      /\ (ev.e = "incomplete" <=> s.finish \in {"length", "content_filter"})
  BY <1>7 DEF OarVerdict
<1>9. ev.output = [k \in 1..n |-> Item(g.at[k - 1])]
  BY <1>1, <1>2, <1>7, OarOutputIs
<1>10. ev.use \in UsageObjects /\ (Counts(ev.use) <=> s.usage.total > 0)
  BY <1>7, ReportIs
<1>11. PICK h : h = ReadResponses(x, ev)
  OBVIOUS
<1>12. /\ WellRead(h) /\ Same(h, x, {"stop", "cut", "read", "ends"})
       /\ h.ends = x.ends + 1 /\ (h.cut <=> ev.e = "incomplete")
       /\ h.read = IF Counts(ev.use) THEN ev.use ELSE x.read
  <2>1. x.started /\ x.shut = DOMAIN x.at /\ Row(DOMAIN x.at, n)
        /\ ev.output = [k \in 1..n |-> Item(x.at[k - 1])]
    BY <1>2, <1>4, <1>5, <1>9
  <2> QED BY <1>4, <1>8, <1>10, <1>11, <2>1, CompletedReads
<1>13. OarBye(s, g, h)
  <2>1. Same(h, g, {"shut", "stop", "cut", "read", "ends"})
    BY <1>4, <1>12 DEF Same
  <2>2. h.ends = g.ends + 1 /\ h.read = IF s.usage.total > 0 THEN Report(s.usage) ELSE g.read
    BY <1>5, <1>7, <1>10, <1>12
  <2> QED BY <1>8, <1>12, <2>1, <2>2 DEF OarBye
<1>14. IsSeq(Append(c, ev)) /\ Reads("responses", g, Append(c, ev)) = h
  <2>1. IsSeq(c)
    BY <1>2 DEF Lists
  <2> QED BY <1>3, <1>11, <2>1, ReadsAppend, ReadIs DEF Protocols
<1>15. r = Says([s EXCEPT !.finished = TRUE], Append(c, ev))
  BY <1>1, <1>6 DEF OarFinalize
<1> QED BY <1>13, <1>14, <1>15 DEF Says

-----------------------------------------------------------------------------
(***************************************************************************)
(* From OpenAI to Responses: one event to the next.                        *)
(***************************************************************************)
OarLive(s, m, g) ==
  /\ OarItems(s, m, g) /\ OarStop(s, m) /\ ~Over(g) /\ ~g.cut /\ g.shut = {} /\ g.read = NoReport
  /\ (g.started <=> s.started) /\ (s.started <=> m.started)
  /\ ~m.failed /\ (m.ends = 0 \/ ~m.started)

OarDone(s, m, g) ==
  /\ m.failed \/ (m.ends > 0 /\ m.started)
  /\ OarStop(s, m)
  /\ \/ m.failed /\ g.failed /\ g.ends = 0
     \/ /\ g.ends = 1 /\ ~g.failed /\ m.ends = 1
        /\ (g.cut <=> s.finish \in {"length", "content_filter"})
        /\ Extract(g.read) = s.usage

CoupledOar(s, m, g) ==
  /\ WellRead(m) /\ WellRead(g) /\ OarSame(m, g) /\ g.faults = {}
  /\ m.ends \in {0, 1} /\ s.started \in BOOLEAN /\ s.finished \in BOOLEAN
  /\ s.usage = Extract(m.read) /\ (~Counts(m.read) => m.read = NoReport)
  /\ s.finished => OarDone(s, m, g)
  /\ ~s.finished => OarLive(s, m, g)

OarBefore(s, m, g, ev) == CoupledOar(s, m, g) /\ OaAllowed(m, ev)
OarAfter(s, m, g, ev) ==
  LET r == OarPush(s, ev)
  IN IsSeq(r.out) /\ CoupledOar(r.s, ReadOpenAi(m, ev), Reads("responses", g, r.out))

LEMMA OarAside ==
  ASSUME NEW s, NEW m, NEW g, NEW ev, OarBefore(s, m, g, ev), OarPush(s, ev) = Says(s, <<>>),
         Aside(s, m, ReadOpenAi(m, ev))
  PROVE  OarAfter(s, m, g, ev)
<1>0. PICK b : b = ReadOpenAi(m, ev)
  OBVIOUS
<1>1. OarPush(s, ev).s = s /\ OarPush(s, ev).out = <<>> /\ IsSeq(<<>>)
  BY DEF Says, IsSeq
<1>2. Reads("responses", g, <<>>) = g
  BY ReadsNone DEF Protocols
<1>3. /\ b.text = m.text /\ b.calls = m.calls /\ b.at = m.at /\ b.stop = m.stop
      /\ b.cut = m.cut /\ b.read = m.read /\ b.started = m.started
  BY <1>0 DEF Aside, Same, Fields
<1>4. /\ OarSame(b, g) /\ b.ends \in {0, 1} /\ s.usage = Extract(b.read)
      /\ (~Counts(b.read) => b.read = NoReport)
  BY <1>0, <1>3 DEF OarBefore, CoupledOar, OarSame, Aside
<1>5. OarStop(s, m) => OarStop(s, b)
  BY <1>3 DEF OarStop
<1>6. s.finished => OarDone(s, b, g)
  BY <1>0, <1>3, <1>5 DEF Aside, OarBefore, CoupledOar, OarDone
<1>7. ~s.finished => OarLive(s, b, g)
  <2> SUFFICES ASSUME ~s.finished PROVE OarLive(s, b, g)
    OBVIOUS
  <2>1. OarLive(s, m, g) /\ OarItems(s, m, g) /\ DOMAIN s = OarFields
    BY DEF OarBefore, CoupledOar, OarLive, OarItems
  <2>2. OarItems(s, b, g)
    BY <1>3, <2>1, OarItemsStay
  <2> QED BY <1>0, <1>3, <1>5, <2>1, <2>2 DEF Aside, OarLive
<1>8. CoupledOar(s, b, g)
  BY <1>0, <1>4, <1>6, <1>7 DEF OarBefore, CoupledOar, Aside
<1> QED BY <1>0, <1>1, <1>2, <1>8 DEF OarAfter

LEMMA OarOver ==
  ASSUME NEW s, NEW m, NEW g, NEW ev, OarBefore(s, m, g, ev), s.finished
  PROVE  OarAfter(s, m, g, ev)
<1>1. PICK b : b = ReadOpenAi(m, ev)
  OBVIOUS
<1>2. WellRead(m) /\ Over(m) /\ m.failed \in BOOLEAN /\ m.ends \in Nat
  BY DEF OarBefore, CoupledOar, OarDone, Over, WellRead
<1>3. OarPush(s, ev) = Says(s, <<>>)
  BY DEF OarPush
<1>4. Aside(s, m, b)
  <2>1. CASE ev.e = "chunk"
    <3>1. b = Blame(m, "late")
      BY <1>1, <1>2, <2>1, OpenAiReads
    <3>2. WellRead(b) /\ Same(b, m, {"faults"})
      BY <1>2, <3>1, BlameIs
    <3> QED BY <3>2 DEF Aside, Same, Fields
  <2>2. CASE ev.e = "[DONE]"
    BY <1>2, <2>2 DEF OarBefore, OaAllowed
  <2>3. CASE ev.e = "error"
    <3>1. b = Fail(m)
      BY <1>1, <2>3, OpenAiReads
    <3>2. WellRead(b) /\ Same(b, m, {"failed"}) /\ b.failed = TRUE
      BY <1>2, <3>1, FailIs
    <3> QED BY <3>2 DEF Aside, Same, Fields
  <2>4. CASE ev.e = "garbage"
    <3>1. b = m
      BY <1>1, <2>4, OpenAiReads
    <3> QED BY <1>2, <3>1 DEF Aside, Same
  <2> QED BY <2>1, <2>2, <2>3, <2>4 DEF OarBefore, OaAllowed, OaEvent
<1> QED BY <1>1, <1>3, <1>4, OarAside

LEMMA OarError ==
  ASSUME NEW s, NEW m, NEW g, NEW ev, OarBefore(s, m, g, ev), ~s.finished, ev.e = "error"
  PROVE  OarAfter(s, m, g, ev)
<1> DEFINE t == [s EXCEPT !.finished = TRUE]
<1>1. OarPush(s, ev) = Says(t, <<Error>>)
  BY DEF OarPush
<1>2. OarPush(s, ev).s = t /\ OarPush(s, ev).out = <<Error>> /\ IsSeq(<<Error>>)
  BY <1>1, FoldOne DEF Says
<1>3. WellRead(m) /\ WellRead(g) /\ OarLive(s, m, g) /\ DOMAIN s = OarFields
  BY DEF OarBefore, CoupledOar, OarLive, OarItems
<1>4. t.finished = TRUE /\ t.started = s.started /\ t.usage = s.usage /\ t.finish = s.finish
  BY <1>3 DEF OarFields
<1> HIDE DEF t
<1>5. PICK b : b = ReadOpenAi(m, ev)
  OBVIOUS
<1>6. WellRead(b) /\ Same(b, m, {"failed"}) /\ b.failed = TRUE
  <2>1. b = Fail(m)
    BY <1>5, OpenAiReads
  <2> QED BY <1>3, <2>1, FailIs
<1>7. PICK h : h = Reads("responses", g, <<Error>>)
  OBVIOUS
<1>8. WellRead(h) /\ Same(h, g, {"failed"}) /\ h.failed = TRUE
  <2>1. h = ReadResponses(g, Error)
    BY <1>7, ReadsOne, ReadIs DEF Protocols
  <2>2. h = Fail(g)
    BY <2>1 DEF ReadResponses, Error
  <2> QED BY <1>3, <2>2, FailIs
<1>9. /\ b.text = m.text /\ b.calls = m.calls /\ b.stop = m.stop /\ b.cut = m.cut
      /\ b.read = m.read /\ b.ends = m.ends
      /\ h.text = g.text /\ h.think = g.think /\ h.calls = g.calls
      /\ h.faults = g.faults /\ h.ends = g.ends
  BY <1>6, <1>8 DEF Same, Fields
<1>10. g.ends = 0
  BY <1>3 DEF OarLive, Over, WellRead
<1>11. OarDone(t, b, h)
  BY <1>3, <1>4, <1>6, <1>8, <1>9, <1>10 DEF OarDone, OarLive, OarStop
<1>12. CoupledOar(t, b, h)
  BY <1>4, <1>6, <1>8, <1>9, <1>11 DEF OarBefore, CoupledOar, OarSame
<1> QED BY <1>2, <1>5, <1>7, <1>12 DEF OarAfter

\* The usage a Responses client is told is the one it is charged for.
LEMMA TellsUsage ==
  ASSUME NEW r \in UsageObjects, ~Counts(r) => r = NoReport, NEW u, u = Extract(r),
         NEW told, told = IF u.total > 0 THEN Report(u) ELSE NoReport
  PROVE  u \in Bills /\ Extract(told) = u
<1>1. u \in Bills /\ (u.total > 0 <=> Counts(r)) /\ Extract(Report(u)) = u
  BY ExtractIs
<1>2. CASE u.total > 0
  BY <1>1, <1>2
<1>3. CASE ~(u.total > 0)
  <2>1. r = NoReport
    BY <1>1, <1>3
  <2> QED BY <1>1, <1>3, <2>1
<1> QED BY <1>2, <1>3

LEMMA OarEnds ==
  ASSUME NEW s, NEW m, NEW g, NEW ev, OarBefore(s, m, g, ev), ~s.finished, ev.e = "[DONE]"
  PROVE  OarAfter(s, m, g, ev)
<1>1. PICK b : b = ReadOpenAi(m, ev)
  OBVIOUS
<1>2. /\ WellRead(m) /\ WellRead(g) /\ OarLive(s, m, g) /\ m.ends = 0
      /\ ~m.failed /\ s.started \in BOOLEAN /\ g.ends = 0 /\ ~g.failed /\ ~g.cut
  BY DEF OarBefore, CoupledOar, OaAllowed, OarLive, Over, WellRead
<1>3. WellRead(b) /\ Same(b, m, {"ends"}) /\ b.ends = 1
  <2>1. b = End(m)
    BY <1>1, OpenAiReads
  <2> QED BY <1>2, <2>1, EndIs
<1>4. /\ b.text = m.text /\ b.calls = m.calls /\ b.stop = m.stop /\ b.cut = m.cut
      /\ b.read = m.read /\ b.started = m.started /\ b.failed = m.failed
  BY <1>3 DEF Same, Fields
<1>5. PICK r : r = OarFinalize(s)
  OBVIOUS
<1>6. OarPush(s, ev) = r
  BY <1>5 DEF OarPush
<1>7. CASE ~s.started
  <2>1. r = Says(s, <<>>)
    BY <1>5, <1>7 DEF OarFinalize
  <2>2. ~m.started
    BY <1>2, <1>7 DEF OarLive
  <2>3. Aside(s, m, b)
    BY <1>3, <1>4, <2>2 DEF Aside, Same
  <2> QED BY <1>1, <1>6, <2>1, <2>3, OarAside
<1>8. CASE s.started
  <2>1. g.started /\ m.started /\ OarItems(s, m, g) /\ OarStop(s, m) /\ ~Over(g) /\ g.shut = {}
        /\ g.read = NoReport
    BY <1>2, <1>8 DEF OarLive
  <2>2. m.read \in UsageObjects /\ (~Counts(m.read) => m.read = NoReport)
        /\ s.usage = Extract(m.read)
    BY DEF OarBefore, CoupledOar, WellRead
  <2>3. s.usage \in Bills
    BY <2>2, ExtractIs
  <2>4. PICK h : h = Reads("responses", g, r.out)
    OBVIOUS
  <2>5. IsSeq(r.out) /\ OarBye(s, g, h) /\ r.s = [s EXCEPT !.finished = TRUE]
    BY <1>2, <1>5, <1>8, <2>1, <2>3, <2>4, OarFinalizes
  <2>6. /\ r.s.finished = TRUE /\ r.s.started = s.started
        /\ r.s.usage = s.usage /\ r.s.finish = s.finish
    BY <2>1, <2>5 DEF OarItems, OarFields
  <2>7. /\ WellRead(h) /\ h.ends = 1 /\ ~h.failed
        /\ (h.cut <=> s.finish \in {"length", "content_filter"})
        /\ h.text = g.text /\ h.think = g.think /\ h.calls = g.calls /\ h.faults = g.faults
    BY <1>2, <2>5 DEF OarBye, Same, Fields
  <2>8. Extract(h.read) = s.usage
    <3>1. h.read = IF s.usage.total > 0 THEN Report(s.usage) ELSE NoReport
      BY <2>1, <2>5 DEF OarBye
    <3> QED BY <2>2, <3>1, TellsUsage
  <2>9. OarDone(r.s, b, h)
    <3>1. OarStop(r.s, b)
      BY <1>4, <2>1, <2>6 DEF OarStop
    <3>2. b.ends > 0 /\ b.started
      BY <1>3, <1>4, <2>1
    <3>3. h.cut <=> r.s.finish \in {"length", "content_filter"}
      BY <2>6, <2>7
    <3> QED BY <1>3, <2>6, <2>7, <2>8, <3>1, <3>2, <3>3 DEF OarDone
  <2>10. CoupledOar(r.s, b, h)
    BY <1>2, <1>3, <1>4, <2>2, <2>6, <2>7, <2>9 DEF OarBefore, CoupledOar, OarSame
  <2> QED BY <1>1, <1>6, <2>4, <2>5, <2>10 DEF OarAfter
<1> QED BY <1>7, <1>8

\* created and in_progress, when they are due.
LEMMA OarStarts ==
  ASSUME NEW s, NEW m, NEW g, CoupledOar(s, m, g), ~s.finished, NEW use \in UsageObjects
  PROVE  LET r == [OarStart(s) EXCEPT !.s.usage = Capture(@, use)]
         IN \E h : /\ Heard("responses", g, r, h) /\ OarMid(r.s, m, h)
                   /\ r.s.usage = Capture(s.usage, use)
                   /\ r.s.started = TRUE /\ r.s.finished = s.finished
<1> DEFINE r == [OarStart(s) EXCEPT !.s.usage = Capture(@, use)]
<1>1. /\ WellRead(m) /\ WellRead(g) /\ OarLive(s, m, g) /\ DOMAIN s = OarFields
      /\ OarItems(s, m, g) /\ OarSame(m, g) /\ g.faults = {} /\ s.started \in BOOLEAN
  BY DEF CoupledOar, OarLive, OarItems
<1>2. PICK u : u = Capture(s.usage, use)
  OBVIOUS
<1>3. ASSUME NEW h, WellRead(h), Same(h, g, {"started"}), h.started = TRUE,
             NEW t, OarKept(t, s, {"started", "usage"})
      PROVE  OarMid(t, m, h) /\ t.finished = s.finished
  <2>1. /\ h.text = g.text /\ h.think = g.think /\ h.calls = g.calls /\ h.at = g.at
        /\ h.shut = g.shut /\ h.faults = g.faults /\ h.failed = g.failed /\ h.ends = g.ends
        /\ h.cut = g.cut /\ h.read = g.read
    BY <1>3 DEF Same, Fields
  <2>2. /\ DOMAIN t = OarFields /\ t.next = s.next /\ t.textIx = s.textIx /\ t.text = s.text
        /\ t.tools = s.tools /\ t.finish = s.finish /\ t.finished = s.finished
    BY <1>3 DEF OarKept, OarFields
  <2>3. OarItems(t, m, h)
    BY <1>1, <2>1, <2>2, OarItemsStay
  <2> QED BY <1>1, <1>3, <2>1, <2>2, <2>3 DEF OarMid, OarLive, OarSame, OarStop, Over
<1>4. CASE s.started
  <2> DEFINE t == [s EXCEPT !.usage = Capture(@, use)]
  <2>1. OarStart(s) = Says(s, <<>>)
    BY <1>4 DEF OarStart
  <2>2. DOMAIN r = {"s", "out"} /\ r.s = t /\ r.out = <<>>
    BY <2>1 DEF Says
  <2>3. Heard("responses", g, r, g)
    <3> HIDE DEF r, t
    <3>1. PICK none : none = <<>>
      OBVIOUS
    <3>2. IsSeq(none) /\ r.out = none
      BY <2>2, <3>1 DEF IsSeq
    <3>3. Reads("responses", g, none) = g
      BY <3>1, ReadsNone DEF Protocols
    <3> QED BY <2>2, <3>2, <3>3 DEF Heard
  <2>4. OarKept(t, s, {"started", "usage"}) /\ t.started = TRUE /\ t.usage = u
    BY <1>1, <1>2, <1>4 DEF OarKept, OarFields
  <2>5. g.started = TRUE /\ Same(g, g, {"started"})
    BY <1>1, <1>4 DEF OarLive, Same, WellRead
  <2> HIDE DEF r, t
  <2>6. OarMid(t, m, g) /\ t.finished = s.finished
    BY <1>1, <1>3, <2>4, <2>5
  <2> QED BY <1>2, <2>2, <2>3, <2>4, <2>6 DEF r
<1>5. CASE ~s.started
  <2>0. PICK a : a = [s EXCEPT !.started = TRUE]
    OBVIOUS
  <2> DEFINE t == [a EXCEPT !.usage = Capture(@, use)]
  <2>1. PICK e1, e2 : e1 = [e |-> "created"] /\ e2 = [e |-> "in_progress"]
    OBVIOUS
  <2>2. OarStart(s) = Says(a, <<e1, e2>>)
    BY <1>5, <2>0, <2>1 DEF OarStart
  <2>3. DOMAIN r = {"s", "out"} /\ r.s = t /\ r.out = <<e1, e2>>
    BY <2>2 DEF Says
  <2>4. e1.e = "created" /\ e2.e = "in_progress"
    BY <2>1
  <2>5. PICK h : h = [g EXCEPT !.started = TRUE]
    OBVIOUS
  <2>6. ~g.started /\ ~Over(g)
    BY <1>1, <1>5 DEF OarLive
  <2>7. ReadResponses(g, e1) = h /\ ReadResponses(h, e2) = h
    BY <2>4, <2>5, <2>6 DEF ReadResponses
  <2> HIDE DEF r
  <2>8. IsSeq(<<e1, e2>>) /\ Reads("responses", g, <<e1, e2>>) = h
    <3>1. Reads("responses", g, <<e1, e2>>) = Fold("responses", g, <<e1, e2>>)
      BY ReadsIs
    <3>2. \A x, e : Do("responses", x, e) = ReadResponses(x, e)
      BY DEF Do, Read
    <3> QED BY <2>7, <3>1, <3>2, FoldTwo DEF IsSeq
  <2>9. Heard("responses", g, r, h)
    BY <2>3, <2>8 DEF Heard
  <2>10. WellRead(h) /\ Same(h, g, {"started"}) /\ h.started = TRUE
    BY <1>1, <2>5 DEF WellRead, Same, Fields
  <2>11. OarKept(t, s, {"started", "usage"}) /\ t.started = TRUE /\ t.usage = u
    BY <1>1, <1>2, <2>0 DEF OarKept, OarFields
  <2> HIDE DEF t
  <2>12. OarMid(t, m, h) /\ t.finished = s.finished
    BY <1>3, <2>10, <2>11
  <2> QED BY <1>2, <2>3, <2>9, <2>11, <2>12 DEF r
<1> QED BY <1>1, <1>4, <1>5

LEMMA OarChunk ==
  ASSUME NEW s, NEW m, NEW g, NEW ev, OarBefore(s, m, g, ev), ~s.finished, ev.e = "chunk"
  PROVE  OarAfter(s, m, g, ev)
<1>1. PICK ps, use : ps = ev.pieces /\ use = ev.use
  OBVIOUS
<1>2. GoodPieces(m, ps) /\ use \in UsageObjects /\ CoupledOar(s, m, g) /\ WellRead(m)
  BY <1>1 DEF OarBefore, OaAllowed, OaEvent, CoupledOar
<1>3. PICK b : b = ReadOpenAi(m, ev)
  OBVIOUS
<1>4. ~m.failed /\ ~Over(m) /\ m.ends = 0
  <2>1. ~m.failed /\ b.faults = {}
    BY <1>3 DEF OarBefore, CoupledOar, OarLive, OaAllowed
  <2>2. ~Over(m)
    BY <1>2, <1>3, <2>1, OpenAiReads, FaultStays
  <2> QED BY <1>2, <2>1, <2>2 DEF Over, WellRead
<1>5. PICK q : q = [OarStart(s) EXCEPT !.s.usage = Capture(@, use)]
  OBVIOUS
<1>6. PICK x : /\ Heard("responses", g, q, x) /\ OarMid(q.s, m, x)
               /\ q.s.usage = Capture(s.usage, use)
               /\ q.s.started = TRUE /\ q.s.finished = s.finished
  BY <1>2, <1>5, OarStarts
<1>7. PICK a, o : a = Fold("piece", m, ps) /\ o = Fold("oar", q, ps)
  OBVIOUS
<1>8. PICK h : OarSpoken(g, m, q, a, o, h)
  BY <1>2, <1>6, <1>7, OarPiecesAre
<1>9. OarPush(s, ev) = o
  <2>1. FoldLeft(OarPiece, q, ps) = o
    BY <1>7, OarPieces
  <2> QED BY <1>1, <1>5, <2>1 DEF OarPush
<1>10. b = ChunkEnd(a, use)
  BY <1>1, <1>3, <1>4, <1>7, OpenAiReads DEF ChunkRead
<1>11. /\ OarMid(o.s, a, h) /\ Heard("responses", g, o, h) /\ Same(a, m, Said)
       /\ OarKept(o.s, q.s, {"textIx", "text", "tools", "next", "finish"})
  BY <1>8 DEF OarSpoken
<1>12. /\ WellRead(b) /\ Same(b, a, {"started", "read"}) /\ b.started = TRUE
       /\ b.read = IF Counts(use) THEN use ELSE a.read
  BY <1>2, <1>10, <1>11, ChunkEnds DEF OarMid
<1>13. /\ a.read = m.read /\ a.failed = m.failed /\ a.ends = m.ends
  BY <1>11 DEF Same, Fields, Said
<1>14. /\ b.text = a.text /\ b.calls = a.calls /\ b.at = a.at /\ b.stop = a.stop
       /\ b.cut = a.cut /\ b.failed = a.failed /\ b.ends = a.ends
  BY <1>12 DEF Same, Fields
<1>15. o.s.usage = q.s.usage /\ o.s.started = TRUE /\ o.s.finished = s.finished
  BY <1>6, <1>11 DEF OarKept, OarFields
<1>16. o.s.usage = Extract(b.read) /\ (~Counts(b.read) => b.read = NoReport)
  <2>1. s.usage = Extract(m.read) /\ (~Counts(m.read) => m.read = NoReport)
    BY <1>2 DEF CoupledOar
  <2>2. Capture(s.usage, use) = Extract(IF Counts(use) THEN use ELSE m.read)
    BY <1>2, <2>1, CaptureIs
  <2> QED BY <1>6, <1>12, <1>13, <1>15, <2>1, <2>2
<1>17. OarMid(o.s, b, h)
  BY <1>11, <1>12, <1>14, OarMidStays
<1>18. OarLive(o.s, b, h)
  BY <1>4, <1>12, <1>13, <1>14, <1>15, <1>17 DEF OarMid, OarLive
<1>19. CoupledOar(o.s, b, h)
  BY <1>2, <1>4, <1>12, <1>13, <1>14, <1>15, <1>16, <1>17, <1>18 DEF OarMid, CoupledOar
<1> QED BY <1>3, <1>9, <1>11, <1>19 DEF OarAfter, Heard

\* Every event keeps the three together.
LEMMA OarStep ==
  ASSUME NEW s, NEW m, NEW g, NEW ev, OarBefore(s, m, g, ev)
  PROVE  OarAfter(s, m, g, ev)
<1>1. CASE s.finished
  BY <1>1, OarOver
<1>2. CASE ~s.finished /\ ev.e = "garbage"
  <2>1. PICK b : b = ReadOpenAi(m, ev)
    OBVIOUS
  <2>2. b = m
    BY <1>2, <2>1, OpenAiReads
  <2>3. OarPush(s, ev) = Says(s, <<>>)
    BY <1>2 DEF OarPush
  <2>4. Aside(s, m, b)
    BY <2>2 DEF OarBefore, CoupledOar, Aside, Same
  <2> QED BY <2>1, <2>3, <2>4, OarAside
<1>3. CASE ~s.finished /\ ev.e # "garbage"
  BY <1>3, OarError, OarEnds, OarChunk DEF OarBefore, OaAllowed, OaEvent
<1> QED BY <1>1, <1>2, <1>3

-----------------------------------------------------------------------------
(***************************************************************************)
(* From Anthropic to Responses: the chunks of the first half are what a     *)
(* reader between the two (mid) reads.                                     *)
(***************************************************************************)
CoupledChain(a, s, m, mid, g) == CoupledAn(a, m, mid) /\ CoupledOar(s, mid, g)

LEMMA ChainStep ==
  ASSUME NEW m, NEW mid, NEW g, CoupledChain(conv.an, conv.oar, m, mid, g),
         DOMAIN conv = {"oa", "an", "oar", "pass"},
         NEW ev, AnAllowed(m, ev), NEW r, r = ChainPush(ev), NEW b, b = ReadAnthropic(m, ev)
  PROVE  \E x : CoupledChain(r.s.an, r.s.oar, b, x, Reads("responses", g, r.out))
<1>1. PICK a : a = AnPush(conv.an, ev)
  OBVIOUS
<1>2. PICK x : x = Reads("openai", mid, a.out)
  OBVIOUS
<1>3. CoupledAn(a.s, b, x) /\ AnOut(mid, a.out)
  BY <1>1, <1>2, AnStep DEF CoupledChain, AnBefore, AnAfter
<1>4. PICK q : q = Says(conv.oar, <<>>)
  OBVIOUS
<1>5. PICK f : f = Fold("feed", q, a.out)
  OBVIOUS
<1>6. r = Says([conv EXCEPT !.an = a.s, !.oar = f.s], f.out)
  BY <1>1, <1>4, <1>5, ChainIs
<1>7. r.s.an = a.s /\ r.s.oar = f.s /\ r.out = f.out
  <2>1. PICK cv : cv = [conv EXCEPT !.an = a.s, !.oar = f.s]
    OBVIOUS
  <2>2. cv.an = a.s /\ cv.oar = f.s
    BY <2>1
  <2>3. r.s = cv /\ r.out = f.out
    BY <1>6, <2>1 DEF Says
  <2> QED BY <2>2, <2>3
<1>8. PICK none : none = <<>>
  OBVIOUS
<1>9. IsSeq(none) /\ Reads("responses", g, none) = g
  BY <1>8, ReadsNone DEF Protocols, IsSeq
<1>10. CASE a.out = <<>>
  <2>1. f = q
    BY <1>5, <1>10, FoldEmpty
  <2>2. x = mid
    BY <1>2, <1>10, ReadsNone DEF Protocols
  <2>3. f.s = conv.oar /\ f.out = none
    BY <1>4, <1>8, <2>1 DEF Says
  <2> QED BY <1>3, <1>7, <1>9, <2>2, <2>3 DEF CoupledChain
<1>11. ASSUME NEW c, a.out = <<c>>, OaEvent(mid, c)
       PROVE  CoupledChain(r.s.an, r.s.oar, b, x, Reads("responses", g, r.out))
  <2>1. x = ReadOpenAi(mid, c)
    BY <1>2, <1>11, ReadsOne, ReadIs DEF Protocols
  <2>2. x.faults = {} /\ x.ends = 0 /\ mid.ends = 0 /\ WellRead(mid)
    BY <1>3 DEF CoupledChain, CoupledAn
  <2>3. c.e # "[DONE]"
    <3>1. ASSUME c.e = "[DONE]" PROVE FALSE
      <4>1. x = End(mid)
        BY <2>1, <3>1, OpenAiReads
      <4>2. x.ends = mid.ends + 1
        BY <2>2, <4>1, EndIs
      <4> QED BY <2>2, <4>2
    <3> QED BY <3>1
  <2>4. OarBefore(conv.oar, mid, g, c)
    BY <1>11, <2>1, <2>2, <2>3 DEF OarBefore, OaAllowed, CoupledChain
  <2>5. PICK o : o = OarPush(conv.oar, c)
    OBVIOUS
  <2>6. IsSeq(o.out) /\ CoupledOar(o.s, x, Reads("responses", g, o.out))
    BY <2>1, <2>4, <2>5, OarStep DEF OarAfter
  <2>7. f = Says(o.s, none \o o.out)
    <3>1. f = Feed(q, c)
      BY <1>5, <1>11, FoldOne DEF Do
    <3>2. q.s = conv.oar /\ q.out = none
      BY <1>4, <1>8 DEF Says
    <3> QED BY <2>5, <3>1, <3>2 DEF Feed
  <2>8. Reads("responses", g, none \o o.out) = Reads("responses", g, o.out)
    BY <1>9, <2>6, ReadsConcat DEF Protocols
  <2>9. f.s = o.s /\ f.out = none \o o.out
    BY <2>7 DEF Says
  <2> QED BY <1>3, <1>7, <2>6, <2>8, <2>9 DEF CoupledChain
<1> QED BY <1>3, <1>10, <1>11 DEF AnOut

-----------------------------------------------------------------------------
(***************************************************************************)
(* What a coupling says of the messages and the bill u, while the stream is *)
(* open and after each of its ends (how).                                  *)
(***************************************************************************)
\* SameMessage, ClientOrder, OneOutcome, CutStaysCut and ToldTheBill, of the
\* messages m and g of a converted stream.
Kept5(cl, pr, hw, m, g, u) ==
  /\ g.text = m.text /\ g.calls = m.calls /\ g.think = IF cl = "responses" THEN 0 ELSE m.think
  /\ g.faults \subseteq (IF cl = "anthropic" /\ m.mixed THEN {"closed"} ELSE {})
  /\ ~(hw = "broken" /\ m.ends > 0) =>
       /\ g.ends <= 1 /\ (cl = "responses" => ~(g.failed /\ g.ends > 0))
       /\ hw # "open" /\ ~(~m.started /\ cl # "openai") => g.failed \/ g.ends = 1
  /\ g.ends > 0 /\ ~g.failed =>
       /\ m.stop \in CutReasons =>
            g.cut \/ (cl = "anthropic" /\ (m.blank \/ m.stop = "content_filter"))
       /\ g.cut => m.cut
       /\ (pr = "anthropic" => m.stop # "none")
          /\ ~(m.tokens.in + m.tokens.cc + m.repeats + m.tokens.cr > MaxTok) =>
            IF cl = "anthropic" THEN g.tokens.in = u.unc /\ g.tokens.out = u.out
            ELSE Extract(g.read) = u

LEMMA OaStands ==
  ASSUME NEW s, NEW m, NEW g, CoupledOa(s, m, g), NEW u, u = s.usage
  PROVE  Kept5("anthropic", "openai", "open", m, g, u)
<1>1. g.text = m.text /\ g.calls = m.calls /\ g.think = m.think
      /\ g.faults \subseteq (IF m.mixed THEN {"closed"} ELSE {})
  BY DEF CoupledOa, SameContent, OaFaults
<1>2. WellRead(g) /\ g.ends \in Nat
  BY DEF CoupledOa, WellRead
<1>3. CASE ~s.finished
  <2>1. OaLive(s, m, g)
    BY <1>3 DEF CoupledOa
  <2>2. g.ends = 0
    BY <1>2, <2>1 DEF OaLive, Over
  <2> QED BY <1>1, <2>2 DEF Kept5
<1>4. CASE s.finished
  <2>1. OaDone(s, m, g)
    BY <1>4 DEF CoupledOa
  <2>2. CASE g.failed /\ g.ends = 0
    BY <1>1, <2>2 DEF Kept5
  <2>3. CASE /\ g.ends = 1 /\ (g.cut <=> s.stop = "max_tokens")
             /\ g.tokens.in = s.usage.unc /\ g.tokens.out = s.usage.out
    <3>1. /\ m.stop \in CutReasons => g.cut \/ m.blank \/ m.stop = "content_filter"
          /\ g.cut => m.cut
      BY <2>1, <2>3 DEF OaDone, OaStop, FinishToStop, CutReasons
    <3> QED BY <1>1, <2>3, <3>1 DEF Kept5
  <2>4. \/ g.failed /\ g.ends = 0
        \/ /\ g.ends = 1 /\ (g.cut <=> s.stop = "max_tokens")
           /\ g.tokens.in = s.usage.unc /\ g.tokens.out = s.usage.out
    BY <2>1 DEF OaDone
  <2> QED BY <2>2, <2>3, <2>4
<1>5. s.finished \in BOOLEAN
  BY DEF CoupledOa
<1> QED BY <1>3, <1>4, <1>5

\* The stream is closed, after an error (g failed) or without one.
LEMMA OaCloses ==
  ASSUME NEW s, NEW m, NEW g0, CoupledOa(s, m, g0), ~s.finished, s.started,
         NEW g, WellRead(g), Same(g, g0, {"failed"}), NEW hw \in {"eof", "broken"},
         NEW h, Bye(s, g, h)
  PROVE  Kept5("anthropic", "openai", hw, m, h, s.usage)
<1>1. /\ g0.text = m.text /\ g0.calls = m.calls /\ g0.think = m.think
      /\ g0.faults \subseteq (IF m.mixed THEN {"closed"} ELSE {})
      /\ WellRead(g0) /\ OaLive(s, m, g0)
  BY DEF CoupledOa, SameContent, OaFaults
<1>2. g0.ends = 0 /\ ~g0.cut /\ OaStop(s, m)
  BY <1>1 DEF OaLive, Over, WellRead
<1>3. /\ h.text = g0.text /\ h.calls = g0.calls /\ h.think = g0.think /\ h.faults = g0.faults
      /\ h.ends = 1 /\ (h.cut <=> s.stop = "max_tokens")
      /\ h.tokens.in = s.usage.unc /\ h.tokens.out = s.usage.out
  BY <1>2 DEF Bye, Same, Fields
<1>4. /\ m.stop \in CutReasons => h.cut \/ m.blank \/ m.stop = "content_filter"
      /\ h.cut => m.cut
  BY <1>2, <1>3 DEF OaStop, FinishToStop, CutReasons
<1> QED BY <1>1, <1>3, <1>4 DEF Kept5

LEMMA OaEof ==
  ASSUME NEW s, NEW m, NEW g, CoupledOa(s, m, g), NEW r, r = OaFinalize(s)
  PROVE  /\ r.s.usage = s.usage
         /\ Kept5("anthropic", "openai", "eof", m, Reads("anthropic", g, r.out), s.usage)
<1>1. WellRead(g) /\ WellRead(m) /\ s.usage = Extract(m.read) /\ s.started \in BOOLEAN
  BY DEF CoupledOa
<1>2. CASE s.finished \/ ~s.started
  <2>1. r.s = s /\ r.out = <<>>
    BY <1>2 DEF OaFinalize, Says
  <2>2. Reads("anthropic", g, r.out) = g
    BY <2>1, ReadsNone DEF Protocols
  <2>3. PICK u : u = s.usage /\ Kept5("anthropic", "openai", "open", m, g, u)
    BY OaStands
  <2>4. ~(~m.started /\ TRUE) => g.failed \/ g.ends = 1
    BY <1>2 DEF CoupledOa, OaDone, OaLive
  <2>5. Kept5("anthropic", "openai", "eof", m, g, s.usage)
    BY <2>3, <2>4 DEF Kept5
  <2> QED BY <2>1, <2>2, <2>5
<1>3. CASE ~s.finished /\ s.started
  <2>1. OaLive(s, m, g)
    BY <1>3 DEF CoupledOa
  <2>2. Blocks(s, g) /\ g.started /\ g.ends = 0
    BY <1>1, <1>3, <2>1 DEF OaLive, Over, WellRead
  <2>3. s.usage \in Bills
    BY <1>1, ExtractIs DEF WellRead
  <2>4. s.stop \in Stops
    BY <2>1 DEF OaLive, OaStop, Stops, FinishToStop
  <2>5. Bye(s, g, Reads("anthropic", g, r.out)) /\ r.s.usage = s.usage
    BY <1>1, <1>3, <2>2, <2>3, <2>4, OaFinalizes
  <2>6. Same(g, g, {"failed"})
    BY DEF Same
  <2> QED BY <1>1, <1>3, <2>5, <2>6, OaCloses
<1> QED BY <1>2, <1>3

\* The error, and the end of the stream after it.
LEMMA OaBreak ==
  ASSUME NEW s, NEW m, NEW g, CoupledOa(s, m, g), NEW r, r = OaFinalize(s),
         NEW stop, stop = [e |-> "message_stop"],
         NEW tail, tail = IF Terminated(r.out) THEN r.out ELSE r.out \o <<stop>>
  PROVE  /\ r.s.usage = s.usage
         /\ Kept5("anthropic", "openai", "broken", m,
                  Reads("anthropic", g, <<Error>> \o tail), s.usage)
<1>1. WellRead(g) /\ WellRead(m) /\ s.usage = Extract(m.read) /\ s.started \in BOOLEAN
      /\ g.text = m.text /\ g.calls = m.calls /\ g.think = m.think
      /\ g.faults \subseteq (IF m.mixed THEN {"closed"} ELSE {})
  BY DEF CoupledOa, SameContent, OaFaults
<1>2. PICK f : f = Fail(g)
  OBVIOUS
<1>3. WellRead(f) /\ Same(f, g, {"failed"}) /\ f.failed = TRUE
  BY <1>1, <1>2, FailIs
<1>4. PICK err : err = <<Error>>
  OBVIOUS
<1>5. IsSeq(err) /\ Reads("anthropic", g, err) = f
  <2>1. Error.e = "error"
    BY DEF Error
  <2>2. ReadAnthropic(g, Error) = f
    BY <1>2, <2>1, ErrorReads
  <2> QED BY <1>4, <2>2, ReadsOne, ReadIs DEF Protocols
<1>6. CASE s.finished \/ ~s.started
  <2>1. r.s = s /\ r.out = <<>>
    BY <1>6 DEF OaFinalize, Says
  <2>2. PICK none, last : none = <<>> /\ last = <<stop>>
    OBVIOUS
  <2>3. ~Terminated(r.out)
    BY <2>1 DEF Terminated
  <2>4. tail = none \o last
    BY <2>1, <2>2, <2>3
  <2>5. IsSeq(none) /\ IsSeq(last)
    BY <2>2, ReadsOne DEF IsSeq, Protocols
  <2>6. Reads("anthropic", f, none) = f /\ Reads("anthropic", f, last) = ReadAnthropic(f, stop)
    BY <2>2, ReadsOne, ReadsNone, ReadIs DEF Protocols
  <2>7. IsSeq(tail) /\ Reads("anthropic", f, tail) = ReadAnthropic(f, stop)
    <3>1. PICK both : both = none \o last
      OBVIOUS
    <3>2. IsSeq(both) /\ Reads("anthropic", f, both)
                        = Reads("anthropic", Reads("anthropic", f, none), last)
      BY <2>5, <3>1, ReadsConcat DEF Protocols
    <3> QED BY <2>4, <2>6, <3>1, <3>2
  <2>8. ReadAnthropic(f, stop) = End(f)
    BY <1>3 DEF ReadAnthropic
  <2>9. PICK h : h = Reads("anthropic", g, err \o tail)
    OBVIOUS
  <2>10. h = End(f)
    BY <1>5, <2>7, <2>8, <2>9, ReadsConcat DEF Protocols
  <2>11. Same(h, f, {"ends"}) /\ h.ends = f.ends + 1
    BY <1>3, <2>10, EndIs
  <2>12. /\ h.text = g.text /\ h.calls = g.calls /\ h.think = g.think /\ h.faults = g.faults
         /\ h.ends = g.ends + 1 /\ h.failed = TRUE
    BY <1>3, <2>11 DEF Same, Fields
  <2>13. ~(m.ends > 0) => g.ends = 0
    BY <1>1, <1>6 DEF CoupledOa, OaDone, OaLive, Over, WellRead
  <2>14. Kept5("anthropic", "openai", "broken", m, h, s.usage)
    BY <1>1, <2>12, <2>13 DEF Kept5
  <2> QED BY <1>4, <2>1, <2>9, <2>14
<1>7. CASE ~s.finished /\ s.started
  <2>1. OaLive(s, m, g)
    BY <1>7 DEF CoupledOa
  <2>2. Blocks(s, g) /\ g.started /\ g.ends = 0
    BY <1>1, <1>7, <2>1 DEF OaLive, Over, WellRead
  <2>3. s.usage \in Bills
    BY <1>1, ExtractIs DEF WellRead
  <2>4. s.stop \in Stops
    BY <2>1 DEF OaLive, OaStop, Stops, FinishToStop
  <2>5. f.at = g.at /\ f.open = g.open /\ f.started = g.started /\ f.ends = g.ends
    BY <1>3 DEF Same, Fields
  <2>6. Blocks(s, f)
    BY <2>2, <2>5 DEF Blocks, Blk
  <2>7. /\ IsSeq(r.out) /\ Terminated(r.out) /\ Bye(s, f, Reads("anthropic", f, r.out))
        /\ r.s.usage = s.usage
    BY <1>3, <1>7, <2>2, <2>3, <2>4, <2>5, <2>6, OaFinalizes
  <2>8. tail = r.out
    BY <2>7
  <2>9. PICK h : h = Reads("anthropic", g, err \o tail)
    OBVIOUS
  <2>10. h = Reads("anthropic", f, r.out)
    BY <1>5, <2>7, <2>8, <2>9, ReadsConcat DEF Protocols
  <2>11. Kept5("anthropic", "openai", "broken", m, h, s.usage)
    BY <1>3, <1>7, <2>7, <2>10, OaCloses
  <2> QED BY <1>4, <2>7, <2>9, <2>11
<1> QED BY <1>6, <1>7

\* The same of a Responses client, as far as it follows from OpenAI chunks.
OarFine(hw, m, g, u) ==
  /\ OarSame(m, g) /\ g.faults = {} /\ (m.failed /\ m.ends = 0 => g.failed)
  /\ ~(hw = "broken" /\ m.ends > 0) =>
       /\ g.ends <= 1 /\ ~(g.failed /\ g.ends > 0)
       /\ hw # "open" /\ m.started => g.failed \/ g.ends = 1
  /\ g.ends > 0 /\ ~g.failed =>
       /\ m.stop \in CutReasons => g.cut
       /\ g.cut => m.cut
       /\ Extract(g.read) = u

LEMMA OarStands ==
  ASSUME NEW s, NEW m, NEW g, CoupledOar(s, m, g), NEW u, u = s.usage
  PROVE  OarFine("open", m, g, u)
<1>1. OarSame(m, g) /\ g.faults = {} /\ s.finished \in BOOLEAN
      /\ m.failed \in BOOLEAN /\ g.failed \in BOOLEAN /\ g.ends \in Nat
  BY DEF CoupledOar, WellRead
<1>2. CASE ~s.finished
  <2>1. g.ends = 0 /\ ~m.failed
    BY <1>1, <1>2 DEF CoupledOar, OarLive, Over
  <2> QED BY <1>1, <2>1 DEF OarFine
<1>3. CASE s.finished
  <2>1. OarDone(s, m, g)
    BY <1>3 DEF CoupledOar
  <2>2. CASE g.failed /\ g.ends = 0
    BY <1>1, <2>2 DEF OarFine
  <2>3. CASE ~(g.failed /\ g.ends = 0)
    <3>1. /\ g.ends = 1 /\ ~g.failed /\ m.ends = 1 /\ Extract(g.read) = u
          /\ (g.cut <=> s.finish \in {"length", "content_filter"})
      BY <2>1, <2>3 DEF OarDone
    <3>2. (m.stop \in CutReasons => g.cut) /\ (g.cut => m.cut)
      BY <2>1, <3>1 DEF OarDone, OarStop, CutReasons
    <3> QED BY <1>1, <3>1, <3>2 DEF OarFine
  <2> QED BY <2>2, <2>3
<1> QED BY <1>1, <1>2, <1>3

LEMMA OarEof ==
  ASSUME NEW s, NEW m, NEW g, CoupledOar(s, m, g), NEW r, r = OarFinalize(s),
         NEW u, u = s.usage
  PROVE  /\ r.s.usage = u
         /\ OarFine("eof", m, Reads("responses", g, r.out), u)
<1>1. /\ WellRead(g) /\ WellRead(m) /\ u = Extract(m.read) /\ (~Counts(m.read) => m.read = NoReport)
      /\ s.started \in BOOLEAN /\ s.finished \in BOOLEAN /\ OarSame(m, g) /\ g.faults = {}
  BY DEF CoupledOar
<1>2. CASE s.finished \/ ~s.started
  <2>1. r.s = s /\ r.out = <<>>
    BY <1>2 DEF OarFinalize, Says
  <2>2. Reads("responses", g, r.out) = g
    BY <2>1, ReadsNone DEF Protocols
  <2>3. OarFine("open", m, g, u)
    BY OarStands
  <2>4. m.started => g.failed \/ g.ends = 1
    BY <1>1, <1>2 DEF CoupledOar, OarDone, OarLive
  <2>5. OarFine("eof", m, g, u)
    BY <2>3, <2>4 DEF OarFine
  <2> QED BY <2>1, <2>2, <2>5
<1>3. CASE ~s.finished /\ s.started
  <2>1. OarLive(s, m, g)
    BY <1>3 DEF CoupledOar
  <2>2. /\ OarItems(s, m, g) /\ g.started /\ ~Over(g) /\ g.shut = {} /\ ~g.cut
        /\ g.read = NoReport /\ OarStop(s, m) /\ ~m.failed
    BY <1>3, <2>1 DEF OarLive
  <2>3. u \in Bills /\ m.read \in UsageObjects
    BY <1>1, ExtractIs DEF WellRead
  <2>4. PICK h : h = Reads("responses", g, r.out)
    OBVIOUS
  <2>5. OarBye(s, g, h) /\ r.s = [s EXCEPT !.finished = TRUE]
    BY <1>1, <1>3, <2>2, <2>3, <2>4, OarFinalizes
  <2>6. /\ h.text = g.text /\ h.calls = g.calls /\ h.think = g.think /\ h.faults = g.faults
        /\ h.failed = g.failed /\ h.ends = g.ends + 1
        /\ (h.cut <=> s.finish \in {"length", "content_filter"})
        /\ h.read = IF u.total > 0 THEN Report(u) ELSE NoReport
    BY <2>2, <2>5 DEF OarBye, Same, Fields
  <2>7. Extract(h.read) = u
    BY <1>1, <2>3, <2>6, TellsUsage
  <2>8. (m.stop \in CutReasons => h.cut) /\ (h.cut => m.cut)
    BY <2>2, <2>6 DEF OarStop, CutReasons
  <2>9. h.ends = 1 /\ ~h.failed
    BY <1>1, <2>2, <2>6 DEF Over, WellRead
  <2>10. OarSame(m, h) /\ h.faults = {}
    BY <1>1, <2>6 DEF OarSame
  <2>11. OarFine("eof", m, h, u)
    BY <2>2, <2>7, <2>8, <2>9, <2>10 DEF OarFine
  <2>12. r.s.usage = s.usage
    BY <2>2, <2>5 DEF OarItems
  <2> QED BY <2>4, <2>11, <2>12
<1> QED BY <1>1, <1>2, <1>3

\* The error, after which a Responses stream has nothing to say.
LEMMA OarBreak ==
  ASSUME NEW s, NEW m, NEW g, CoupledOar(s, m, g), NEW u, u = s.usage
  PROVE  OarFine("broken", m, Reads("responses", g, <<Error>> \o <<>>), u)
<1>1. PICK err, none, both : err = <<Error>> /\ none = <<>> /\ both = err \o none
  OBVIOUS
<1>2. PICK h : h = Fail(g)
  OBVIOUS
<1>3. WellRead(g) /\ WellRead(m)
  BY DEF CoupledOar
<1>4. WellRead(h) /\ Same(h, g, {"failed"}) /\ h.failed = TRUE
  BY <1>2, <1>3, FailIs
<1>5. ReadResponses(g, Error) = h
  BY <1>2 DEF Error, ReadResponses
<1>6. IsSeq(err) /\ Reads("responses", g, err) = h
  BY <1>1, <1>5, ReadsOne, ReadIs DEF Protocols
<1>7. IsSeq(none) /\ Reads("responses", h, none) = h
  BY <1>1, ReadsNone DEF Protocols, IsSeq
<1>8. Reads("responses", g, both) = h
  <2>1. Reads("responses", g, both) = Reads("responses", Reads("responses", g, err), none)
    BY <1>1, <1>6, <1>7, ReadsConcat DEF Protocols
  <2> QED BY <1>6, <1>7, <2>1
<1>9. /\ h.text = g.text /\ h.calls = g.calls /\ h.think = g.think /\ h.faults = g.faults
      /\ h.ends = g.ends
  BY <1>4 DEF Same, Fields
<1>10. OarSame(m, h) /\ h.faults = {}
  BY <1>9 DEF OarSame, CoupledOar
<1>11. ~(m.ends > 0) => h.ends = 0
  BY <1>3, <1>9 DEF CoupledOar, OarDone, OarLive, Over, WellRead
<1>12. OarFine("broken", m, h, u)
  BY <1>4, <1>10, <1>11 DEF OarFine
<1> QED BY <1>1, <1>8, <1>12

\* From OpenAI.
LEMMA OarIsFine ==
  ASSUME NEW hw, NEW m, NEW g, NEW u, OarFine(hw, m, g, u)
  PROVE  Kept5("responses", "openai", hw, m, g, u)
<1>1. g.text = m.text /\ g.calls = m.calls /\ g.think = 0 /\ g.faults = {}
  BY DEF OarFine, OarSame
<1> QED BY <1>1 DEF OarFine, Kept5

\* From Anthropic, by way of the chunks between the two.
LEMMA ChainIsFine ==
  ASSUME NEW a, NEW m, NEW mid, CoupledAn(a, m, mid), NEW hw, NEW g, NEW u,
         OarFine(hw, mid, g, u)
  PROVE  Kept5("responses", "anthropic", hw, m, g, u)
<1>1. g.text = m.text /\ g.calls = m.calls /\ g.think = 0 /\ g.faults = {}
  BY DEF OarFine, OarSame, CoupledAn, SameContent
<1>2. mid.ends = 0 /\ (mid.failed <=> m.failed) /\ m.failed \in BOOLEAN /\ mid.failed \in BOOLEAN
  BY DEF CoupledAn, WellRead
<1>3. /\ g.ends <= 1 /\ ~(g.failed /\ g.ends > 0)
      /\ hw # "open" /\ mid.started => g.failed \/ g.ends = 1
  BY <1>2 DEF OarFine
<1>4. m.failed => g.failed
  BY <1>2 DEF OarFine
<1>5. ~m.failed => AnTold(a, m, mid)
  BY DEF CoupledAn, AnLive
<1>6. hw # "open" /\ m.started => g.failed \/ g.ends = 1
  BY <1>3, <1>4, <1>5 DEF AnTold
<1>7. ASSUME g.ends > 0, ~g.failed
      PROVE  /\ m.stop \in CutReasons => g.cut
             /\ g.cut => m.cut
             /\ Extract(g.read) = u
  <2>1. AnTold(a, m, mid)
    BY <1>4, <1>5, <1>7
  <2>2. /\ mid.stop \in CutReasons => g.cut
        /\ g.cut => mid.cut
        /\ Extract(g.read) = u
    BY <1>7 DEF OarFine
  <2>3. m.stop \in CutReasons => mid.stop = "length"
    BY <2>1 DEF AnTold, Stops, StopToFinish, CutReasons
  <2>4. mid.cut <=> m.cut
    BY <2>1 DEF AnTold
  <2> QED BY <2>2, <2>3, <2>4 DEF CutReasons
<1> QED BY <1>1, <1>3, <1>6, <1>7 DEF Kept5

\* The usage an OpenAI client is told, once the provider gave its reason.
LEMMA AnTells ==
  ASSUME NEW s, NEW m, NEW g, CoupledAn(s, m, g), ~m.failed, m.stop # "none",
         ~(m.tokens.in + m.tokens.cc + m.repeats + m.tokens.cr > MaxTok)
  PROVE  Extract(g.read) = s.usage
<1>1. AnSums(s.usage, m) /\ AnTold(s, m, g) /\ Summed(s.usage) /\ WellRead(m)
  BY DEF CoupledAn, AnLive, AnConv
<1>2. PICK u : u = s.usage
  OBVIOUS
<1>3. u \in Bills /\ Summed(u)
  BY <1>1, <1>2 DEF Summed
<1>4. PICK n : n = m.tokens.in + m.tokens.cc + m.repeats /\ n \in Nat
               /\ m.tokens.cr \in Nat
  BY <1>1 DEF WellRead
<1>5. n + m.tokens.cr <= MaxTok /\ n <= MaxTok
  BY <1>4, ConverterAssumption
<1>6. u.unc = n /\ u.cached = m.tokens.cr
  BY <1>1, <1>2, <1>4, <1>5, SatIs DEF AnSums
<1>7. u.unc + u.cached <= MaxTok
  BY <1>5, <1>6
<1>8. Extract(Report(u)) = u
  BY <1>3, <1>7, ReportIs
<1>9. g.read = IF u.total = 0 THEN NoReport ELSE Report(u)
  BY <1>1, <1>2 DEF AnTold
<1>10. u.total = 0 => Extract(NoReport) = u
  BY <1>3, NothingSummed, NoUsageIs
<1> QED BY <1>2, <1>8, <1>9, <1>10

LEMMA AnStands ==
  ASSUME NEW s, NEW m, NEW g, CoupledAn(s, m, g), NEW u
  PROVE  Kept5("openai", "anthropic", "open", m, g, u)
<1>1. g.text = m.text /\ g.calls = m.calls /\ g.think = m.think /\ g.faults = {} /\ g.ends = 0
  BY DEF CoupledAn, SameContent
<1> QED BY <1>1 DEF Kept5

\* [DONE], after an error (f is g, failed) or without one.
LEMMA AnCloses ==
  ASSUME NEW s, NEW m, NEW g, CoupledAn(s, m, g), NEW u, u = s.usage,
         NEW f, WellRead(f), Same(f, g, {"failed"}), f.failed \/ f.failed = g.failed,
         NEW hw \in {"eof", "broken"}, NEW h, h = Reads("openai", f, <<Done>>)
  PROVE  Kept5("openai", "anthropic", hw, m, h, u)
<1>1. ReadOpenAi(f, Done) = End(f)
  BY DEF Done, ReadOpenAi
<1>2. h = End(f)
  BY <1>1, ReadsOne, ReadIs DEF Protocols
<1>3. Same(h, f, {"ends"}) /\ h.ends = f.ends + 1
  BY <1>2, EndIs
<1>4. g.text = m.text /\ g.calls = m.calls /\ g.think = m.think /\ g.faults = {} /\ g.ends = 0
      /\ (g.failed <=> m.failed)
  BY DEF CoupledAn, SameContent
<1>5. /\ h.text = m.text /\ h.calls = m.calls /\ h.think = m.think /\ h.faults = {} /\ h.ends = 1
      /\ h.failed = f.failed /\ h.cut = g.cut /\ h.read = g.read
  BY <1>3, <1>4 DEF Same, Fields
<1>6. ASSUME ~h.failed
      PROVE  /\ m.stop \in CutReasons => h.cut
             /\ h.cut => m.cut
             /\ m.stop # "none"
                /\ ~(m.tokens.in + m.tokens.cc + m.repeats + m.tokens.cr > MaxTok) =>
                  Extract(h.read) = u
  <2>1. ~m.failed
    BY <1>4, <1>5, <1>6
  <2>2. AnTold(s, m, g)
    BY <2>1 DEF CoupledAn, AnLive
  <2>3. /\ m.stop \in CutReasons => h.cut
        /\ h.cut => m.cut
    BY <1>5, <2>2 DEF AnTold, Stops, CutReasons
  <2>4. ASSUME m.stop # "none", ~(m.tokens.in + m.tokens.cc + m.repeats + m.tokens.cr > MaxTok)
        PROVE  Extract(h.read) = u
    BY <1>5, <2>1, <2>4, AnTells
  <2> QED BY <2>3, <2>4
<1> QED BY <1>5, <1>6 DEF Kept5

LEMMA AnBreak ==
  ASSUME NEW s, NEW m, NEW g, CoupledAn(s, m, g), NEW u, u = s.usage
  PROVE  Kept5("openai", "anthropic", "broken", m, Reads("openai", g, <<Error>> \o <<Done>>), u)
<1>1. PICK err, last, both : err = <<Error>> /\ last = <<Done>> /\ both = err \o last
  OBVIOUS
<1>2. PICK f : f = Fail(g)
  OBVIOUS
<1>3. WellRead(g)
  BY DEF CoupledAn
<1>4. WellRead(f) /\ Same(f, g, {"failed"}) /\ f.failed = TRUE
  BY <1>2, <1>3, FailIs
<1>5. ReadOpenAi(g, Error) = f
  BY <1>2 DEF Error, ReadOpenAi
<1>6. IsSeq(err) /\ Reads("openai", g, err) = f
  BY <1>1, <1>5, ReadsOne, ReadIs DEF Protocols
<1>7. IsSeq(last)
  BY <1>1, ReadsOne DEF Protocols
<1>8. PICK h : h = Reads("openai", f, last)
  OBVIOUS
<1>9. Reads("openai", g, both) = h
  <2>1. Reads("openai", g, both) = Reads("openai", Reads("openai", g, err), last)
    BY <1>1, <1>6, <1>7, ReadsConcat DEF Protocols
  <2> QED BY <1>6, <1>8, <2>1
<1>10. Kept5("openai", "anthropic", "broken", m, h, u)
  BY <1>1, <1>4, <1>8, AnCloses
<1> QED BY <1>1, <1>9, <1>10

\* A stream without one event: the client is told of an error.
LEMMA NothingSent ==
  ASSUME NEW cl \in Protocols, NEW pr, NEW u, NEW last,
         cl = "openai" => last = <<Done>>,
         cl = "anthropic" => last = <<[e |-> "message_stop"]>>,
         cl = "responses" => last = <<>>
  PROVE  Kept5(cl, pr, "eof", Unread, Reads(cl, Unread, <<Error>> \o last), u)
<1>1. PICK err, f : err = <<Error>> /\ f = Fail(Unread)
  OBVIOUS
<1>2. WellRead(f) /\ Same(f, Unread, {"failed"}) /\ f.failed = TRUE
  BY <1>1, UnreadIsWellRead, FailIs
<1>3. Read(cl, Unread, Error) = f
  BY <1>1 DEF Read, ReadOpenAi, ReadAnthropic, ReadResponses, Error, Protocols
<1>4. IsSeq(err) /\ Reads(cl, Unread, err) = f
  BY <1>1, <1>3, ReadsOne
<1>5. PICK h : h = Reads(cl, f, last)
  OBVIOUS
<1>6. IsSeq(last) /\ h = IF cl = "responses" THEN f ELSE End(f)
  <2>1. CASE cl = "openai"
    <3>1. Read(cl, f, Done) = End(f)
      BY <2>1 DEF Read, ReadOpenAi, Done
    <3> QED BY <1>5, <2>1, <3>1, ReadsOne
  <2>2. CASE cl = "anthropic"
    <3>1. PICK stop : stop = [e |-> "message_stop"]
      OBVIOUS
    <3>2. Read(cl, f, stop) = End(f)
      BY <1>2, <2>2, <3>1 DEF Read, ReadAnthropic
    <3> QED BY <1>5, <2>2, <3>1, <3>2, ReadsOne
  <2>3. CASE cl = "responses"
    <3>1. IsSeq(last) /\ last = <<>>
      BY <2>3 DEF IsSeq
    <3> QED BY <1>5, <2>3, <3>1, ReadsNone
  <2> QED BY <2>1, <2>2, <2>3 DEF Protocols
<1>7. Reads(cl, Unread, err \o last) = h
  <2>1. Reads(cl, Unread, err \o last) = Reads(cl, Reads(cl, Unread, err), last)
    BY <1>4, <1>6, ReadsConcat
  <2> QED BY <1>4, <1>5, <2>1
<1>8. /\ f.text = 0 /\ f.think = 0 /\ f.calls = <<>> /\ f.faults = {} /\ f.ends = 0
      /\ f.failed = TRUE
  BY <1>2 DEF Same, Fields, Unread
<1>9. /\ h.text = 0 /\ h.think = 0 /\ h.calls = <<>> /\ h.faults = {} /\ h.failed = TRUE
      /\ h.ends = IF cl = "responses" THEN 0 ELSE 1
  <2>1. CASE cl = "responses"
    BY <1>6, <1>8, <2>1
  <2>2. CASE cl # "responses"
    <3>1. Same(h, f, {"ends"}) /\ h.ends = f.ends + 1
      BY <1>2, <1>6, <2>2, EndIs
    <3> QED BY <1>8, <2>2, <3>1 DEF Same, Fields
  <2> QED BY <2>1, <2>2
<1>10. /\ Unread.text = 0 /\ Unread.think = 0 /\ Unread.calls = <<>> /\ Unread.started = FALSE
       /\ Unread.ends = 0
  BY DEF Unread
<1>11. Kept5(cl, pr, "eof", Unread, h, u)
  BY <1>9, <1>10 DEF Kept5
<1> QED BY <1>1, <1>7, <1>11

-----------------------------------------------------------------------------
(***************************************************************************)
(* The usage of a stream that goes through unconverted is the one a         *)
(* converter at the same place would have, and what the provider reported.  *)
(***************************************************************************)
\* BilledAsReported, of a message m and a bill u.
Billed(pr, ch, m, u) ==
  ~m.failed =>
    IF pr = "anthropic"
    THEN (ch => /\ m.stop # "none"
                /\ ~(m.tokens.in + m.tokens.cc + m.repeats + m.tokens.cr > MaxTok)) =>
           /\ u.unc = Sat(m.tokens.in + m.tokens.cc + m.repeats)
           /\ u.out = m.tokens.out /\ u.cached = m.tokens.cr
    ELSE u = Extract(m.read)

PassAn(m, u) == \E s, g : CoupledAn(s, m, g) /\ (~m.failed => u = s.usage)
PassOa(m, u) == \E s, g : CoupledOa(s, m, g) /\ (~m.failed => u = Extract(m.read))
PassOar(m, u) == DOMAIN m = Fields /\ u = Extract(m.read)

\* An Anthropic converter counts an event as a stream that goes through does.
LEMMA CountsAlike ==
  ASSUME NEW s, NEW m, NEW g, NEW ev, AnBefore(s, m, g, ev), ~m.failed, ev.e # "error"
  PROVE  PassUsage(s.usage, ev) = AnPush(s, ev).s.usage
<1>1. PICK u : u = s.usage
  OBVIOUS
<1>2. ~s.finished /\ DOMAIN s = {"finished", "tcs", "next", "usage"} /\ AnSums(u, m)
      /\ AnEvent(m, ev)
  BY <1>1 DEF AnBefore, CoupledAn, AnConv, AnLive, AnAllowed
<1>3. CASE ev.e = "message_start"
  <2>1. PICK n : n = AnStart(u, ev.use)
    OBVIOUS
  <2>2. AnPush(s, ev) = Says([s EXCEPT !.usage = n], AnChunk(<<>>))
    BY <1>1, <1>2, <1>3, <2>1 DEF AnPush
  <2>3. AnPush(s, ev).s.usage = n
    BY <1>2, <2>2 DEF Says
  <2> QED BY <1>1, <1>3, <2>1, <2>3 DEF PassUsage
<1>4. CASE ev.e = "message_delta"
  <2>1. PICK n : n = AnDelta(u, ev.use, TRUE)
    OBVIOUS
  <2>2. AnPush(s, ev) = AnMessageDelta(s, ev)
    BY <1>2, <1>4 DEF AnPush
  <2>3. AnPush(s, ev).s = [s EXCEPT !.usage = n]
    BY <1>1, <2>1, <2>2 DEF AnMessageDelta, Says
  <2>4. AnPush(s, ev).s.usage = n
    BY <1>2, <2>3
  <2>5. ev.use.out = Nothing => u.out = 0
    BY <1>2, <1>4 DEF AnBefore, AnAllowed, AnSums
  <2>6. PICK x : x = Given(ev.use.out, u.out)
    OBVIOUS
  <2>7. Or0(ev.use.out) = x
    BY <2>5, <2>6 DEF Or0, Given
  <2>8. AnDelta(u, ev.use, FALSE) = n
    BY <2>1, <2>6, <2>7 DEF AnDelta
  <2> QED BY <1>1, <1>4, <2>4, <2>8 DEF PassUsage
<1>5. CASE ev.e \notin {"message_start", "message_delta"}
  <2>1. AnPush(s, ev).s.usage = u
    <3>1. CASE ev.e = "block_start" /\ ev.type = "tool"
      <4>1. AnPush(s, ev).s = [s EXCEPT !.next = @ + 1, !.tcs = With(@, ev.i, s.next)]
        BY <1>2, <3>1 DEF AnPush, Says
      <4> QED BY <1>1, <1>2, <4>1
    <3>2. CASE ~(ev.e = "block_start" /\ ev.type = "tool")
      <4>1. AnPush(s, ev).s = s
        BY <1>2, <1>5, <3>2 DEF AnPush, Says, AnEvent
      <4> QED BY <1>1, <4>1
    <3> QED BY <3>1, <3>2
  <2>2. PassUsage(u, ev) = u
    BY <1>2, <1>5 DEF PassUsage, AnEvent
  <2> QED BY <1>1, <2>1, <2>2
<1> QED BY <1>3, <1>4, <1>5

LEMMA PassAnStep ==
  ASSUME NEW m, NEW u, PassAn(m, u), NEW ev, AnAllowed(m, ev),
         NEW b, b = ReadAnthropic(m, ev)
  PROVE  PassAn(b, PassUsage(u, ev))
<1>1. PICK s, g : CoupledAn(s, m, g) /\ (~m.failed => u = s.usage)
  BY DEF PassAn
<1>2. AnBefore(s, m, g, ev)
  BY <1>1 DEF AnBefore
<1>3. PICK r, h : r = AnPush(s, ev) /\ h = Reads("openai", g, r.out)
  OBVIOUS
<1>4. CoupledAn(r.s, b, h)
  BY <1>2, <1>3, AnStep DEF AnAfter
<1>5. ~b.failed => PassUsage(u, ev) = r.s.usage
  <2>1. CASE m.failed
    <3>1. WellRead(m)
      BY <1>1 DEF CoupledAn
    <3>2. b.failed = m.failed
      BY <2>1, <3>1, DeadAnthropic DEF Same, Fields
    <3> QED BY <2>1, <3>2
  <2>2. CASE ev.e = "error"
    <3>1. b.failed = TRUE
      <4>1. b = Fail(m) /\ WellRead(m)
        BY <1>1, <2>2, ErrorReads DEF CoupledAn
      <4> QED BY <4>1, FailIs
    <3> QED BY <3>1
  <2>3. CASE ~m.failed /\ ev.e # "error"
    BY <1>1, <1>2, <1>3, <2>3, CountsAlike
  <2> QED BY <2>1, <2>2, <2>3
<1> QED BY <1>4, <1>5 DEF PassAn

LEMMA PassOaStep ==
  ASSUME NEW m, NEW u, PassOa(m, u), NEW ev, OaAllowed(m, ev), NEW b, b = ReadOpenAi(m, ev)
  PROVE  PassOa(b, PassUsage(u, ev))
<1>1. PICK s, g : CoupledOa(s, m, g) /\ (~m.failed => u = Extract(m.read))
  BY DEF PassOa
<1>2. OaBefore(s, m, g, ev) /\ WellRead(m)
  BY <1>1 DEF OaBefore, CoupledOa
<1>3. PICK r, h : r = OaPush(s, ev) /\ h = Reads("anthropic", g, r.out)
  OBVIOUS
<1>4. CoupledOa(r.s, b, h)
  BY <1>2, <1>3, OaStep DEF OaAfter
<1>5. CASE ev.e = "chunk" /\ Over(m)
  <2>1. b = Blame(m, "late")
    BY <1>5, OpenAiReads
  <2>2. b.faults # {}
    BY <1>2, <2>1, FaultStays
  <2>3. m.failed
    BY <2>2 DEF OaAllowed
  <2>4. b.failed = m.failed
    BY <1>2, <2>1, BlameIs DEF Same, Fields
  <2> QED BY <1>4, <2>3, <2>4 DEF PassOa
<1>6. CASE ev.e = "chunk" /\ ~Over(m)
  <2>1. ~m.failed /\ m.ends = 0
    BY <1>2, <1>6 DEF Over, WellRead
  <2>2. ~s.finished
    BY <1>1, <2>1 DEF CoupledOa, OaDone
  <2>3. r.s.usage = Capture(s.usage, ev.use)
    BY <1>2, <1>3, <1>6, <2>2, OaChunk
  <2>4. s.usage = u /\ r.s.usage = Extract(b.read)
    BY <1>1, <1>4, <2>1 DEF CoupledOa
  <2>5. PassUsage(u, ev) = Capture(u, ev.use)
    BY <1>6 DEF PassUsage
  <2> QED BY <1>4, <2>3, <2>4, <2>5 DEF PassOa
<1>7. CASE ev.e # "chunk"
  <2>1. PassUsage(u, ev) = u
    BY <1>7 DEF PassUsage, OaAllowed, OaEvent
  <2>2. b = End(m) \/ b = Fail(m) \/ b = m
    BY <1>7, OpenAiReads DEF OaAllowed, OaEvent
  <2>3. b.read = m.read /\ (m.failed => b.failed)
    BY <1>2, <2>2, EndIs, FailIs DEF Same, Fields
  <2> QED BY <1>1, <1>4, <2>1, <2>3 DEF PassOa
<1> QED BY <1>5, <1>6, <1>7

LEMMA PassOarStep ==
  ASSUME NEW m, NEW u, PassOar(m, u), NEW ev, ev \in ResponsesEvents,
         NEW b, b = ReadResponses(m, ev)
  PROVE  PassOar(b, PassUsage(u, ev))
<1>1. DOMAIN m = Fields /\ u = Extract(m.read)
  BY DEF PassOar
<1>2. ev.e \in {"created", "in_progress", "completed", "incomplete", "error", "garbage"}
  BY DEF ResponsesEvents, Error, Garbage
<1>3. CASE ev.e \in {"completed", "incomplete"}
  <2>1. PICK x : x = [End(m) EXCEPT !.stop = ev.e, !.cut = ev.e = "incomplete",
                                    !.read = IF Counts(ev.use) THEN ev.use ELSE @]
    OBVIOUS
  <2>2. DOMAIN x = Fields /\ x.read = IF Counts(ev.use) THEN ev.use ELSE m.read
    BY <1>1, <2>1 DEF End, Fields
  <2>3. b = x \/ b = Blame(x, "content")
    BY <1>3, <2>1 DEF ReadResponses
  <2>4. DOMAIN b = Fields /\ b.read = x.read
    BY <2>2, <2>3 DEF Blame, Fields
  <2>5. PassUsage(u, ev) = Capture(u, ev.use)
    BY <1>3 DEF PassUsage
  <2>6. Capture(u, ev.use) = Extract(b.read)
    <3>1. ev.use \in UsageObjects
      BY <1>3, ConverterAssumption DEF ResponsesEvents, UsageObjects, Error, Garbage
    <3>2. Extract(ev.use).total > 0 <=> Counts(ev.use)
      BY <3>1, ExtractIs
    <3> QED BY <1>1, <2>2, <2>4, <3>2 DEF Capture
  <2> QED BY <2>4, <2>5, <2>6 DEF PassOar
<1>4. CASE ev.e \in {"created", "in_progress", "error", "garbage"}
  <2>1. PassUsage(u, ev) = u
    BY <1>4 DEF PassUsage
  <2>2. b = m \/ b = Blame(m, "order") \/ b = [m EXCEPT !.started = TRUE] \/ b = Fail(m)
    BY <1>4 DEF ReadResponses
  <2>3. DOMAIN b = Fields /\ b.read = m.read
    BY <1>1, <2>2 DEF Blame, Fail, Fields
  <2> QED BY <1>1, <2>1, <2>3 DEF PassOar
<1> QED BY <1>2, <1>3, <1>4

LEMMA PassIsBilled ==
  ASSUME NEW m, NEW u
  PROVE  /\ PassAn(m, u) => Billed("anthropic", FALSE, m, u)
         /\ PassOa(m, u) => Billed("openai", FALSE, m, u)
         /\ PassOar(m, u) => Billed("responses", FALSE, m, u)
  BY DEF PassAn, PassOa, PassOar, Billed, CoupledAn, AnLive, AnSums

-----------------------------------------------------------------------------
(***************************************************************************)
(* What the provider is allowed to send is what the steps above take.       *)
(***************************************************************************)
LEMMA AllowedAnthropic ==
  ASSUME provider = "anthropic", NEW ev, ev \in AnthropicEvents, Allowed(ev)
  PROVE  AnAllowed(sent, ev)
<1>1. AnEvent(sent, ev)
  <2>1. CASE ev \in [e : {"message_start"}, use : AnStarts]
    BY <2>1, ConverterAssumption DEF AnEvent, Started
  <2>2. CASE ev \in [e : {"block_start"}, i : BlockIx, type : {"text", "think"}, id : {NoCall}]
    BY <2>2 DEF AnEvent
  <2>3. CASE ev \in [e : {"block_start"}, i : BlockIx, type : {"tool"}, id : FreshCalls]
    BY <2>3 DEF AnEvent, FreshCalls
  <2>4. CASE ev \in [e : {"block_delta"}, i : BlockIx, type : {"text", "think", "tool"}, f : Fragments]
    BY <2>4 DEF AnEvent, Kinds, Fragments
  <2>5. CASE ev \in [e : {"block_stop"}, i : BlockIx]
    BY <2>5 DEF AnEvent
  <2>6. CASE ev \in [e : {"message_delta"}, use : AnDeltas,
                     stop : {"none", "end_turn", "max_tokens", "tool_use"}]
    <3>1. AnDeltas \subseteq Updates
      BY ConverterAssumption DEF Updates, Optional
    <3> QED BY <2>6, <3>1 DEF AnEvent, Stops
  <2>7. CASE ev \in {[e |-> "message_stop"], Error, Garbage}
    BY <2>7 DEF AnEvent, Error, Garbage
  <2> QED BY <2>1, <2>2, <2>3, <2>4, <2>5, <2>6, <2>7 DEF AnthropicEvents
<1>2. Read(provider, sent, ev) = ReadAnthropic(sent, ev)
  BY ReadIs
<1>3. /\ sent.failed \/ ReadAnthropic(sent, ev).faults = {}
      /\ ev.e = "message_delta" =>
           /\ sent.stop = "none" /\ sent.started
           /\ ev.use.in \in {Nothing, sent.tokens.in}
           /\ ev.use.out = Nothing => sent.tokens.out = 0
      /\ ev.e = "message_stop" => ~Over(sent)
  BY <1>2 DEF Allowed
<1> QED BY <1>1, <1>3 DEF AnAllowed

LEMMA CallNumbers == \A i \in ToolIx : i \in Nat
  BY ConverterAssumption, Zenon

LEMMA PieceSeqsAreGood ==
  ASSUME NEW ps, ps \in PieceSeqs \/ ps = <<>> \/ ps = <<[p |-> "text", f |-> 1]>>
  PROVE  GoodPieces(sent, ps)
<1>1. \A p : p \in ContentPieces => Content(p)
  BY DEF ContentPieces, Content, Fragments
<1>2. \A p : p \in FinishPieces => Finishes(p)
  BY DEF FinishPieces, Finishes
<1>3. \A p : p \in ToolPieces => NewCall(sent, p) \/ KnownCall(sent, p)
  BY CallNumbers DEF ToolPieces, NewCall, KnownCall, Fragments, FreshCalls
<1>4. \A p : p \in ContentPieces \cup ToolPieces \cup FinishPieces => GoodPiece(sent, p)
  BY <1>1, <1>2, <1>3 DEF GoodPiece
<1>5. PICK t : t = [p |-> "text", f |-> 1]
  OBVIOUS
<1>6. Content(t)
  BY <1>5 DEF Content
<1>7. CASE ps = <<>>
  BY <1>7 DEF GoodPieces
<1>8. CASE ps = <<t>>
  BY <1>6, <1>8 DEF GoodPieces, GoodPiece
<1>9. CASE \E p \in ContentPieces \cup ToolPieces \cup FinishPieces : ps = <<p>>
  BY <1>4, <1>9 DEF GoodPieces
<1>10. CASE \E p \in ToolPieces \cup FinishPieces : ps = <<t, p>>
  <2>1. PICK p \in ToolPieces \cup FinishPieces : ps = <<t, p>>
    BY <1>10
  <2>2. GoodPiece(sent, p)
    BY <1>4
  <2> QED BY <1>6, <2>1, <2>2 DEF GoodPieces
<1>11. ps \in PieceSeqs =>
         \/ ps = <<>>
         \/ \E p \in ContentPieces \cup ToolPieces \cup FinishPieces : ps = <<p>>
         \/ \E p \in ToolPieces \cup FinishPieces : ps = <<t, p>>
  BY <1>5 DEF PieceSeqs
<1> QED BY <1>5, <1>7, <1>8, <1>9, <1>10, <1>11

LEMMA AllowedOpenAi ==
  ASSUME provider = "openai", NEW ev, ev \in OpenAiEvents, Allowed(ev)
  PROVE  OaAllowed(sent, ev)
<1>1. OaEvent(sent, ev)
  <2>1. ASSUME NEW use \in UsageObjects, NEW ps, GoodPieces(sent, ps), ev = OpenAiChunk(use, ps)
        PROVE  OaEvent(sent, ev)
    BY <2>1 DEF OpenAiChunk, OaEvent
  <2>2. CASE ev \in {OpenAiChunk(NoReport, ps) : ps \in PieceSeqs}
    <3>1. PICK ps \in PieceSeqs : ev = OpenAiChunk(NoReport, ps)
      BY <2>2
    <3> QED BY <2>1, <3>1, NoUsageIs, PieceSeqsAreGood
  <2>3. CASE ev \in {OpenAiChunk(u, ps) : u \in Reports, ps \in {<<>>, <<[p |-> "text", f |-> 1]>>}}
    <3>1. PICK u \in Reports, ps \in {<<>>, <<[p |-> "text", f |-> 1]>>} : ev = OpenAiChunk(u, ps)
      BY <2>3
    <3>2. u \in UsageObjects
      BY ConverterAssumption DEF UsageObjects
    <3>3. GoodPieces(sent, ps)
      BY PieceSeqsAreGood
    <3> QED BY <2>1, <3>1, <3>2, <3>3
  <2>4. CASE ev \in {Done, Error, Garbage}
    BY <2>4 DEF OaEvent, Done, Error, Garbage
  <2> QED BY <2>2, <2>3, <2>4 DEF OpenAiEvents
<1>2. Read(provider, sent, ev) = ReadOpenAi(sent, ev)
  BY ReadIs
<1>3. /\ sent.failed \/ ReadOpenAi(sent, ev).faults = {}
      /\ ev.e = "[DONE]" => ~Over(sent)
  BY <1>2 DEF Allowed
<1> QED BY <1>1, <1>3 DEF OaAllowed

-----------------------------------------------------------------------------
(***************************************************************************)
(* A stream of which nothing has come.                                     *)
(***************************************************************************)
LEMMA UnreadIs ==
  /\ WellRead(Unread) /\ Extract(Unread.read) = NoUsage /\ Unread.read = NoReport
  /\ Unread.text = 0 /\ Unread.think = 0 /\ Unread.calls = <<>> /\ Unread.at = <<>>
  /\ Unread.open = Nothing /\ Unread.shut = {} /\ Unread.faults = {} /\ Unread.ends = 0
  /\ Unread.started = FALSE /\ Unread.failed = FALSE /\ Unread.stop = "none"
  /\ Unread.blank = FALSE /\ Unread.cut = FALSE /\ Unread.repeats = 0 /\ Unread.mixed = FALSE
  /\ Unread.tokens.in = 0 /\ Unread.tokens.cc = 0 /\ Unread.tokens.cr = 0
  /\ Unread.tokens.out = 0 /\ Unread.latest = NoCall
<1>1. Unread.read = NoReport
  BY DEF Unread
<1>2. WellRead(Unread) /\ Extract(Unread.read) = NoUsage
  BY <1>1, UnreadIsWellRead, NoUsageIs
<1> QED BY <1>1, <1>2 DEF Unread

LEMMA NoneYet == DOMAIN <<>> = {} /\ Row({}, 0)
  BY DEF Row

LEMMA InitAn == CoupledAn(AnNew, Unread, Unread)
<1>1. PICK m, s : m = Unread /\ s = AnNew
  OBVIOUS
<1>2. DOMAIN s = {"finished", "tcs", "next", "usage"} /\ s.next = 0
      /\ s.usage = NoUsage /\ s.tcs = <<>> /\ s.finished \in BOOLEAN /\ ~s.finished
  BY <1>1 DEF AnNew
<1>3. AnConv(s)
  BY <1>2, NoUsageIs DEF AnConv
<1>4. DOMAIN m.at = {} /\ DOMAIN s.tcs = {}
  BY <1>1, <1>2, UnreadIs, NoneYet
<1>5. AnCalls(s, m, m)
  <2>1. Row(DOMAIN m.at, 0) /\ OnlyCalls(m)
    BY <1>4, NoneYet DEF OnlyCalls
  <2> QED BY <1>2, <1>4, <2>1 DEF AnCalls
<1>6. AnSums(s.usage, m)
  <2>1. Sat(0) = 0
    BY ConverterAssumption DEF Sat
  <2>2. m.tokens.in + m.tokens.cc + m.repeats = 0
    BY <1>1, UnreadIs
  <2> QED BY <1>1, <1>2, <2>1, <2>2, UnreadIs DEF AnSums, NoUsage
<1>7. AnTold(s, m, m)
  BY <1>1, <1>4, UnreadIs DEF AnTold, Stops
<1> QED BY <1>1, <1>2, <1>3, <1>5, <1>6, <1>7, UnreadIs DEF CoupledAn, AnLive, SameContent

LEMMA InitOa == CoupledOa(OaNew, Unread, Unread)
<1>1. PICK m, s : m = Unread /\ s = OaNew
  OBVIOUS
<1>2. DOMAIN s = OaFields /\ ~s.started /\ ~s.finished /\ s.next = 0
      /\ s.started \in BOOLEAN /\ s.finished \in BOOLEAN
      /\ s.tools = <<>> /\ s.stop = "none" /\ s.usage = NoUsage
  BY <1>1 DEF OaNew, OaFields
<1>3. s.blk = [k \in Kinds |-> Nothing]
  <2>1. ToSet(BlockKinds) = Kinds
    BY DEF ToSet, BlockKinds, Kinds
  <2> QED BY <1>1, <2>1 DEF OaNew
<1>4. DOMAIN m.at = {} /\ DOMAIN s.tools = {} /\ DOMAIN m.calls = {}
  BY <1>1, <1>2, UnreadIs, NoneYet
<1>5. Blocks(s, m)
  BY <1>1, <1>2, <1>3, <1>4, UnreadIs, NoneYet DEF Blocks, Blk, Row
<1>6. OaTools(s, m, m)
  BY <1>1, <1>4, UnreadIs DEF OaTools, OnlyCalls, Distinct, CallBlock
<1>7. OaStop(s, m)
  BY <1>1, <1>2, UnreadIs DEF OaStop
<1>8. OaLive(s, m, m)
  BY <1>1, <1>2, <1>5, <1>6, <1>7, UnreadIs DEF OaLive, Over
<1> QED BY <1>1, <1>2, <1>8, UnreadIs DEF CoupledOa, SameContent, OaFaults

LEMMA InitOar == CoupledOar(OarNew, Unread, Unread)
<1>1. PICK m, s : m = Unread /\ s = OarNew
  OBVIOUS
<1>2. DOMAIN s = OarFields /\ ~s.started /\ ~s.finished /\ s.next = 0
      /\ s.started \in BOOLEAN /\ s.finished \in BOOLEAN
      /\ s.tools = <<>> /\ s.finish = "" /\ s.usage = NoUsage /\ s.textIx = Nothing /\ s.text = 0
  BY <1>1 DEF OarNew, OarFields
<1>3. DOMAIN m.at = {} /\ DOMAIN s.tools = {}
  BY <1>1, <1>2, UnreadIs, NoneYet
<1>4. OarItems(s, m, m)
  BY <1>1, <1>2, <1>3, UnreadIs, NoneYet DEF OarItems, OnlyCalls, CallAt
<1>5. OarStop(s, m)
  BY <1>1, <1>2, UnreadIs DEF OarStop
<1>6. OarLive(s, m, m)
  <2>1. ~Over(m) /\ ~m.failed /\ ~m.cut /\ ~m.started /\ m.ends = 0
    BY <1>1, UnreadIs DEF Over
  <2>2. m.shut = {} /\ m.read = NoReport
    BY <1>1, UnreadIs
  <2> QED BY <1>2, <1>4, <1>5, <2>1, <2>2 DEF OarLive
<1> QED BY <1>1, <1>2, <1>6, UnreadIs DEF CoupledOar, OarSame

-----------------------------------------------------------------------------
(***************************************************************************)
(* The inductive invariant: while a stream is open, the converter of its    *)
(* two protocols is coupled to the messages on both sides; once it has      *)
(* ended, the five properties of the messages and the bill stay.            *)
(***************************************************************************)
Coupled ==
  /\ client = "anthropic" /\ provider = "openai" => CoupledOa(conv.oa, sent, got)
  /\ client = "openai" /\ provider = "anthropic" => CoupledAn(conv.an, sent, got)
  /\ client = "responses" /\ provider = "openai" => CoupledOar(conv.oar, sent, got)
  /\ client = "responses" /\ provider = "anthropic" =>
       \E mid : CoupledChain(conv.an, conv.oar, sent, mid, got)
  /\ client = "openai" /\ provider = "openai" => PassOa(sent, conv.pass)
  /\ client = "anthropic" /\ provider = "anthropic" => PassAn(sent, conv.pass)
  /\ client = "responses" /\ provider = "responses" => PassOar(sent, conv.pass)

Sides ==
  \/ client = "anthropic" /\ provider = "openai"
  \/ client = "openai" /\ provider = "anthropic"
  \/ client = "responses" /\ provider = "openai"
  \/ client = "responses" /\ provider = "anthropic"
  \/ client = "openai" /\ provider = "openai"
  \/ client = "anthropic" /\ provider = "anthropic"
  \/ client = "responses" /\ provider = "responses"

IInv ==
  /\ Sides /\ DOMAIN conv = {"oa", "an", "oar", "pass"}
  /\ events \in Nat /\ how \in {"open", "eof", "broken"}
  /\ how = "open" => Coupled
  /\ how = "open" /\ events = 0 => sent = Unread /\ got = Unread
  /\ Converts => Kept5(client, provider, how, sent, got, Usage)
  /\ Billed(provider, Chain, sent, Usage)

\* What an open stream is charged for.
LEMMA OpenIsBilled == Sides /\ Coupled => Billed(provider, Chain, sent, Usage)
<1> SUFFICES ASSUME Sides, Coupled PROVE Billed(provider, Chain, sent, Usage)
  OBVIOUS
<1>1. CASE client = "anthropic" /\ provider = "openai"
  <2>1. Usage = Extract(sent.read)
    BY <1>1 DEF Usage, Passes, Coupled, CoupledOa
  <2> QED BY <1>1, <2>1 DEF Billed
<1>2. CASE client = "openai" /\ provider = "anthropic"
  <2>1. Usage = conv.an.usage
    BY <1>2 DEF Usage, Passes
  <2>2. ~sent.failed => AnSums(Usage, sent)
    BY <1>2, <2>1 DEF Coupled, CoupledAn, AnLive
  <2> QED BY <1>2, <2>2 DEF Billed, AnSums
<1>3. CASE client = "responses" /\ provider = "openai"
  <2>1. Usage = Extract(sent.read)
    BY <1>3 DEF Usage, Passes, Coupled, CoupledOar
  <2> QED BY <1>3, <2>1 DEF Billed
<1>4. CASE client = "responses" /\ provider = "anthropic"
  <2>1. PICK mid : CoupledAn(conv.an, sent, mid) /\ CoupledOar(conv.oar, mid, got)
    BY <1>4 DEF Coupled, CoupledChain
  <2>2. Usage = Extract(mid.read)
    BY <1>4, <2>1 DEF Usage, Passes, CoupledOar
  <2>3. ASSUME ~sent.failed, sent.stop # "none",
               ~(sent.tokens.in + sent.tokens.cc + sent.repeats + sent.tokens.cr > MaxTok)
        PROVE  AnSums(Usage, sent)
    <3>1. Usage = conv.an.usage
      BY <2>1, <2>2, <2>3, AnTells
    <3>2. AnSums(conv.an.usage, sent)
      BY <2>1, <2>3 DEF CoupledAn, AnLive
    <3> QED BY <3>1, <3>2
  <2> QED BY <1>4, <2>3 DEF Billed, AnSums, Chain
<1>5. CASE client = provider
  <2>1. Usage = conv.pass /\ ~Chain
    BY <1>5 DEF Usage, Passes, Chain
  <2>2. /\ provider = "openai" => Billed(provider, FALSE, sent, Usage)
        /\ provider = "anthropic" => Billed(provider, FALSE, sent, Usage)
        /\ provider = "responses" => Billed(provider, FALSE, sent, Usage)
    BY <1>5, <2>1, PassIsBilled DEF Coupled
  <2>3. provider \in {"openai", "anthropic", "responses"}
    BY DEF Sides
  <2>4. Billed(provider, FALSE, sent, Usage)
    BY <2>2, <2>3
  <2> QED BY <2>1, <2>4 DEF Billed
<1> QED BY <1>1, <1>2, <1>3, <1>4, <1>5 DEF Sides

\* What holds of an open stream.
LEMMA OpenIsKept ==
  Sides /\ Coupled /\ Converts => Kept5(client, provider, "open", sent, got, Usage)
<1> SUFFICES ASSUME Sides, Coupled, Converts
             PROVE  Kept5(client, provider, "open", sent, got, Usage)
  OBVIOUS
<1>1. CASE client = "anthropic" /\ provider = "openai"
  <2>1. CoupledOa(conv.oa, sent, got) /\ Usage = conv.oa.usage
    BY <1>1 DEF Coupled, Usage, Passes
  <2> QED BY <1>1, <2>1, OaStands
<1>2. CASE client = "openai" /\ provider = "anthropic"
  <2>1. CoupledAn(conv.an, sent, got)
    BY <1>2 DEF Coupled
  <2> QED BY <1>2, <2>1, AnStands
<1>3. CASE client = "responses" /\ provider = "openai"
  <2>1. CoupledOar(conv.oar, sent, got) /\ Usage = conv.oar.usage
    BY <1>3 DEF Coupled, Usage, Passes
  <2>2. OarFine("open", sent, got, Usage)
    BY <2>1, OarStands
  <2> QED BY <1>3, <2>2, OarIsFine
<1>4. CASE client = "responses" /\ provider = "anthropic"
  <2>1. PICK mid : CoupledAn(conv.an, sent, mid) /\ CoupledOar(conv.oar, mid, got)
    BY <1>4 DEF Coupled, CoupledChain
  <2>2. Usage = conv.oar.usage
    BY <1>4 DEF Usage, Passes
  <2>3. OarFine("open", mid, got, Usage)
    BY <2>1, <2>2, OarStands
  <2> QED BY <1>4, <2>1, <2>3, ChainIsFine
<1> QED BY <1>1, <1>2, <1>3, <1>4 DEF Sides, Converts, Passes

LEMMA InvariantInit == Init => IInv
<1> SUFFICES ASSUME Init PROVE IInv
  OBVIOUS
<1>1. Sides
  BY DEF Init, Pairs, Sides
<1>2. PICK cv : cv = ConvNew /\ conv = cv
  BY DEF Init
<1>3. DOMAIN cv = {"oa", "an", "oar", "pass"} /\ cv.oa = OaNew /\ cv.an = AnNew /\ cv.oar = OarNew
      /\ cv.pass = NoUsage
  BY <1>2 DEF ConvNew
<1>4. sent = Unread /\ got = Unread /\ events = 0 /\ how = "open"
  BY DEF Init
<1>5. CoupledChain(AnNew, OarNew, Unread, Unread, Unread)
  BY InitAn, InitOar DEF CoupledChain
<1>6. PassOa(Unread, NoUsage)
  BY InitOa, UnreadIs DEF PassOa
<1>7. PassAn(Unread, NoUsage)
  <2>1. AnNew.usage = NoUsage
    BY DEF AnNew
  <2> QED BY <2>1, InitAn DEF PassAn
<1>8. PassOar(Unread, NoUsage)
  BY UnreadIs DEF PassOar, WellRead
<1>9. Coupled
  BY <1>2, <1>3, <1>4, <1>5, <1>6, <1>7, <1>8, InitAn, InitOa, InitOar DEF Coupled
<1> QED BY <1>1, <1>2, <1>3, <1>4, <1>9, OpenIsKept, OpenIsBilled DEF IInv

\* One event, for each pair of protocols.
LEMMA ReceiveOa ==
  ASSUME IInv, how = "open", client = "anthropic", provider = "openai",
         NEW ev \in EventsOf(provider), Allowed(ev), NEW p, p = Push(ev)
  PROVE  /\ DOMAIN p.s = DOMAIN conv
         /\ CoupledOa(p.s.oa, Read(provider, sent, ev), Reads(client, got, p.out))
<1>1. OaAllowed(sent, ev)
  BY AllowedOpenAi DEF EventsOf
<1>2. CoupledOa(conv.oa, sent, got) /\ DOMAIN conv = {"oa", "an", "oar", "pass"}
  BY DEF IInv, Coupled
<1>3. PICK r : r = OaPush(conv.oa, ev)
  OBVIOUS
<1>4. CoupledOa(r.s, ReadOpenAi(sent, ev), Reads("anthropic", got, r.out))
  BY <1>1, <1>2, <1>3, OaStep DEF OaBefore, OaAfter
<1>5. p = Says([conv EXCEPT !.oa = r.s], r.out)
  <2>1. ~Passes /\ ~Chain
    BY DEF Passes, Chain
  <2>2. Push(ev) = Says([conv EXCEPT !.oa = OaPush(conv.oa, ev).s], OaPush(conv.oa, ev).out)
    BY <2>1 DEF Push
  <2> QED BY <1>3, <2>2
<1>6. p.s = [conv EXCEPT !.oa = r.s] /\ p.out = r.out
  BY <1>5 DEF Says
<1>7. DOMAIN p.s = DOMAIN conv /\ p.s.oa = r.s
  BY <1>2, <1>6
<1> QED BY <1>4, <1>6, <1>7, ReadIs

LEMMA ReceiveAn ==
  ASSUME IInv, how = "open", client = "openai", provider = "anthropic",
         NEW ev \in EventsOf(provider), Allowed(ev), NEW p, p = Push(ev)
  PROVE  /\ DOMAIN p.s = DOMAIN conv
         /\ CoupledAn(p.s.an, Read(provider, sent, ev), Reads(client, got, p.out))
<1>1. AnAllowed(sent, ev)
  BY AllowedAnthropic DEF EventsOf
<1>2. CoupledAn(conv.an, sent, got) /\ DOMAIN conv = {"oa", "an", "oar", "pass"}
  BY DEF IInv, Coupled
<1>3. PICK r : r = AnPush(conv.an, ev)
  OBVIOUS
<1>4. CoupledAn(r.s, ReadAnthropic(sent, ev), Reads("openai", got, r.out))
  BY <1>1, <1>2, <1>3, AnStep DEF AnBefore, AnAfter
<1>5. p = Says([conv EXCEPT !.an = r.s], r.out)
  <2>1. ~Passes /\ ~Chain
    BY DEF Passes, Chain
  <2>2. Push(ev) = Says([conv EXCEPT !.an = AnPush(conv.an, ev).s], AnPush(conv.an, ev).out)
    BY <2>1 DEF Push
  <2> QED BY <1>3, <2>2
<1>6. p.s = [conv EXCEPT !.an = r.s] /\ p.out = r.out
  BY <1>5 DEF Says
<1>7. DOMAIN p.s = DOMAIN conv /\ p.s.an = r.s
  BY <1>2, <1>6
<1> QED BY <1>4, <1>6, <1>7, ReadIs

LEMMA ReceiveOar ==
  ASSUME IInv, how = "open", client = "responses", provider = "openai",
         NEW ev \in EventsOf(provider), Allowed(ev), NEW p, p = Push(ev)
  PROVE  /\ DOMAIN p.s = DOMAIN conv
         /\ CoupledOar(p.s.oar, Read(provider, sent, ev), Reads(client, got, p.out))
<1>1. OaAllowed(sent, ev)
  BY AllowedOpenAi DEF EventsOf
<1>2. CoupledOar(conv.oar, sent, got) /\ DOMAIN conv = {"oa", "an", "oar", "pass"}
  BY DEF IInv, Coupled
<1>3. PICK r : r = OarPush(conv.oar, ev)
  OBVIOUS
<1>4. CoupledOar(r.s, ReadOpenAi(sent, ev), Reads("responses", got, r.out))
  BY <1>1, <1>2, <1>3, OarStep DEF OarBefore, OarAfter
<1>5. p = Says([conv EXCEPT !.oar = r.s], r.out)
  <2>1. ~Passes /\ ~Chain
    BY DEF Passes, Chain
  <2>2. Push(ev) = Says([conv EXCEPT !.oar = OarPush(conv.oar, ev).s], OarPush(conv.oar, ev).out)
    BY <2>1 DEF Push
  <2> QED BY <1>3, <2>2
<1>6. p.s = [conv EXCEPT !.oar = r.s] /\ p.out = r.out
  BY <1>5 DEF Says
<1>7. DOMAIN p.s = DOMAIN conv /\ p.s.oar = r.s
  BY <1>2, <1>6
<1> QED BY <1>4, <1>6, <1>7, ReadIs

LEMMA ReceiveChain ==
  ASSUME IInv, how = "open", client = "responses", provider = "anthropic",
         NEW ev \in EventsOf(provider), Allowed(ev), NEW p, p = Push(ev)
  PROVE  /\ DOMAIN p.s = DOMAIN conv
         /\ \E mid : CoupledChain(p.s.an, p.s.oar, Read(provider, sent, ev), mid,
                                  Reads(client, got, p.out))
<1>1. AnAllowed(sent, ev)
  BY AllowedAnthropic DEF EventsOf
<1>2. DOMAIN conv = {"oa", "an", "oar", "pass"}
  BY DEF IInv
<1>3. PICK mid : CoupledChain(conv.an, conv.oar, sent, mid, got)
  BY DEF IInv, Coupled
<1>4. p = ChainPush(ev)
  BY DEF Push, Passes, Chain
<1>5. PICK b : b = ReadAnthropic(sent, ev)
  OBVIOUS
<1>6. PICK x : CoupledChain(p.s.an, p.s.oar, b, x, Reads("responses", got, p.out))
  BY <1>1, <1>2, <1>3, <1>4, <1>5, ChainStep
<1>7. DOMAIN p.s = DOMAIN conv
  <2>1. PICK a, f : a = AnPush(conv.an, ev) /\ f = Fold("feed", Says(conv.oar, <<>>), a.out)
    OBVIOUS
  <2>2. p = Says([conv EXCEPT !.an = a.s, !.oar = f.s], f.out)
    BY <1>4, <2>1, ChainIs
  <2>3. p.s = [conv EXCEPT !.an = a.s, !.oar = f.s]
    BY <2>2 DEF Says
  <2> QED BY <2>3
<1> QED BY <1>5, <1>6, <1>7, ReadIs

LEMMA ReceivePass ==
  ASSUME IInv, how = "open", client = provider,
         NEW ev \in EventsOf(provider), Allowed(ev), NEW p, p = Push(ev),
         NEW b, b = Read(provider, sent, ev)
  PROVE  /\ DOMAIN p.s = DOMAIN conv
         /\ provider = "openai" => PassOa(b, p.s.pass)
         /\ provider = "anthropic" => PassAn(b, p.s.pass)
         /\ provider = "responses" => PassOar(b, p.s.pass)
<1>1. DOMAIN conv = {"oa", "an", "oar", "pass"} /\ Coupled
  BY DEF IInv
<1>2. PICK u : u = PassUsage(conv.pass, ev)
  OBVIOUS
<1>3. \E out : p = Says([conv EXCEPT !.pass = u], out)
  <2>1. /\ Passes /\ ~Chain
        /\ <<client, provider>> # <<"anthropic", "openai">>
        /\ <<client, provider>> # <<"openai", "anthropic">>
        /\ <<client, provider>> # <<"responses", "openai">>
    BY DEF Passes, Chain
  <2>2. Push(ev) = Says([conv EXCEPT !.pass = PassUsage(conv.pass, ev)],
                        IF Withheld(ev) THEN <<>> ELSE <<ev>>)
    BY <2>1 DEF Push
  <2> QED BY <1>2, <2>2
<1>4. p.s = [conv EXCEPT !.pass = u]
  BY <1>3 DEF Says
<1>5. DOMAIN p.s = DOMAIN conv /\ p.s.pass = u
  BY <1>1, <1>4
<1>6. ASSUME provider = "openai" PROVE PassOa(b, u)
  <2>1. OaAllowed(sent, ev)
    BY <1>6, AllowedOpenAi DEF EventsOf
  <2>2. b = ReadOpenAi(sent, ev)
    BY <1>6, ReadIs
  <2>3. PassOa(sent, conv.pass)
    BY <1>1, <1>6 DEF Coupled
  <2> QED BY <1>2, <2>1, <2>2, <2>3, PassOaStep
<1>7. ASSUME provider = "anthropic" PROVE PassAn(b, u)
  <2>1. AnAllowed(sent, ev)
    BY <1>7, AllowedAnthropic DEF EventsOf
  <2>2. b = ReadAnthropic(sent, ev)
    BY <1>7, ReadIs
  <2>3. PassAn(sent, conv.pass)
    BY <1>1, <1>7 DEF Coupled
  <2> QED BY <1>2, <2>1, <2>2, <2>3, PassAnStep
<1>8. ASSUME provider = "responses" PROVE PassOar(b, u)
  <2>1. ev \in ResponsesEvents
    BY <1>8 DEF EventsOf
  <2>2. b = ReadResponses(sent, ev)
    BY <1>8, ReadIs
  <2>3. PassOar(sent, conv.pass)
    BY <1>1, <1>8 DEF Coupled
  <2> QED BY <1>2, <2>1, <2>2, <2>3, PassOarStep
<1> QED BY <1>5, <1>6, <1>7, <1>8

LEMMA ReceiveKeeps ==
  ASSUME IInv, NEW ev \in EventsOf(provider), Receive(ev)
  PROVE  IInv'
<1>1. /\ how = "open" /\ Allowed(ev) /\ Sides /\ events \in Nat
      /\ DOMAIN conv = {"oa", "an", "oar", "pass"}
      /\ client' = client /\ provider' = provider /\ how' = how /\ events' = events + 1
  BY DEF Receive, IInv
<1>2. PICK p : p = Push(ev)
  OBVIOUS
<1>3. conv' = p.s /\ sent' = Read(provider, sent, ev) /\ got' = Reads(client, got, p.out)
  BY <1>2 DEF Receive
<1>4. Sides'
  BY <1>1 DEF Sides
<1>5. DOMAIN conv' = DOMAIN conv /\ Coupled'
  <2>1. CASE client = "anthropic" /\ provider = "openai"
    <3>1. DOMAIN conv' = DOMAIN conv /\ CoupledOa(conv'.oa, sent', got')
      BY <1>1, <1>2, <1>3, <2>1, ReceiveOa
    <3> QED BY <1>1, <2>1, <3>1 DEF Coupled
  <2>2. CASE client = "openai" /\ provider = "anthropic"
    <3>1. DOMAIN conv' = DOMAIN conv /\ CoupledAn(conv'.an, sent', got')
      BY <1>1, <1>2, <1>3, <2>2, ReceiveAn
    <3> QED BY <1>1, <2>2, <3>1 DEF Coupled
  <2>3. CASE client = "responses" /\ provider = "openai"
    <3>1. DOMAIN conv' = DOMAIN conv /\ CoupledOar(conv'.oar, sent', got')
      BY <1>1, <1>2, <1>3, <2>3, ReceiveOar
    <3> QED BY <1>1, <2>3, <3>1 DEF Coupled
  <2>4. CASE client = "responses" /\ provider = "anthropic"
    <3>1. /\ DOMAIN conv' = DOMAIN conv
          /\ \E mid : CoupledChain(conv'.an, conv'.oar, sent', mid, got')
      BY <1>1, <1>2, <1>3, <2>4, ReceiveChain
    <3> QED BY <1>1, <2>4, <3>1 DEF Coupled
  <2>5. CASE client = provider
    <3>1. /\ DOMAIN conv' = DOMAIN conv
          /\ provider = "openai" => PassOa(sent', conv'.pass)
          /\ provider = "anthropic" => PassAn(sent', conv'.pass)
          /\ provider = "responses" => PassOar(sent', conv'.pass)
      BY <1>1, <1>2, <1>3, <2>5, ReceivePass
    <3> QED BY <1>1, <2>5, <3>1 DEF Coupled
  <2> QED BY <1>1, <2>1, <2>2, <2>3, <2>4, <2>5 DEF Sides
<1>6. Billed(provider, Chain, sent, Usage)'
  BY <1>4, <1>5, OpenIsBilled, PTL
<1>7. (Converts => Kept5(client, provider, "open", sent, got, Usage))'
  BY <1>4, <1>5, OpenIsKept, PTL
<1>8. events' \in Nat /\ events' # 0
  BY <1>1
<1> QED BY <1>1, <1>4, <1>5, <1>6, <1>7, <1>8 DEF IInv

\* What the converter says at the end, for each protocol of the client.
LEMMA ClosingSays ==
  ASSUME NEW p, p = Finish, DOMAIN conv = {"oa", "an", "oar", "pass"}
  PROVE  /\ Passes => p = Says(conv, <<>>)
         /\ ~Passes /\ client = "openai" => p = Says(conv, <<Done>>)
         /\ ~Passes /\ client = "anthropic" =>
              LET r == OaFinalize(conv.oa)
              IN p.out = r.out /\ DOMAIN p.s = DOMAIN conv /\ p.s.oa = r.s
         /\ ~Passes /\ client = "responses" =>
              LET r == OarFinalize(conv.oar)
              IN p.out = r.out /\ DOMAIN p.s = DOMAIN conv /\ p.s.oar = r.s
<1>1. Passes => p = Says(conv, <<>>)
  BY DEF Finish
<1>2. ~Passes /\ client = "openai" => p = Says(conv, <<Done>>)
  BY DEF Finish
<1>3. ASSUME ~Passes, client = "anthropic", NEW r, r = OaFinalize(conv.oa)
      PROVE  p.out = r.out /\ DOMAIN p.s = DOMAIN conv /\ p.s.oa = r.s
  <2>1. Finish = Says([conv EXCEPT !.oa = OaFinalize(conv.oa).s], OaFinalize(conv.oa).out)
    BY <1>3 DEF Finish
  <2>2. p.s = [conv EXCEPT !.oa = r.s] /\ p.out = r.out
    BY <1>3, <2>1 DEF Says
  <2> QED BY <2>2
<1>4. ASSUME ~Passes, client = "responses", NEW r, r = OarFinalize(conv.oar)
      PROVE  p.out = r.out /\ DOMAIN p.s = DOMAIN conv /\ p.s.oar = r.s
  <2>1. Finish = Says([conv EXCEPT !.oar = OarFinalize(conv.oar).s], OarFinalize(conv.oar).out)
    BY <1>4 DEF Finish
  <2>2. p.s = [conv EXCEPT !.oar = r.s] /\ p.out = r.out
    BY <1>4, <2>1 DEF Says
  <2> QED BY <2>2
<1> QED BY <1>1, <1>2, <1>3, <1>4

\* The end of an open stream keeps the promises, and the bill.
LEMMA ClosingKeeps ==
  ASSUME IInv, how = "open", NEW p, p = Finish
  PROVE  /\ DOMAIN p.s = DOMAIN conv
         /\ Converts => Kept5(client, provider, "eof", sent, Reads(client, got, p.out), Usage)
         /\ client = provider => p.s = conv
         /\ ~Passes /\ client = "openai" => p.s = conv
         /\ ~Passes /\ client = "anthropic" => p.s.oa.usage = conv.oa.usage
         /\ ~Passes /\ client = "responses" => p.s.oar.usage = conv.oar.usage
<1>1. Coupled /\ Sides /\ DOMAIN conv = {"oa", "an", "oar", "pass"}
  BY DEF IInv
<1>2. CASE client = "anthropic" /\ provider = "openai"
  <2>1. CoupledOa(conv.oa, sent, got) /\ Usage = conv.oa.usage /\ ~Passes
    BY <1>1, <1>2 DEF Coupled, Usage, Passes
  <2>2. PICK r : r = OaFinalize(conv.oa)
    OBVIOUS
  <2>3. p.out = r.out /\ DOMAIN p.s = DOMAIN conv /\ p.s.oa = r.s
    BY <1>1, <1>2, <2>1, <2>2, ClosingSays
  <2>4. r.s.usage = conv.oa.usage
        /\ Kept5("anthropic", "openai", "eof", sent, Reads("anthropic", got, r.out), conv.oa.usage)
    BY <2>1, <2>2, OaEof
  <2> QED BY <1>2, <2>1, <2>3, <2>4 DEF Passes
<1>3. CASE client = "openai" /\ provider = "anthropic"
  <2>1. CoupledAn(conv.an, sent, got) /\ Usage = conv.an.usage /\ ~Passes
    BY <1>1, <1>3 DEF Coupled, Usage, Passes
  <2>2. p.s = conv /\ p.out = <<Done>>
    BY <1>1, <1>3, <2>1, ClosingSays DEF Says
  <2>3. WellRead(got) /\ Same(got, got, {"failed"})
    BY <2>1 DEF CoupledAn, Same
  <2>4. Kept5("openai", "anthropic", "eof", sent, Reads("openai", got, <<Done>>), Usage)
    BY <2>1, <2>3, AnCloses
  <2> QED BY <1>3, <2>2, <2>4 DEF Passes
<1>4. CASE client = "responses" /\ provider \in {"openai", "anthropic"}
  <2>1. ~Passes /\ Usage = conv.oar.usage
    BY <1>4 DEF Usage, Passes
  <2>2. PICK r : r = OarFinalize(conv.oar)
    OBVIOUS
  <2>3. p.out = r.out /\ DOMAIN p.s = DOMAIN conv /\ p.s.oar = r.s
    BY <1>1, <1>4, <2>1, <2>2, ClosingSays
  <2>4. /\ r.s.usage = conv.oar.usage
        /\ Kept5("responses", provider, "eof", sent, Reads("responses", got, r.out), Usage)
    <3>1. CASE provider = "openai"
      <4>1. CoupledOar(conv.oar, sent, got)
        BY <1>1, <1>4, <3>1 DEF Coupled
      <4>2. r.s.usage = Usage /\ OarFine("eof", sent, Reads("responses", got, r.out), Usage)
        BY <2>1, <2>2, <4>1, OarEof
      <4> QED BY <2>1, <3>1, <4>2, OarIsFine
    <3>2. CASE provider = "anthropic"
      <4>1. PICK mid : CoupledAn(conv.an, sent, mid) /\ CoupledOar(conv.oar, mid, got)
        BY <1>1, <1>4, <3>2 DEF Coupled, CoupledChain
      <4>2. r.s.usage = Usage /\ OarFine("eof", mid, Reads("responses", got, r.out), Usage)
        BY <2>1, <2>2, <4>1, OarEof
      <4> QED BY <2>1, <3>2, <4>1, <4>2, ChainIsFine
    <3> QED BY <1>4, <3>1, <3>2
  <2> QED BY <1>4, <2>1, <2>3, <2>4 DEF Passes
<1>5. CASE client = provider
  <2>1. Passes /\ ~Converts
    BY <1>5 DEF Passes, Converts
  <2>2. p.s = conv
    BY <1>1, <2>1, ClosingSays DEF Says
  <2> QED BY <2>1, <2>2
<1> QED BY <1>1, <1>2, <1>3, <1>4, <1>5 DEF Sides

\* The same after the error a broken upstream is answered with.
LEMMA BreakingKeeps ==
  ASSUME IInv, how = "open", Converts
  PROVE  Kept5(client, provider, "broken", sent, Reads(client, got, <<Error>> \o BreakTail), Usage)
<1>1. Coupled /\ Sides /\ DOMAIN conv = {"oa", "an", "oar", "pass"} /\ ~Passes
  BY DEF IInv, Converts
<1>2. PICK p : p = Finish
  OBVIOUS
<1>3. CASE client = "anthropic" /\ provider = "openai"
  <2>1. CoupledOa(conv.oa, sent, got) /\ Usage = conv.oa.usage
    BY <1>1, <1>3 DEF Coupled, Usage
  <2>2. PICK r, stop : r = OaFinalize(conv.oa) /\ stop = [e |-> "message_stop"]
    OBVIOUS
  <2>3. p.out = r.out
    BY <1>1, <1>2, <1>3, <2>2, ClosingSays
  <2>4. Terminal = <<stop>>
    BY <1>3, <2>2 DEF Terminal
  <2>5. BreakTail = IF Terminated(r.out) THEN r.out ELSE r.out \o <<stop>>
    BY <1>2, <1>3, <2>3, <2>4 DEF BreakTail, Terminated
  <2>6. Kept5("anthropic", "openai", "broken", sent,
              Reads("anthropic", got, <<Error>> \o BreakTail), conv.oa.usage)
    BY <2>1, <2>2, <2>5, OaBreak
  <2> QED BY <1>3, <2>1, <2>6
<1>4. CASE client = "openai" /\ provider = "anthropic"
  <2>1. CoupledAn(conv.an, sent, got) /\ Usage = conv.an.usage
    BY <1>1, <1>4 DEF Coupled, Usage
  <2>2. p.out = <<Done>>
    BY <1>1, <1>2, <1>4, ClosingSays DEF Says
  <2>3. BreakTail = <<Done>>
    <3>1. IsTerminal(p.out[1]) /\ 1 \in DOMAIN p.out
      BY <2>2 DEF IsTerminal, Done
    <3> QED BY <1>2, <1>4, <2>2, <3>1 DEF BreakTail
  <2>4. Kept5("openai", "anthropic", "broken", sent, Reads("openai", got, <<Error>> \o <<Done>>), Usage)
    BY <2>1, AnBreak
  <2> QED BY <1>4, <2>3, <2>4
<1>5. CASE client = "responses" /\ provider \in {"openai", "anthropic"}
  <2>1. Usage = conv.oar.usage /\ BreakTail = <<>>
    BY <1>1, <1>5 DEF Usage, BreakTail
  <2>2. PICK h : h = Reads("responses", got, <<Error>> \o <<>>)
    OBVIOUS
  <2>3. CASE provider = "openai"
    <3>1. CoupledOar(conv.oar, sent, got)
      BY <1>1, <1>5, <2>3 DEF Coupled
    <3>2. OarFine("broken", sent, h, Usage)
      BY <2>1, <2>2, <3>1, OarBreak
    <3> QED BY <1>5, <2>1, <2>2, <2>3, <3>2, OarIsFine
  <2>4. CASE provider = "anthropic"
    <3>1. PICK mid : CoupledAn(conv.an, sent, mid) /\ CoupledOar(conv.oar, mid, got)
      BY <1>1, <1>5, <2>4 DEF Coupled, CoupledChain
    <3>2. OarFine("broken", mid, h, Usage)
      BY <2>1, <2>2, <3>1, OarBreak
    <3> QED BY <1>5, <2>1, <2>2, <2>4, <3>1, <3>2, ChainIsFine
  <2> QED BY <1>5, <2>3, <2>4
<1> QED BY <1>1, <1>3, <1>4, <1>5 DEF Sides, Passes

\* The end changes what is charged no more.
LEMMA EndUsage ==
  ASSUME IInv, Eof \/ Break
  PROVE  Usage' = Usage /\ DOMAIN conv' = {"oa", "an", "oar", "pass"}
<1>1. how = "open" /\ Sides /\ DOMAIN conv = {"oa", "an", "oar", "pass"}
  BY DEF IInv, Eof, Break
<1>2. client' = client /\ provider' = provider
  BY DEF Eof, Break
<1>3. PICK p : p = Finish
  OBVIOUS
<1>4. conv' = conv \/ conv' = p.s
  BY <1>3 DEF Eof, Break
<1>5. /\ DOMAIN p.s = DOMAIN conv
      /\ client = provider => p.s = conv
      /\ ~Passes /\ client = "openai" => p.s = conv
      /\ ~Passes /\ client = "anthropic" => p.s.oa.usage = conv.oa.usage
      /\ ~Passes /\ client = "responses" => p.s.oar.usage = conv.oar.usage
  BY <1>1, <1>3, ClosingKeeps
<1>6. Passes' <=> Passes
  BY <1>2 DEF Passes
<1>7. CASE conv' = conv
  BY <1>1, <1>2, <1>7 DEF Usage, Passes
<1>8. CASE conv' = p.s
  <2>1. client \in {"openai", "anthropic", "responses"}
    BY <1>1 DEF Sides
  <2> QED BY <1>1, <1>2, <1>5, <1>6, <1>8, <2>1 DEF Usage, Passes
<1> QED BY <1>4, <1>7, <1>8

LEMMA EndKeeps ==
  ASSUME IInv, Eof \/ Break
  PROVE  IInv'
<1>1. /\ how = "open" /\ Coupled /\ Sides /\ DOMAIN conv = {"oa", "an", "oar", "pass"}
      /\ events \in Nat /\ (events = 0 => sent = Unread /\ got = Unread)
      /\ Billed(provider, Chain, sent, Usage)
  BY DEF IInv, Eof, Break
<1>2. /\ client' = client /\ provider' = provider /\ events' = events /\ sent' = sent
      /\ how' \in {"eof", "broken"}
  BY DEF Eof, Break
<1>3. PICK p : p = Finish
  OBVIOUS
<1>5. Converts => Kept5(client, provider, "eof", sent, Reads(client, got, p.out), Usage)
  BY <1>1, <1>3, ClosingKeeps
<1>6. DOMAIN conv' = {"oa", "an", "oar", "pass"}
  BY EndUsage
<1>7. (Passes' <=> Passes) /\ (Converts' <=> Converts) /\ (Chain' <=> Chain) /\ Sides'
  BY <1>1, <1>2 DEF Passes, Converts, Chain, Sides
<1>8. Usage' = Usage
  BY EndUsage
<1>9. ASSUME Converts PROVE Kept5(client, provider, how', sent, got', Usage)
  <2>1. CASE Break
    <3>1. how' = "broken" /\ got' = Reads(client, got, <<Error>> \o BreakTail)
      BY <2>1 DEF Break
    <3> QED BY <1>1, <1>9, <3>1, BreakingKeeps
  <2>2. CASE Eof /\ events = 0
    <3>1. how' = "eof" /\ got' = Reads(client, Unread, <<Error>> \o Terminal) /\ sent = Unread
      BY <1>1, <2>2 DEF Eof
    <3>2. PICK last : last = Terminal
      OBVIOUS
    <3>3. /\ client \in Protocols
          /\ client = "openai" => last = <<Done>>
          /\ client = "anthropic" => last = <<[e |-> "message_stop"]>>
          /\ client = "responses" => last = <<>>
      BY <1>1, <3>2 DEF Terminal, Sides, Protocols
    <3>4. Kept5(client, provider, "eof", Unread, Reads(client, Unread, <<Error>> \o last), Usage)
      BY <3>3, NothingSent
    <3> QED BY <3>1, <3>2, <3>4
  <2>3. CASE Eof /\ events # 0
    <3>1. how' = "eof" /\ got' = Reads(client, got, p.out)
      BY <1>3, <2>3 DEF Eof
    <3> QED BY <1>5, <1>9, <3>1
  <2> QED BY <2>1, <2>2, <2>3
<1>10. (Converts => Kept5(client, provider, how, sent, got, Usage))'
  BY <1>2, <1>7, <1>8, <1>9
<1>11. Billed(provider, Chain, sent, Usage)'
  BY <1>1, <1>2, <1>7, <1>8 DEF Billed
<1> QED BY <1>1, <1>2, <1>6, <1>7, <1>10, <1>11 DEF IInv

-----------------------------------------------------------------------------
(***************************************************************************)
(* Whole answers.  What is read of a sequence of parts, part by part.       *)
(***************************************************************************)
Had(calls, c) == IF c \in DOMAIN calls THEN calls[c] ELSE 0
Nought(think, text) == [think |-> think, text |-> text, calls |-> <<>>]

Reading(m) ==
  /\ m = [think |-> m.think, text |-> m.text, calls |-> m.calls]
  /\ m.think \in Nat /\ m.text \in Nat /\ m.calls \in [DOMAIN m.calls -> Nat]

Parts(q) == IsSeq(q) /\ \A k \in 1..Len(q) : q[k] \in Items

LEMMA ReadPartIs ==
  ASSUME NEW m, Reading(m), NEW it \in Items
  PROVE  LET b == ReadPart(m, it)
         IN /\ Reading(b)
            /\ b.think = IF it.type = "think" THEN m.think + it.size ELSE m.think
            /\ b.text = IF it.type = "text" THEN m.text + it.size ELSE m.text
            /\ b.calls = IF it.type = "tool"
                         THEN With(m.calls, it.id, it.size + Had(m.calls, it.id)) ELSE m.calls
<1> DEFINE b == ReadPart(m, it)
<1>1. it.type \in {"text", "think", "tool"} /\ it.size \in Nat
  BY DEF Items, Kinds
<1>2. CASE it.type = "text"
  <2>1. b = [m EXCEPT !.text = m.text + it.size]
    BY <1>2 DEF ReadPart
  <2> HIDE DEF b
  <2> QED BY <1>1, <1>2, <2>1 DEF Reading, b
<1>3. CASE it.type = "think"
  <2>1. b = [m EXCEPT !.think = m.think + it.size]
    BY <1>3 DEF ReadPart
  <2> HIDE DEF b
  <2> QED BY <1>1, <1>3, <2>1 DEF Reading, b
<1>4. CASE it.type = "tool"
  <2>1. PICK n : n = it.size + Had(m.calls, it.id)
    OBVIOUS
  <2>2. n \in Nat
    BY <1>1, <2>1 DEF Had, Reading
  <2>3. b = [m EXCEPT !.calls = With(m.calls, it.id, n)]
    BY <1>4, <2>1 DEF ReadPart, Had
  <2>4. With(m.calls, it.id, n) \in [DOMAIN m.calls \cup {it.id} -> Nat]
    BY <2>2 DEF With, Reading
  <2>5. PICK c : c = With(m.calls, it.id, n)
    OBVIOUS
  <2>6. c \in [DOMAIN c -> Nat]
    BY <2>4, <2>5
  <2> HIDE DEF b
  <2>7. Reading(b) /\ b.think = m.think /\ b.text = m.text /\ b.calls = c
    BY <2>3, <2>5, <2>6 DEF Reading
  <2> QED BY <1>4, <2>1, <2>5, <2>7 DEF b
<1> QED BY <1>1, <1>2, <1>3, <1>4

LEMMA PartsFold ==
  ASSUME NEW think, NEW text, NEW s
  PROVE  ReadParts(think, text, s) = Fold("part", Nought(think, text), s)
<1>1. \A a, x : Do("part", a, x) = ReadPart(a, x)
  BY DEF Do
<1> DEFINE b == Nought(think, text)
<1>2. ASSUME NEW f
      PROVE  FoldEq("part", b, s, DOMAIN s, f)
               = [S \in SUBSET DOMAIN s |->
                    IF S = {} THEN b ELSE ReadPart(f[S \ {Max(S)}], s[Max(S)])]
  BY <1>1 DEF FoldEq
<1> QED BY <1>2 DEF ReadParts, Nought, Fold, FoldLeft, MapThenFoldSet

LEMMA BlocksFold ==
  ASSUME NEW b, NEW s
  PROVE  FoldLeft(AnBlock, b, s) = Fold("block", b, s)
<1>1. \A a, x : Do("block", a, x) = AnBlock(a, x)
  BY DEF Do
<1>2. ASSUME NEW f
      PROVE  FoldEq("block", b, s, DOMAIN s, f)
               = [S \in SUBSET DOMAIN s |->
                    IF S = {} THEN b ELSE AnBlock(f[S \ {Max(S)}], s[Max(S)])]
  BY <1>1 DEF FoldEq
<1> QED BY <1>2 DEF Fold, FoldLeft, MapThenFoldSet

LEMMA PartsNone ==
  ASSUME NEW think, NEW text
  PROVE  ReadParts(think, text, <<>>) = Nought(think, text)
  BY PartsFold, FoldEmpty

LEMMA PartsAppend ==
  ASSUME NEW think, NEW text, NEW q, IsSeq(q), NEW it
  PROVE  ReadParts(think, text, Append(q, it)) = ReadPart(ReadParts(think, text, q), it)
<1>1. PICK b : b = Nought(think, text)
  OBVIOUS
<1>2. Fold("part", b, Append(q, it)) = Do("part", Fold("part", b, q), it)
  BY FoldAppend
<1>3. \A a, x : Do("part", a, x) = ReadPart(a, x)
  BY DEF Do
<1> QED BY <1>1, <1>2, <1>3, PartsFold

\* The last of a sequence.
LEMMA Split ==
  ASSUME NEW q, IsSeq(q), NEW k \in Nat, Len(q) = k + 1
  PROVE  \E f : /\ IsSeq(f) /\ Len(f) = k /\ q = Append(f, q[k + 1])
                /\ \A i \in 1..k : f[i] = q[i]
<1>1. PICK f : f = [i \in 1..k |-> q[i]]
  OBVIOUS
<1>2. f = [i \in 1..k |-> f[i]] /\ \A i \in 1..k : f[i] = q[i]
  BY <1>1
<1>3. IsSeq(f) /\ Len(f) = k
  BY <1>2, TableIsSeq
<1>4. PICK r : r = Append(f, q[k + 1])
  OBVIOUS
<1>5. IsSeq(r) /\ Len(r) = k + 1 /\ r[k + 1] = q[k + 1] /\ \A i \in 1..k : r[i] = q[i]
  BY <1>2, <1>3, <1>4, AppendIsSeq
<1>6. r = [i \in 1..(k + 1) |-> r[i]] /\ q = [i \in 1..(k + 1) |-> q[i]]
  BY <1>5 DEF IsSeq
<1>7. \A i \in 1..(k + 1) : r[i] = q[i]
  BY <1>5
<1>8. r = q
  BY <1>6, <1>7
<1> QED BY <1>2, <1>3, <1>4, <1>8

\* An Anthropic answer read block by block, and what anthropic_resp_to_openai
\* makes of it, read call by call.
Joined(a, q, finish, use) ==
  LET r == ReadParts(0, 0, q) IN
  /\ Reading(r)
  /\ DOMAIN a = {"think", "text", "calls", "finish", "use"}
  /\ a.finish = finish /\ a.use = use /\ a.think = r.think /\ a.text = r.text
  /\ Parts(a.calls)
  /\ \A think \in Nat, text \in Nat :
       ReadParts(think, text, a.calls) = [think |-> think, text |-> text, calls |-> r.calls]

LEMMA JoinsOne ==
  ASSUME NEW a, NEW q, IsSeq(q), NEW finish, NEW use, Joined(a, q, finish, use), NEW it \in Items
  PROVE  Joined(AnBlock(a, it), Append(q, it), finish, use)
<1>1. PICK r : r = ReadParts(0, 0, q)
  OBVIOUS
<1>2. PICK s : s = ReadParts(0, 0, Append(q, it))
  OBVIOUS
<1>3. Reading(r) /\ s = ReadPart(r, it)
  BY <1>1, <1>2, PartsAppend DEF Joined
<1>4. /\ Reading(s)
      /\ s.think = IF it.type = "think" THEN r.think + it.size ELSE r.think
      /\ s.text = IF it.type = "text" THEN r.text + it.size ELSE r.text
      /\ s.calls = IF it.type = "tool"
                   THEN With(r.calls, it.id, it.size + Had(r.calls, it.id)) ELSE r.calls
  BY <1>3, ReadPartIs
<1>5. PICK b : b = AnBlock(a, it)
  OBVIOUS
<1>6. /\ DOMAIN a = {"think", "text", "calls", "finish", "use"}
      /\ a.finish = finish /\ a.use = use /\ a.think = r.think /\ a.text = r.text
      /\ Parts(a.calls)
      /\ \A think \in Nat, text \in Nat :
           ReadParts(think, text, a.calls) = [think |-> think, text |-> text, calls |-> r.calls]
  BY <1>1 DEF Joined
<1>7. it.type \in {"text", "think", "tool"}
  BY DEF Items, Kinds
<1>8. CASE it.type = "text"
  <2>1. b = [a EXCEPT !.text = a.text + it.size]
    BY <1>5, <1>8 DEF AnBlock
  <2>2. /\ DOMAIN b = DOMAIN a /\ b.finish = finish /\ b.use = use /\ b.think = s.think
        /\ b.text = s.text /\ b.calls = a.calls /\ s.calls = r.calls
    BY <1>4, <1>6, <1>8, <2>1
  <2> QED BY <1>2, <1>4, <1>5, <1>6, <2>2 DEF Joined
<1>9. CASE it.type = "think"
  <2>1. b = [a EXCEPT !.think = a.think + it.size]
    BY <1>5, <1>9 DEF AnBlock
  <2>2. /\ DOMAIN b = DOMAIN a /\ b.finish = finish /\ b.use = use /\ b.think = s.think
        /\ b.text = s.text /\ b.calls = a.calls /\ s.calls = r.calls
    BY <1>4, <1>6, <1>9, <2>1
  <2> QED BY <1>2, <1>4, <1>5, <1>6, <2>2 DEF Joined
<1>10. CASE it.type = "tool"
  <2>1. b = [a EXCEPT !.calls = Append(a.calls, it)]
    BY <1>5, <1>10 DEF AnBlock
  <2>2. PICK c : c = Append(a.calls, it)
    OBVIOUS
  <2>3. /\ DOMAIN b = DOMAIN a /\ b.finish = finish /\ b.use = use /\ b.think = s.think
        /\ b.text = s.text /\ b.calls = c
    BY <1>4, <1>6, <1>10, <2>1, <2>2
  <2>4. IsSeq(a.calls) /\ \A k \in 1..Len(a.calls) : a.calls[k] \in Items
    BY <1>6 DEF Parts
  <2>5. /\ IsSeq(c) /\ Len(c) = Len(a.calls) + 1 /\ c[Len(a.calls) + 1] = it
        /\ \A i \in 1..Len(a.calls) : c[i] = a.calls[i]
    BY <2>2, <2>4, AppendIsSeq
  <2>6. Parts(c)
    <3>1. PICK n \in Nat : n = Len(a.calls)
      BY <2>4 DEF IsSeq
    <3>2. \A k \in 1..(n + 1) : c[k] \in Items
      BY <2>4, <2>5, <3>1
    <3> QED BY <2>5, <3>1, <3>2 DEF Parts
  <2>7. ASSUME NEW think \in Nat, NEW text \in Nat
        PROVE  ReadParts(think, text, c) = [think |-> think, text |-> text, calls |-> s.calls]
    <3>1. PICK u : u = ReadParts(think, text, a.calls)
      OBVIOUS
    <3>2. u = [think |-> think, text |-> text, calls |-> r.calls]
      BY <1>6, <3>1
    <3>3. Reading(u)
      BY <1>3, <3>2 DEF Reading
    <3>4. PICK v : v = ReadPart(u, it)
      OBVIOUS
    <3>5. ReadParts(think, text, c) = v
      BY <2>2, <2>4, <3>1, <3>4, PartsAppend
    <3>6. /\ Reading(v) /\ v.think = think /\ v.text = text
          /\ v.calls = With(r.calls, it.id, it.size + Had(r.calls, it.id))
      BY <1>10, <3>2, <3>3, <3>4, ReadPartIs
    <3>7. v = [think |-> v.think, text |-> v.text, calls |-> v.calls]
      BY <3>6 DEF Reading
    <3> QED BY <1>4, <1>10, <3>5, <3>6, <3>7
  <2> QED BY <1>2, <1>4, <1>5, <1>6, <2>3, <2>6, <2>7 DEF Joined
<1> QED BY <1>5, <1>7, <1>8, <1>9, <1>10

LEMMA BlocksJoin ==
  ASSUME NEW q, Parts(q), NEW finish, NEW use, NEW a,
         a = FoldLeft(AnBlock, OpenAiAnswer(0, 0, <<>>, finish, use), q)
  PROVE  Joined(a, q, finish, use)
<1> DEFINE base == OpenAiAnswer(0, 0, <<>>, finish, use)
           Good == {k \in Nat : \A s : Parts(s) /\ Len(s) = k =>
                      Joined(Fold("block", base, s), s, finish, use)}
<1>1. 0 \in Good
  <2> SUFFICES ASSUME NEW s, Parts(s), Len(s) = 0
               PROVE  Joined(Fold("block", base, s), s, finish, use)
    OBVIOUS
  <2>1. s = <<>>
    BY DEF Parts, IsSeq
  <2>2. Fold("block", base, s) = base /\ ReadParts(0, 0, s) = Nought(0, 0)
    BY <2>1, FoldEmpty, PartsNone
  <2>3. Reading(Nought(0, 0)) /\ Parts(<<>>) /\ Nought(0, 0).calls = <<>>
    <3>1. DOMAIN <<>> = {}
      OBVIOUS
    <3>2. <<>> \in [DOMAIN <<>> -> Nat]
      BY <3>1
    <3>3. IsSeq(<<>>) /\ Len(<<>>) = 0
      BY DEF IsSeq
    <3> QED BY <3>2, <3>3 DEF Reading, Nought, Parts
  <2>4. \A think \in Nat, text \in Nat :
          ReadParts(think, text, <<>>) = [think |-> think, text |-> text, calls |-> <<>>]
    BY PartsNone DEF Nought
  <2>5. /\ DOMAIN base = {"think", "text", "calls", "finish", "use"}
        /\ base.finish = finish /\ base.use = use /\ base.calls = <<>>
        /\ base.think = Nought(0, 0).think /\ base.text = Nought(0, 0).text
    BY DEF OpenAiAnswer, Nought
  <2> HIDE DEF base
  <2> QED BY <2>2, <2>3, <2>4, <2>5 DEF Joined
<1>2. ASSUME NEW k \in Nat, k \in Good PROVE k + 1 \in Good
  <2> SUFFICES ASSUME NEW s, Parts(s), Len(s) = k + 1
               PROVE  Joined(Fold("block", base, s), s, finish, use)
    OBVIOUS
  <2>1. PICK f : /\ IsSeq(f) /\ Len(f) = k /\ s = Append(f, s[k + 1])
                 /\ \A i \in 1..k : f[i] = s[i]
    BY Split DEF Parts
  <2>2. Parts(f) /\ s[k + 1] \in Items
    BY <2>1 DEF Parts
  <2>3. Joined(Fold("block", base, f), f, finish, use)
    BY <1>2, <2>1, <2>2
  <2>4. PICK it : it = s[k + 1]
    OBVIOUS
  <2>5. Fold("block", base, s) = AnBlock(Fold("block", base, f), it)
    <3>1. Fold("block", base, Append(f, it)) = Do("block", Fold("block", base, f), it)
      BY <2>1, FoldAppend
    <3>2. \A c, x : Do("block", c, x) = AnBlock(c, x)
      BY DEF Do
    <3> QED BY <2>1, <2>4, <3>1, <3>2
  <2> HIDE DEF base
  <2> QED BY <2>1, <2>2, <2>3, <2>4, <2>5, JoinsOne
<1>3. Nat \subseteq Good
  <2> HIDE DEF Good
  <2> QED BY <1>1, <1>2, Inductive
<1>4. PICK n \in Nat : n = Len(q)
  BY DEF Parts, IsSeq
<1>5. Joined(Fold("block", base, q), q, finish, use)
  BY <1>3, <1>4
<1>6. a = Fold("block", base, q)
  BY BlocksFold
<1> QED BY <1>5, <1>6

\* Calls of different ids are read as they are.
Tools(q) ==
  /\ Parts(q) /\ \A k \in 1..Len(q) : q[k].type = "tool"
  /\ \A k, l \in 1..Len(q) : q[k].id = q[l].id => k = l

ReadAsCalls(r, q) ==
  /\ DOMAIN r.calls = {q[k].id : k \in 1..Len(q)}
  /\ \A k \in 1..Len(q) : r.calls[q[k].id] = q[k].size

LEMMA ToolsRead ==
  ASSUME NEW q, Tools(q), NEW think \in Nat, NEW text \in Nat, NEW r, r = ReadParts(think, text, q)
  PROVE  Reading(r) /\ r.think = think /\ r.text = text /\ ReadAsCalls(r, q)
<1> DEFINE R(s) == ReadParts(think, text, s)
           Good == {k \in Nat : \A s : Tools(s) /\ Len(s) = k =>
                      /\ Reading(R(s)) /\ R(s).think = think /\ R(s).text = text
                      /\ ReadAsCalls(R(s), s)}
<1>1. 0 \in Good
  <2> SUFFICES ASSUME NEW s, Tools(s), Len(s) = 0
               PROVE  /\ Reading(R(s)) /\ R(s).think = think /\ R(s).text = text
                      /\ ReadAsCalls(R(s), s)
    OBVIOUS
  <2>1. s = <<>>
    BY DEF Tools, Parts, IsSeq
  <2>2. PICK u : u = R(s)
    OBVIOUS
  <2>3. u = [think |-> think, text |-> text, calls |-> <<>>]
    BY <2>1, <2>2, PartsNone DEF Nought
  <2>4. DOMAIN <<>> = {} /\ <<>> \in [DOMAIN <<>> -> Nat]
    OBVIOUS
  <2>5. Reading(u) /\ DOMAIN u.calls = {}
    BY <2>3, <2>4 DEF Reading
  <2>6. 1..Len(s) = {}
    OBVIOUS
  <2> HIDE DEF R
  <2> QED BY <2>2, <2>3, <2>5, <2>6 DEF ReadAsCalls
<1>2. ASSUME NEW k \in Nat, k \in Good PROVE k + 1 \in Good
  <2> SUFFICES ASSUME NEW s, Tools(s), Len(s) = k + 1
               PROVE  /\ Reading(R(s)) /\ R(s).think = think /\ R(s).text = text
                      /\ ReadAsCalls(R(s), s)
    OBVIOUS
  <2>1. PICK f : /\ IsSeq(f) /\ Len(f) = k /\ s = Append(f, s[k + 1])
                 /\ \A i \in 1..k : f[i] = s[i]
    BY Split DEF Tools, Parts
  <2>2. /\ \A i \in 1..(k + 1) : s[i] \in Items /\ s[i].type = "tool"
        /\ \A i, j \in 1..(k + 1) : s[i].id = s[j].id => i = j
    BY DEF Tools, Parts
  <2>3. Tools(f)
    <3>1. \A i \in 1..k : i \in 1..(k + 1)
      OBVIOUS
    <3> QED BY <2>1, <2>2, <3>1 DEF Tools, Parts
  <2>4. PICK it : it = s[k + 1] /\ it \in Items /\ it.type = "tool"
    <3>1. k + 1 \in 1..(k + 1)
      OBVIOUS
    <3> QED BY <2>2, <3>1
  <2>5. PICK u : u = R(f)
    OBVIOUS
  <2>6. Reading(u) /\ u.think = think /\ u.text = text /\ ReadAsCalls(u, f)
    BY <1>2, <2>1, <2>3, <2>5
  <2>7. PICK v : v = ReadPart(u, it)
    OBVIOUS
  <2>8. R(s) = v
    <3>1. s = Append(f, it)
      BY <2>1, <2>4
    <3>2. ReadParts(think, text, Append(f, it)) = ReadPart(ReadParts(think, text, f), it)
      BY <2>1, PartsAppend
    <3> QED BY <2>5, <2>7, <3>1, <3>2
  <2>9. /\ Reading(v) /\ v.think = think /\ v.text = text
        /\ v.calls = With(u.calls, it.id, it.size + Had(u.calls, it.id))
    BY <2>4, <2>6, <2>7, ReadPartIs
  <2>10. it.id \notin DOMAIN u.calls
    <3>1. ASSUME NEW i \in 1..k PROVE f[i].id # it.id
      <4>1. i \in 1..(k + 1) /\ k + 1 \in 1..(k + 1) /\ i # k + 1
        OBVIOUS
      <4> QED BY <2>1, <2>2, <2>4, <4>1
    <3> QED BY <2>1, <2>6, <3>1 DEF ReadAsCalls
  <2>11. it.size + Had(u.calls, it.id) = it.size
    BY <2>4, <2>10 DEF Had, Items
  <2>12. /\ DOMAIN v.calls = DOMAIN u.calls \cup {it.id} /\ v.calls[it.id] = it.size
         /\ \A c \in DOMAIN u.calls : c # it.id => v.calls[c] = u.calls[c]
    BY <2>9, <2>11 DEF With
  <2>13. ReadAsCalls(v, s)
    <3>1. DOMAIN v.calls = {s[i].id : i \in 1..(k + 1)}
      <4>1. DOMAIN u.calls = {s[i].id : i \in 1..k}
        BY <2>1, <2>6 DEF ReadAsCalls
      <4>2. 1..(k + 1) = (1..k) \cup {k + 1}
        OBVIOUS
      <4> QED BY <2>4, <2>12, <4>1, <4>2
    <3>2. ASSUME NEW i \in 1..(k + 1) PROVE v.calls[s[i].id] = s[i].size
      <4>1. CASE i = k + 1
        BY <2>4, <2>12, <4>1
      <4>2. CASE i # k + 1
        <5>1. i \in 1..k
          BY <4>2
        <5>2. u.calls[s[i].id] = s[i].size /\ s[i].id \in DOMAIN u.calls
          BY <2>1, <2>6, <5>1 DEF ReadAsCalls
        <5>3. s[i].id # it.id
          BY <2>10, <5>2
        <5> QED BY <2>12, <5>2, <5>3
      <4> QED BY <4>1, <4>2
    <3> QED BY <3>1, <3>2 DEF ReadAsCalls
  <2> HIDE DEF R
  <2> QED BY <2>8, <2>9, <2>13
<1>3. Nat \subseteq Good
  <2> HIDE DEF Good
  <2> QED BY <1>1, <1>2, Inductive
<1>4. PICK n \in Nat : n = Len(q)
  BY DEF Tools, Parts, IsSeq
<1>5. n \in Good
  BY <1>3
<1> QED BY <1>4, <1>5

\* A text or a reasoning goes before the calls as a part of its own, if there
\* is any.
First(type, n) == IF n = 0 THEN <<>> ELSE <<Part(type, NoCall, n)>>

LEMMA FirstRead ==
  ASSUME NEW type \in {"think", "text"}, NEW n \in Nat, NEW m, Reading(m), NEW s, IsSeq(s),
         NEW b, b = Fold("part", m, First(type, n))
  PROVE  /\ IsSeq(First(type, n) \o s)
         /\ Fold("part", m, First(type, n) \o s) = Fold("part", b, s)
         /\ Reading(b) /\ b.calls = m.calls
         /\ b.think = IF type = "think" THEN m.think + n ELSE m.think
         /\ b.text = IF type = "text" THEN m.text + n ELSE m.text
<1>1. PICK q : q = First(type, n)
  OBVIOUS
<1>2. PICK it : it = Part(type, NoCall, n)
  OBVIOUS
<1>3. it \in Items /\ it.type = type /\ it.size = n
  BY <1>2 DEF Part, Items, Kinds
<1>0. IsSeq(q) => IsSeq(q \o s) /\ Fold("part", m, q \o s) = Fold("part", b, s)
  BY <1>1, ConcatIsSeq, FoldConcat
<1>4. CASE n = 0
  <2>1. q = <<>>
    BY <1>1, <1>4 DEF First
  <2>2. IsSeq(q) /\ b = m
    BY <1>1, <2>1, FoldEmpty DEF IsSeq
  <2>3. m.think + n = m.think /\ m.text + n = m.text
    BY <1>4 DEF Reading
  <2> QED BY <1>0, <1>1, <2>2, <2>3
<1>5. CASE n # 0
  <2>1. q = <<it>>
    BY <1>1, <1>2, <1>5 DEF First
  <2>2. IsSeq(q) /\ b = ReadPart(m, it)
    <3>1. Do("part", m, it) = ReadPart(m, it)
      BY DEF Do
    <3> QED BY <1>1, <2>1, <3>1, FoldOne
  <2>3. /\ Reading(b) /\ b.calls = m.calls
        /\ b.think = IF type = "think" THEN m.think + n ELSE m.think
        /\ b.text = IF type = "text" THEN m.text + n ELSE m.text
    BY <1>3, <2>2, ReadPartIs
  <2> QED BY <1>0, <1>1, <2>2, <2>3
<1> QED BY <1>4, <1>5

-----------------------------------------------------------------------------
(***************************************************************************)
(* What an OpenAI provider has sent: calls, each with an index and an id of *)
(* its own.                                                                *)
(***************************************************************************)
Accounted(m) ==
  /\ m.tokens = Unread.tokens /\ m.repeats = 0
  /\ IsFiniteSet(DOMAIN m.at) /\ DOMAIN m.at \subseteq Nat
  /\ OnlyCalls(m)
  /\ \A i \in DOMAIN m.at : m.at[i].size = m.calls[m.at[i].id]
  /\ \A i, j \in DOMAIN m.at : m.at[i].id = m.at[j].id => i = j
  /\ \A c \in DOMAIN m.calls : \E i \in DOMAIN m.at : m.at[i].id = c

LEMMA PieceAccounted ==
  ASSUME NEW m, WellRead(m), Accounted(m), NEW p, GoodPiece(m, p), NEW b, b = ReadPiece(m, p)
  PROVE  WellRead(b) /\ Accounted(b)
<1>1. OnlyCalls(m)
  BY DEF Accounted
<1>2. ASSUME WellRead(b), b.at = m.at, b.calls = m.calls, b.tokens = m.tokens,
             b.repeats = m.repeats
      PROVE  WellRead(b) /\ Accounted(b)
  BY <1>2 DEF Accounted, OnlyCalls
<1>3. CASE Content(p)
  <2>1. WellRead(b) /\ Same(b, m, {"text", "think", "latest"})
    BY <1>3, ContentIs
  <2>2. b.at = m.at /\ b.calls = m.calls /\ b.tokens = m.tokens /\ b.repeats = m.repeats
    BY <2>1 DEF Same, Fields
  <2> QED BY <1>2, <2>1, <2>2
<1>4. CASE Finishes(p)
  <2>1. WellRead(b) /\ Same(b, m, {"stop", "blank", "cut"})
    <3>1. PICK w : w = p.why
      OBVIOUS
    <3>2. b = Stop(m, w)
      BY <1>4, <3>1, FinishIs
    <3>3. WellRead(Stop(m, w)) /\ Same(Stop(m, w), m, {"stop", "blank", "cut"})
      BY StopIs
    <3> QED BY <3>2, <3>3
  <2>2. b.at = m.at /\ b.calls = m.calls /\ b.tokens = m.tokens /\ b.repeats = m.repeats
    BY <2>1 DEF Same, Fields
  <2> QED BY <1>2, <2>1, <2>2
<1>5. CASE NewCall(m, p)
  <2>1. PICK i, id, f : i = p.i /\ id = p.id /\ f = p.f
    OBVIOUS
  <2>2. i \in Nat \ DOMAIN m.at /\ id \in Calls \ DOMAIN m.calls
    BY <1>5, <2>1 DEF NewCall
  <2>3. PICK new : new = [type |-> "tool", id |-> id, size |-> f]
    OBVIOUS
  <2>4. /\ WellRead(b) /\ OnlyCalls(b)
        /\ b.at = With(m.at, i, new) /\ b.calls = With(m.calls, id, f)
        /\ Same(b, m, {"at", "calls", "latest"})
    BY <1>1, <1>5, <2>1, <2>3, NewCallIs
  <2>5. /\ DOMAIN b.at = DOMAIN m.at \cup {i} /\ b.at[i] = new
        /\ \A j \in DOMAIN m.at : b.at[j] = m.at[j]
    <3>1. PICK at, bt : at = m.at /\ bt = b.at
      OBVIOUS
    <3>2. bt = With(at, i, new) /\ i \notin DOMAIN at
      BY <2>2, <2>4, <3>1
    <3>3. /\ DOMAIN bt = DOMAIN at \cup {i} /\ bt[i] = new
          /\ \A j \in DOMAIN at : j # i => bt[j] = at[j]
      BY <3>2 DEF With
    <3> QED BY <3>1, <3>2, <3>3
  <2>6. /\ DOMAIN b.calls = DOMAIN m.calls \cup {id} /\ b.calls[id] = f
        /\ \A c \in DOMAIN m.calls : b.calls[c] = m.calls[c]
    <3>1. PICK had, has : had = m.calls /\ has = b.calls
      OBVIOUS
    <3>2. has = With(had, id, f) /\ id \notin DOMAIN had
      BY <2>2, <2>4, <3>1
    <3>3. /\ DOMAIN has = DOMAIN had \cup {id} /\ has[id] = f
          /\ \A c \in DOMAIN had : c # id => has[c] = had[c]
      BY <3>2 DEF With
    <3> QED BY <3>1, <3>2, <3>3
  <2>7. \A j \in DOMAIN m.at : m.at[j].id \in DOMAIN m.calls /\ m.at[j].id # id
    BY <1>1, <2>2 DEF OnlyCalls
  <2>8. IsFiniteSet(DOMAIN b.at) /\ DOMAIN b.at \subseteq Nat
    <3>1. IsFiniteSet(DOMAIN m.at) /\ DOMAIN m.at \subseteq Nat
      BY DEF Accounted
    <3>2. IsFiniteSet(DOMAIN m.at \cup {i})
      BY <3>1, FS_AddElement
    <3> QED BY <2>2, <2>5, <3>1, <3>2
  <2>9. \A j \in DOMAIN b.at : b.at[j].size = b.calls[b.at[j].id]
    BY <2>3, <2>5, <2>6, <2>7 DEF Accounted
  <2>10. \A j, k \in DOMAIN b.at : b.at[j].id = b.at[k].id => j = k
    BY <2>3, <2>5, <2>7 DEF Accounted
  <2>11. \A c \in DOMAIN b.calls : \E j \in DOMAIN b.at : b.at[j].id = c
    BY <2>3, <2>5, <2>6 DEF Accounted
  <2>12. b.tokens = Unread.tokens /\ b.repeats = 0
    BY <2>4 DEF Accounted, Same, Fields
  <2> QED BY <2>4, <2>8, <2>9, <2>10, <2>11, <2>12 DEF Accounted
<1>6. CASE KnownCall(m, p)
  <2>1. PICK i, id, f : i = p.i /\ id = m.at[p.i].id /\ f = p.f
    OBVIOUS
  <2>2. i \in DOMAIN m.at /\ f \in Nat /\ id \in DOMAIN m.calls
    BY <1>1, <1>6, <2>1 DEF KnownCall, OnlyCalls
  <2>3. /\ WellRead(b) /\ OnlyCalls(b)
        /\ b.at = [m.at EXCEPT ![i].size = @ + f]
        /\ b.calls = [m.calls EXCEPT ![id] = @ + f]
        /\ Same(b, m, {"at", "calls", "mixed"})
    BY <1>1, <1>6, <2>1, KnownCallIs
  <2>4. /\ DOMAIN b.at = DOMAIN m.at
        /\ b.at[i].id = m.at[i].id /\ b.at[i].size = m.at[i].size + f
        /\ \A j \in DOMAIN m.at : j # i => b.at[j] = m.at[j]
    <3>1. m.at[i] \in Items
      BY <2>2 DEF WellRead
    <3> QED BY <2>2, <2>3, <3>1 DEF Items
  <2>5. \A j \in DOMAIN m.at : b.at[j].id = m.at[j].id
    BY <2>4
  <2>6. /\ DOMAIN b.calls = DOMAIN m.calls /\ b.calls[id] = m.calls[id] + f
        /\ \A c \in DOMAIN m.calls : c # id => b.calls[c] = m.calls[c]
    BY <2>2, <2>3
  <2>7. \A j \in DOMAIN m.at : j # i => m.at[j].id # id
    BY <2>1, <2>2 DEF Accounted
  <2>8. \A j \in DOMAIN m.at : m.at[j].id \in DOMAIN m.calls
    BY <1>1 DEF OnlyCalls
  <2>9. \A j \in DOMAIN b.at : b.at[j].size = b.calls[b.at[j].id]
    BY <2>1, <2>2, <2>4, <2>6, <2>7, <2>8 DEF Accounted
  <2>10. \A j, k \in DOMAIN b.at : b.at[j].id = b.at[k].id => j = k
    BY <2>4, <2>5 DEF Accounted
  <2>11. \A c \in DOMAIN b.calls : \E j \in DOMAIN b.at : b.at[j].id = c
    BY <2>4, <2>5, <2>6 DEF Accounted
  <2>12. IsFiniteSet(DOMAIN b.at) /\ DOMAIN b.at \subseteq Nat
    BY <2>4 DEF Accounted
  <2>13. b.tokens = Unread.tokens /\ b.repeats = 0
    BY <2>3 DEF Accounted, Same, Fields
  <2> QED BY <2>3, <2>9, <2>10, <2>11, <2>12, <2>13 DEF Accounted
<1> QED BY <1>3, <1>4, <1>5, <1>6 DEF GoodPiece

LEMMA StaysAccounted ==
  ASSUME NEW m, WellRead(m), Accounted(m), NEW ev, OaAllowed(m, ev), NEW b, b = ReadOpenAi(m, ev)
  PROVE  Accounted(b)
<1>1. ASSUME b.at = m.at, b.calls = m.calls, b.tokens = m.tokens, b.repeats = m.repeats
      PROVE  Accounted(b)
  BY <1>1 DEF Accounted, OnlyCalls
<1>2. CASE ev.e = "[DONE]" \/ ev.e = "error" \/ ev.e = "garbage" \/ Over(m)
  <2>1. b = End(m) \/ b = Fail(m) \/ b = m \/ b = Blame(m, "late")
    BY <1>2, OpenAiReads DEF OaAllowed, OaEvent
  <2>2. Same(b, m, {"ends"}) \/ Same(b, m, {"failed"}) \/ b = m \/ Same(b, m, {"faults"})
    <3>1. CASE b = End(m)
      BY <3>1, EndIs
    <3>2. CASE b = Fail(m)
      BY <3>2, FailIs
    <3>3. PICK late : late = "late"
      OBVIOUS
    <3>4. CASE b = Blame(m, late)
      BY <3>4, BlameIs
    <3> QED BY <2>1, <3>1, <3>2, <3>3, <3>4
  <2>3. b.at = m.at /\ b.calls = m.calls /\ b.tokens = m.tokens /\ b.repeats = m.repeats
    BY <2>2 DEF Same, Fields
  <2> QED BY <1>1, <2>3
<1>3. CASE ev.e = "chunk" /\ ~Over(m)
  <2>1. PICK ps, use, x : ps = ev.pieces /\ use = ev.use /\ x = Fold("piece", m, ps)
    OBVIOUS
  <2>2. GoodPieces(m, ps) /\ use \in UsageObjects
    BY <1>3, <2>1 DEF OaAllowed, OaEvent
  <2>3. WellRead(x) /\ Accounted(x)
    <3>1. CASE ps = <<>>
      BY <2>1, <3>1, FoldEmpty
    <3>2. ASSUME NEW p, ps = <<p>>, GoodPiece(m, p) PROVE WellRead(x) /\ Accounted(x)
      <4>1. x = ReadPiece(m, p)
        BY <2>1, <3>2, PiecesOf
      <4> QED BY <3>2, <4>1, PieceAccounted
    <3>3. ASSUME NEW q, NEW p, ps = <<q, p>>, Content(q), GoodPiece(m, p)
          PROVE  WellRead(x) /\ Accounted(x)
      <4>1. PICK y : y = ReadPiece(m, q)
        OBVIOUS
      <4>2. x = ReadPiece(y, p)
        <5>1. /\ Fold("piece", m, <<q, p>>) = Do("piece", Do("piece", m, q), p)
              /\ \A a, c : Do("piece", a, c) = ReadPiece(a, c)
          BY FoldTwo DEF Do
        <5> QED BY <2>1, <3>3, <4>1, <5>1
      <4>3. WellRead(y) /\ Accounted(y)
        BY <3>3, <4>1, PieceAccounted DEF GoodPiece
      <4>4. GoodPiece(y, p)
        BY <3>3, <4>1, StillGood
      <4> QED BY <4>2, <4>3, <4>4, PieceAccounted
    <3> QED BY <2>2, <3>1, <3>2, <3>3 DEF GoodPieces
  <2>4. b = ChunkEnd(x, use)
    BY <1>3, <2>1, OpenAiReads DEF ChunkRead
  <2>5. Same(b, x, {"started", "read"})
    BY <2>2, <2>3, <2>4, ChunkEnds
  <2>6. b.at = x.at /\ b.calls = x.calls /\ b.tokens = x.tokens /\ b.repeats = x.repeats
    BY <2>5 DEF Same, Fields
  <2> QED BY <2>3, <2>6 DEF Accounted, OnlyCalls
<1> QED BY <1>2, <1>3 DEF OaAllowed, OaEvent

-----------------------------------------------------------------------------
(***************************************************************************)
(* The items of a message in the order of their indices.                    *)
(***************************************************************************)
LEMMA ItemIs ==
  ASSUME NEW x \in Items
  PROVE  Item(x) = x
  BY DEF Item, Items

LEMMA ListedRow ==
  ASSUME NEW m, WellRead(m), NEW n, Row(DOMAIN m.at, n), NEW l, l = Listed(m.at)
  PROVE  Parts(l) /\ Len(l) = n /\ \A k \in 1..n : l[k] = m.at[k - 1]
<1>1. n \in Nat /\ DOMAIN m.at = 0..(n - 1)
  BY DEF Row
<1>2. PICK at : at = m.at
  OBVIOUS
<1>3. \A j \in 0..(n - 1) : at[j] \in Items /\ Item(at[j]) = at[j]
  BY <1>1, <1>2, ItemIs DEF WellRead
<1>4. PICK S : S = {[i |-> k, item |-> Item(at[k])] : k \in DOMAIN at}
  OBVIOUS
<1>5. S = RowItems(at, n)
  BY <1>1, <1>2, <1>3, <1>4 DEF RowItems
<1>6. PICK q : q = InOrder(S)
  OBVIOUS
<1>7. IsSeq(q) /\ Len(q) = n /\ \A k \in 1..n : q[k].item = at[k - 1]
  BY <1>1, <1>5, <1>6, RowInOrder
<1>8. l = [k \in 1..n |-> q[k].item]
  BY <1>2, <1>4, <1>6, <1>7 DEF Listed
<1>9. l = [k \in 1..n |-> l[k]]
  BY <1>8
<1>10. IsSeq(l) /\ Len(l) = n
  BY <1>1, <1>9, TableIsSeq
<1>11. \A k \in 1..n : l[k] = at[k - 1]
  BY <1>7, <1>8
<1>12. \A k \in 1..n : k - 1 \in 0..(n - 1)
  BY <1>1
<1>13. \A k \in 1..n : l[k] \in Items
  BY <1>3, <1>11, <1>12
<1> QED BY <1>2, <1>10, <1>11, <1>13 DEF Parts

LEMMA ListedCalls ==
  ASSUME NEW m, WellRead(m), Accounted(m), NEW l, l = Listed(m.at)
  PROVE  /\ Tools(l)
         /\ \A r : ReadAsCalls(r, l) /\ Reading(r) => r.calls = m.calls
<1>1. PICK at, D : at = m.at /\ D = DOMAIN m.at
  OBVIOUS
<1>2. IsFiniteSet(D) /\ D \subseteq Nat
  BY <1>1 DEF Accounted
<1>3. \A j \in D : at[j] \in Items /\ Item(at[j]) = at[j] /\ at[j].type = "tool"
  BY <1>1, ItemIs DEF WellRead, Accounted, OnlyCalls
<1>4. PICK S : S = {[i |-> k, item |-> Item(at[k])] : k \in DOMAIN at}
  OBVIOUS
<1>5. /\ \A x \in S : x.i \in D /\ x.item = at[x.i]
      /\ \A j \in D : \E x \in S : x.i = j /\ x.item = at[j]
  <2>1. ASSUME NEW x \in S PROVE x.i \in D /\ x.item = at[x.i]
    <3>1. PICK k \in D : x = [i |-> k, item |-> Item(at[k])]
      BY <1>1, <1>4
    <3>2. x.i = k /\ x.item = Item(at[k])
      BY <3>1
    <3> QED BY <1>3, <3>2
  <2>2. ASSUME NEW j \in D PROVE \E x \in S : x.i = j /\ x.item = at[j]
    <3>1. PICK x : x = [i |-> j, item |-> Item(at[j])]
      OBVIOUS
    <3>2. x \in S
      BY <1>1, <1>4, <3>1
    <3>3. x.i = j /\ x.item = Item(at[j])
      BY <3>1
    <3> QED BY <1>3, <3>2, <3>3
  <2> QED BY <2>1, <2>2
<1>6. \A x, y \in S : x.i = y.i => x = y
  BY <1>1, <1>4
<1>7. Indexed(S, D)
  BY <1>2, <1>5, <1>6 DEF Indexed
<1>8. PICK q : q = InOrder(S)
  OBVIOUS
<1>9. Ordered(S, q)
  BY <1>7, <1>8, InOrderIs
<1>10. PICK n \in Nat : n = Len(q)
  BY <1>9 DEF Ordered, IsSeq
<1>11. /\ \A k \in 1..n : q[k] \in S
       /\ \A x \in S : \E k \in 1..n : q[k] = x
       /\ \A k, j \in 1..n : q[k] = q[j] => k = j
  <2>1. \A k \in 1..n : q[k] \in S /\ Cardinality(Before(S, q[k].i)) = k - 1
    BY <1>9, <1>10 DEF Ordered
  <2>2. \A x \in S : \E k \in 1..n : q[k] = x
    BY <1>9, <1>10 DEF Ordered
  <2>3. ASSUME NEW k \in 1..n, NEW j \in 1..n, q[k] = q[j] PROVE k = j
    <3>1. k - 1 = j - 1
      BY <2>1, <2>3
    <3> QED BY <1>10, <3>1
  <2> QED BY <2>1, <2>2, <2>3
<1>12. l = [k \in 1..n |-> q[k].item]
  BY <1>1, <1>4, <1>8, <1>10 DEF Listed
<1>13. l = [k \in 1..n |-> l[k]]
  BY <1>12
<1>14. IsSeq(l) /\ Len(l) = n
  BY <1>10, <1>13, TableIsSeq
<1>15. \A k \in 1..n : q[k].i \in D /\ l[k] = at[q[k].i]
  BY <1>5, <1>11, <1>12
<1>16. \A k \in 1..n : l[k] \in Items /\ l[k].type = "tool"
  BY <1>3, <1>15
<1>17. ASSUME NEW k \in 1..n, NEW j \in 1..n, l[k].id = l[j].id PROVE k = j
  <2>1. at[q[k].i].id = at[q[j].i].id /\ q[k].i \in D /\ q[j].i \in D
    BY <1>15, <1>17
  <2>2. q[k].i = q[j].i
    BY <1>1, <2>1 DEF Accounted
  <2>3. q[k] = q[j]
    BY <1>6, <1>11, <2>2
  <2> QED BY <1>11, <2>3
<1>18. Tools(l)
  BY <1>14, <1>16, <1>17 DEF Tools, Parts
<1>19. ASSUME NEW r, ReadAsCalls(r, l), Reading(r) PROVE r.calls = m.calls
  <2>1. /\ DOMAIN r.calls = {l[k].id : k \in 1..n}
        /\ \A k \in 1..n : r.calls[l[k].id] = l[k].size
    BY <1>14, <1>19 DEF ReadAsCalls
  <2>2. /\ \A j \in D : at[j].size = m.calls[at[j].id] /\ at[j].id \in DOMAIN m.calls
        /\ \A c \in DOMAIN m.calls : \E j \in D : at[j].id = c
    BY <1>1 DEF Accounted, OnlyCalls
  <2>3. \A c \in DOMAIN m.calls : \E k \in 1..n : l[k].id = c
    <3> SUFFICES ASSUME NEW c \in DOMAIN m.calls PROVE \E k \in 1..n : l[k].id = c
      OBVIOUS
    <3>1. PICK j \in D : at[j].id = c
      BY <2>2
    <3>2. PICK x \in S : x.i = j
      BY <1>5
    <3>3. PICK k \in 1..n : q[k] = x
      BY <1>11
    <3> QED BY <1>15, <3>1, <3>2, <3>3
  <2>4. \A k \in 1..n : l[k].id \in DOMAIN m.calls /\ r.calls[l[k].id] = m.calls[l[k].id]
    BY <1>15, <2>1, <2>2
  <2>5. DOMAIN r.calls = DOMAIN m.calls
    BY <2>1, <2>3, <2>4
  <2>6. \A c \in DOMAIN m.calls : r.calls[c] = m.calls[c]
    BY <2>3, <2>4
  <2>7. r.calls = [c \in DOMAIN r.calls |-> r.calls[c]]
        /\ m.calls = [c \in DOMAIN m.calls |-> m.calls[c]]
    BY <1>19 DEF Reading, WellRead
  <2> QED BY <2>5, <2>6, <2>7
<1> QED BY <1>18, <1>19

LEMMA ListedAppend ==
  ASSUME NEW m, WellRead(m), NEW n, Row(DOMAIN m.at, n), NEW it \in Items,
         NEW b, WellRead(b), b.at = With(m.at, n, it)
  PROVE  Row(DOMAIN b.at, n + 1) /\ Listed(b.at) = Append(Listed(m.at), it)
<1>1. n \in Nat /\ DOMAIN m.at = 0..(n - 1) /\ n \notin DOMAIN m.at
  BY RowIs DEF Row
<1>2. /\ DOMAIN b.at = DOMAIN m.at \cup {n} /\ b.at[n] = it
      /\ \A j \in DOMAIN m.at : b.at[j] = m.at[j]
  <2>1. PICK at, bt : at = m.at /\ bt = b.at
    OBVIOUS
  <2>2. bt = With(at, n, it) /\ n \notin DOMAIN at
    BY <1>1, <2>1
  <2>3. /\ DOMAIN bt = DOMAIN at \cup {n} /\ bt[n] = it
        /\ \A j \in DOMAIN at : bt[j] = at[j]
    BY <2>2 DEF With
  <2> QED BY <2>1, <2>3
<1>3. Row(DOMAIN b.at, n + 1)
  BY <1>2, RowIs
<1>4. PICK l, r : l = Listed(m.at) /\ r = Listed(b.at)
  OBVIOUS
<1>5. IsSeq(l) /\ Len(l) = n /\ \A k \in 1..n : l[k] = m.at[k - 1]
  <2>1. Parts(l) /\ Len(l) = n /\ \A k \in 1..n : l[k] = m.at[k - 1]
    BY <1>4, ListedRow
  <2> QED BY <2>1 DEF Parts
<1>6. IsSeq(r) /\ Len(r) = n + 1 /\ \A k \in 1..(n + 1) : r[k] = b.at[k - 1]
  <2>1. Parts(r) /\ Len(r) = n + 1 /\ \A k \in 1..(n + 1) : r[k] = b.at[k - 1]
    BY <1>3, <1>4, ListedRow
  <2> QED BY <2>1 DEF Parts
<1>7. PICK a : a = Append(l, it)
  OBVIOUS
<1>8. IsSeq(a) /\ Len(a) = n + 1 /\ a[n + 1] = it /\ \A k \in 1..n : a[k] = l[k]
  BY <1>5, <1>7, AppendIsSeq
<1>9. ASSUME NEW k \in 1..(n + 1) PROVE a[k] = r[k]
  <2>1. CASE k = n + 1
    BY <1>1, <1>2, <1>6, <1>8, <2>1
  <2>2. CASE k # n + 1
    <3>1. k \in 1..n /\ k - 1 \in 0..(n - 1)
      BY <1>1, <2>2
    <3> QED BY <1>1, <1>2, <1>5, <1>6, <1>8, <3>1
  <2> QED BY <2>1, <2>2
<1>10. a = [k \in 1..(n + 1) |-> a[k]] /\ r = [k \in 1..(n + 1) |-> r[k]]
  BY <1>6, <1>8 DEF IsSeq
<1>11. a = r
  BY <1>9, <1>10
<1> QED BY <1>3, <1>4, <1>7, <1>11

LEMMA ListedGrow ==
  ASSUME NEW m, WellRead(m), NEW n, Row(DOMAIN m.at, n), NEW i, i = n - 1, i \in DOMAIN m.at,
         NEW b, WellRead(b), DOMAIN b.at = DOMAIN m.at,
         \A j \in DOMAIN m.at : j # i => b.at[j] = m.at[j]
  PROVE  \E q : Parts(q) /\ Listed(m.at) = Append(q, m.at[i]) /\ Listed(b.at) = Append(q, b.at[i])
<1>1. n \in Nat /\ DOMAIN m.at = 0..(n - 1)
  BY DEF Row
<1>2. PICK k \in Nat : n = k + 1
  <2>1. n # 0 /\ n - 1 \in Nat /\ n = (n - 1) + 1
    BY <1>1
  <2> QED BY <2>1
<1>3. i = k
  BY <1>2
<1>4. PICK l, r : l = Listed(m.at) /\ r = Listed(b.at)
  OBVIOUS
<1>5. Parts(l) /\ Len(l) = n /\ \A j \in 1..n : l[j] = m.at[j - 1]
  BY <1>4, ListedRow
<1>6. Parts(r) /\ Len(r) = n /\ \A j \in 1..n : r[j] = b.at[j - 1]
  BY <1>4, ListedRow
<1>7. PICK q : IsSeq(q) /\ Len(q) = k /\ l = Append(q, l[k + 1]) /\ \A j \in 1..k : q[j] = l[j]
  BY <1>2, <1>5, Split DEF Parts
<1>8. Parts(q)
  BY <1>2, <1>5, <1>7 DEF Parts
<1>9. l[k + 1] = m.at[i] /\ r[k + 1] = b.at[i]
  BY <1>2, <1>3, <1>5, <1>6
<1>10. PICK a, it : it = r[k + 1] /\ a = Append(q, it)
  OBVIOUS
<1>11. IsSeq(a) /\ Len(a) = k + 1 /\ a[k + 1] = it /\ \A j \in 1..k : a[j] = q[j]
  BY <1>7, <1>10, AppendIsSeq
<1>12. ASSUME NEW j \in 1..(k + 1) PROVE a[j] = r[j]
  <2>1. CASE j = k + 1
    BY <1>10, <1>11, <2>1
  <2>2. CASE j # k + 1
    <3>1. j \in 1..k /\ j - 1 \in 0..(n - 1) /\ j - 1 # i /\ j \in 1..n
      BY <1>2, <1>3, <2>2
    <3> QED BY <1>1, <1>5, <1>6, <1>7, <1>11, <3>1
  <2> QED BY <2>1, <2>2
<1>13. a = [j \in 1..(k + 1) |-> a[j]] /\ r = [j \in 1..(k + 1) |-> r[j]]
  BY <1>2, <1>6, <1>11 DEF IsSeq, Parts
<1>14. a = r
  BY <1>12, <1>13
<1> QED BY <1>4, <1>7, <1>8, <1>9, <1>10, <1>14

-----------------------------------------------------------------------------
(***************************************************************************)
(* What an Anthropic provider has sent: blocks numbered from 0, of which    *)
(* only the last is open; read one by one they are the message.             *)
(***************************************************************************)
MessageOf(m) == [think |-> m.think, text |-> m.text, calls |-> m.calls]

InBlocks(m) ==
  \E n : /\ Row(DOMAIN m.at, n) /\ m.open \in {Nothing, n - 1}
         /\ ReadParts(0, 0, Listed(m.at)) = MessageOf(m)

LEMMA MessageReads ==
  ASSUME NEW m, WellRead(m)
  PROVE  Reading(MessageOf(m))
  BY DEF WellRead, Reading, MessageOf

LEMMA BlockBegun ==
  ASSUME NEW m, WellRead(m), InBlocks(m), NEW ev, AnAllowed(m, ev), ev.e = "block_start",
         ~m.failed, NEW b, b = ReadAnthropic(m, ev), WellRead(b)
  PROVE  InBlocks(b)
<1>1. /\ ev.type \in Kinds /\ ev.id \in Calls \cup {NoCall} /\ b.faults = {}
      /\ ev.type = "tool" => ev.id \in Calls \ DOMAIN m.calls
  BY DEF AnAllowed, AnEvent, Kinds
<1>2. PICK n : /\ Row(DOMAIN m.at, n) /\ m.open \in {Nothing, n - 1}
               /\ ReadParts(0, 0, Listed(m.at)) = MessageOf(m)
  BY DEF InBlocks
<1>3. PICK it : it = [type |-> ev.type, id |-> ev.id, size |-> 0]
  OBVIOUS
<1>4. /\ ev.i = Cardinality(DOMAIN m.at) /\ Same(b, m, {"at", "calls", "open"})
      /\ b.at = With(m.at, ev.i, it) /\ b.open = ev.i
      /\ b.calls = IF ev.type = "tool" THEN With(m.calls, ev.id, 0) ELSE m.calls
  BY <1>1, <1>3, BlockStartReads
<1>5. ev.i = n /\ n \in Nat
  BY <1>2, <1>4, RowIs DEF Row
<1>6. it \in Items /\ it.type = ev.type /\ it.id = ev.id /\ it.size = 0
  BY <1>1, <1>3 DEF Items
<1>7. Row(DOMAIN b.at, n + 1) /\ Listed(b.at) = Append(Listed(m.at), it)
  BY <1>2, <1>4, <1>5, <1>6, ListedAppend
<1>8. PICK l, r : l = Listed(m.at) /\ r = MessageOf(m)
  OBVIOUS
<1>9. IsSeq(l)
  BY <1>2, <1>8, ListedRow DEF Parts
<1>10. PICK s : s = ReadPart(r, it)
  OBVIOUS
<1>11. ReadParts(0, 0, Listed(b.at)) = s
  BY <1>2, <1>7, <1>8, <1>9, <1>10, PartsAppend
<1>12. /\ Reading(s)
       /\ s.think = IF it.type = "think" THEN r.think + it.size ELSE r.think
       /\ s.text = IF it.type = "text" THEN r.text + it.size ELSE r.text
       /\ s.calls = IF it.type = "tool"
                    THEN With(r.calls, it.id, it.size + Had(r.calls, it.id)) ELSE r.calls
  BY <1>6, <1>8, <1>10, MessageReads, ReadPartIs
<1>13. r.think = m.think /\ r.text = m.text /\ r.calls = m.calls /\ m.think \in Nat /\ m.text \in Nat
  BY <1>8 DEF MessageOf, WellRead
<1>14. it.type = "tool" => it.size + Had(r.calls, it.id) = 0
  BY <1>1, <1>6, <1>13 DEF Had
<1>15. s.think = b.think /\ s.text = b.text
  BY <1>4, <1>6, <1>12, <1>13 DEF Same, Fields
<1>16. s.calls = b.calls
  BY <1>4, <1>6, <1>12, <1>13, <1>14
<1>17. s = MessageOf(b)
  BY <1>12, <1>15, <1>16 DEF Reading, MessageOf
<1>18. b.open = (n + 1) - 1
  BY <1>4, <1>5
<1> QED BY <1>7, <1>11, <1>17, <1>18 DEF InBlocks

LEMMA BlockGrown ==
  ASSUME NEW m, WellRead(m), InBlocks(m), NEW ev, AnAllowed(m, ev), ev.e = "block_delta",
         ~m.failed, NEW b, b = ReadAnthropic(m, ev), WellRead(b)
  PROVE  InBlocks(b)
<1>1. ev.f \in Nat /\ b.faults = {}
  BY DEF AnAllowed, AnEvent
<1>2. PICK n : /\ Row(DOMAIN m.at, n) /\ m.open \in {Nothing, n - 1}
               /\ ReadParts(0, 0, Listed(m.at)) = MessageOf(m)
  BY DEF InBlocks
<1>3. PICK i, f : i = ev.i /\ f = ev.f
  OBVIOUS
<1>4. i \in DOMAIN m.at /\ m.open = i /\ b = Grow(m, i, f)
  BY <1>1, <1>3, BlockDeltaReads
<1>5. n \in Nat /\ DOMAIN m.at = 0..(n - 1) /\ i = n - 1
  BY <1>2, <1>4 DEF Row, Nothing
<1>6. PICK it : it = m.at[i]
  OBVIOUS
<1>7. /\ Same(b, m, {"at", "text", "think", "calls"})
      /\ b.at = [m.at EXCEPT ![i].size = @ + f]
      /\ b.text = IF it.type = "text" THEN m.text + f ELSE m.text
      /\ b.think = IF it.type = "think" THEN m.think + f ELSE m.think
      /\ b.calls = IF it.type = "tool" THEN [m.calls EXCEPT ![it.id] = @ + f] ELSE m.calls
  BY <1>1, <1>3, <1>4, <1>6, GrowIs
<1>8. it \in Items /\ (it.type = "tool" => it.id \in DOMAIN m.calls)
  BY <1>4, <1>6 DEF WellRead
<1>9. PICK new : new = b.at[i]
  OBVIOUS
<1>10. /\ DOMAIN b.at = DOMAIN m.at /\ \A j \in DOMAIN m.at : j # i => b.at[j] = m.at[j]
       /\ new = [it EXCEPT !.size = it.size + f]
  BY <1>4, <1>6, <1>7, <1>9
<1>11. new \in Items /\ new.type = it.type /\ new.id = it.id /\ new.size = it.size + f
  BY <1>1, <1>3, <1>8, <1>10 DEF Items
<1>12. PICK q : Parts(q) /\ Listed(m.at) = Append(q, it) /\ Listed(b.at) = Append(q, new)
  <2>1. \A j \in DOMAIN m.at : j # i => b.at[j] = m.at[j]
    BY <1>10
  <2>2. \E q : /\ Parts(q) /\ Listed(m.at) = Append(q, m.at[i])
               /\ Listed(b.at) = Append(q, b.at[i])
    <3>1. Row(DOMAIN m.at, n) /\ i = n - 1 /\ i \in DOMAIN m.at /\ DOMAIN b.at = DOMAIN m.at
      BY <1>2, <1>4, <1>5, <1>10
    <3> HIDE <1>4, <1>5, <1>10
    <3> QED BY <2>1, <3>1, ListedGrow
  <2> QED BY <1>6, <1>9, <2>2
<1>13. PICK r : r = ReadParts(0, 0, q)
  OBVIOUS
<1>14. Reading(r)
  BY <1>12, <1>13, BlocksJoin DEF Joined
<1>15. PICK s, t : s = ReadPart(r, it) /\ t = ReadPart(r, new)
  OBVIOUS
<1>16. s = MessageOf(m) /\ ReadParts(0, 0, Listed(b.at)) = t
  BY <1>2, <1>12, <1>13, <1>15, PartsAppend DEF Parts
<1>17. /\ s.think = IF it.type = "think" THEN r.think + it.size ELSE r.think
       /\ s.text = IF it.type = "text" THEN r.text + it.size ELSE r.text
       /\ s.calls = IF it.type = "tool"
                    THEN With(r.calls, it.id, it.size + Had(r.calls, it.id)) ELSE r.calls
  BY <1>8, <1>14, <1>15, ReadPartIs
<1>18. /\ Reading(t)
       /\ t.think = IF new.type = "think" THEN r.think + new.size ELSE r.think
       /\ t.text = IF new.type = "text" THEN r.text + new.size ELSE r.text
       /\ t.calls = IF new.type = "tool"
                    THEN With(r.calls, new.id, new.size + Had(r.calls, new.id)) ELSE r.calls
  BY <1>11, <1>14, <1>15, ReadPartIs
<1>19. s.think = m.think /\ s.text = m.text /\ s.calls = m.calls
  BY <1>16 DEF MessageOf
<1>20. it.size \in Nat /\ f \in Nat /\ r.think \in Nat /\ r.text \in Nat
       /\ (it.type = "tool" => Had(r.calls, it.id) \in Nat)
  BY <1>1, <1>3, <1>8, <1>14 DEF Items, Reading, Had
<1>21. t.think = b.think /\ t.text = b.text
  BY <1>7, <1>11, <1>17, <1>18, <1>19, <1>20
<1>22. t.calls = b.calls
  <2>1. CASE it.type # "tool"
    BY <1>7, <1>11, <1>17, <1>18, <1>19, <2>1
  <2>2. CASE it.type = "tool"
    <3>1. PICK c, id, x, y, had : /\ c = r.calls /\ id = it.id /\ had = m.calls
                                  /\ x = it.size + Had(r.calls, it.id) /\ y = x + f
      OBVIOUS
    <3>2. had = With(c, id, x)
      BY <1>17, <1>19, <2>2, <3>1
    <3>3. new.size + Had(r.calls, new.id) = y
      BY <1>11, <1>20, <2>2, <3>1
    <3>4. t.calls = With(c, id, y)
      BY <1>11, <1>18, <2>2, <3>1, <3>3
    <3>5. had[id] = x
      BY <3>2 DEF With
    <3>6. b.calls = [had EXCEPT ![id] = y]
      BY <1>7, <2>2, <3>1, <3>5
    <3> QED BY <3>2, <3>4, <3>6, WithTwice
  <2> QED BY <2>1, <2>2
<1>23. t = MessageOf(b)
  BY <1>18, <1>21, <1>22 DEF Reading, MessageOf
<1>24. b.open = m.open
  BY <1>7 DEF Same, Fields
<1> QED BY <1>2, <1>10, <1>16, <1>23, <1>24 DEF InBlocks

LEMMA StaysInBlocks ==
  ASSUME NEW m, WellRead(m), InBlocks(m), ~m.failed, NEW ev, AnAllowed(m, ev),
         NEW b, b = ReadAnthropic(m, ev), WellRead(b)
  PROVE  b.failed \/ InBlocks(b)
<1>1. b.faults = {}
  BY DEF AnAllowed
<1>2. ASSUME b.at = m.at, b.open \in {m.open, Nothing}, b.think = m.think, b.text = m.text,
             b.calls = m.calls
      PROVE  InBlocks(b)
  BY <1>2 DEF InBlocks, MessageOf
<1>3. CASE ev.e = "message_start"
  <2>1. ev.use \in Started
    BY <1>3 DEF AnAllowed, AnEvent
  <2>2. Same(b, m, {"started", "tokens"})
    BY <1>1, <1>3, <2>1, StartReads
  <2> QED BY <1>2, <2>2 DEF Same, Fields
<1>4. CASE ev.e = "block_start"
  BY <1>4, BlockBegun
<1>5. CASE ev.e = "block_delta"
  BY <1>5, BlockGrown
<1>6. CASE ev.e = "block_stop"
  <2>1. Same(b, m, {"open", "faults"}) /\ b.open = Nothing
    BY <1>1, <1>6, BlockStopReads
  <2> QED BY <1>2, <2>1 DEF Same, Fields
<1>7. CASE ev.e = "message_delta"
  <2>1. ev.use \in Updates
    BY <1>7 DEF AnAllowed, AnEvent
  <2>2. Same(b, m, {"stop", "blank", "cut", "tokens", "repeats"})
    BY <1>1, <1>7, <2>1, MessageDeltaReads
  <2> QED BY <1>2, <2>2 DEF Same, Fields
<1>8. CASE ev.e = "message_stop"
  <2>1. b = End(m)
    BY <1>1, <1>8, MessageStopReads
  <2>2. Same(b, m, {"ends"})
    BY <2>1, EndIs
  <2> QED BY <1>2, <2>2 DEF Same, Fields
<1>9. CASE ev.e = "error"
  <2>1. b = Fail(m)
    BY <1>9, ErrorReads
  <2> QED BY <2>1, FailIs
<1>10. CASE ev.e = "garbage"
  BY <1>2, <1>10, ErrorReads
<1> QED BY <1>3, <1>4, <1>5, <1>6, <1>7, <1>8, <1>9, <1>10 DEF AnAllowed, AnEvent

-----------------------------------------------------------------------------
(***************************************************************************)
(* What a whole answer converted says is what the provider has sent.        *)
(***************************************************************************)
LEMMA AnWholeReads ==
  ASSUME NEW m, WellRead(m), InBlocks(m),
         NEW a, a = AnWhole(AnthropicAnswer(Listed(m.at), m.stop, m.tokens))
  PROVE  /\ IsSeq(a.calls)
         /\ a.think = m.think /\ a.text = m.text /\ a.finish = StopToFinish(m.stop)
         /\ a.use = AnUsage(m.tokens, m.tokens.in + m.tokens.cr + m.tokens.cc)
         /\ \A think \in Nat, text \in Nat :
              ReadParts(think, text, a.calls) =
                [think |-> think, text |-> text, calls |-> m.calls]
<1>1. PICK n : Row(DOMAIN m.at, n) /\ ReadParts(0, 0, Listed(m.at)) = MessageOf(m)
  BY DEF InBlocks
<1>2. PICK q : q = Listed(m.at)
  OBVIOUS
<1>3. Parts(q)
  BY <1>1, <1>2, ListedRow
<1>4. PICK finish, use : /\ finish = StopToFinish(m.stop)
                         /\ use = AnUsage(m.tokens, m.tokens.in + m.tokens.cr + m.tokens.cc)
  OBVIOUS
<1>5. a = FoldLeft(AnBlock, OpenAiAnswer(0, 0, <<>>, finish, use), q)
  BY <1>2, <1>4 DEF AnWhole, AnthropicAnswer
<1>6. Joined(a, q, finish, use)
  BY <1>3, <1>5, BlocksJoin
<1>7. PICK r : r = ReadParts(0, 0, q)
  OBVIOUS
<1>8. r.think = m.think /\ r.text = m.text /\ r.calls = m.calls
  BY <1>1, <1>2, <1>7 DEF MessageOf
<1> QED BY <1>4, <1>6, <1>7, <1>8 DEF Joined, Parts

\* The usage of a whole answer for a Responses client.
Filled(use) ==
  [use EXCEPT !.total = IF @ = Nothing THEN use.prompt + use.completion ELSE @]

LEMMA FilledIs ==
  /\ \A r \in UsageObjects : ~(r.total = Nothing /\ r.prompt + r.completion > MaxTok)
                             => Extract(Filled(r)) = Extract(r)
  /\ \A tokens, prompt : prompt \in Nat /\ tokens.out \in Nat
       => Filled(AnUsage(tokens, prompt)) = AnUsage(tokens, prompt)
<1>1. ASSUME NEW r \in UsageObjects, ~(r.total = Nothing /\ r.prompt + r.completion > MaxTok)
      PROVE  Extract(Filled(r)) = Extract(r)
  <2>1. PICK t : t = IF r.total = Nothing THEN r.prompt + r.completion ELSE r.total
    OBVIOUS
  <2>2. PICK f : f = Filled(r)
    OBVIOUS
  <2>3. /\ f.prompt = r.prompt /\ f.completion = r.completion /\ f.cached = r.cached
        /\ f.total = t
    BY <2>1, <2>2 DEF Filled, UsageObjects
  <2>4. t # Nothing /\ t = IF r.total = Nothing THEN Sat(r.prompt + r.completion) ELSE r.total
    BY <1>1, <2>1, ConverterAssumption DEF UsageObjects, Nothing, Sat
  <2> QED BY <2>2, <2>3, <2>4 DEF Extract
<1>2. ASSUME NEW tokens, NEW prompt, prompt \in Nat, tokens.out \in Nat
      PROVE  Filled(AnUsage(tokens, prompt)) = AnUsage(tokens, prompt)
  <2>1. prompt + tokens.out # Nothing
    BY <1>2 DEF Nothing
  <2> QED BY <2>1 DEF Filled, AnUsage
<1> QED BY <1>1, <1>2

LEMMA OarWholeReads ==
  ASSUME NEW a, a.text \in Nat, NEW c,
         \A think \in Nat, text \in Nat :
           ReadParts(think, text, a.calls) = [think |-> think, text |-> text, calls |-> c],
         IsSeq(a.calls), NEW w, w = OarWhole(a)
  PROVE  /\ ReadParts(0, 0, w.output) = [think |-> 0, text |-> a.text, calls |-> c]
         /\ w.use = Filled(a.use) /\ w.status = OarVerdict(a)
<1>1. PICK n, l, z : n = a.text /\ l = a.calls /\ z = Nought(0, 0)
  OBVIOUS
<1>2. PICK q : q = First("text", n) \o l
  OBVIOUS
<1>3. w.output = q /\ w.use = Filled(a.use) /\ w.status = OarVerdict(a)
  BY <1>1, <1>2 DEF OarWhole, ResponsesAnswer, First, Filled
<1>4. Reading(z) /\ z.think = 0 /\ z.text = 0 /\ z.calls = <<>>
  BY <1>1 DEF Reading, Nought
<1>5. PICK b : b = Fold("part", z, First("text", n))
  OBVIOUS
<1>6. /\ Fold("part", z, q) = Fold("part", b, l)
      /\ Reading(b) /\ b.calls = <<>> /\ b.think = 0 /\ b.text = 0 + n
  BY <1>1, <1>2, <1>4, <1>5, FirstRead
<1>7. b = Nought(0, n)
  <2>1. b = [think |-> b.think, text |-> b.text, calls |-> b.calls]
    BY <1>6 DEF Reading
  <2>2. b.text = n
    BY <1>1, <1>6
  <2> QED BY <1>6, <2>1, <2>2 DEF Nought
<1>8. Fold("part", b, l) = ReadParts(0, n, l)
  BY <1>7, PartsFold
<1>9. ReadParts(0, n, l) = [think |-> 0, text |-> n, calls |-> c]
  BY <1>1
<1>10. ReadParts(0, 0, q) = Fold("part", z, q)
  BY <1>1, PartsFold
<1> QED BY <1>1, <1>3, <1>6, <1>8, <1>9, <1>10

Ids(q) == {q[k].id : k \in 1..Len(q)}

LEMMA OaWholeReads ==
  ASSUME NEW l, Tools(l), NEW a, a.calls = l, a.think \in Nat, a.text \in Nat,
         NEW w, w = OaWhole(a), NEW r, r = ReadParts(0, 0, w.content)
  PROVE  /\ Reading(r) /\ r.think = a.think /\ r.text = a.text
         /\ DOMAIN r.calls = Ids(l)
         /\ a.finish # "length" => ReadAsCalls(r, l)
         /\ w.stop = FinishToStop(a.finish)
         /\ w.use.in = a.use.prompt /\ w.use.out = a.use.completion
<1>1. PICK think, text, n, z : think = a.think /\ text = a.text /\ n = Len(l) /\ z = Nought(0, 0)
  OBVIOUS
<1>2. n \in Nat /\ DOMAIN l = 1..n
  BY <1>1 DEF Tools, Parts, IsSeq
<1>3. PICK q : q = [k \in 1..n |-> Part("tool", l[k].id, Parsed(a, k))]
  OBVIOUS
<1>4. PICK s, x : s = First("text", text) \o q /\ x = First("think", think) \o s
  OBVIOUS
<1>5. /\ w.stop = FinishToStop(a.finish)
      /\ w.use.in = a.use.prompt /\ w.use.out = a.use.completion
  BY DEF OaWhole, AnthropicAnswer
<1>6. w.content = (First("think", think) \o First("text", text)) \o q
  BY <1>1, <1>2, <1>3 DEF OaWhole, AnthropicAnswer, First
<1>7. /\ \A k \in 1..n : l[k] \in Items /\ l[k].type = "tool"
      /\ \A k, j \in 1..n : l[k].id = l[j].id => k = j
  BY <1>1 DEF Tools, Parts
<1>8. \A k \in 1..n : Parsed(a, k) \in Nat /\ (a.finish # "length" => Parsed(a, k) = l[k].size)
  BY <1>7 DEF Parsed, Items
<1>9. \A k \in 1..n : /\ q[k].type = "tool" /\ q[k].id = l[k].id /\ q[k].size = Parsed(a, k)
                      /\ q[k] \in Items
  <2> SUFFICES ASSUME NEW k \in 1..n
               PROVE  /\ q[k].type = "tool" /\ q[k].id = l[k].id /\ q[k].size = Parsed(a, k)
                      /\ q[k] \in Items
    OBVIOUS
  <2>1. q[k] = Part("tool", l[k].id, Parsed(a, k))
    BY <1>3
  <2> QED BY <1>7, <1>8, <2>1 DEF Part, Items, Kinds
<1>10. IsSeq(q) /\ Len(q) = n
  <2>1. q = [k \in 1..n |-> q[k]]
    BY <1>3
  <2> QED BY <1>2, <2>1, TableIsSeq
<1>11. Tools(q)
  BY <1>7, <1>9, <1>10 DEF Tools, Parts
<1>12. w.content = x
  BY <1>4, <1>6
<1>13. Reading(z) /\ z.think = 0 /\ z.text = 0 /\ z.calls = <<>>
  BY <1>1 DEF Reading, Nought
<1>14. PICK b, c : b = Fold("part", z, First("think", think)) /\ c = Fold("part", b, First("text", text))
  OBVIOUS
<1>15. /\ Reading(b) /\ b.calls = <<>> /\ b.think = think /\ b.text = 0
       /\ \A u : IsSeq(u) => Fold("part", z, First("think", think) \o u) = Fold("part", b, u)
  <2>1. think \in Nat /\ 0 + think = think
    BY <1>1
  <2>2. ASSUME NEW u, IsSeq(u)
        PROVE  /\ Fold("part", z, First("think", think) \o u) = Fold("part", b, u)
               /\ Reading(b) /\ b.calls = <<>> /\ b.think = think /\ b.text = 0
    BY <1>13, <1>14, <2>1, <2>2, FirstRead
  <2> QED BY <1>10, <2>2
<1>16. /\ Reading(c) /\ c.calls = <<>> /\ c.think = think /\ c.text = text
       /\ IsSeq(s) /\ Fold("part", b, s) = Fold("part", c, q)
  <2>1. text \in Nat /\ 0 + text = text
    BY <1>1
  <2>2. /\ IsSeq(First("text", text) \o q)
        /\ Fold("part", b, First("text", text) \o q) = Fold("part", c, q)
        /\ Reading(c) /\ c.calls = b.calls /\ c.think = b.think /\ c.text = b.text + text
    <3>1. Reading(b) /\ IsSeq(q) /\ text \in Nat /\ c = Fold("part", b, First("text", text))
      BY <1>10, <1>14, <1>15, <2>1
    <3> HIDE <1>10, <1>14, <1>15, <2>1
    <3> QED BY <3>1, FirstRead
  <2> QED BY <1>4, <1>15, <2>1, <2>2
<1>17. c = Nought(think, text)
  <2>1. c = [think |-> c.think, text |-> c.text, calls |-> c.calls]
    BY <1>16 DEF Reading
  <2> QED BY <1>16, <2>1 DEF Nought
<1>18. r = ReadParts(think, text, q)
  <2>1. r = Fold("part", z, x)
    BY <1>1, <1>12, PartsFold
  <2>2. Fold("part", c, q) = ReadParts(think, text, q)
    BY <1>17, PartsFold
  <2> QED BY <1>4, <1>15, <1>16, <2>1, <2>2
<1>19. Reading(r) /\ r.think = think /\ r.text = text /\ ReadAsCalls(r, q)
  BY <1>1, <1>11, <1>18, ToolsRead
<1>20. DOMAIN r.calls = {l[k].id : k \in 1..n}
  BY <1>9, <1>10, <1>19 DEF ReadAsCalls
<1>21. ASSUME a.finish # "length" PROVE ReadAsCalls(r, l)
  <2>1. \A k \in 1..n : r.calls[l[k].id] = l[k].size
    BY <1>8, <1>9, <1>10, <1>19, <1>21 DEF ReadAsCalls
  <2> QED BY <1>1, <1>20, <2>1 DEF ReadAsCalls
<1> QED BY <1>1, <1>5, <1>19, <1>20, <1>21 DEF Ids

-----------------------------------------------------------------------------
(***************************************************************************)
(* The end of a stream that went through.                                   *)
(***************************************************************************)
CutStops(cl, pr) ==
  IF pr = "anthropic" THEN {"max_tokens"}
  ELSE IF cl = "anthropic" THEN {"length"} ELSE {"length", "content_filter"}

Through(pr, m) ==
  /\ m.started /\ m.ends > 0 /\ ~m.failed /\ ~m.blank
  /\ pr = "anthropic" =>
       /\ m.stop # "none"
       /\ ~(m.tokens.in + m.tokens.cc + m.repeats + m.tokens.cr > MaxTok)

Exact(cl, pr, m, g, u) ==
  Through(pr, m) =>
    /\ ~g.failed /\ g.ends > 0
    /\ g.cut <=> m.stop \in CutStops(cl, pr)
    /\ pr = "anthropic" => Summed(u)

LEMMA OaExact ==
  ASSUME NEW s, NEW m, NEW g, CoupledOa(s, m, g), NEW r, r = OaFinalize(s), NEW u
  PROVE  Exact("anthropic", "openai", m, Reads("anthropic", g, r.out), u)
<1> SUFFICES ASSUME m.started, m.ends > 0, ~m.failed, ~m.blank
             PROVE  LET h == Reads("anthropic", g, r.out)
                    IN ~h.failed /\ h.ends > 0 /\ (h.cut <=> m.stop = "length")
  BY DEF Exact, Through, CutStops
<1>1. WellRead(g) /\ WellRead(m)
  BY DEF CoupledOa
<1>2. s.finished = TRUE
  <2>1. CASE ~s.finished
    BY <1>1, <2>1 DEF CoupledOa, OaLive, WellRead
  <2> QED BY <2>1 DEF CoupledOa
<1>3. OaDone(s, m, g)
  BY <1>2 DEF CoupledOa
<1>4. Reads("anthropic", g, r.out) = g
  <2>1. r.out = <<>>
    BY <1>2 DEF OaFinalize, Says
  <2> QED BY <2>1, ReadsNone DEF Protocols
<1>5. ~g.failed /\ g.ends = 1 /\ (g.cut <=> s.stop = "max_tokens")
  BY <1>3 DEF OaDone
<1>6. s.stop = "max_tokens" <=> m.stop = "length"
  BY <1>3 DEF OaDone, OaStop, FinishToStop
<1> QED BY <1>4, <1>5, <1>6

LEMMA OarExact ==
  ASSUME NEW s, NEW m, NEW g, CoupledOar(s, m, g), NEW r, r = OarFinalize(s), NEW u
  PROVE  Exact("responses", "openai", m, Reads("responses", g, r.out), u)
<1> SUFFICES ASSUME m.started, m.ends > 0, ~m.failed, ~m.blank
             PROVE  LET h == Reads("responses", g, r.out)
                    IN /\ ~h.failed /\ h.ends > 0
                       /\ h.cut <=> m.stop \in {"length", "content_filter"}
  BY DEF Exact, Through, CutStops
<1>1. WellRead(g) /\ WellRead(m)
  BY DEF CoupledOar
<1>2. s.finished = TRUE
  <2>1. CASE ~s.finished
    BY <1>1, <2>1 DEF CoupledOar, OarLive, WellRead
  <2> QED BY <2>1 DEF CoupledOar
<1>3. OarDone(s, m, g)
  BY <1>2 DEF CoupledOar
<1>4. Reads("responses", g, r.out) = g
  <2>1. r.out = <<>>
    BY <1>2 DEF OarFinalize, Says
  <2> QED BY <2>1, ReadsNone DEF Protocols
<1>5. ~g.failed /\ g.ends = 1 /\ (g.cut <=> s.finish \in {"length", "content_filter"})
  BY <1>3 DEF OarDone
<1>6. s.finish \in {"length", "content_filter"} <=> m.stop \in {"length", "content_filter"}
  BY <1>3 DEF OarDone, OarStop
<1> QED BY <1>4, <1>5, <1>6

LEMMA AnExact ==
  ASSUME NEW s, NEW m, NEW g, CoupledAn(s, m, g)
  PROVE  Exact("openai", "anthropic", m, Reads("openai", g, <<Done>>), s.usage)
<1> SUFFICES ASSUME m.started, ~m.failed
             PROVE  LET h == Reads("openai", g, <<Done>>)
                    IN /\ ~h.failed /\ h.ends > 0 /\ (h.cut <=> m.stop = "max_tokens")
                       /\ Summed(s.usage)
  BY DEF Exact, Through, CutStops
<1>1. WellRead(g) /\ g.ends = 0 /\ ~g.failed /\ AnTold(s, m, g) /\ Summed(s.usage)
  BY DEF CoupledAn, AnLive, AnConv
<1>2. PICK h : h = Reads("openai", g, <<Done>>)
  OBVIOUS
<1>3. h = End(g)
  BY <1>2, ReadsOne, ReadIs, OpenAiReads DEF Protocols, Done
<1>4. h.failed = g.failed /\ h.cut = g.cut /\ h.ends = g.ends + 1
  BY <1>1, <1>3, EndIs DEF Same, Fields
<1>5. g.cut <=> m.stop = "max_tokens"
  BY <1>1 DEF AnTold
<1> QED BY <1>1, <1>2, <1>4, <1>5

LEMMA ChainExact ==
  ASSUME NEW a, NEW s, NEW m, NEW mid, NEW g, CoupledChain(a, s, m, mid, g),
         NEW r, r = OarFinalize(s), NEW u, u = s.usage
  PROVE  Exact("responses", "anthropic", m, Reads("responses", g, r.out), u)
<1>1. CoupledAn(a, m, mid) /\ CoupledOar(s, mid, g)
  BY DEF CoupledChain
<1> SUFFICES ASSUME m.started, ~m.failed, m.stop # "none",
                    ~(m.tokens.in + m.tokens.cc + m.repeats + m.tokens.cr > MaxTok)
             PROVE  LET h == Reads("responses", g, r.out)
                    IN /\ ~h.failed /\ h.ends > 0 /\ (h.cut <=> m.stop = "max_tokens")
                       /\ Summed(u)
  BY DEF Exact, Through, CutStops
<1>2. /\ WellRead(g) /\ WellRead(mid) /\ mid.ends = 0 /\ ~mid.failed /\ AnTold(a, m, mid)
      /\ Summed(a.usage)
  BY <1>1 DEF CoupledAn, CoupledOar, AnLive, AnConv
<1>3. s.finished = FALSE
  <2>1. s.finished \in BOOLEAN
    BY <1>1 DEF CoupledOar
  <2>2. CASE s.finished
    BY <1>1, <1>2, <2>2 DEF CoupledOar, OarDone
  <2> QED BY <2>1, <2>2
<1>4. OarLive(s, mid, g)
  BY <1>1, <1>3 DEF CoupledOar
<1>5. /\ OarItems(s, mid, g) /\ g.started /\ ~Over(g) /\ g.shut = {} /\ OarStop(s, mid)
      /\ s.started = TRUE
  BY <1>1, <1>2, <1>4 DEF OarLive, AnTold, CoupledOar
<1>6. u = Extract(mid.read) /\ u \in Bills
  BY <1>1, <1>2, ExtractIs DEF CoupledOar, WellRead
<1>7. PICK h : h = Reads("responses", g, r.out)
  OBVIOUS
<1>8. OarBye(s, g, h)
  BY <1>2, <1>3, <1>5, <1>6, <1>7, OarFinalizes
<1>9. /\ h.failed = g.failed /\ h.ends = g.ends + 1
      /\ (h.cut <=> s.finish \in {"length", "content_filter"})
  BY <1>8 DEF OarBye, Same, Fields
<1>10. ~h.failed /\ h.ends > 0
  BY <1>2, <1>5, <1>9 DEF Over, WellRead
<1>11. s.finish \in {"length", "content_filter"} <=> m.stop = "max_tokens"
  BY <1>2, <1>5 DEF OarStop, AnTold, StopToFinish
<1>12. Extract(mid.read) = a.usage
  BY <1>1, AnTells
<1> QED BY <1>2, <1>6, <1>7, <1>9, <1>10, <1>11, <1>12

-----------------------------------------------------------------------------
(***************************************************************************)
(* A whole answer, for each pair of protocols.                              *)
(***************************************************************************)
LEMMA CallsRead ==
  ASSUME NEW m, WellRead(m), Accounted(m), NEW l, l = Listed(m.at)
  PROVE  /\ Tools(l) /\ DOMAIN m.calls = Ids(l)
         /\ \A think \in Nat, text \in Nat :
              ReadParts(think, text, l) = [think |-> think, text |-> text, calls |-> m.calls]
<1>1. /\ Tools(l)
      /\ \A r : ReadAsCalls(r, l) /\ Reading(r) => r.calls = m.calls
  BY ListedCalls
<1>2. ASSUME NEW think \in Nat, NEW text \in Nat, NEW r, r = ReadParts(think, text, l)
      PROVE  /\ r = [think |-> think, text |-> text, calls |-> m.calls]
             /\ DOMAIN m.calls = Ids(l)
  <2>1. Reading(r) /\ r.think = think /\ r.text = text /\ ReadAsCalls(r, l)
    BY <1>1, <1>2, ToolsRead
  <2>2. r.calls = m.calls
    BY <1>1, <2>1
  <2> QED BY <2>1, <2>2 DEF Reading, ReadAsCalls, Ids
<1>3. DOMAIN m.calls = Ids(l)
  <2>1. PICK r : r = ReadParts(0, 0, l)
    OBVIOUS
  <2> QED BY <1>2, <2>1
<1> QED BY <1>1, <1>2, <1>3

LEMMA CountedAlike ==
  ASSUME NEW m, WellRead(m), NEW u, Summed(u), m.repeats = 0,
         u.unc = Sat(m.tokens.in + m.tokens.cc + m.repeats),
         u.out = m.tokens.out, u.cached = m.tokens.cr,
         ~(m.tokens.in + m.tokens.cc + m.repeats + m.tokens.cr + m.tokens.out > MaxTok)
  PROVE  /\ Extract(AnUsage(m.tokens, m.tokens.in + m.tokens.cr + m.tokens.cc)) = u
         /\ Total([unc |-> Sat(m.tokens.in + m.tokens.cc), out |-> m.tokens.out, total |-> 0,
                   cached |-> m.tokens.cr]) = u
<1>1. PICK in, cc, cr, out : /\ in = m.tokens.in /\ cc = m.tokens.cc
                             /\ cr = m.tokens.cr /\ out = m.tokens.out
  OBVIOUS
<1>2. in \in Nat /\ cc \in Nat /\ cr \in Nat /\ out \in Nat
  BY <1>1 DEF WellRead
<1>3. MaxTok \in Nat
  BY ConverterAssumption
<1>4. in + cc + cr + out <= MaxTok
  BY <1>1, <1>2, <1>3
<1>5. u = [unc |-> u.unc, out |-> u.out, total |-> u.total, cached |-> u.cached]
      /\ u.total = Sat(Sat(u.unc + u.out) + u.cached)
  BY DEF Summed, Bills
<1>6. u.unc = in + cc /\ Sat(in + cc) = in + cc
  BY <1>1, <1>2, <1>3, <1>4 DEF Sat
<1>7. u.total = in + cc + out + cr /\ u.out = out /\ u.cached = cr
  BY <1>1, <1>2, <1>3, <1>4, <1>5, <1>6 DEF Sat
<1>8. Extract(AnUsage(m.tokens, in + cr + cc)) = u
  <2>1. PICK p : p = in + cr + cc
    OBVIOUS
  <2>2. AnUsage(m.tokens, p) = [prompt |-> p, cached |-> cr, completion |-> out, total |-> p + out]
    BY <1>1 DEF AnUsage
  <2>a. p + out # Nothing
    BY <1>2, <2>1 DEF Nothing
  <2>3. Extract(AnUsage(m.tokens, p)) =
          [unc |-> IF p > cr THEN p - cr ELSE 0, out |-> out, total |-> p + out, cached |-> cr]
    BY <2>2, <2>a DEF Extract
  <2>4. (IF p > cr THEN p - cr ELSE 0) = in + cc /\ p + out = in + cc + out + cr
    BY <1>2, <2>1
  <2> QED BY <1>5, <1>6, <1>7, <2>1, <2>3, <2>4
<1>9. Total([unc |-> Sat(in + cc), out |-> out, total |-> 0, cached |-> cr]) = u
  <2>1. PICK x : x = in + cc
    OBVIOUS
  <2>2. Total([unc |-> x, out |-> out, total |-> 0, cached |-> cr])
          = [unc |-> x, out |-> out, total |-> Sat(Sat(x + out) + cr), cached |-> cr]
    BY DEF Total
  <2> QED BY <1>5, <1>6, <1>7, <2>1, <2>2
<1> QED BY <1>1, <1>8, <1>9

SentWell(pr, m) ==
  /\ pr = "openai" => WellRead(m) /\ Accounted(m)
  /\ pr = "anthropic" => m.failed \/ (WellRead(m) /\ InBlocks(m))

\* The message of the client is the provider's, and so is the bill.
Settled ==
  /\ WellRead(sent) /\ got.text = sent.text /\ got.calls = sent.calls
  /\ got.think = IF client = "responses" THEN 0 ELSE sent.think
  /\ got.cut <=> sent.stop \in CutStops(client, provider)
  /\ (got.cut => sent.cut) /\ ~Clamped
  /\ IF client = "anthropic" THEN got.tokens.in = Usage.unc /\ got.tokens.out = Usage.out
     ELSE Extract(got.read) = Usage
  /\ provider = "openai" => Accounted(sent) /\ Usage = Extract(sent.read)
  /\ provider = "anthropic" =>
       /\ InBlocks(sent) /\ Summed(Usage) /\ sent.repeats = 0
       /\ Usage.unc = Sat(Input) /\ Usage.out = sent.tokens.out /\ Usage.cached = sent.tokens.cr

Alike ==
  LET w == ReadWhole(Returned) IN
    /\ w.text = got.text /\ w.think = got.think
    /\ DOMAIN w.calls = DOMAIN got.calls
    /\ sent.cut \/ w.calls = got.calls
    /\ CutShort(Returned) <=> got.cut
    /\ ExtractWhole(Whole) = Usage
    /\ IF client = "anthropic"
       THEN /\ Returned.use.out = got.tokens.out
            /\ Usage.cached = 0 => Returned.use.in = got.tokens.in
       ELSE Extract(Returned.use) = Extract(got.read)

LEMMA AlikeOa ==
  ASSUME Settled, client = "anthropic", provider = "openai"
  PROVE  Alike
<1>1. PICK a : a = OpenAiAnswer(sent.think, sent.text, Listed(sent.at), sent.stop, sent.read)
  OBVIOUS
<1>2. PICK l : l = Listed(sent.at)
  OBVIOUS
<1>3. /\ a.think = sent.think /\ a.text = sent.text /\ a.calls = l /\ a.finish = sent.stop
      /\ a.use = sent.read
  BY <1>1, <1>2 DEF OpenAiAnswer
<1>4. Whole = a
  BY <1>1 DEF Whole
<1>5. PICK w : w = OaWhole(a)
  OBVIOUS
<1>6. Returned = w
  BY <1>4, <1>5 DEF Returned
<1>7. PICK r : r = ReadParts(0, 0, w.content)
  OBVIOUS
<1>8. ReadWhole(Returned) = r
  BY <1>6, <1>7 DEF ReadWhole
<1>9. WellRead(sent) /\ Accounted(sent) /\ Usage = Extract(sent.read)
  BY DEF Settled
<1>10. /\ Tools(l) /\ DOMAIN sent.calls = Ids(l)
       /\ \A q : ReadAsCalls(q, l) /\ Reading(q) => q.calls = sent.calls
  BY <1>2, <1>9, CallsRead, ListedCalls
<1>11. a.think \in Nat /\ a.text \in Nat
  BY <1>3, <1>9 DEF WellRead
<1>12. /\ Reading(r) /\ r.think = a.think /\ r.text = a.text
       /\ DOMAIN r.calls = Ids(l)
       /\ a.finish # "length" => ReadAsCalls(r, l)
       /\ w.stop = FinishToStop(a.finish)
       /\ w.use.in = a.use.prompt /\ w.use.out = a.use.completion
  <2>1. Tools(l) /\ a.calls = l /\ a.think \in Nat /\ a.text \in Nat
    BY <1>3, <1>10, <1>11
  <2> QED BY <1>5, <1>7, <2>1, OaWholeReads
<1>13. got.cut <=> sent.stop = "length"
  BY DEF Settled, CutStops
<1>14. sent.cut \/ r.calls = got.calls
  BY <1>3, <1>10, <1>12, <1>13 DEF Settled
<1>15. r.text = got.text /\ r.think = got.think /\ DOMAIN r.calls = DOMAIN got.calls
  BY <1>3, <1>10, <1>12 DEF Settled
<1>16. CutShort(Returned) <=> got.cut
  BY <1>3, <1>6, <1>12, <1>13 DEF CutShort, FinishToStop
<1>17. ExtractWhole(Whole) = Usage
  BY <1>3, <1>4, <1>9 DEF ExtractWhole
<1>18. Returned.use.out = got.tokens.out
  BY <1>3, <1>6, <1>9, <1>12 DEF Settled, Extract
<1>19. ASSUME Usage.cached = 0 PROVE Returned.use.in = got.tokens.in
  <2>1. sent.read.prompt \in Nat
    BY <1>9, ConverterAssumption DEF WellRead, UsageObjects
  <2>2. Usage.cached = sent.read.cached
        /\ Usage.unc = IF sent.read.prompt > sent.read.cached
                       THEN sent.read.prompt - sent.read.cached ELSE 0
    BY <1>9 DEF Extract
  <2>3. Usage.unc = sent.read.prompt
    BY <1>19, <2>1, <2>2
  <2> QED BY <1>3, <1>6, <1>12, <2>3 DEF Settled
<1> QED BY <1>8, <1>14, <1>15, <1>16, <1>17, <1>18, <1>19 DEF Alike

LEMMA AlikeOar ==
  ASSUME Settled, client = "responses", provider = "openai"
  PROVE  Alike
<1>1. PICK a : a = OpenAiAnswer(sent.think, sent.text, Listed(sent.at), sent.stop, sent.read)
  OBVIOUS
<1>2. PICK l : l = Listed(sent.at)
  OBVIOUS
<1>3. /\ a.think = sent.think /\ a.text = sent.text /\ a.calls = l /\ a.finish = sent.stop
      /\ a.use = sent.read
  BY <1>1, <1>2 DEF OpenAiAnswer
<1>4. Whole = a
  BY <1>1 DEF Whole
<1>5. PICK w : w = OarWhole(a)
  OBVIOUS
<1>6. Returned = w
  BY <1>4, <1>5 DEF Returned
<1>7. ReadWhole(Returned) = ReadParts(0, 0, w.output)
  BY <1>6 DEF ReadWhole
<1>8. WellRead(sent) /\ Accounted(sent) /\ Usage = Extract(sent.read)
  BY DEF Settled
<1>9. /\ Tools(l)
      /\ \A think \in Nat, text \in Nat :
           ReadParts(think, text, l) = [think |-> think, text |-> text, calls |-> sent.calls]
  BY <1>2, <1>8, CallsRead
<1>10. a.text \in Nat /\ IsSeq(a.calls)
  BY <1>3, <1>8, <1>9 DEF WellRead, Tools, Parts
<1>11. /\ ReadParts(0, 0, w.output) = [think |-> 0, text |-> a.text, calls |-> sent.calls]
       /\ w.use = Filled(a.use) /\ w.status = OarVerdict(a)
  <2>1. PICK c : c = sent.calls
    OBVIOUS
  <2>2. \A think \in Nat, text \in Nat :
          ReadParts(think, text, a.calls) = [think |-> think, text |-> text, calls |-> c]
    BY <1>3, <1>9, <2>1
  <2>3. /\ ReadParts(0, 0, w.output) = [think |-> 0, text |-> a.text, calls |-> c]
        /\ w.use = Filled(a.use) /\ w.status = OarVerdict(a)
    BY <1>5, <1>10, <2>2, OarWholeReads
  <2> QED BY <2>1, <2>3
<1>12. CutShort(Returned) <=> got.cut
  BY <1>3, <1>6, <1>11 DEF CutShort, OarVerdict, Settled, CutStops
<1>13. ExtractWhole(Whole) = Usage
  BY <1>3, <1>4, <1>8 DEF ExtractWhole
<1>14. Extract(Returned.use) = Extract(got.read)
  <2>1. sent.read \in UsageObjects
    BY <1>8 DEF WellRead
  <2>2. ~(sent.read.total = Nothing /\ sent.read.prompt + sent.read.completion > MaxTok)
    BY DEF Settled, Clamped
  <2>3. Extract(Filled(sent.read)) = Extract(sent.read)
    BY <2>1, <2>2, FilledIs
  <2> QED BY <1>3, <1>6, <1>8, <1>11, <2>3 DEF Settled
<1>15. PICK v : v = ReadWhole(Returned)
  OBVIOUS
<1>16. v.text = got.text /\ v.think = got.think /\ v.calls = got.calls
  BY <1>3, <1>7, <1>11, <1>15 DEF Settled
<1> QED BY <1>12, <1>13, <1>14, <1>15, <1>16 DEF Alike

LEMMA AlikeAn ==
  ASSUME Settled, client \in {"openai", "responses"}, provider = "anthropic"
  PROVE  Alike
<1>1. PICK q, a : q = AnthropicAnswer(Listed(sent.at), sent.stop, sent.tokens) /\ a = AnWhole(q)
  OBVIOUS
<1>2. Whole = q
  BY <1>1 DEF Whole
<1>3. /\ WellRead(sent) /\ InBlocks(sent) /\ Summed(Usage) /\ sent.repeats = 0 /\ ~Clamped
      /\ Usage.unc = Sat(Input) /\ Usage.out = sent.tokens.out /\ Usage.cached = sent.tokens.cr
      /\ (got.cut <=> sent.stop = "max_tokens") /\ Extract(got.read) = Usage
  BY DEF Settled, CutStops
<1>4. /\ IsSeq(a.calls)
      /\ a.think = sent.think /\ a.text = sent.text /\ a.finish = StopToFinish(sent.stop)
      /\ a.use = AnUsage(sent.tokens, sent.tokens.in + sent.tokens.cr + sent.tokens.cc)
      /\ \A think \in Nat, text \in Nat :
           ReadParts(think, text, a.calls) =
             [think |-> think, text |-> text, calls |-> sent.calls]
  BY <1>1, <1>3, AnWholeReads
<1>5. PICK u : u = Usage
  OBVIOUS
<1>6. /\ Extract(a.use) = u
      /\ Total([unc |-> Sat(sent.tokens.in + sent.tokens.cc), out |-> sent.tokens.out,
                total |-> 0, cached |-> sent.tokens.cr]) = u
  <2>1. /\ Summed(u) /\ u.unc = Sat(sent.tokens.in + sent.tokens.cc + sent.repeats)
        /\ u.out = sent.tokens.out /\ u.cached = sent.tokens.cr
        /\ ~(sent.tokens.in + sent.tokens.cc + sent.repeats + sent.tokens.cr
             + sent.tokens.out > MaxTok)
    BY <1>3, <1>5 DEF Input, Clamped
  <2> QED BY <1>3, <1>4, <2>1, CountedAlike
<1>7. ExtractWhole(Whole) = Usage
  BY <1>1, <1>2, <1>5, <1>6 DEF ExtractWhole, AnthropicAnswer
<1>8. a.finish \in {"length", "content_filter"} <=> sent.stop = "max_tokens"
  BY <1>4 DEF StopToFinish
<1>9. a.think \in Nat /\ a.text \in Nat
  BY <1>3, <1>4 DEF WellRead
<1>10. CASE client = "openai"
  <2>1. Returned = a
    BY <1>1, <1>2, <1>10 DEF Returned
  <2>2. PICK v : v = ReadWhole(Returned)
    OBVIOUS
  <2>3. v = [think |-> a.think, text |-> a.text, calls |-> sent.calls]
    BY <1>4, <1>9, <1>10, <2>1, <2>2 DEF ReadWhole
  <2>4. v.text = got.text /\ v.think = got.think /\ v.calls = got.calls
    BY <1>4, <1>10, <2>3 DEF Settled
  <2>5. CutShort(Returned) <=> got.cut
    BY <1>3, <1>8, <1>10, <2>1 DEF CutShort
  <2>6. Extract(Returned.use) = Extract(got.read)
    BY <1>3, <1>5, <1>6, <2>1
  <2> QED BY <1>7, <1>10, <2>2, <2>4, <2>5, <2>6 DEF Alike
<1>11. CASE client = "responses"
  <2>1. PICK w : w = OarWhole(a)
    OBVIOUS
  <2>2. Returned = w
    BY <1>1, <1>2, <1>11, <2>1 DEF Returned
  <2>3. /\ ReadParts(0, 0, w.output) = [think |-> 0, text |-> a.text, calls |-> sent.calls]
        /\ w.use = Filled(a.use) /\ w.status = OarVerdict(a)
    <3>1. PICK c : c = sent.calls
      OBVIOUS
    <3>2. \A think \in Nat, text \in Nat :
            ReadParts(think, text, a.calls) = [think |-> think, text |-> text, calls |-> c]
      BY <1>4, <3>1
    <3>3. IsSeq(a.calls)
      BY <1>4
    <3>4. /\ ReadParts(0, 0, w.output) = [think |-> 0, text |-> a.text, calls |-> c]
          /\ w.use = Filled(a.use) /\ w.status = OarVerdict(a)
      BY <1>9, <2>1, <3>2, <3>3, OarWholeReads
    <3> QED BY <3>1, <3>4
  <2>4. PICK v : v = ReadWhole(Returned)
    OBVIOUS
  <2>5. v = [think |-> 0, text |-> a.text, calls |-> sent.calls]
    BY <1>11, <2>2, <2>3, <2>4 DEF ReadWhole
  <2>6. v.text = got.text /\ v.think = got.think /\ v.calls = got.calls
    BY <1>4, <1>11, <2>5 DEF Settled
  <2>7. CutShort(Returned) <=> got.cut
    BY <1>3, <1>8, <1>11, <2>2, <2>3 DEF CutShort, OarVerdict
  <2>8. Extract(Returned.use) = Extract(got.read)
    <3>1. PICK p : p = sent.tokens.in + sent.tokens.cr + sent.tokens.cc
      OBVIOUS
    <3>2. p \in Nat /\ sent.tokens.out \in Nat
      BY <1>3, <3>1 DEF WellRead
    <3>3. Filled(a.use) = a.use
      BY <1>4, <3>1, <3>2, FilledIs
    <3> QED BY <1>3, <1>5, <1>6, <2>2, <2>3, <3>3
  <2> QED BY <1>7, <1>11, <2>4, <2>6, <2>7, <2>8 DEF Alike
<1> QED BY <1>10, <1>11

-----------------------------------------------------------------------------
(***************************************************************************)
(* The two invariants together.                                             *)
(***************************************************************************)
Streamed ==
  /\ IInv
  /\ Converts => SentWell(provider, sent)
  /\ Converts /\ how = "eof" => Exact(client, provider, sent, got, Usage)

LEMMA StreamedInit == Init => Streamed
<1> SUFFICES ASSUME Init PROVE Streamed
  OBVIOUS
<1>1. sent = Unread /\ how = "open"
  BY DEF Init
<1>2. PICK at, calls : at = Unread.at /\ calls = Unread.calls
  OBVIOUS
<1>3. at = <<>> /\ calls = <<>> /\ DOMAIN at = {} /\ DOMAIN calls = {} /\ Row(DOMAIN at, 0)
  BY <1>2, UnreadIs, NoneYet
<1>4. IsFiniteSet({})
  BY FS_EmptySet
<1>5. Accounted(Unread)
  BY <1>2, <1>3, <1>4, UnreadIs DEF Accounted, OnlyCalls
<1>6. InBlocks(Unread)
  <2>1. PICK l : l = Listed(Unread.at)
    OBVIOUS
  <2>2. Parts(l) /\ Len(l) = 0
    BY <1>2, <1>3, <2>1, UnreadIsWellRead, ListedRow
  <2>3. l = <<>>
    BY <2>2 DEF Parts, IsSeq
  <2>4. ReadParts(0, 0, l) = Nought(0, 0)
    BY <2>3, PartsNone
  <2>5. Nought(0, 0) = MessageOf(Unread)
    BY UnreadIs DEF Nought, MessageOf
  <2> QED BY <1>2, <1>3, <2>1, <2>4, <2>5, UnreadIs DEF InBlocks
<1> QED BY <1>1, <1>5, <1>6, InvariantInit, UnreadIsWellRead DEF Streamed, SentWell

\* What the provider has sent while its stream is open.
LEMMA SentIsRead ==
  ASSUME Sides, Coupled, Converts
  PROVE  /\ WellRead(sent)
         /\ provider = "openai" \/ provider = "anthropic"
<1>1. CASE client = "anthropic" /\ provider = "openai"
  BY <1>1 DEF Coupled, CoupledOa
<1>2. CASE client = "openai" /\ provider = "anthropic"
  BY <1>2 DEF Coupled, CoupledAn
<1>3. CASE client = "responses" /\ provider = "openai"
  BY <1>3 DEF Coupled, CoupledOar
<1>4. CASE client = "responses" /\ provider = "anthropic"
  BY <1>4 DEF Coupled, CoupledChain, CoupledAn
<1> QED BY <1>1, <1>2, <1>3, <1>4 DEF Sides, Converts, Passes

LEMMA ReceiveStreamed ==
  ASSUME Streamed, NEW ev \in EventsOf(provider), Receive(ev)
  PROVE  Streamed'
<1>1. IInv /\ IInv'
  BY ReceiveKeeps DEF Streamed
<1>2. /\ how = "open" /\ how' = how /\ Allowed(ev) /\ client' = client /\ provider' = provider
      /\ sent' = Read(provider, sent, ev)
  BY DEF Receive
<1>3. (Converts' <=> Converts) /\ Sides /\ Coupled /\ Sides' /\ Coupled'
  BY <1>1, <1>2 DEF IInv, Converts, Passes
<1>4. ASSUME Converts PROVE SentWell(provider, sent')
  <2>1. WellRead(sent) /\ (provider = "openai" \/ provider = "anthropic")
    BY <1>3, <1>4, SentIsRead
  <2>2. WellRead(sent')
    <3>1. (Sides /\ Coupled /\ Converts => WellRead(sent))'
      BY SentIsRead, PTL
    <3> QED BY <1>3, <1>4, <3>1
  <2>3. CASE provider = "openai"
    <3>1. OaAllowed(sent, ev)
      BY <1>2, <2>3, AllowedOpenAi DEF EventsOf
    <3>2. sent' = ReadOpenAi(sent, ev)
      BY <1>2, <2>3, ReadIs
    <3>3. Accounted(sent)
      BY <1>4, <2>3 DEF Streamed, SentWell
    <3>4. Accounted(sent')
      BY <2>1, <3>1, <3>2, <3>3, StaysAccounted
    <3> QED BY <2>2, <2>3, <3>4 DEF SentWell
  <2>4. CASE provider = "anthropic"
    <3>1. AnAllowed(sent, ev)
      BY <1>2, <2>4, AllowedAnthropic DEF EventsOf
    <3>2. sent' = ReadAnthropic(sent, ev)
      BY <1>2, <2>4, ReadIs
    <3>3. sent.failed \/ InBlocks(sent)
      BY <1>4, <2>4 DEF Streamed, SentWell
    <3>4. CASE sent.failed
      <4>1. Same(sent', sent, {"faults", "open", "stop", "blank", "cut", "tokens", "repeats"})
            \/ Same(sent', sent, {"ends", "faults", "open", "stop", "blank", "cut", "tokens", "repeats"})
            \/ sent'.failed
        BY <2>1, <3>1, <3>2, <3>4, DeadAnthropic
      <4>2. sent'.failed
        BY <3>4, <4>1 DEF Same, Fields
      <4> QED BY <2>4, <4>2 DEF SentWell
    <3>5. CASE ~sent.failed
      <4>1. InBlocks(sent)
        BY <3>3, <3>5
      <4>2. PICK b : b = sent'
        OBVIOUS
      <4>3. b.failed \/ InBlocks(b)
        BY <2>1, <2>2, <3>1, <3>2, <3>5, <4>1, <4>2, StaysInBlocks
      <4> QED BY <2>2, <2>4, <4>2, <4>3 DEF SentWell
    <3> QED BY <3>4, <3>5
  <2> QED BY <2>1, <2>3, <2>4
<1> QED BY <1>1, <1>2, <1>3, <1>4 DEF Streamed

\* The upstream closes after at least one event.
LEMMA ClosesExactly ==
  ASSUME IInv, how = "open", Converts, NEW p, p = Finish
  PROVE  Exact(client, provider, sent, Reads(client, got, p.out), Usage)
<1>1. Coupled /\ Sides /\ DOMAIN conv = {"oa", "an", "oar", "pass"} /\ ~Passes
  BY DEF IInv, Converts
<1>2. CASE client = "anthropic" /\ provider = "openai"
  <2>1. CoupledOa(conv.oa, sent, got)
    BY <1>1, <1>2 DEF Coupled
  <2>2. PICK r, u : r = OaFinalize(conv.oa) /\ u = Usage
    OBVIOUS
  <2>3. p.out = r.out
    BY <1>1, <1>2, <2>2, ClosingSays
  <2>4. Exact("anthropic", "openai", sent, Reads("anthropic", got, r.out), u)
    BY <2>1, <2>2, OaExact
  <2> QED BY <1>2, <2>2, <2>3, <2>4
<1>3. CASE client = "openai" /\ provider = "anthropic"
  <2>1. CoupledAn(conv.an, sent, got) /\ Usage = conv.an.usage
    BY <1>1, <1>3 DEF Coupled, Usage
  <2>2. p.out = <<Done>>
    BY <1>1, <1>3, ClosingSays DEF Says
  <2>3. PICK s : s = conv.an
    OBVIOUS
  <2>4. Exact("openai", "anthropic", sent, Reads("openai", got, <<Done>>), s.usage)
    BY <2>1, <2>3, AnExact
  <2> QED BY <1>3, <2>1, <2>2, <2>3, <2>4
<1>4. CASE client = "responses" /\ provider = "openai"
  <2>1. CoupledOar(conv.oar, sent, got)
    BY <1>1, <1>4 DEF Coupled
  <2>2. PICK r, u : r = OarFinalize(conv.oar) /\ u = Usage
    OBVIOUS
  <2>3. p.out = r.out
    BY <1>1, <1>4, <2>2, ClosingSays
  <2>4. Exact("responses", "openai", sent, Reads("responses", got, r.out), u)
    BY <2>1, <2>2, OarExact
  <2> QED BY <1>4, <2>2, <2>3, <2>4
<1>5. CASE client = "responses" /\ provider = "anthropic"
  <2>1. PICK mid : CoupledChain(conv.an, conv.oar, sent, mid, got)
    BY <1>1, <1>5 DEF Coupled
  <2>2. PICK r, u : r = OarFinalize(conv.oar) /\ u = conv.oar.usage
    OBVIOUS
  <2>3. p.out = r.out /\ Usage = u
    BY <1>1, <1>5, <2>2, ClosingSays DEF Usage
  <2>4. Exact("responses", "anthropic", sent, Reads("responses", got, r.out), u)
    BY <2>1, <2>2, ChainExact
  <2> QED BY <1>5, <2>3, <2>4
<1> QED BY <1>1, <1>2, <1>3, <1>4, <1>5 DEF Sides, Passes

LEMMA EndStreamed ==
  ASSUME Streamed, Eof \/ Break
  PROVE  Streamed'
<1>1. IInv /\ IInv' /\ Usage' = Usage
  BY EndKeeps, EndUsage DEF Streamed
<1>2. how = "open" /\ client' = client /\ provider' = provider /\ sent' = sent
  BY DEF Eof, Break
<1>3. Converts' <=> Converts
  BY <1>2 DEF Converts, Passes
<1>4. ASSUME Converts, how' = "eof" PROVE Exact(client, provider, sent, got', Usage)
  <2>1. Eof
    BY <1>4 DEF Eof, Break
  <2>2. CASE events = 0
    <3>1. ~sent.started
      BY <1>1, <1>2, <2>2, UnreadIs DEF IInv
    <3> QED BY <3>1 DEF Exact, Through
  <2>3. CASE events # 0
    <3>1. PICK p : p = Finish
      OBVIOUS
    <3>2. got' = Reads(client, got, p.out)
      BY <2>1, <2>3, <3>1 DEF Eof
    <3> QED BY <1>1, <1>2, <1>4, <3>1, <3>2, ClosesExactly
  <2> QED BY <2>2, <2>3
<1>5. ASSUME Converts PROVE SentWell(provider, sent)
  BY <1>5 DEF Streamed
<1> QED BY <1>1, <1>2, <1>3, <1>4, <1>5 DEF Streamed

\* At the end the two sides agree, and so do the two ways to answer.
LEMMA StreamedSettles == Streamed /\ Complete => Settled
<1> SUFFICES ASSUME Streamed, Complete PROVE Settled
  OBVIOUS
<1>1. /\ Converts /\ how = "eof" /\ sent.started /\ sent.ends > 0 /\ ~sent.failed /\ ~sent.blank
      /\ provider = "anthropic" => sent.stop # "none" /\ sent.repeats = 0
      /\ ~Clamped
  BY DEF Complete
<1>2. /\ IInv /\ SentWell(provider, sent) /\ Exact(client, provider, sent, got, Usage) /\ Sides
  BY <1>1 DEF Streamed, IInv
<1>3. Kept5(client, provider, how, sent, got, Usage) /\ Billed(provider, Chain, sent, Usage)
  BY <1>1, <1>2 DEF IInv
<1>4. provider = "openai" \/ provider = "anthropic"
  BY <1>1, <1>2 DEF Sides, Converts, Passes
<1>5. WellRead(sent)
  BY <1>1, <1>2, <1>4 DEF SentWell
<1>6. /\ provider = "openai" => Accounted(sent)
      /\ provider = "anthropic" => InBlocks(sent)
  BY <1>1, <1>2 DEF SentWell
<1>7. ~(sent.tokens.in + sent.tokens.cc + sent.repeats + sent.tokens.cr > MaxTok)
  <2>1. MaxTok \in Nat
    BY ConverterAssumption
  <2>2. CASE provider = "openai"
    <3>1. sent.tokens = Unread.tokens /\ sent.repeats = 0
      BY <1>6, <2>2 DEF Accounted
    <3>2. sent.tokens.in = 0 /\ sent.tokens.cc = 0 /\ sent.tokens.cr = 0
      BY <3>1, UnreadIs
    <3> QED BY <2>1, <3>1, <3>2
  <2>3. CASE provider = "anthropic"
    <3>1. PICK in, cc, rep, cr, out : /\ in = sent.tokens.in /\ cc = sent.tokens.cc
                                      /\ rep = sent.repeats /\ cr = sent.tokens.cr
                                      /\ out = sent.tokens.out
      OBVIOUS
    <3>2. in \in Nat /\ cc \in Nat /\ rep \in Nat /\ cr \in Nat /\ out \in Nat
      BY <1>5, <3>1 DEF WellRead
    <3>3. ~(in + cc + rep + cr + out > MaxTok)
      BY <1>1, <2>3, <3>1 DEF Clamped, Input
    <3> QED BY <2>1, <3>1, <3>2, <3>3
  <2> QED BY <1>4, <2>2, <2>3
<1>8. Through(provider, sent)
  BY <1>1, <1>7 DEF Through
<1>9. /\ ~got.failed /\ got.ends > 0 /\ (got.cut <=> sent.stop \in CutStops(client, provider))
      /\ provider = "anthropic" => Summed(Usage)
  BY <1>2, <1>8 DEF Exact
<1>10. /\ got.text = sent.text /\ got.calls = sent.calls
       /\ got.think = IF client = "responses" THEN 0 ELSE sent.think
       /\ got.cut => sent.cut
       /\ IF client = "anthropic" THEN got.tokens.in = Usage.unc /\ got.tokens.out = Usage.out
          ELSE Extract(got.read) = Usage
  BY <1>1, <1>3, <1>7, <1>9 DEF Kept5
<1>11. provider = "openai" => Usage = Extract(sent.read)
  BY <1>1, <1>3 DEF Billed
<1>12. ASSUME provider = "anthropic"
       PROVE  /\ Usage.unc = Sat(Input) /\ Usage.out = sent.tokens.out
              /\ Usage.cached = sent.tokens.cr
  BY <1>1, <1>3, <1>7, <1>12 DEF Billed, Input
<1> QED BY <1>1, <1>5, <1>6, <1>9, <1>10, <1>11, <1>12 DEF Settled

-----------------------------------------------------------------------------
(***************************************************************************)
(* The theorems.                                                           *)
(***************************************************************************)
\* The converter of the two protocols stays coupled to what the provider sent
\* and to what the client got, from the first event to the last.
THEOREM Invariant == Spec => []IInv
<1>1. IInv /\ [Next]_vars => IInv'
  <2> SUFFICES ASSUME IInv, [Next]_vars PROVE IInv'
    OBVIOUS
  <2>1. ASSUME NEW ev \in EventsOf(provider), Receive(ev) PROVE IInv'
    BY <2>1, ReceiveKeeps
  <2>2. CASE Eof \/ Break
    BY <2>2, EndKeeps
  <2>3. CASE UNCHANGED vars
    BY <2>3 DEF vars, IInv, Sides, Coupled, Passes, Converts, Chain, Usage
  <2> QED BY <2>1, <2>2, <2>3 DEF Next
<1> QED BY <1>1, InvariantInit, PTL DEF Spec

\* Whatever blocks, indices and items a converter renumbers, the client puts
\* together the text, the calls and the reasoning the provider sent.
THEOREM ClientGetsTheMessage == Spec => []SameMessage
<1>1. IInv => SameMessage
  BY DEF IInv, SameMessage, Kept5
<1> QED BY <1>1, Invariant, PTL

\* What a converter emits keeps to the client's protocol.
THEOREM ClientIsInOrder == Spec => []ClientOrder
<1>1. IInv => ClientOrder
  BY DEF IInv, ClientOrder, Kept5
<1> QED BY <1>1, Invariant, PTL

\* A converted stream that is over was brought to one end, by finalize, by
\* the provider's own end or by the error frames of stream_response.
THEOREM EndsOnce == Spec => []OneOutcome
<1>1. IInv => OneOutcome
  BY DEF IInv, OneOutcome, Kept5
<1> QED BY <1>1, Invariant, PTL

\* stop_reason, finish_reason and status tell a cut answer from a whole one.
THEOREM CutIsTold == Spec => []CutStaysCut
<1>1. IInv => CutStaysCut
  BY DEF IInv, CutStaysCut, Kept5
<1> QED BY <1>1, Invariant, PTL

\* usage(), from which the call is charged, is what the provider reported,
\* converted or passed through, saturating at i32::MAX.
THEOREM BillIsTheReport == Spec => []BilledAsReported
<1>1. IInv => BilledAsReported
  BY DEF IInv, BilledAsReported, Billed, Input, Saturated
<1> QED BY <1>1, Invariant, PTL

\* The usage the client is told at the end is the one that is charged.
THEOREM BillIsTold == Spec => []ToldTheBill
<1>1. IInv => ToldTheBill
  BY DEF IInv, ToldTheBill, Kept5, Input, Saturated
<1> QED BY <1>1, Invariant, PTL

\* What the provider has streamed reads item by item as the message it is the
\* stream of, its calls under their own ids and its blocks one after another,
\* and a stream that went through ends as finalize leaves it.
THEOREM StreamedInvariant == Spec => []Streamed
<1>1. Streamed /\ [Next]_vars => Streamed'
  <2> SUFFICES ASSUME Streamed, [Next]_vars PROVE Streamed'
    OBVIOUS
  <2>1. ASSUME NEW ev \in EventsOf(provider), Receive(ev) PROVE Streamed'
    BY <2>1, ReceiveStreamed
  <2>2. CASE Eof \/ Break
    BY <2>2, EndStreamed
  <2>3. CASE UNCHANGED vars
    BY <2>3 DEF vars, Streamed, IInv, Sides, Coupled, Passes, Converts, Chain, Usage
  <2> QED BY <2>1, <2>2, <2>3 DEF Next
<1> QED BY <1>1, StreamedInit, PTL DEF Spec

\* The same answer, given whole to the converters of whole answers of convert.rs
\* or streamed event by event through the stream converters, tells the client
\* the same text, reasoning, calls, end and usage.
THEOREM StreamingChangesNothing == Spec => []WholeAsStreamed
<1>1. Streamed => WholeAsStreamed
  <2> SUFFICES ASSUME Streamed, Complete PROVE Alike
    BY DEF WholeAsStreamed, Alike
  <2>1. Settled
    BY StreamedSettles
  <2>2. /\ Converts /\ Sides
    BY DEF Complete, Streamed, IInv
  <2> QED BY <2>1, <2>2, AlikeOa, AlikeOar, AlikeAn DEF Sides, Converts, Passes
<1> QED BY <1>1, StreamedInvariant, PTL

=============================================================================
