--------------------------- MODULE SegmentProofs ---------------------------
(***************************************************************************)
(* Proofs about Segment for templates, shared data and calls of any size.  *)
(* The recursions that say what a call should do have solutions since      *)
(* arguments and shared data are founded; with them the loop of replace    *)
(* is an invariant: what the scan has left behind, and what the recursion  *)
(* makes of the nodes ahead, is what it makes of the whole template.       *)
(***************************************************************************)
EXTENDS Segment, SequenceTheorems, WellFoundedInduction, TLAPS

-----------------------------------------------------------------------------
(* Sequences of whatever they hold.                                        *)
IsSeq(s) == s \in Seq(Range(s))
Cat(s, t) == s \o t
One(e) == <<e>>
Empty == <<>>

LEMMA SeqIs ==
  ASSUME NEW S, NEW s \in Seq(S)
  PROVE  IsSeq(s) /\ Len(s) \in Nat /\ DOMAIN s = 1 .. Len(s) /\ \A k \in DOMAIN s : s[k] \in S
<1>1. Len(s) \in Nat /\ DOMAIN s = 1 .. Len(s) /\ \A k \in DOMAIN s : s[k] \in S
  OBVIOUS
<1>2. s = [k \in 1 .. Len(s) |-> s[k]] /\ \A k \in 1 .. Len(s) : s[k] \in Range(s)
  BY <1>1 DEF Range
<1>3. [k \in 1 .. Len(s) |-> s[k]] \in Seq(Range(s))
  BY <1>1, <1>2, IsASeq
<1> QED BY <1>1, <1>2, <1>3 DEF IsSeq

LEMMA IsSeqFacts ==
  ASSUME NEW s, IsSeq(s)
  PROVE  Len(s) \in Nat /\ DOMAIN s = 1 .. Len(s) /\ s = [k \in 1 .. Len(s) |-> s[k]]
<1>1. s \in Seq(Range(s))
  BY DEF IsSeq
<1> QED BY <1>1

LEMMA SeqMade ==
  ASSUME NEW n \in Nat, NEW f, f = [k \in 1 .. n |-> f[k]]
  PROVE  IsSeq(f) /\ Len(f) = n /\ DOMAIN f = 1 .. n
<1>1. DOMAIN f = 1 .. n
  OBVIOUS
<1>2. \A k \in 1 .. n : f[k] \in Range(f)
  BY <1>1 DEF Range
<1>3. [k \in 1 .. n |-> f[k]] \in Seq(Range(f))
  BY <1>2, IsASeq
<1>4. f \in Seq(Range(f))
  BY <1>3
<1>5. Len(f) \in Nat /\ DOMAIN f = 1 .. Len(f)
  BY <1>4
<1> QED BY <1>1, <1>4, <1>5 DEF IsSeq

LEMMA SeqTyped ==
  ASSUME NEW S, NEW s, IsSeq(s), \A k \in 1 .. Len(s) : s[k] \in S
  PROVE  s \in Seq(S)
<1>1. Len(s) \in Nat /\ s = [k \in 1 .. Len(s) |-> s[k]]
  BY IsSeqFacts
<1>2. [k \in 1 .. Len(s) |-> s[k]] \in Seq(S)
  BY <1>1, IsASeq
<1> QED BY <1>1, <1>2

LEMMA SameSeq ==
  ASSUME NEW s, NEW t, IsSeq(s), IsSeq(t), Len(s) = Len(t), \A k \in 1 .. Len(s) : s[k] = t[k]
  PROVE  s = t
<1>1. s = [k \in 1 .. Len(s) |-> s[k]] /\ t = [k \in 1 .. Len(s) |-> t[k]]
  BY IsSeqFacts
<1>2. [k \in 1 .. Len(s) |-> s[k]] = [k \in 1 .. Len(s) |-> t[k]]
  OBVIOUS
<1> QED BY <1>1, <1>2

LEMMA EmptyFacts == IsSeq(Empty) /\ Len(Empty) = 0
<1>1. <<>> \in Seq({}) /\ Len(<<>>) = 0
  BY EmptySeq
<1> QED BY <1>1, SeqIs DEF Empty

LEMMA EmptyIs ==
  ASSUME NEW s, IsSeq(s), Len(s) = 0
  PROVE  s = Empty
<1>1. \A k \in 1 .. Len(s) : s[k] = Empty[k]
  OBVIOUS
<1> QED BY <1>1, EmptyFacts, SameSeq

LEMMA OneFacts ==
  ASSUME NEW e
  PROVE  IsSeq(One(e)) /\ Len(One(e)) = 1 /\ One(e)[1] = e
<1>1. One(e) \in Seq({e}) /\ Len(One(e)) = 1 /\ One(e)[1] = e
  BY DEF One
<1> QED BY <1>1, SeqIs

LEMMA CatFacts ==
  ASSUME NEW s, NEW t, IsSeq(s), IsSeq(t)
  PROVE  /\ IsSeq(Cat(s, t)) /\ Len(Cat(s, t)) = Len(s) + Len(t)
         /\ \A k \in 1 .. Len(s) : Cat(s, t)[k] = s[k]
         /\ \A k \in 1 .. Len(t) : Cat(s, t)[Len(s) + k] = t[k]
<1> DEFINE S == Range(s) \cup Range(t)
<1>1. s \in Seq(S) /\ t \in Seq(S)
  <2>1. /\ Len(s) \in Nat /\ \A k \in 1 .. Len(s) : s[k] \in S
        /\ Len(t) \in Nat /\ \A k \in 1 .. Len(t) : t[k] \in S
    BY IsSeqFacts DEF Range
  <2> HIDE DEF S
  <2> QED BY <2>1, SeqTyped
<1> HIDE DEF S
<1>2. s \o t \in Seq(S) /\ Len(s) \in Nat /\ Len(t) \in Nat
  BY <1>1, ConcatProperties
<1>3. Len(s \o t) = Len(s) + Len(t)
  BY <1>1, ConcatProperties
<1>4. \A k \in 1 .. Len(s) : (s \o t)[k] = s[k]
  BY <1>1, <1>2, ConcatProperties
<1>5. \A k \in 1 .. Len(t) : (s \o t)[Len(s) + k] = t[k]
  BY <1>1, <1>2, ConcatProperties
<1>6. IsSeq(Cat(s, t))
  BY <1>2, SeqIs DEF Cat
<1> QED BY <1>3, <1>4, <1>5, <1>6 DEF Cat

(* Where an index of the concatenation lies.                               *)
LEMMA CatAt ==
  ASSUME NEW s, NEW t, IsSeq(s), IsSeq(t), NEW k \in 1 .. Len(Cat(s, t))
  PROVE  /\ k \in 1 .. Len(s) => Cat(s, t)[k] = s[k]
         /\ k \notin 1 .. Len(s) => k - Len(s) \in 1 .. Len(t) /\ Cat(s, t)[k] = t[k - Len(s)]
<1>1. Len(s) \in Nat /\ Len(t) \in Nat /\ Len(Cat(s, t)) = Len(s) + Len(t)
  BY IsSeqFacts, CatFacts
<1>2. ASSUME k \notin 1 .. Len(s)
      PROVE  k - Len(s) \in 1 .. Len(t) /\ Cat(s, t)[k] = t[k - Len(s)]
  <2>1. k - Len(s) \in 1 .. Len(t) /\ Len(s) + (k - Len(s)) = k
    BY <1>1, <1>2
  <2> QED BY <2>1, CatFacts
<1> QED BY <1>2, CatFacts

LEMMA CatTyped ==
  ASSUME NEW S, NEW s \in Seq(S), NEW t \in Seq(S)
  PROVE  Cat(s, t) \in Seq(S)
BY ConcatProperties DEF Cat

LEMMA CatAssoc ==
  ASSUME NEW s, NEW t, NEW u, IsSeq(s), IsSeq(t), IsSeq(u)
  PROVE  Cat(Cat(s, t), u) = Cat(s, Cat(t, u))
<1> DEFINE S == Range(s) \cup Range(t) \cup Range(u)
<1>1. s \in Seq(S) /\ t \in Seq(S) /\ u \in Seq(S)
  <2>1. /\ Len(s) \in Nat /\ \A k \in 1 .. Len(s) : s[k] \in S
        /\ Len(t) \in Nat /\ \A k \in 1 .. Len(t) : t[k] \in S
        /\ Len(u) \in Nat /\ \A k \in 1 .. Len(u) : u[k] \in S
    BY IsSeqFacts DEF Range
  <2> HIDE DEF S
  <2> QED BY <2>1, SeqTyped
<1> HIDE DEF S
<1> QED BY <1>1, ConcatAssociative DEF Cat

LEMMA CatEmpty ==
  ASSUME NEW s, IsSeq(s)
  PROVE  Cat(s, Empty) = s /\ Cat(Empty, s) = s
<1>0. Len(s) \in Nat
  BY IsSeqFacts
<1>1. /\ IsSeq(Cat(s, Empty)) /\ Len(Cat(s, Empty)) = Len(s)
      /\ \A k \in 1 .. Len(s) : Cat(s, Empty)[k] = s[k]
  BY <1>0, EmptyFacts, CatFacts
<1>2. /\ IsSeq(Cat(Empty, s)) /\ Len(Cat(Empty, s)) = Len(s)
      /\ \A k \in 1 .. Len(s) : Cat(Empty, s)[0 + k] = s[k]
  BY <1>0, EmptyFacts, CatFacts
<1>3. \A k \in 1 .. Len(s) : 0 + k = k
  BY <1>0
<1> QED BY <1>1, <1>2, <1>3, SameSeq

-----------------------------------------------------------------------------
(* Induction over the natural numbers, for a set of them.                  *)
LEMMA SetInduction ==
  ASSUME NEW S, 0 \in S, \A n \in Nat : n \in S => n + 1 \in S
  PROVE  Nat \subseteq S
<1> DEFINE R == OpToRel(<, Nat)
           T == Nat \ S
<1>1. IsWellFoundedOn(R, Nat)
  BY NatLessThanWellFounded DEF OpToRel
<1>2. \A x, y \in Nat : <<x, y>> \in R <=> x < y
  BY DEF OpToRel
<1> HIDE DEF R
<1> SUFFICES ASSUME T # {} PROVE FALSE
  OBVIOUS
<1>3. PICK x \in T : \A y \in T : ~ (<<y, x>> \in R)
  BY <1>1, WFMin
<1>4. x # 0 /\ x - 1 \in Nat /\ x - 1 < x
  OBVIOUS
<1>5. x - 1 \in S
  BY <1>2, <1>3, <1>4
<1> QED BY <1>4, <1>5

-----------------------------------------------------------------------------
(* What Through gives: the pages after each of the steps.                  *)
Steps(F, page, n, g) ==
  g = [k \in 0 .. n |-> g[k]] /\ g[0] = page /\ \A k \in 1 .. n : g[k] = F[k][g[k - 1]]

LEMMA StepsExist ==
  ASSUME NEW F, NEW page, NEW N \in Nat
  PROVE  \E g : Steps(F, page, N, g)
<1> DEFINE T == {n \in Nat : \E g : Steps(F, page, n, g)}
<1>1. 0 \in T
  <2> DEFINE g == [k \in 0 .. 0 |-> page]
  <2>1. g = [k \in 0 .. 0 |-> g[k]] /\ g[0] = page
    OBVIOUS
  <2> HIDE DEF g
  <2>2. Steps(F, page, 0, g)
    BY <2>1 DEF Steps
  <2> QED BY <2>2
<1>2. ASSUME NEW n \in Nat, n \in T
      PROVE  n + 1 \in T
  <2>1. PICK h : Steps(F, page, n, h)
    BY <1>2
  <2> DEFINE e == F[n + 1][h[n]]
             g == [k \in 0 .. n + 1 |-> IF k = n + 1 THEN e ELSE h[k]]
  <2> HIDE DEF e
  <2>2. g[n + 1] = e /\ (\A k \in 0 .. n : g[k] = h[k]) /\ g = [k \in 0 .. n + 1 |-> g[k]]
    OBVIOUS
  <2> HIDE DEF g
  <2>3. ASSUME NEW k \in 1 .. n + 1
        PROVE  g[k] = F[k][g[k - 1]]
    <3>1. CASE k = n + 1
      <4>1. k - 1 \in 0 .. n /\ k - 1 = n
        BY <3>1
      <4> QED BY <2>2, <3>1, <4>1 DEF e
    <3>2. CASE k # n + 1
      <4>1. k \in 1 .. n /\ k \in 0 .. n /\ k - 1 \in 0 .. n
        BY <3>2
      <4> QED BY <2>1, <2>2, <4>1 DEF Steps
    <3> QED BY <3>1, <3>2
  <2>4. 0 \in 0 .. n /\ h[0] = page
    BY <2>1 DEF Steps
  <2>5. Steps(F, page, n + 1, g)
    BY <2>2, <2>3, <2>4 DEF Steps
  <2> QED BY <2>5
<1> HIDE DEF T
<1>3. N \in T
  BY <1>1, <1>2, SetInduction
<1> QED BY <1>3 DEF T

LEMMA ThroughSteps ==
  ASSUME NEW F, NEW page, Len(F) \in Nat
  PROVE  \E g : Steps(F, page, Len(F), g) /\ Through(F, page) = g[Len(F)]
<1> DEFINE N == Len(F)
           after[k \in 0 .. N] == IF k = 0 THEN page ELSE F[k][after[k - 1]]
<1>1. PICK g : Steps(F, page, N, g)
  <2> HIDE DEF N
  <2>1. N \in Nat
    BY DEF N
  <2> QED BY <2>1, StepsExist
<1>2. g = [k \in 0 .. N |-> IF k = 0 THEN page ELSE F[k][g[k - 1]]]
  <2> HIDE DEF N
  <2>1. /\ N \in Nat /\ g = [k \in 0 .. N |-> g[k]]
        /\ g[0] = page /\ \A k \in 1 .. N : g[k] = F[k][g[k - 1]]
    BY <1>1 DEF N, Steps
  <2>2. \A k \in 0 .. N : k # 0 => k \in 1 .. N
    BY <2>1
  <2>3. \A k \in 0 .. N : g[k] = IF k = 0 THEN page ELSE F[k][g[k - 1]]
    BY <2>1, <2>2
  <2> QED BY <2>1, <2>3
<1>3. after = [k \in 0 .. N |-> IF k = 0 THEN page ELSE F[k][after[k - 1]]]
  BY <1>2
<1>4. Through(F, page) = after[N]
  BY DEF Through
<1> HIDE DEF after
<1>5. Steps(F, page, N, after)
  <2> HIDE DEF N
  <2>1. N \in Nat
    BY DEF N
  <2> DEFINE h == [k \in 0 .. N |-> IF k = 0 THEN page ELSE F[k][after[k - 1]]]
  <2>2. \A k \in 0 .. N : h[k] = IF k = 0 THEN page ELSE F[k][after[k - 1]]
    OBVIOUS
  <2>3. h = after /\ h = [k \in 0 .. N |-> h[k]]
    BY <1>3
  <2> HIDE DEF h
  <2>4. 0 \in 0 .. N /\ \A k \in 1 .. N : k \in 0 .. N /\ k # 0
    BY <2>1
  <2>5. after = [k \in 0 .. N |-> after[k]]
    BY <2>3
  <2> QED BY <2>2, <2>3, <2>4, <2>5 DEF Steps
<1> QED BY <1>4, <1>5

PageSteps == [Pages -> Pages]

LEMMA StepsTyped ==
  ASSUME NEW F \in Seq(PageSteps), NEW page \in Pages, NEW n \in Nat, n <= Len(F),
         NEW g, Steps(F, page, n, g)
  PROVE  \A k \in 0 .. n : g[k] \in Pages
<1> DEFINE T == {k \in Nat : k <= n => g[k] \in Pages}
<1>0. Len(F) \in Nat /\ \A k \in 1 .. Len(F) : F[k] \in PageSteps
  BY SeqIs
<1>1. 0 \in T
  BY DEF Steps
<1>2. ASSUME NEW k \in Nat, k \in T
      PROVE  k + 1 \in T
  <2> SUFFICES ASSUME k + 1 <= n PROVE g[k + 1] \in Pages
    OBVIOUS
  <2>1. k + 1 \in 1 .. n /\ k + 1 \in 1 .. Len(F) /\ (k + 1) - 1 = k /\ k <= n
    BY <1>0
  <2>2. g[k + 1] = F[k + 1][g[k]] /\ g[k] \in Pages
    BY <1>2, <2>1 DEF Steps
  <2>3. F[k + 1] \in [Pages -> Pages]
    BY <1>0, <2>1 DEF PageSteps
  <2> HIDE DEF T
  <2> QED BY <2>2, <2>3
<1> HIDE DEF T
<1>3. Nat \subseteq T
  BY <1>1, <1>2, SetInduction
<1>4. \A k \in 0 .. n : k \in Nat /\ k <= n
  OBVIOUS
<1> QED BY <1>3, <1>4 DEF T

LEMMA ThroughPages ==
  ASSUME NEW F \in Seq(PageSteps), NEW page \in Pages
  PROVE  Through(F, page) \in Pages
<1>1. Len(F) \in Nat
  BY SeqIs
<1>2. PICK g : Steps(F, page, Len(F), g) /\ Through(F, page) = g[Len(F)]
  BY <1>1, ThroughSteps
<1>3. Len(F) \in 0 .. Len(F) /\ Len(F) <= Len(F)
  BY <1>1
<1> QED BY <1>1, <1>2, <1>3, StepsTyped

LEMMA ThroughNone ==
  ASSUME NEW page
  PROVE  Through(Empty, page) = page
<1>1. Len(Empty) = 0 /\ Len(Empty) \in Nat
  BY EmptyFacts
<1>2. PICK g : Steps(Empty, page, Len(Empty), g) /\ Through(Empty, page) = g[Len(Empty)]
  BY <1>1, ThroughSteps
<1> QED BY <1>1, <1>2 DEF Steps

LEMMA ThroughOne ==
  ASSUME NEW f, NEW page
  PROVE  Through(One(f), page) = f[page]
<1>1. Len(One(f)) = 1 /\ Len(One(f)) \in Nat /\ One(f)[1] = f
  BY OneFacts
<1>2. PICK g : Steps(One(f), page, Len(One(f)), g) /\ Through(One(f), page) = g[Len(One(f))]
  BY <1>1, ThroughSteps
<1>3. 1 \in 1 .. 1 /\ 1 - 1 = 0
  OBVIOUS
<1> QED BY <1>1, <1>2, <1>3 DEF Steps

LEMMA ThroughCat ==
  ASSUME NEW F, NEW H, IsSeq(F), IsSeq(H), NEW page
  PROVE  Through(Cat(F, H), page) = Through(H, Through(F, page))
<1> DEFINE C == Cat(F, H)
           M == Len(F)
           N == Len(H)
<1>1. M \in Nat /\ N \in Nat /\ Len(C) = M + N /\ Len(C) \in Nat
  BY IsSeqFacts, CatFacts
<1>2. (\A k \in 1 .. M : C[k] = F[k]) /\ (\A k \in 1 .. N : C[M + k] = H[k])
  BY CatFacts
<1>3. PICK c : Steps(C, page, Len(C), c) /\ Through(C, page) = c[Len(C)]
  BY <1>1, ThroughSteps
<1>4. PICK f : Steps(F, page, M, f) /\ Through(F, page) = f[M]
  BY <1>1, ThroughSteps
<1>5. PICK h : Steps(H, f[M], N, h) /\ Through(H, f[M]) = h[N]
  BY <1>1, ThroughSteps
<1> HIDE DEF C, M, N
<1> DEFINE S == {k \in Nat : k <= M => c[k] = f[k]}
           T == {k \in Nat : k <= N => c[M + k] = h[k]}
<1>6. 0 \in S
  BY <1>3, <1>4 DEF Steps
<1>7. ASSUME NEW k \in Nat, k \in S
      PROVE  k + 1 \in S
  <2> SUFFICES ASSUME k + 1 <= M PROVE c[k + 1] = f[k + 1]
    OBVIOUS
  <2>1. k + 1 \in 1 .. M /\ k + 1 \in 1 .. Len(C) /\ (k + 1) - 1 = k /\ k <= M
    BY <1>1
  <2>2. c[k + 1] = C[k + 1][c[k]] /\ f[k + 1] = F[k + 1][f[k]] /\ c[k] = f[k]
    BY <1>3, <1>4, <1>7, <2>1 DEF Steps
  <2> HIDE DEF S
  <2> QED BY <1>2, <2>1, <2>2
<1> HIDE DEF S
<1>8. c[M] = f[M]
  <2>1. Nat \subseteq S
    BY <1>6, <1>7, SetInduction
  <2> QED BY <1>1, <2>1 DEF S
<1>9. 0 \in T
  BY <1>1, <1>5, <1>8 DEF Steps
<1>10. ASSUME NEW k \in Nat, k \in T
      PROVE  k + 1 \in T
  <2> SUFFICES ASSUME k + 1 <= N PROVE c[M + (k + 1)] = h[k + 1]
    OBVIOUS
  <2>1. /\ k + 1 \in 1 .. N /\ M + (k + 1) \in 1 .. Len(C) /\ (k + 1) - 1 = k /\ k <= N
        /\ (M + (k + 1)) - 1 = M + k
    BY <1>1
  <2>2. /\ c[M + (k + 1)] = C[M + (k + 1)][c[M + k]] /\ h[k + 1] = H[k + 1][h[k]]
        /\ c[M + k] = h[k]
    BY <1>3, <1>5, <1>10, <2>1 DEF Steps
  <2> HIDE DEF T
  <2> QED BY <1>2, <2>1, <2>2
<1> HIDE DEF T
<1>11. c[M + N] = h[N]
  <2>1. Nat \subseteq T
    BY <1>9, <1>10, SetInduction
  <2> QED BY <1>1, <2>1 DEF T
<1> QED BY <1>1, <1>3, <1>4, <1>5, <1>11 DEF C

-----------------------------------------------------------------------------
(* What FlattenSeq gives: the sequences of a sequence, one after the other.*)
Lists(S) == IsSeq(S) /\ \A k \in 1 .. Len(S) : IsSeq(S[k])

Joins(S, n, g) == g[0] = Empty /\ \A k \in 1 .. n : g[k] = Cat(g[k - 1], S[k])

Flattens(S, n, g) ==
  g = [k \in 1 .. n |-> g[k]] /\ g[1] = S[1] /\ \A k \in 2 .. n : g[k] = Cat(g[k - 1], S[k])

LEMMA FlattensExist ==
  ASSUME NEW S, NEW N \in Nat, N >= 1
  PROVE  \E g : Flattens(S, N, g)
<1> DEFINE T == {n \in Nat : \E g : Flattens(S, n + 1, g)}
<1>1. 0 \in T
  <2> DEFINE g == [k \in 1 .. 1 |-> S[1]]
  <2>1. g = [k \in 1 .. 1 |-> g[k]] /\ g[1] = S[1]
    OBVIOUS
  <2> HIDE DEF g
  <2>2. Flattens(S, 0 + 1, g)
    BY <2>1 DEF Flattens
  <2> QED BY <2>2
<1>2. ASSUME NEW n \in Nat, n \in T
      PROVE  n + 1 \in T
  <2>1. PICK h : Flattens(S, n + 1, h)
    BY <1>2
  <2> DEFINE m == n + 1
             e == Cat(h[m], S[m + 1])
             g == [k \in 1 .. m + 1 |-> IF k = m + 1 THEN e ELSE h[k]]
  <2>0. m \in Nat /\ m >= 1
    OBVIOUS
  <2> HIDE DEF e, m
  <2>2. g[m + 1] = e /\ (\A k \in 1 .. m : g[k] = h[k]) /\ g = [k \in 1 .. m + 1 |-> g[k]]
    BY <2>0
  <2> HIDE DEF g
  <2>3. ASSUME NEW k \in 2 .. m + 1
        PROVE  g[k] = Cat(g[k - 1], S[k])
    <3>1. CASE k = m + 1
      <4>1. k - 1 \in 1 .. m /\ k - 1 = m
        BY <2>0, <3>1
      <4> QED BY <2>2, <3>1, <4>1 DEF e
    <3>2. CASE k # m + 1
      <4>1. k \in 2 .. m /\ k \in 1 .. m /\ k - 1 \in 1 .. m
        BY <2>0, <3>2
      <4> QED BY <2>1, <2>2, <4>1 DEF Flattens, m
    <3> QED BY <3>1, <3>2
  <2>4. 1 \in 1 .. m /\ h[1] = S[1]
    BY <2>0, <2>1 DEF Flattens
  <2>5. Flattens(S, m + 1, g)
    BY <2>2, <2>3, <2>4 DEF Flattens
  <2> QED BY <2>5 DEF m
<1> HIDE DEF T
<1>3. N - 1 \in T /\ (N - 1) + 1 = N
  BY <1>1, <1>2, SetInduction
<1> QED BY <1>3 DEF T

LEMMA FlattenFlattens ==
  ASSUME NEW S, Len(S) \in Nat, Len(S) # 0
  PROVE  \E g : Flattens(S, Len(S), g) /\ FlattenSeq(S) = g[Len(S)]
<1> DEFINE N == Len(S)
           flatten[k \in 1 .. N] == IF k = 1 THEN S[k] ELSE flatten[k - 1] \o S[k]
<1>1. PICK g : Flattens(S, N, g)
  <2> HIDE DEF N
  <2>1. N \in Nat /\ N >= 1
    BY DEF N
  <2> QED BY <2>1, FlattensExist
<1>2. g = [k \in 1 .. N |-> IF k = 1 THEN S[k] ELSE g[k - 1] \o S[k]]
  <2> HIDE DEF N
  <2>1. N \in Nat /\ g = [k \in 1 .. N |-> g[k]]
    BY <1>1 DEF N, Flattens
  <2>2. \A k \in 1 .. N : k # 1 => k \in 2 .. N
    BY <2>1
  <2>3. \A k \in 1 .. N : g[k] = IF k = 1 THEN S[k] ELSE Cat(g[k - 1], S[k])
    BY <1>1, <2>1, <2>2 DEF Flattens
  <2>4. g = [k \in 1 .. N |-> IF k = 1 THEN S[k] ELSE Cat(g[k - 1], S[k])]
    BY <2>1, <2>3
  <2> QED BY <2>4 DEF Cat
<1>3. flatten = [k \in 1 .. N |-> IF k = 1 THEN S[k] ELSE flatten[k - 1] \o S[k]]
  BY <1>2
<1>4. FlattenSeq(S) = flatten[N]
  BY DEF FlattenSeq
<1> HIDE DEF flatten
<1>5. Flattens(S, N, flatten)
  <2> HIDE DEF N
  <2>1. N \in Nat /\ N >= 1
    BY DEF N
  <2> DEFINE h == [k \in 1 .. N |-> IF k = 1 THEN S[k] ELSE Cat(flatten[k - 1], S[k])]
  <2>2. \A k \in 1 .. N : h[k] = IF k = 1 THEN S[k] ELSE Cat(flatten[k - 1], S[k])
    OBVIOUS
  <2>3. h = flatten
    BY <1>3 DEF Cat
  <2>4. h = [k \in 1 .. N |-> h[k]]
    OBVIOUS
  <2> HIDE DEF h
  <2>5. 1 \in 1 .. N /\ \A k \in 2 .. N : k \in 1 .. N /\ k # 1
    BY <2>1
  <2>6. flatten = [k \in 1 .. N |-> flatten[k]]
    BY <2>3, <2>4
  <2> QED BY <2>2, <2>3, <2>5, <2>6 DEF Flattens
<1> QED BY <1>4, <1>5

LEMMA FlattenJoins ==
  ASSUME NEW S, Lists(S)
  PROVE  \E g : Joins(S, Len(S), g) /\ FlattenSeq(S) = g[Len(S)]
<1>0. IsSeq(S) /\ Len(S) \in Nat
  BY IsSeqFacts DEF Lists
<1>1. CASE Len(S) = 0
  <2> DEFINE g == [k \in 0 .. 0 |-> Empty]
  <2>1. S = Empty
    BY <1>0, <1>1, EmptyIs
  <2>2. FlattenSeq(S) = S
    BY <1>1 DEF FlattenSeq
  <2>3. g[0] = Empty
    OBVIOUS
  <2> HIDE DEF g
  <2>4. Joins(S, 0, g)
    BY <2>3 DEF Joins
  <2> QED BY <1>1, <2>1, <2>2, <2>3, <2>4
<1>2. CASE Len(S) # 0
  <2> DEFINE N == Len(S)
  <2>1. PICK h : Flattens(S, N, h) /\ FlattenSeq(S) = h[N]
    BY <1>0, <1>2, FlattenFlattens
  <2>2. N \in Nat /\ N >= 1 /\ IsSeq(S[1])
    BY <1>0, <1>2 DEF Lists
  <2> HIDE DEF N
  <2> DEFINE g == [k \in 0 .. N |-> IF k = 0 THEN Empty ELSE h[k]]
  <2>3. g[0] = Empty /\ \A k \in 1 .. N : g[k] = h[k]
    BY <2>2
  <2> HIDE DEF g
  <2>4. ASSUME NEW k \in 1 .. N
        PROVE  g[k] = Cat(g[k - 1], S[k])
    <3>1. CASE k = 1
      <4>1. h[1] = S[1] /\ Cat(Empty, S[1]) = S[1] /\ k - 1 = 0
        BY <2>1, <2>2, <3>1, CatEmpty DEF Flattens
      <4> QED BY <2>2, <2>3, <3>1, <4>1
    <3>2. CASE k # 1
      <4>1. k \in 2 .. N /\ k - 1 \in 1 .. N
        BY <2>2, <3>2
      <4> QED BY <2>1, <2>3, <4>1 DEF Flattens
    <3> QED BY <3>1, <3>2
  <2>5. Joins(S, N, g)
    BY <2>3, <2>4 DEF Joins
  <2>6. N \in 1 .. N
    BY <2>2
  <2> QED BY <2>1, <2>3, <2>5, <2>6 DEF N
<1> QED BY <1>1, <1>2

LEMMA JoinsSeq ==
  ASSUME NEW S, Lists(S), NEW g, Joins(S, Len(S), g), NEW k \in 0 .. Len(S)
  PROVE  IsSeq(g[k])
<1> DEFINE N == Len(S)
           T == {n \in Nat : n <= N => IsSeq(g[n])}
<1>0. N \in Nat
  BY IsSeqFacts DEF Lists
<1>1. 0 \in T
  BY EmptyFacts DEF Joins
<1>2. ASSUME NEW n \in Nat, n \in T
      PROVE  n + 1 \in T
  <2> SUFFICES ASSUME n + 1 <= N PROVE IsSeq(g[n + 1])
    OBVIOUS
  <2>1. n + 1 \in 1 .. N /\ (n + 1) - 1 = n /\ n <= N
    BY <1>0
  <2>2. g[n + 1] = Cat(g[n], S[n + 1]) /\ IsSeq(g[n]) /\ IsSeq(S[n + 1])
    BY <1>2, <2>1 DEF Joins, Lists
  <2> QED BY <2>2, CatFacts
<1> HIDE DEF T
<1>3. k \in T
  BY <1>0, <1>1, <1>2, SetInduction
<1> QED BY <1>0, <1>3 DEF T

LEMMA FlattenIsSeq ==
  ASSUME NEW S, Lists(S)
  PROVE  IsSeq(FlattenSeq(S))
<1>1. PICK g : Joins(S, Len(S), g) /\ FlattenSeq(S) = g[Len(S)]
  BY FlattenJoins
<1>2. Len(S) \in 0 .. Len(S)
  BY IsSeqFacts DEF Lists
<1> QED BY <1>1, <1>2, JoinsSeq

LEMMA FlattenNone == FlattenSeq(Empty) = Empty
BY EmptyFacts DEF FlattenSeq

LEMMA FlattenOne ==
  ASSUME NEW s, IsSeq(s)
  PROVE  FlattenSeq(One(s)) = s
<1>1. IsSeq(One(s)) /\ Len(One(s)) = 1 /\ One(s)[1] = s
  BY OneFacts
<1>2. Lists(One(s))
  <2>1. \A k \in 1 .. 1 : k = 1
    OBVIOUS
  <2> QED BY <1>1, <2>1 DEF Lists
<1>3. PICK g : Joins(One(s), Len(One(s)), g) /\ FlattenSeq(One(s)) = g[Len(One(s))]
  BY <1>2, FlattenJoins
<1>4. 1 \in 1 .. 1 /\ 1 - 1 = 0
  OBVIOUS
<1>5. g[1] = Cat(Empty, s)
  BY <1>1, <1>3, <1>4 DEF Joins
<1> QED BY <1>1, <1>3, <1>5, CatEmpty

LEMMA FlattenCat ==
  ASSUME NEW S, NEW R, Lists(S), Lists(R)
  PROVE  FlattenSeq(Cat(S, R)) = Cat(FlattenSeq(S), FlattenSeq(R))
<1> DEFINE C == Cat(S, R)
           M == Len(S)
           N == Len(R)
<1>1. M \in Nat /\ N \in Nat /\ Len(C) = M + N /\ Len(C) \in Nat /\ IsSeq(C)
  BY IsSeqFacts, CatFacts DEF Lists
<1>2. (\A k \in 1 .. M : C[k] = S[k]) /\ (\A k \in 1 .. N : C[M + k] = R[k])
  BY CatFacts DEF Lists
<1>3. Lists(C)
  <2> SUFFICES ASSUME NEW k \in 1 .. Len(C) PROVE IsSeq(C[k])
    BY <1>1 DEF Lists
  <2>1. \/ k \in 1 .. M /\ C[k] = S[k]
        \/ k - M \in 1 .. N /\ C[k] = R[k - M]
    BY CatAt DEF Lists
  <2> HIDE DEF C, M, N
  <2> QED BY <2>1 DEF Lists, M, N
<1>4. PICK c : Joins(C, Len(C), c) /\ FlattenSeq(C) = c[Len(C)]
  BY <1>3, FlattenJoins
<1>5. PICK f : Joins(S, M, f) /\ FlattenSeq(S) = f[M]
  BY FlattenJoins
<1>6. PICK h : Joins(R, N, h) /\ FlattenSeq(R) = h[N]
  BY FlattenJoins
<1>7. (\A k \in 0 .. M : IsSeq(f[k])) /\ (\A k \in 0 .. N : IsSeq(h[k]))
  BY <1>5, <1>6, JoinsSeq
<1> HIDE DEF C, M, N
<1> DEFINE A == {k \in Nat : k <= M => c[k] = f[k]}
           B == {k \in Nat : k <= N => c[M + k] = Cat(f[M], h[k])}
<1>8. 0 \in A
  BY <1>4, <1>5 DEF Joins
<1>9. ASSUME NEW k \in Nat, k \in A
      PROVE  k + 1 \in A
  <2> SUFFICES ASSUME k + 1 <= M PROVE c[k + 1] = f[k + 1]
    OBVIOUS
  <2>1. k + 1 \in 1 .. M /\ k + 1 \in 1 .. Len(C) /\ (k + 1) - 1 = k /\ k <= M
    BY <1>1
  <2>2. /\ c[k + 1] = Cat(c[k], C[k + 1]) /\ f[k + 1] = Cat(f[k], S[k + 1])
        /\ c[k] = f[k]
    BY <1>4, <1>5, <1>9, <2>1 DEF Joins
  <2> HIDE DEF A
  <2> QED BY <1>2, <2>1, <2>2
<1> HIDE DEF A
<1>10. c[M] = f[M]
  <2>1. Nat \subseteq A
    BY <1>8, <1>9, SetInduction
  <2> QED BY <1>1, <2>1 DEF A
<1>11. IsSeq(f[M])
  BY <1>1, <1>7
<1>12. 0 \in B
  <2>1. Cat(f[M], Empty) = f[M] /\ h[0] = Empty /\ M + 0 = M
    BY <1>1, <1>6, <1>11, CatEmpty DEF Joins
  <2> QED BY <1>10, <2>1
<1>13. ASSUME NEW k \in Nat, k \in B
      PROVE  k + 1 \in B
  <2> SUFFICES ASSUME k + 1 <= N PROVE c[M + (k + 1)] = Cat(f[M], h[k + 1])
    OBVIOUS
  <2>1. /\ k + 1 \in 1 .. N /\ M + (k + 1) \in 1 .. Len(C) /\ (k + 1) - 1 = k /\ k <= N
        /\ (M + (k + 1)) - 1 = M + k /\ k \in 0 .. N
    BY <1>1
  <2>2. /\ c[M + (k + 1)] = Cat(c[M + k], C[M + (k + 1)]) /\ h[k + 1] = Cat(h[k], R[k + 1])
        /\ c[M + k] = Cat(f[M], h[k])
    BY <1>4, <1>6, <1>13, <2>1 DEF Joins
  <2>3. IsSeq(R[k + 1]) /\ IsSeq(h[k]) /\ C[M + (k + 1)] = R[k + 1]
    BY <1>2, <1>7, <2>1 DEF Lists, N
  <2> HIDE DEF B
  <2> QED BY <1>11, <2>2, <2>3, CatAssoc
<1> HIDE DEF B
<1>14. c[M + N] = Cat(f[M], h[N])
  <2>1. Nat \subseteq B
    BY <1>12, <1>13, SetInduction
  <2> QED BY <1>1, <2>1 DEF B
<1> QED BY <1>1, <1>4, <1>5, <1>6, <1>14 DEF C

-----------------------------------------------------------------------------
(* Shared data only grows, and what a segment refers to stays.             *)
Extends(d, e) == DOMAIN d \subseteq DOMAIN e /\ \A a \in DOMAIN d : e[a] = d[a]
Heap(d) == DataType(d) /\ Extends(Data, d)

CallType(c) ==
  /\ c.args \in Seq(Range(c.args))
  /\ \A j \in DOMAIN c.args : c.args[j] # None => c.args[j] \in Segments(Data)

LEMMA NodeFacts ==
  ASSUME NEW d, NEW node \in NodeType(d)
  PROVE  \/ node.type = "break" /\ node.count \in Nat
         \/ node.type = "wildcard" /\ node.index \in Nat /\ node.indent \in Int
         \/ node.type = "view" /\ node.text \in Nat /\ node.indent \in Int
         \/ node.type = "string" /\ node.data \in DOMAIN d /\ d[node.data].type = "string"
         \/ node.type = "conditional" /\ node.data \in DOMAIN d /\ d[node.data].type = "conditional"
BY DEF NodeType

LEMMA DataFacts ==
  ASSUME NEW d, DataType(d), NEW a \in DOMAIN d
  PROVE  \/ d[a].type = "string" /\ d[a] \in [type : {"string"}, text : Nat, indent : Int]
         \/ /\ d[a].type = "conditional" /\ d[a] = ConditionalData(d[a].nodes, d[a].guard)
            /\ d[a].nodes \in Segments(d)
BY DEF DataType, ConditionalData

LEMMA InfoFacts ==
  ASSUME NEW d, DataType(d), NEW node \in NodeType(d), node.type \in Texts
  PROVE  Info(d, node).text \in Nat /\ Info(d, node).indent \in Int
<1>1. CASE node.type = "view"
  <2>1. Info(d, node) = node
    BY <1>1 DEF Info
  <2> QED BY <1>1, <2>1, NodeFacts
<1>2. CASE node.type = "string"
  <2>1. Info(d, node) = d[node.data] /\ node.data \in DOMAIN d /\ d[node.data].type = "string"
    BY <1>2, NodeFacts DEF Info
  <2>2. d[node.data] \in [type : {"string"}, text : Nat, indent : Int]
    BY <2>1, DataFacts
  <2> QED BY <2>1, <2>2
<1> QED BY <1>1, <1>2 DEF Texts

LEMMA InfoGrows ==
  ASSUME NEW d, NEW e, Extends(d, e), NEW node \in NodeType(d)
  PROVE  node \in NodeType(e) /\ Info(e, node) = Info(d, node)
<1>1. node \in NodeType(e)
  <2>1. /\ {a \in DOMAIN d : d[a].type = "string"} \subseteq {a \in DOMAIN e : e[a].type = "string"}
        /\ {a \in DOMAIN d : d[a].type = "conditional"}
             \subseteq {a \in DOMAIN e : e[a].type = "conditional"}
    BY DEF Extends
  <2>2. /\ [type : {"string"}, data : {a \in DOMAIN d : d[a].type = "string"}]
             \subseteq [type : {"string"}, data : {a \in DOMAIN e : e[a].type = "string"}]
        /\ [type : {"conditional"}, data : {a \in DOMAIN d : d[a].type = "conditional"}]
             \subseteq [type : {"conditional"}, data : {a \in DOMAIN e : e[a].type = "conditional"}]
    BY <2>1
  <2> QED BY <2>2 DEF NodeType
<1>2. CASE node.type = "string"
  <2>1. node.data \in DOMAIN d
    BY <1>2, NodeFacts
  <2>2. e[node.data] = d[node.data]
    BY <2>1 DEF Extends
  <2> QED BY <1>1, <1>2, <2>2 DEF Info
<1>3. CASE node.type # "string"
  BY <1>1, <1>3 DEF Info
<1> QED BY <1>2, <1>3

LEMMA SegmentsGrow ==
  ASSUME NEW d, NEW e, Extends(d, e)
  PROVE  Segments(d) \subseteq Segments(e)
<1>1. NodeType(d) \subseteq NodeType(e)
  BY InfoGrows
<1> QED BY <1>1, SeqMonotonic DEF Segments

LEMMA ExtendsTransitive ==
  ASSUME NEW d, NEW e, NEW f, Extends(d, e), Extends(e, f)
  PROVE  Extends(d, f)
BY DEF Extends

LEMMA SegmentFacts ==
  ASSUME NEW d, NEW seg \in Segments(d)
  PROVE  /\ IsSeq(seg) /\ Len(seg) \in Nat /\ DOMAIN seg = 1 .. Len(seg)
         /\ \A k \in DOMAIN seg : seg[k] \in NodeType(d)
BY SeqIs DEF Segments

LEMMA NoNodes ==
  ASSUME NEW d
  PROVE  <<>> \in Segments(d)
BY EmptySeq DEF Segments

(* The units of a call and what they refer to.                             *)
LEMMA UnitCases ==
  ASSUME NEW d, NEW c, NEW u \in Units(d, c)
  PROVE  \/ u[1] = "data" /\ u[2] \in DOMAIN d /\ u = <<"data", u[2]>>
         \/ u[1] = "argument" /\ u[2] \in DOMAIN c.args /\ u = <<"argument", u[2]>>
BY DEF Units

LEMMA DataUnit ==
  ASSUME NEW d, NEW c, NEW a \in DOMAIN d
  PROVE  /\ <<"data", a>> \in Units(d, c)
         /\ Inside(d, c, <<"data", a>>) = IF d[a].type = "string" THEN <<>> ELSE d[a].nodes
BY DEF Units, Inside

LEMMA ArgumentUnit ==
  ASSUME NEW d, NEW c, NEW j \in DOMAIN c.args
  PROVE  /\ <<"argument", j>> \in Units(d, c)
         /\ Inside(d, c, <<"argument", j>>) = IF c.args[j] = None THEN <<>> ELSE c.args[j]
BY DEF Units, Inside

LEMMA InsideTyped ==
  ASSUME NEW d, Heap(d), NEW c, CallType(c), NEW u \in Units(d, c)
  PROVE  Inside(d, c, u) \in Segments(d)
<1>0. DataType(d) /\ Extends(Data, d)
  BY DEF Heap
<1>1. CASE u[1] = "data" /\ u[2] \in DOMAIN d /\ u = <<"data", u[2]>>
  <2>1. Inside(d, c, u) = IF d[u[2]].type = "string" THEN <<>> ELSE d[u[2]].nodes
    BY <1>1, DataUnit
  <2>2. d[u[2]].type = "string" \/ d[u[2]].nodes \in Segments(d)
    BY <1>0, <1>1, DataFacts
  <2> QED BY <2>1, <2>2, NoNodes
<1>2. CASE u[1] = "argument" /\ u[2] \in DOMAIN c.args /\ u = <<"argument", u[2]>>
  <2>1. Inside(d, c, u) = IF c.args[u[2]] = None THEN <<>> ELSE c.args[u[2]]
    BY <1>2, ArgumentUnit
  <2>2. c.args[u[2]] # None => c.args[u[2]] \in Segments(Data)
    BY <1>2 DEF CallType
  <2> QED BY <1>0, <2>1, <2>2, NoNodes, SegmentsGrow
<1> QED BY <1>1, <1>2, UnitCases

LEMMA RefersTo ==
  ASSUME NEW d, NEW c, NEW u, NEW k \in DOMAIN Inside(d, c, u)
  PROVE  LET node == Inside(d, c, u)[k]
         IN /\ node.type \in {"string", "conditional"} => <<"data", node.data>> \in Refers(d, c, u)
            /\ IsArgument(c, node) => <<"argument", node.index + 1>> \in Refers(d, c, u)
<1> DEFINE seg == Inside(d, c, u)
<1>1. Refers(d, c, u) =
        {<<"data", seg[n].data>> : n \in {n \in DOMAIN seg : seg[n].type \in {"string", "conditional"}}}
        \cup {<<"argument", seg[n].index + 1>> : n \in {n \in DOMAIN seg : IsArgument(c, seg[n])}}
  BY DEF Refers
<1> HIDE DEF seg
<1>2. k \in DOMAIN seg
  BY DEF seg
<1>3. seg[k].type \in {"string", "conditional"} => <<"data", seg[k].data>> \in Refers(d, c, u)
  BY <1>1, <1>2
<1>4. IsArgument(c, seg[k]) => <<"argument", seg[k].index + 1>> \in Refers(d, c, u)
  BY <1>1, <1>2
<1> QED BY <1>3, <1>4 DEF seg

LEMMA RefersFrom ==
  ASSUME NEW d, NEW c, NEW u, NEW v \in Refers(d, c, u)
  PROVE  \E k \in DOMAIN Inside(d, c, u) :
           LET node == Inside(d, c, u)[k]
           IN \/ node.type \in {"string", "conditional"} /\ v = <<"data", node.data>>
              \/ IsArgument(c, node) /\ v = <<"argument", node.index + 1>>
<1> DEFINE seg == Inside(d, c, u)
<1>1. Refers(d, c, u) =
        {<<"data", seg[n].data>> : n \in {n \in DOMAIN seg : seg[n].type \in {"string", "conditional"}}}
        \cup {<<"argument", seg[n].index + 1>> : n \in {n \in DOMAIN seg : IsArgument(c, seg[n])}}
  BY DEF Refers
<1> HIDE DEF seg
<1>2. \E k \in DOMAIN seg :
        \/ seg[k].type \in {"string", "conditional"} /\ v = <<"data", seg[k].data>>
        \/ IsArgument(c, seg[k]) /\ v = <<"argument", seg[k].index + 1>>
  BY <1>1
<1> QED BY <1>2 DEF seg

LEMMA ArgumentIndex ==
  ASSUME NEW d, NEW c, CallType(c), NEW node \in NodeType(d), IsArgument(c, node)
  PROVE  node.type = "wildcard" /\ node.index + 1 \in DOMAIN c.args
<1>1. node.type = "wildcard" /\ node.index \in Nat /\ node.index < Len(c.args)
  BY NodeFacts DEF IsArgument
<1>2. Len(c.args) \in Nat /\ DOMAIN c.args = 1 .. Len(c.args)
  BY SeqIs DEF CallType
<1> QED BY <1>1, <1>2

LEMMA RefersInside ==
  ASSUME NEW d, Heap(d), NEW c, CallType(c), NEW u \in Units(d, c)
  PROVE  Refers(d, c, u) \subseteq Units(d, c)
<1> SUFFICES ASSUME NEW v \in Refers(d, c, u) PROVE v \in Units(d, c)
  OBVIOUS
<1>1. PICK k \in DOMAIN Inside(d, c, u) :
        LET node == Inside(d, c, u)[k]
        IN \/ node.type \in {"string", "conditional"} /\ v = <<"data", node.data>>
           \/ IsArgument(c, node) /\ v = <<"argument", node.index + 1>>
  BY RefersFrom
<1> DEFINE node == Inside(d, c, u)[k]
<1>2. node \in NodeType(d)
  BY InsideTyped, SegmentFacts
<1> HIDE DEF node
<1>3. CASE node.type \in {"string", "conditional"} /\ v = <<"data", node.data>>
  <2>1. node.data \in DOMAIN d
    BY <1>2, <1>3, NodeFacts
  <2> QED BY <1>3, <2>1, DataUnit
<1>4. CASE IsArgument(c, node) /\ v = <<"argument", node.index + 1>>
  BY <1>2, <1>4, ArgumentIndex, ArgumentUnit
<1> QED BY <1>1, <1>3, <1>4 DEF node

LEMMA InsideGrows ==
  ASSUME NEW d, NEW e, Extends(d, e), NEW c, NEW u \in Units(d, c)
  PROVE  /\ u \in Units(e, c) /\ Inside(e, c, u) = Inside(d, c, u)
         /\ Refers(e, c, u) = Refers(d, c, u)
<1>1. CASE u[1] = "data" /\ u[2] \in DOMAIN d /\ u = <<"data", u[2]>>
  <2>1. u[2] \in DOMAIN e /\ e[u[2]] = d[u[2]]
    BY <1>1 DEF Extends
  <2> QED BY <1>1, <2>1, DataUnit DEF Refers
<1>2. CASE u[1] = "argument" /\ u[2] \in DOMAIN c.args /\ u = <<"argument", u[2]>>
  <2>1. u \in Units(e, c) /\ Inside(e, c, u) = Inside(d, c, u)
    BY <1>2, ArgumentUnit
  <2> QED BY <2>1 DEF Refers
<1> QED BY <1>1, <1>2, UnitCases

-----------------------------------------------------------------------------
(* The recursions over units: what they make of a unit, given what they    *)
(* make of those it refers to.                                             *)
AsSeen(d, x) == [a \in DOMAIN d |-> x[<<"data", a>>]]

Body(kind, d, c, x, u) ==
  CASE kind = "layout" ->
         [m \in Int |-> [page \in Pages |-> LayAll(d, c, x, page, Inside(d, c, u), m)]]
    [] kind = "expand" -> StandAll(d, c, x, Inside(d, c, u))
    [] kind \in {"whole", "content"} ->
         IF u[1] = "data"
         THEN [k \in DOMAIN Inside(d, c, u) |-> See(d, AsSeen(d, x), Inside(d, c, u)[k], kind)]
         ELSE <<>>

(* They look at nothing else, in shared data or what it grows to.          *)
Local(kind, d, e, c) ==
  \A u \in Units(d, c) : \A x, y :
    (\A v \in Refers(d, c, u) : x[v] = y[v]) => Body(kind, d, c, x, u) = Body(kind, e, c, y, u)

Closed(d, c, D) == D \subseteq Units(d, c) /\ \A u \in D : Refers(d, c, u) \subseteq D
Solves(kind, d, c, D, x) == \A u \in D : x[u] = Body(kind, d, c, x, u)
Grounded(d, c) == Heap(d) /\ CallType(c) /\ Founded(d, c)

(* A minimal unit of those with a property.                                *)
LEMMA MinimalUnit ==
  ASSUME NEW d, NEW c, Founded(d, c), NEW S, S \subseteq Units(d, c), S # {}
  PROVE  \E u \in S : Refers(d, c, u) \cap S = {}
BY DEF Founded

LEMMA Agree ==
  ASSUME NEW kind, NEW d, NEW e, NEW c, Local(kind, d, e, c), Founded(d, c),
         NEW D, Closed(d, c, D), NEW x, Solves(kind, d, c, D, x),
         NEW y, Solves(kind, e, c, D, y)
  PROVE  \A u \in D : x[u] = y[u]
<1> DEFINE S == {u \in D : x[u] # y[u]}
<1> SUFFICES ASSUME S # {} PROVE FALSE
  OBVIOUS
<1>1. S \subseteq Units(d, c)
  BY DEF Closed
<1>2. PICK u \in S : Refers(d, c, u) \cap S = {}
  <2> HIDE DEF S
  <2> QED BY <1>1, MinimalUnit
<1>3. u \in D /\ Refers(d, c, u) \subseteq D /\ u \in Units(d, c)
  BY DEF Closed
<1>4. \A v \in Refers(d, c, u) : x[v] = y[v]
  BY <1>2, <1>3
<1>5. Body(kind, d, c, x, u) = Body(kind, e, c, y, u)
  BY <1>3, <1>4 DEF Local
<1> QED BY <1>3, <1>5 DEF Solves

LEMMA SolutionExists ==
  ASSUME NEW kind, NEW d, NEW c, Local(kind, d, d, c), Grounded(d, c)
  PROVE  \E x : x = [u \in Units(d, c) |-> x[u]] /\ Solves(kind, d, c, Units(d, c), x)
<1> DEFINE U == Units(d, c)
           Known(u, D, x) == Closed(d, c, D) /\ u \in D /\ Solves(kind, d, c, D, x)
           Val(u, z) == \E D, x : Known(u, D, x) /\ z = x[u]
           W == {u \in U : \E D, x : Known(u, D, x)}
           X == [u \in U |-> CHOOSE z : Val(u, z)]
<1>0. Heap(d) /\ CallType(c) /\ Founded(d, c) /\ \A u \in U : Refers(d, c, u) \subseteq U
  BY RefersInside DEF Grounded
<1>1. ASSUME NEW u, NEW D, NEW x, Known(u, D, x), NEW E, NEW y, Known(u, E, y)
      PROVE  x[u] = y[u]
  <2>1. Closed(d, c, D \cap E)
    BY <1>1 DEF Closed
  <2>2. Solves(kind, d, c, D \cap E, x) /\ Solves(kind, d, c, D \cap E, y)
    BY <1>1 DEF Solves
  <2>3. u \in D \cap E
    BY <1>1
  <2> QED BY <1>0, <2>1, <2>2, <2>3, Agree
<1>2. ASSUME NEW u, NEW D, NEW x, Known(u, D, x)
      PROVE  u \in U /\ u \in W /\ X[u] = x[u]
  <2>1. u \in U
    BY <1>2 DEF Closed
  <2>2. Val(u, x[u])
    BY <1>2
  <2>3. \A z : Val(u, z) => z = x[u]
    <3> HIDE DEF Known
    <3> QED BY <1>1, <1>2
  <2> HIDE DEF Val
  <2>4. (CHOOSE z : Val(u, z)) = x[u]
    BY <2>2, <2>3
  <2> QED BY <1>2, <2>1, <2>4
<1>3. ASSUME NEW u \in W
      PROVE  Refers(d, c, u) \subseteq W /\ X[u] = Body(kind, d, c, X, u)
  <2>1. PICK D, x : Known(u, D, x)
    OBVIOUS
  <2> HIDE DEF X, W
  <2>2. \A v \in D : Known(v, D, x)
    BY <2>1
  <2>3. \A v \in D : v \in W /\ X[v] = x[v]
    BY <1>2, <2>2
  <2>4. u \in D /\ Refers(d, c, u) \subseteq D /\ u \in Units(d, c)
    BY <2>1 DEF Closed
  <2>5. \A v \in Refers(d, c, u) : x[v] = X[v]
    BY <2>3, <2>4
  <2>6. Body(kind, d, c, x, u) = Body(kind, d, c, X, u)
    BY <2>4, <2>5 DEF Local
  <2>7. x[u] = Body(kind, d, c, x, u)
    BY <2>1, <2>4 DEF Solves
  <2> QED BY <2>3, <2>4, <2>6, <2>7
<1>4. W \subseteq U
  OBVIOUS
<1>5. X = [u \in U |-> X[u]]
  OBVIOUS
<1>6. U \subseteq W
  <2> DEFINE S == U \ W
  <2> SUFFICES ASSUME S # {} PROVE FALSE
    OBVIOUS
  <2>1. PICK u \in S : Refers(d, c, u) \cap S = {}
    <3>1. S \subseteq Units(d, c)
      OBVIOUS
    <3> HIDE DEF S
    <3> QED BY <1>0, <3>1, MinimalUnit
  <2>2. u \in U /\ u \notin W /\ Refers(d, c, u) \subseteq W
    BY <1>0, <2>1
  <2> DEFINE D == W \cup {u}
             e == Body(kind, d, c, X, u)
             x == [v \in D |-> IF v = u THEN e ELSE X[v]]
  <2> HIDE DEF X, S, W, e
  <2>3. x[u] = e /\ \A v \in W : x[v] = X[v]
    BY <2>2
  <2> HIDE DEF x
  <2>4. Closed(d, c, D)
    BY <1>3, <1>4, <2>2 DEF Closed
  <2>5. ASSUME NEW v \in D
        PROVE  x[v] = Body(kind, d, c, x, v)
    <3>1. v \in Units(d, c) /\ Refers(d, c, v) \subseteq W
      BY <1>3, <1>4, <2>2
    <3>2. \A w \in Refers(d, c, v) : X[w] = x[w]
      BY <2>3, <3>1
    <3>3. Body(kind, d, c, X, v) = Body(kind, d, c, x, v)
      BY <3>1, <3>2 DEF Local
    <3>4. x[v] = Body(kind, d, c, X, v)
      BY <1>3, <2>3 DEF e
    <3> QED BY <3>3, <3>4
  <2>6. Known(u, D, x)
    BY <2>4, <2>5 DEF Solves
  <2> HIDE DEF Known, D
  <2>7. u \in W
    BY <1>2, <2>6
  <2> QED BY <2>2, <2>7
<1>7. Solves(kind, d, c, U, X)
  <2> HIDE DEF X, W
  <2> QED BY <1>3, <1>6 DEF Solves
<1> HIDE DEF X
<1> QED BY <1>5, <1>7

-----------------------------------------------------------------------------
(* Seen: what there is to be seen of shared data.                          *)
SeenKinds == {"whole", "content"}

LEMMA SeeLocal ==
  ASSUME NEW d, NEW e, Extends(d, e), NEW node \in NodeType(d), NEW kind, NEW x, NEW y,
         node.type = "conditional" => x[node.data] = y[node.data]
  PROVE  See(d, x, node, kind) = See(e, y, node, kind)
<1>1. Info(e, node) = Info(d, node)
  BY InfoGrows
<1>2. CASE node.type = "break"
  BY <1>2 DEF See, Texts
<1>3. CASE node.type \in Texts
  BY <1>1, <1>3 DEF See, Texts
<1>4. CASE node.type = "wildcard"
  BY <1>1, <1>4 DEF See, Texts
<1>5. CASE node.type = "conditional"
  <2>1. node.data \in DOMAIN d
    BY <1>5, NodeFacts
  <2>2. e[node.data] = d[node.data]
    BY <2>1 DEF Extends
  <2> QED BY <1>5, <2>2 DEF See, Texts
<1> QED BY <1>2, <1>3, <1>4, <1>5, NodeFacts DEF Texts

LEMMA SeenLocal ==
  ASSUME NEW d, Heap(d), NEW e, Extends(d, e), NEW c, CallType(c), NEW kind \in SeenKinds
  PROVE  Local(kind, d, e, c)
<1> SUFFICES ASSUME NEW u \in Units(d, c), NEW x, NEW y, \A v \in Refers(d, c, u) : x[v] = y[v]
             PROVE  Body(kind, d, c, x, u) = Body(kind, e, c, y, u)
  BY DEF Local
<1> DEFINE seg == Inside(d, c, u)
<1>1. Inside(e, c, u) = seg /\ seg \in Segments(d)
  BY InsideGrows, InsideTyped
<1>2. ASSUME NEW k \in DOMAIN seg
      PROVE  See(d, AsSeen(d, x), seg[k], kind) = See(e, AsSeen(e, y), seg[k], kind)
  <2>1. seg[k].type = "conditional" => <<"data", seg[k].data>> \in Refers(d, c, u)
    BY RefersTo
  <2> HIDE DEF seg
  <2>2. seg[k] \in NodeType(d)
    BY <1>1, <1>2, SegmentFacts
  <2>3. ASSUME seg[k].type = "conditional"
        PROVE  AsSeen(d, x)[seg[k].data] = AsSeen(e, y)[seg[k].data]
    <3>1. seg[k].data \in DOMAIN d
      BY <2>2, <2>3, NodeFacts
    <3>2. seg[k].data \in DOMAIN e
      BY <3>1 DEF Extends
    <3>3. /\ AsSeen(d, x)[seg[k].data] = x[<<"data", seg[k].data>>]
          /\ AsSeen(e, y)[seg[k].data] = y[<<"data", seg[k].data>>]
      BY <3>1, <3>2 DEF AsSeen
    <3> QED BY <2>1, <2>3, <3>3
  <2> QED BY <2>2, <2>3, SeeLocal
<1> HIDE DEF seg
<1>3. [k \in DOMAIN seg |-> See(d, AsSeen(d, x), seg[k], kind)]
        = [k \in DOMAIN seg |-> See(e, AsSeen(e, y), seg[k], kind)]
  BY <1>2
<1>4. Body(kind, d, c, x, u) =
        IF u[1] = "data" THEN [k \in DOMAIN seg |-> See(d, AsSeen(d, x), seg[k], kind)] ELSE <<>>
  BY DEF Body, SeenKinds, seg
<1>5. Body(kind, e, c, y, u) =
        IF u[1] = "data" THEN [k \in DOMAIN seg |-> See(e, AsSeen(e, y), seg[k], kind)] ELSE <<>>
  BY <1>1 DEF Body, SeenKinds
<1> QED BY <1>3, <1>4, <1>5

SeenOf(d, x, a, kind) ==
  IF d[a].type = "string" THEN <<>> ELSE [k \in DOMAIN d[a].nodes |-> See(d, x, d[a].nodes[k], kind)]

LEMMA ExtendsItself ==
  ASSUME NEW d
  PROVE  Extends(d, d)
BY DEF Extends

LEMMA SeenIs ==
  ASSUME NEW d, NEW c, Grounded(d, c), NEW kind \in SeenKinds, NEW a \in DOMAIN d
  PROVE  Seen(d, kind)[a] = SeenOf(d, Seen(d, kind), a, kind)
<1> DEFINE x[n \in DOMAIN d] ==
             IF d[n].type = "string" THEN <<>>
             ELSE [k \in DOMAIN d[n].nodes |-> See(d, x, d[n].nodes[k], kind)]
<1>1. Local(kind, d, d, c)
  BY SeenLocal, ExtendsItself DEF Grounded
<1>2. PICK s : Solves(kind, d, c, Units(d, c), s)
  BY <1>1, SolutionExists
<1> DEFINE y == AsSeen(d, s)
<1>3. ASSUME NEW n \in DOMAIN d
      PROVE  y[n] = SeenOf(d, y, n, kind)
  <2> DEFINE u == <<"data", n>>
  <2>1. /\ u \in Units(d, c) /\ u[1] = "data"
        /\ Inside(d, c, u) = IF d[n].type = "string" THEN <<>> ELSE d[n].nodes
    BY DataUnit
  <2>2. y[n] = s[u]
    BY DEF AsSeen
  <2> HIDE DEF y, u
  <2>3. s[u] = [k \in DOMAIN Inside(d, c, u) |-> See(d, AsSeen(d, s), Inside(d, c, u)[k], kind)]
    BY <1>2, <2>1 DEF Solves, Body, SeenKinds
  <2>4. CASE d[n].type = "string"
    <3>1. Inside(d, c, u) = <<>>
      BY <2>1, <2>4
    <3>2. s[u] = <<>>
      BY <2>3, <3>1
    <3> QED BY <2>2, <2>4, <3>2 DEF SeenOf
  <2>5. CASE d[n].type # "string"
    <3>1. Inside(d, c, u) = d[n].nodes
      BY <2>1, <2>5
    <3> QED BY <2>2, <2>3, <2>5, <3>1 DEF SeenOf, y
  <2> QED BY <2>4, <2>5
<1>4. y = [n \in DOMAIN d |-> y[n]]
  BY DEF AsSeen
<1> HIDE DEF y
<1>5. y = [n \in DOMAIN d |-> SeenOf(d, y, n, kind)]
  BY <1>3, <1>4
<1>6. x = [n \in DOMAIN d |-> IF d[n].type = "string" THEN <<>>
                              ELSE [k \in DOMAIN d[n].nodes |-> See(d, x, d[n].nodes[k], kind)]]
  <2>1. y = [n \in DOMAIN d |-> IF d[n].type = "string" THEN <<>>
                                ELSE [k \in DOMAIN d[n].nodes |-> See(d, y, d[n].nodes[k], kind)]]
    BY <1>5 DEF SeenOf
  <2> QED BY <2>1
<1>7. Seen(d, kind) = x
  BY DEF Seen
<1> HIDE DEF x
<1>8. x[a] = IF d[a].type = "string" THEN <<>>
             ELSE [k \in DOMAIN d[a].nodes |-> See(d, x, d[a].nodes[k], kind)]
  <2> DEFINE h == [n \in DOMAIN d |-> SeenOf(d, x, n, kind)]
  <2>1. h[a] = SeenOf(d, x, a, kind)
    OBVIOUS
  <2>2. x = h
    BY <1>6 DEF SeenOf
  <2> HIDE DEF h
  <2> QED BY <2>1, <2>2 DEF SeenOf
<1> QED BY <1>7, <1>8 DEF SeenOf

LEMMA SeenGrows ==
  ASSUME NEW d, NEW e, NEW c, Grounded(d, c), Grounded(e, c), Extends(d, e), NEW kind \in SeenKinds
  PROVE  \A a \in DOMAIN d : Seen(e, kind)[a] = Seen(d, kind)[a]
<1> DEFINE S == {u \in Units(d, c) : u[1] = "data" /\ Seen(e, kind)[u[2]] # Seen(d, kind)[u[2]]}
<1>1. ASSUME S # {}
      PROVE  FALSE
  <2>1. PICK u \in S : Refers(d, c, u) \cap S = {}
    <3>1. S \subseteq Units(d, c) /\ Founded(d, c)
      BY DEF Grounded
    <3> HIDE DEF S
    <3> QED BY <1>1, <3>1, MinimalUnit
  <2>2. u \in Units(d, c) /\ u[1] = "data" /\ Seen(e, kind)[u[2]] # Seen(d, kind)[u[2]]
    OBVIOUS
  <2>3. u[2] \in DOMAIN d /\ u = <<"data", u[2]>>
    BY <2>2, UnitCases
  <2>4. PICK a \in DOMAIN d : a = u[2]
    BY <2>3
  <2>5. a \in DOMAIN e /\ e[a] = d[a]
    BY DEF Extends
  <2>6. ASSUME d[a].type # "string", NEW k \in DOMAIN d[a].nodes
        PROVE  See(d, Seen(d, kind), d[a].nodes[k], kind) = See(e, Seen(e, kind), d[a].nodes[k], kind)
    <3> DEFINE node == d[a].nodes[k]
    <3>1. Inside(d, c, u) = d[a].nodes
      BY <2>3, <2>4, <2>6, DataUnit
    <3>2. d[a].nodes \in Segments(d)
      BY <2>6, DataFacts DEF Grounded, Heap
    <3>3. node \in NodeType(d)
      BY <2>6, <3>2, SegmentFacts
    <3>4. node.type = "conditional" => <<"data", node.data>> \in Refers(d, c, u)
      BY <2>6, <3>1, RefersTo
    <3> HIDE DEF node
    <3>5. ASSUME node.type = "conditional"
          PROVE  Seen(d, kind)[node.data] = Seen(e, kind)[node.data]
      <4>1. node.data \in DOMAIN d
        BY <3>3, <3>5, NodeFacts
      <4>2. <<"data", node.data>> \in Units(d, c) /\ <<"data", node.data>> \notin S
        BY <2>1, <3>4, <3>5, <4>1, DataUnit
      <4> QED BY <4>2
    <3>6. See(d, Seen(d, kind), node, kind) = See(e, Seen(e, kind), node, kind)
      BY <3>3, <3>5, SeeLocal
    <3> QED BY <3>6 DEF node
  <2>7. SeenOf(d, Seen(d, kind), a, kind) = SeenOf(e, Seen(e, kind), a, kind)
    BY <2>5, <2>6 DEF SeenOf
  <2>8. Seen(d, kind)[a] = Seen(e, kind)[a]
    BY <2>5, <2>7, SeenIs
  <2> QED BY <2>2, <2>4, <2>8
<1> SUFFICES ASSUME NEW a \in DOMAIN d, Seen(e, kind)[a] # Seen(d, kind)[a]
             PROVE  FALSE
  OBVIOUS
<1>2. <<"data", a>> \in S
  BY DataUnit
<1> HIDE DEF S
<1> QED BY <1>1, <1>2

LEMMA SeeGrows ==
  ASSUME NEW d, NEW e, NEW c, Grounded(d, c), Grounded(e, c), Extends(d, e), NEW kind \in SeenKinds,
         NEW node \in NodeType(d)
  PROVE  See(e, Seen(e, kind), node, kind) = See(d, Seen(d, kind), node, kind)
<1>1. node.type = "conditional" => node.data \in DOMAIN d
  BY NodeFacts
<1>2. node.type = "conditional" => Seen(d, kind)[node.data] = Seen(e, kind)[node.data]
  BY <1>1, SeenGrows
<1> QED BY <1>2, SeeLocal

(* What is seen of a segment does not change as shared data grows.         *)
LEMMA WholeGrows ==
  ASSUME NEW d, NEW e, NEW c, Grounded(d, c), Grounded(e, c), Extends(d, e), NEW seg \in Segments(d)
  PROVE  Whole(e, seg) = Whole(d, seg) /\ Content(e, seg) = Content(d, seg)
<1>1. "whole" \in SeenKinds /\ "content" \in SeenKinds
  BY DEF SeenKinds
<1>2. \A k \in DOMAIN seg : seg[k] \in NodeType(d)
  BY SegmentFacts
<1>3. \A k \in DOMAIN seg : See(e, Seen(e, "whole"), seg[k], "whole") = See(d, Seen(d, "whole"), seg[k], "whole")
  BY <1>1, <1>2, SeeGrows
<1>4. \A k \in DOMAIN seg :
        See(e, Seen(e, "content"), seg[k], "content") = See(d, Seen(d, "content"), seg[k], "content")
  BY <1>1, <1>2, SeeGrows
<1>5. Whole(e, seg) = Whole(d, seg)
  BY <1>3 DEF Whole
<1>6. Content(e, seg) = Content(d, seg)
  BY <1>4 DEF Content
<1> QED BY <1>5, <1>6

-----------------------------------------------------------------------------
(* Indenting an argument: what is copied.                                  *)
Shift(node, d, n) == Indented(node, n, Len(d))
ShiftAll(seg, d, n) == [k \in DOMAIN seg |-> Shift(seg[k], d, n)]

Copied(d, e, n) ==
  /\ IsSeq(e) /\ Extends(d, e) /\ DOMAIN e = 1 .. Len(d) + Len(Data)
  /\ \A a \in DOMAIN Data :
       /\ Data[a].type = "string" => e[Len(d) + a] = [Data[a] EXCEPT !.indent = @ + n]
       /\ Data[a].type = "conditional" =>
            e[Len(d) + a] = ConditionalData(ShiftAll(Data[a].nodes, d, n), Data[a].guard)

LEMMA DataSeq ==
  ASSUME NEW d, DataType(d)
  PROVE  IsSeq(d) /\ Len(d) \in Nat /\ DOMAIN d = 1 .. Len(d)
BY SeqIs DEF DataType

LEMMA DataIs == DataType(Data) /\ Heap(Data) /\ IsSeq(Data) /\ Len(Data) \in Nat /\ DOMAIN Data = 1 .. Len(Data)
<1>1. DataType(Data)
  BY SegmentAssumption
<1> QED BY <1>1, DataSeq, ExtendsItself DEF Heap

LEMMA IndentCopies ==
  ASSUME NEW d, Heap(d), NEW n \in Int, n # 0, NEW seg \in Segments(Data)
  PROVE  /\ Copied(d, IndentNodes(d, seg, n)[1], n)
         /\ IndentNodes(d, seg, n)[2] = ShiftAll(seg, d, n)
<1> DEFINE Each(s) == [k \in DOMAIN s |-> Indented(s[k], n, Len(d))]
           Copy(a) == IF d[a].type = "string" THEN [d[a] EXCEPT !.indent = @ + n]
                      ELSE [d[a] EXCEPT !.nodes = Each(@)]
           new == [a \in DOMAIN Data |-> Copy(a)]
           e == Cat(d, new)
<1>1. IndentNodes(d, seg, n)[1] = e /\ IndentNodes(d, seg, n)[2] = ShiftAll(seg, d, n)
  <2>1. IndentNodes(d, seg, n) = <<d \o new, Each(seg)>>
    BY DEF IndentNodes
  <2>2. Each(seg) = ShiftAll(seg, d, n)
    BY DEF ShiftAll, Shift
  <2>3. e = d \o new
    BY DEF Cat
  <2> HIDE DEF new, e, Each
  <2> QED BY <2>1, <2>2, <2>3
<1>2. /\ IsSeq(d) /\ Len(d) \in Nat /\ DOMAIN d = 1 .. Len(d) /\ Extends(Data, d)
      /\ Len(Data) \in Nat /\ DOMAIN Data = 1 .. Len(Data)
  BY DataSeq, DataIs DEF Heap
<1>3. \A a \in DOMAIN Data : new[a] = Copy(a)
  OBVIOUS
<1>4. new = [a \in 1 .. Len(Data) |-> new[a]]
  BY <1>2
<1> HIDE DEF new
<1>5. IsSeq(new) /\ Len(new) = Len(Data)
  BY <1>2, <1>4, SeqMade
<1>6. /\ IsSeq(e) /\ Len(e) = Len(d) + Len(Data)
      /\ (\A a \in 1 .. Len(d) : e[a] = d[a])
      /\ \A a \in 1 .. Len(Data) : e[Len(d) + a] = new[a]
  BY <1>2, <1>5, CatFacts
<1> HIDE DEF e, Copy
<1>7. DOMAIN e = 1 .. Len(d) + Len(Data)
  BY <1>6, IsSeqFacts
<1>8. Extends(d, e)
  BY <1>2, <1>6, <1>7 DEF Extends
<1>9. ASSUME NEW a \in DOMAIN Data
      PROVE  /\ Data[a].type = "string" => e[Len(d) + a] = [Data[a] EXCEPT !.indent = @ + n]
             /\ Data[a].type = "conditional" =>
                  e[Len(d) + a] = ConditionalData(ShiftAll(Data[a].nodes, d, n), Data[a].guard)
  <2>1. e[Len(d) + a] = Copy(a) /\ d[a] = Data[a]
    BY <1>2, <1>3, <1>6 DEF Extends
  <2>2. CASE Data[a].type = "string"
    <3>1. Copy(a) = [Data[a] EXCEPT !.indent = @ + n]
      BY <2>1, <2>2 DEF Copy
    <3> QED BY <2>1, <2>2, <3>1
  <2>3. CASE Data[a].type = "conditional"
    <3>1. Data[a] = ConditionalData(Data[a].nodes, Data[a].guard)
      BY <2>3, DataIs, DataFacts
    <3>2. Copy(a) = [Data[a] EXCEPT !.nodes = Each(@)]
      BY <2>1, <2>3 DEF Copy
    <3>3. Copy(a) = [Data[a] EXCEPT !.nodes = ShiftAll(Data[a].nodes, d, n)]
      BY <3>2 DEF ShiftAll, Shift
    <3>4. Copy(a) = ConditionalData(ShiftAll(Data[a].nodes, d, n), Data[a].guard)
      <4> DEFINE s == ShiftAll(Data[a].nodes, d, n)
                 o == Data[a].nodes
                 g == Data[a].guard
      <4>1. Data[a] = [type |-> "conditional", nodes |-> o, guard |-> g]
        BY <3>1 DEF ConditionalData
      <4>2. Copy(a) = [Data[a] EXCEPT !.nodes = s]
        BY <3>3
      <4> HIDE DEF s, o, g
      <4>3. Copy(a) = [type |-> "conditional", nodes |-> s, guard |-> g]
        BY <4>1, <4>2
      <4> QED BY <4>3 DEF ConditionalData, s, g
    <3> QED BY <2>1, <2>3, <3>4
  <2> QED BY <2>2, <2>3
<1>10. Copied(d, e, n)
  BY <1>6, <1>7, <1>8, <1>9 DEF Copied
<1> QED BY <1>1, <1>10

LEMMA IndentNone ==
  ASSUME NEW d, NEW seg
  PROVE  IndentNodes(d, seg, 0)[1] = d /\ IndentNodes(d, seg, 0)[2] = seg
BY DEF IndentNodes

LEMMA CopiedTypes ==
  ASSUME NEW d, Heap(d), NEW n \in Int, NEW e, Copied(d, e, n), NEW a \in DOMAIN Data
  PROVE  /\ a \in DOMAIN d /\ d[a] = Data[a] /\ Len(d) + a \in DOMAIN e
         /\ e[Len(d) + a].type = d[a].type
         /\ d[a].type = "string" \/ d[a].type = "conditional"
<1>1. a \in DOMAIN d /\ d[a] = Data[a]
  BY DEF Heap, Extends
<1>2. Len(d) \in Nat /\ Len(Data) \in Nat /\ DOMAIN Data = 1 .. Len(Data)
  BY DataIs, DataSeq DEF Heap
<1>3. Len(d) + a \in DOMAIN e
  <2>1. DOMAIN e = 1 .. Len(d) + Len(Data)
    BY DEF Copied
  <2> QED BY <1>2, <2>1
<1>4. d[a].type = "string" => e[Len(d) + a] = [d[a] EXCEPT !.indent = @ + n]
  BY <1>1 DEF Copied
<1>5. d[a].type = "conditional" =>
        e[Len(d) + a] = ConditionalData(ShiftAll(d[a].nodes, d, n), d[a].guard)
  BY <1>1 DEF Copied
<1>6. e[Len(d) + a].type = d[a].type
  <2>1. CASE d[a].type = "string"
    <3>1. d[a] \in [type : {"string"}, text : Nat, indent : Int]
      BY <1>1, <2>1, DataIs, DataFacts
    <3> QED BY <1>4, <2>1, <3>1
  <2>2. CASE d[a].type = "conditional"
    BY <1>5, <2>2 DEF ConditionalData
  <2>3. d[a].type = "string" \/ d[a].type = "conditional"
    BY <1>1, DataIs, DataFacts
  <2> QED BY <2>1, <2>2, <2>3
<1>7. d[a].type = "string" \/ d[a].type = "conditional"
  BY <1>1, DataIs, DataFacts
<1> QED BY <1>1, <1>3, <1>6, <1>7

LEMMA CopiedString ==
  ASSUME NEW d, Heap(d), NEW n \in Int, NEW e, Copied(d, e, n), NEW a \in DOMAIN Data,
         Data[a].type = "string"
  PROVE  e[Len(d) + a] = [Data[a] EXCEPT !.indent = @ + n]
BY DEF Copied

LEMMA CopiedCondition ==
  ASSUME NEW d, Heap(d), NEW n \in Int, NEW e, Copied(d, e, n), NEW a \in DOMAIN Data,
         Data[a].type = "conditional"
  PROVE  /\ e[Len(d) + a].nodes = ShiftAll(Data[a].nodes, d, n) /\ e[Len(d) + a].guard = Data[a].guard
         /\ e[Len(d) + a] = ConditionalData(e[Len(d) + a].nodes, e[Len(d) + a].guard)
         /\ Data[a].nodes \in Segments(Data)
<1> DEFINE s == ShiftAll(Data[a].nodes, d, n)
           g == Data[a].guard
<1>1. e[Len(d) + a] = ConditionalData(s, g)
  BY DEF Copied
<1>2. Data[a].nodes \in Segments(Data)
  BY DataIs, DataFacts
<1> HIDE DEF s, g
<1>3. e[Len(d) + a].nodes = s /\ e[Len(d) + a].guard = g
  BY <1>1 DEF ConditionalData
<1>4. e[Len(d) + a] = ConditionalData(e[Len(d) + a].nodes, e[Len(d) + a].guard)
  BY <1>1, <1>3
<1> QED BY <1>2, <1>3, <1>4 DEF s, g

LEMMA ShiftFacts ==
  ASSUME NEW d, NEW n, NEW node
  PROVE  /\ node.type = "break" => Shift(node, d, n) = node
         /\ node.type \in {"wildcard", "view"} => Shift(node, d, n) = [node EXCEPT !.indent = @ + n]
         /\ node.type \in {"string", "conditional"} =>
              Shift(node, d, n) = [node EXCEPT !.data = @ + Len(d)]
BY DEF Shift, Indented

LEMMA ShiftTyped ==
  ASSUME NEW d, Heap(d), NEW n \in Int, NEW e, Copied(d, e, n), NEW node \in NodeType(Data)
  PROVE  /\ Shift(node, d, n) \in NodeType(e) /\ Shift(node, d, n).type = node.type
         /\ node.type = "break" => Shift(node, d, n) = node
         /\ node.type = "wildcard" =>
              /\ Shift(node, d, n).index = node.index
              /\ Shift(node, d, n).indent = node.indent + n
         /\ node.type \in Texts =>
              /\ Info(e, Shift(node, d, n)).text = Info(d, node).text
              /\ Info(e, Shift(node, d, n)).indent = Info(d, node).indent + n
         /\ node.type \in {"string", "conditional"} =>
              node.data \in DOMAIN Data /\ Shift(node, d, n).data = Len(d) + node.data
<1> DEFINE s == Shift(node, d, n)
<1>1. CASE node \in [type : {"break"}, count : Nat]
  <2>1. s = node /\ node.type = "break"
    BY <1>1, ShiftFacts
  <2> QED BY <1>1, <2>1 DEF NodeType, Texts
<1>2. CASE node \in [type : {"wildcard"}, index : Nat, indent : Int]
  <2>1. s = [node EXCEPT !.indent = @ + n] /\ node.type = "wildcard"
    BY <1>2, ShiftFacts
  <2>2. s \in [type : {"wildcard"}, index : Nat, indent : Int]
    BY <1>2, <2>1
  <2>3. s.type = "wildcard" /\ s.index = node.index /\ s.indent = node.indent + n
    BY <1>2, <2>1
  <2> QED BY <2>1, <2>2, <2>3 DEF NodeType, Texts
<1>3. CASE node \in [type : {"view"}, text : Nat, indent : Int]
  <2>1. s = [node EXCEPT !.indent = @ + n] /\ node.type = "view"
    BY <1>3, ShiftFacts
  <2>2. s \in [type : {"view"}, text : Nat, indent : Int]
    BY <1>3, <2>1
  <2>3. s.type = "view" /\ s.text = node.text /\ s.indent = node.indent + n
    BY <1>3, <2>1
  <2>4. Info(e, s) = s /\ Info(d, node) = node
    BY <2>1, <2>3 DEF Info
  <2> QED BY <2>1, <2>2, <2>3, <2>4 DEF NodeType, Texts
<1>4. CASE node \in [type : {"string"}, data : {a \in DOMAIN Data : Data[a].type = "string"}]
  <2>1. s = [node EXCEPT !.data = @ + Len(d)] /\ node.type = "string"
    BY <1>4, ShiftFacts
  <2>2. PICK a \in DOMAIN Data : a = node.data /\ Data[a].type = "string"
    BY <1>4
  <2>3. s.type = "string" /\ s.data = Len(d) + a /\ s = [type |-> "string", data |-> Len(d) + a]
    <3>1. Len(d) \in Nat /\ a \in Nat /\ a + Len(d) = Len(d) + a
      BY DataIs, DataSeq DEF Heap
    <3>2. s = [type |-> "string", data |-> a + Len(d)]
      BY <1>4, <2>1, <2>2
    <3> QED BY <3>1, <3>2
  <2> HIDE DEF s
  <2>4. /\ d[a] = Data[a] /\ Len(d) + a \in DOMAIN e /\ e[Len(d) + a].type = "string"
        /\ e[Len(d) + a] = [d[a] EXCEPT !.indent = @ + n]
    BY <2>2, CopiedTypes, CopiedString
  <2>5. d[a] \in [type : {"string"}, text : Nat, indent : Int]
    BY <2>2, <2>4, DataIs, DataFacts
  <2>6. e[Len(d) + a].text = d[a].text /\ e[Len(d) + a].indent = d[a].indent + n
    BY <2>4, <2>5
  <2>7. Info(e, s) = e[Len(d) + a] /\ Info(d, node) = d[a]
    BY <2>1, <2>2, <2>3 DEF Info
  <2>8. s \in [type : {"string"}, data : {b \in DOMAIN e : e[b].type = "string"}]
    BY <2>3, <2>4
  <2>9. s \in NodeType(e)
    BY <2>8 DEF NodeType
  <2> QED BY <2>1, <2>2, <2>3, <2>6, <2>7, <2>9 DEF s
<1>5. CASE node \in [type : {"conditional"}, data : {a \in DOMAIN Data : Data[a].type = "conditional"}]
  <2>1. s = [node EXCEPT !.data = @ + Len(d)] /\ node.type = "conditional"
    BY <1>5, ShiftFacts
  <2>2. PICK a \in DOMAIN Data : a = node.data /\ Data[a].type = "conditional"
    BY <1>5
  <2>3. s.type = "conditional" /\ s.data = Len(d) + a /\ s = [type |-> "conditional", data |-> Len(d) + a]
    <3>1. Len(d) \in Nat /\ a \in Nat /\ a + Len(d) = Len(d) + a
      BY DataIs, DataSeq DEF Heap
    <3>2. s = [type |-> "conditional", data |-> a + Len(d)]
      BY <1>5, <2>1, <2>2
    <3> QED BY <3>1, <3>2
  <2> HIDE DEF s
  <2>4. d[a] = Data[a] /\ Len(d) + a \in DOMAIN e /\ e[Len(d) + a].type = "conditional"
    BY <2>2, CopiedTypes
  <2>5. s \in [type : {"conditional"}, data : {b \in DOMAIN e : e[b].type = "conditional"}]
    BY <2>3, <2>4
  <2>6. s \in NodeType(e)
    BY <2>5 DEF NodeType
  <2> QED BY <2>1, <2>2, <2>3, <2>6 DEF s, Texts
<1> QED BY <1>1, <1>2, <1>3, <1>4, <1>5 DEF NodeType

LEMMA ShiftAllTyped ==
  ASSUME NEW d, Heap(d), NEW n \in Int, NEW e, Copied(d, e, n), NEW seg \in Segments(Data)
  PROVE  /\ ShiftAll(seg, d, n) \in Segments(e) /\ DOMAIN ShiftAll(seg, d, n) = DOMAIN seg
         /\ Len(ShiftAll(seg, d, n)) = Len(seg)
         /\ \A k \in DOMAIN seg : ShiftAll(seg, d, n)[k] = Shift(seg[k], d, n)
<1> DEFINE s == ShiftAll(seg, d, n)
<1>1. Len(seg) \in Nat /\ DOMAIN seg = 1 .. Len(seg) /\ \A k \in DOMAIN seg : seg[k] \in NodeType(Data)
  BY SegmentFacts
<1>2. s = [k \in 1 .. Len(seg) |-> s[k]] /\ \A k \in DOMAIN seg : s[k] = Shift(seg[k], d, n)
  BY <1>1 DEF ShiftAll
<1>3. \A k \in DOMAIN seg : Shift(seg[k], d, n) \in NodeType(e)
  BY <1>1, ShiftTyped
<1> HIDE DEF s
<1>4. IsSeq(s) /\ Len(s) = Len(seg) /\ DOMAIN s = 1 .. Len(seg)
  BY <1>1, <1>2, SeqMade
<1>5. s \in Seq(NodeType(e))
  BY <1>1, <1>2, <1>3, <1>4, SeqTyped
<1> QED BY <1>1, <1>2, <1>4, <1>5 DEF Segments, s

(* What an index of the copied data is: old, or the copy of one of Data.   *)
LEMMA CopiedIndex ==
  ASSUME NEW d, Heap(d), NEW n \in Int, NEW e, Copied(d, e, n), NEW b \in DOMAIN e
  PROVE  b \in DOMAIN d \/ \E a \in DOMAIN Data : b = Len(d) + a
<1>1. /\ Len(d) \in Nat /\ DOMAIN d = 1 .. Len(d) /\ Len(Data) \in Nat
      /\ DOMAIN Data = 1 .. Len(Data) /\ DOMAIN e = 1 .. Len(d) + Len(Data)
  BY DataIs, DataSeq DEF Heap, Copied
<1>2. CASE b \notin DOMAIN d
  <2>1. b - Len(d) \in DOMAIN Data /\ b = Len(d) + (b - Len(d))
    BY <1>1, <1>2
  <2> QED BY <2>1
<1> QED BY <1>2

LEMMA HeapCopied ==
  ASSUME NEW d, Heap(d), NEW n \in Int, NEW e, Copied(d, e, n)
  PROVE  Heap(e) /\ Extends(d, e)
<1>1. Extends(d, e) /\ IsSeq(e)
  BY DEF Copied
<1>2. Extends(Data, e)
  BY <1>1, ExtendsTransitive DEF Heap
<1>3. ASSUME NEW b \in DOMAIN e
      PROVE  \/ e[b] \in [type : {"string"}, text : Nat, indent : Int]
             \/ e[b] = ConditionalData(e[b].nodes, e[b].guard) /\ e[b].nodes \in Segments(e)
  <2>1. CASE b \in DOMAIN d
    <3>1. e[b] = d[b]
      BY <1>1, <2>1 DEF Extends
    <3>2. \/ d[b] \in [type : {"string"}, text : Nat, indent : Int]
          \/ d[b] = ConditionalData(d[b].nodes, d[b].guard) /\ d[b].nodes \in Segments(d)
      BY <2>1, DataFacts DEF Heap
    <3> QED BY <1>1, <3>1, <3>2, SegmentsGrow
  <2>2. ASSUME NEW a \in DOMAIN Data, b = Len(d) + a
        PROVE  \/ e[b] \in [type : {"string"}, text : Nat, indent : Int]
               \/ e[b] = ConditionalData(e[b].nodes, e[b].guard) /\ e[b].nodes \in Segments(e)
    <3>1. CASE d[a].type = "string"
      <4>1. d[a] = Data[a] /\ e[b] = [d[a] EXCEPT !.indent = @ + n]
        BY <2>2, <3>1, CopiedTypes, CopiedString
      <4>2. d[a] \in [type : {"string"}, text : Nat, indent : Int]
        BY <3>1, <4>1, DataIs, DataFacts
      <4>3. e[b] \in [type : {"string"}, text : Nat, indent : Int]
        BY <4>1, <4>2
      <4> QED BY <4>3
    <3>2. CASE d[a].type = "conditional"
      <4>1. Data[a].type = "conditional"
        BY <3>2, CopiedTypes
      <4>2. /\ e[b].nodes = ShiftAll(Data[a].nodes, d, n) /\ Data[a].nodes \in Segments(Data)
            /\ e[b] = ConditionalData(e[b].nodes, e[b].guard)
        BY <2>2, <4>1, CopiedCondition
      <4>3. e[b].nodes \in Segments(e)
        BY <4>2, ShiftAllTyped
      <4> QED BY <4>2, <4>3
    <3> QED BY <3>1, <3>2, CopiedTypes
  <2> QED BY <2>1, <2>2, CopiedIndex
<1>4. DataType(e)
  BY <1>1, <1>3 DEF DataType, IsSeq
<1> QED BY <1>1, <1>2, <1>4 DEF Heap

LEMMA InsideCopied ==
  ASSUME NEW d, Heap(d), NEW n \in Int, NEW e, Copied(d, e, n), NEW c, NEW a \in DOMAIN Data
  PROVE  /\ <<"data", a>> \in Units(d, c) /\ <<"data", Len(d) + a>> \in Units(e, c)
         /\ Inside(d, c, <<"data", a>>) \in Segments(Data)
         /\ Inside(e, c, <<"data", Len(d) + a>>) = ShiftAll(Inside(d, c, <<"data", a>>), d, n)
<1>1. /\ a \in DOMAIN d /\ d[a] = Data[a] /\ Len(d) + a \in DOMAIN e
      /\ e[Len(d) + a].type = Data[a].type
      /\ Data[a].type = "string" \/ Data[a].type = "conditional"
  BY CopiedTypes
<1> DEFINE b == Len(d) + a
           old == Inside(d, c, <<"data", a>>)
           new == Inside(e, c, <<"data", b>>)
<1>2. /\ <<"data", a>> \in Units(d, c) /\ <<"data", b>> \in Units(e, c)
      /\ old = (IF d[a].type = "string" THEN <<>> ELSE d[a].nodes)
      /\ new = (IF e[b].type = "string" THEN <<>> ELSE e[b].nodes)
  BY <1>1, DataUnit
<1> HIDE DEF b, old, new
<1>3. CASE Data[a].type = "string"
  <2>1. old = <<>> /\ new = <<>>
    BY <1>1, <1>2, <1>3 DEF b
  <2>2. <<>> \in Segments(Data)
    BY NoNodes
  <2>3. ShiftAll(<<>>, d, n) \in Segments(e) /\ Len(ShiftAll(<<>>, d, n)) = 0
    BY <2>2, ShiftAllTyped, EmptyFacts DEF Empty
  <2>4. ShiftAll(<<>>, d, n) = <<>>
    BY <2>3, SegmentFacts, EmptyIs DEF Empty
  <2> QED BY <1>2, <2>1, <2>2, <2>4 DEF b, old, new
<1>4. CASE Data[a].type = "conditional"
  <2>1. e[b].nodes = ShiftAll(Data[a].nodes, d, n) /\ Data[a].nodes \in Segments(Data)
    BY <1>4, CopiedCondition DEF b
  <2>2. old = Data[a].nodes /\ new = e[b].nodes
    BY <1>1, <1>2, <1>4 DEF b
  <2> QED BY <1>2, <2>1, <2>2 DEF b, old, new
<1> QED BY <1>1, <1>3, <1>4

(* The unit that a unit is a copy of, or the unit.                         *)
Base(d, u) == IF u[1] = "data" /\ u[2] \notin DOMAIN d THEN <<"data", u[2] - Len(d)>> ELSE u

LEMMA BaseFacts ==
  ASSUME NEW d, Heap(d), NEW n \in Int, NEW e, Copied(d, e, n), NEW c
  PROVE  /\ \A u \in Units(d, c) : Base(d, u) = u
         /\ \A a \in DOMAIN Data : Base(d, <<"data", Len(d) + a>>) = <<"data", a>>
         /\ \A u \in Units(e, c) :
              u \in Units(d, c) \/ \E a \in DOMAIN Data : u = <<"data", Len(d) + a>>
<1>1. ASSUME NEW u \in Units(d, c)
      PROVE  Base(d, u) = u
  BY UnitCases DEF Base
<1>2. ASSUME NEW a \in DOMAIN Data
      PROVE  Base(d, <<"data", Len(d) + a>>) = <<"data", a>>
  <2>1. /\ Len(d) \in Nat /\ DOMAIN d = 1 .. Len(d) /\ a \in Nat /\ a >= 1
    BY DataIs, DataSeq DEF Heap
  <2>2. Len(d) + a \notin DOMAIN d /\ (Len(d) + a) - Len(d) = a
    BY <2>1
  <2> QED BY <2>2 DEF Base
<1>3. ASSUME NEW u \in Units(e, c)
      PROVE  u \in Units(d, c) \/ \E a \in DOMAIN Data : u = <<"data", Len(d) + a>>
  <2>1. CASE u[1] = "data" /\ u[2] \in DOMAIN e /\ u = <<"data", u[2]>>
    BY <2>1, CopiedIndex, DataUnit
  <2>2. CASE u[1] = "argument" /\ u[2] \in DOMAIN c.args /\ u = <<"argument", u[2]>>
    BY <2>2, ArgumentUnit
  <2> QED BY <2>1, <2>2, UnitCases
<1> QED BY <1>1, <1>2, <1>3

LEMMA BaseRefers ==
  ASSUME NEW d, Heap(d), NEW n \in Int, NEW e, Copied(d, e, n), NEW c, CallType(c),
         NEW u \in Units(e, c), NEW v \in Refers(e, c, u)
  PROVE  Base(d, u) \in Units(d, c) /\ Base(d, v) \in Refers(d, c, Base(d, u))
<1>1. CASE u \in Units(d, c)
  <2>1. Base(d, u) = u /\ Refers(e, c, u) = Refers(d, c, u)
    BY <1>1, BaseFacts, InsideGrows DEF Copied
  <2>2. v \in Units(d, c)
    BY <1>1, <2>1, RefersInside
  <2>3. Base(d, v) = v
    BY <2>2, BaseFacts
  <2> QED BY <1>1, <2>1, <2>3
<1>2. ASSUME NEW a \in DOMAIN Data, u = <<"data", Len(d) + a>>
      PROVE  Base(d, u) \in Units(d, c) /\ Base(d, v) \in Refers(d, c, Base(d, u))
  <2> DEFINE w == <<"data", a>>
             old == Inside(d, c, w)
             new == Inside(e, c, u)
  <2>1. w \in Units(d, c) /\ old \in Segments(Data) /\ new = ShiftAll(old, d, n)
    BY <1>2, InsideCopied
  <2>2. Base(d, u) = w
    BY <1>2, BaseFacts
  <2>3. PICK k \in DOMAIN new :
          \/ new[k].type \in {"string", "conditional"} /\ v = <<"data", new[k].data>>
          \/ IsArgument(c, new[k]) /\ v = <<"argument", new[k].index + 1>>
    BY RefersFrom
  <2>4. /\ k \in DOMAIN old => (old[k].type \in {"string", "conditional"} => <<"data", old[k].data>> \in Refers(d, c, w))
        /\ k \in DOMAIN old => (IsArgument(c, old[k]) => <<"argument", old[k].index + 1>> \in Refers(d, c, w))
    BY RefersTo
  <2> HIDE DEF old, new, w
  <2>5. k \in DOMAIN old /\ new[k] = Shift(old[k], d, n)
    BY <2>1, <2>3, ShiftAllTyped
  <2>6. old[k] \in NodeType(Data)
    BY <2>1, <2>5, SegmentFacts
  <2>7. new[k].type = old[k].type
    BY <2>5, <2>6, ShiftTyped
  <2>8. CASE new[k].type \in {"string", "conditional"} /\ v = <<"data", new[k].data>>
    <3>1. old[k].data \in DOMAIN Data /\ new[k].data = Len(d) + old[k].data
      BY <2>5, <2>6, <2>7, <2>8, ShiftTyped
    <3>2. Base(d, v) = <<"data", old[k].data>>
      BY <2>8, <3>1, BaseFacts
    <3> QED BY <2>1, <2>2, <2>4, <2>5, <2>7, <2>8, <3>2
  <2>9. CASE IsArgument(c, new[k]) /\ v = <<"argument", new[k].index + 1>>
    <3>1. new[k].type = "wildcard"
      BY <2>9 DEF IsArgument
    <3>2. new[k].index = old[k].index
      BY <2>5, <2>6, <2>7, <3>1, ShiftTyped
    <3>3. IsArgument(c, old[k])
      BY <2>7, <2>9, <3>2 DEF IsArgument
    <3>4. Base(d, v) = v
      BY <2>9 DEF Base
    <3> QED BY <2>1, <2>2, <2>4, <2>5, <2>9, <3>2, <3>3, <3>4
  <2> QED BY <2>3, <2>8, <2>9
<1> QED BY <1>1, <1>2, BaseFacts

LEMMA GroundedCopied ==
  ASSUME NEW d, NEW c, Grounded(d, c), NEW n \in Int, NEW e, Copied(d, e, n)
  PROVE  Grounded(e, c)
<1>1. Heap(d) /\ CallType(c) /\ Founded(d, c) /\ Heap(e)
  BY HeapCopied DEF Grounded
<1>2. ASSUME NEW S \in SUBSET Units(e, c), S # {}
      PROVE  \E u \in S : Refers(e, c, u) \cap S = {}
  <2> DEFINE P == {Base(d, u) : u \in S}
  <2>1. P \subseteq Units(d, c) /\ P # {}
    <3>1. \A u \in S : Base(d, u) \in Units(d, c)
      BY <1>1, BaseFacts, InsideCopied
    <3> QED BY <1>2, <3>1
  <2>2. PICK p \in P : Refers(d, c, p) \cap P = {}
    <3> HIDE DEF P
    <3> QED BY <1>1, <2>1, MinimalUnit
  <2>3. PICK u \in S : p = Base(d, u)
    OBVIOUS
  <2>4. ASSUME NEW v \in Refers(e, c, u), v \in S
        PROVE  FALSE
    <3>1. Base(d, v) \in P
      BY <2>4
    <3>2. Base(d, v) \in Refers(d, c, p)
      BY <1>1, <2>3, BaseRefers
    <3> HIDE DEF P
    <3> QED BY <2>2, <3>1, <3>2
  <2> QED BY <2>4
<1>3. Founded(e, c)
  BY <1>2 DEF Founded
<1> QED BY <1>1, <1>3 DEF Grounded

-----------------------------------------------------------------------------
(* Maps over a concatenation.                                              *)
MapOn(s, f) == f = [k \in DOMAIN s |-> f[k]]

LEMMA MapCat ==
  ASSUME NEW s, NEW t, IsSeq(s), IsSeq(t), NEW f, NEW g, NEW h,
         MapOn(s, f), MapOn(t, g), MapOn(Cat(s, t), h),
         \A k \in 1 .. Len(s) : h[k] = f[k],
         \A k \in 1 .. Len(t) : h[Len(s) + k] = g[k]
  PROVE  IsSeq(f) /\ IsSeq(g) /\ h = Cat(f, g) /\ Len(f) = Len(s) /\ Len(g) = Len(t)
<1>1. /\ Len(s) \in Nat /\ DOMAIN s = 1 .. Len(s) /\ Len(t) \in Nat /\ DOMAIN t = 1 .. Len(t)
  BY IsSeqFacts
<1>2. Len(Cat(s, t)) = Len(s) + Len(t) /\ DOMAIN Cat(s, t) = 1 .. Len(Cat(s, t))
  BY CatFacts, IsSeqFacts
<1>3. IsSeq(f) /\ Len(f) = Len(s) /\ IsSeq(g) /\ Len(g) = Len(t)
  BY <1>1, SeqMade DEF MapOn
<1>4. IsSeq(h) /\ Len(h) = Len(s) + Len(t)
  <2>1. Len(s) + Len(t) \in Nat /\ h = [k \in 1 .. Len(s) + Len(t) |-> h[k]]
    BY <1>1, <1>2 DEF MapOn
  <2> QED BY <2>1, SeqMade
<1>5. /\ IsSeq(Cat(f, g)) /\ Len(Cat(f, g)) = Len(s) + Len(t)
      /\ \A k \in 1 .. Len(s) : Cat(f, g)[k] = f[k]
      /\ \A k \in 1 .. Len(t) : Cat(f, g)[Len(s) + k] = g[k]
  <2>1. /\ IsSeq(Cat(f, g)) /\ Len(Cat(f, g)) = Len(f) + Len(g)
        /\ \A k \in 1 .. Len(f) : Cat(f, g)[k] = f[k]
        /\ \A k \in 1 .. Len(g) : Cat(f, g)[Len(f) + k] = g[k]
    BY <1>3, CatFacts
  <2> QED BY <1>3, <2>1
<1>6. ASSUME NEW k \in 1 .. Len(h)
      PROVE  h[k] = Cat(f, g)[k]
  <2>1. CASE k \in 1 .. Len(s)
    BY <1>5, <2>1
  <2>2. CASE k \notin 1 .. Len(s)
    <3>1. k - Len(s) \in 1 .. Len(t) /\ Len(s) + (k - Len(s)) = k
      BY <1>1, <1>4, <2>2
    <3>2. h[Len(s) + (k - Len(s))] = g[k - Len(s)] /\ Cat(f, g)[Len(s) + (k - Len(s))] = g[k - Len(s)]
      BY <1>5, <3>1
    <3> QED BY <3>1, <3>2
  <2> QED BY <2>1, <2>2
<1>7. h = Cat(f, g)
  BY <1>4, <1>5, <1>6, SameSeq
<1> QED BY <1>3, <1>7

LEMMA MapOne ==
  ASSUME NEW e, NEW f, f = [k \in DOMAIN One(e) |-> f[k]]
  PROVE  f = One(f[1])
<1>1. Len(One(e)) = 1 /\ DOMAIN One(e) = 1 .. 1
  BY OneFacts, IsSeqFacts
<1>2. IsSeq(f) /\ Len(f) = 1
  BY <1>1, SeqMade
<1>3. IsSeq(One(f[1])) /\ Len(One(f[1])) = 1 /\ One(f[1])[1] = f[1]
  BY OneFacts
<1>4. \A k \in 1 .. 1 : k = 1
  OBVIOUS
<1> QED BY <1>2, <1>3, <1>4, SameSeq

LEMMA MapNone ==
  ASSUME NEW f, f = [k \in DOMAIN Empty |-> f[k]]
  PROVE  f = Empty
<1>1. DOMAIN Empty = 1 .. 0
  BY EmptyFacts, IsSeqFacts
<1>2. IsSeq(f) /\ Len(f) = 0
  BY <1>1, SeqMade
<1> QED BY <1>2, EmptyIs

-----------------------------------------------------------------------------
(* Content of a concatenation.                                             *)
LEMMA ContentIsSeq ==
  ASSUME NEW d, NEW seg, IsSeq(seg)
  PROVE  IsSeq(Content(d, seg))
<1> DEFINE f == Content(d, seg)
<1>1. Len(seg) \in Nat /\ DOMAIN seg = 1 .. Len(seg)
  BY IsSeqFacts
<1>2. f = [k \in 1 .. Len(seg) |-> f[k]]
  BY <1>1 DEF Content
<1> HIDE DEF f
<1>3. IsSeq(f)
  BY <1>1, <1>2, SeqMade
<1> QED BY <1>3 DEF f

LEMMA ContentCat ==
  ASSUME NEW d, NEW s, NEW t, IsSeq(s), IsSeq(t)
  PROVE  Content(d, Cat(s, t)) = Cat(Content(d, s), Content(d, t))
<1> DEFINE f == Content(d, s)
           g == Content(d, t)
           h == Content(d, Cat(s, t))
           X(node) == See(d, Seen(d, "content"), node, "content")
<1>1. /\ f = [k \in DOMAIN s |-> X(s[k])] /\ g = [k \in DOMAIN t |-> X(t[k])]
      /\ h = [k \in DOMAIN Cat(s, t) |-> X(Cat(s, t)[k])]
  BY DEF Content
<1> HIDE DEF f, g, h, X
<1>2. /\ Len(s) \in Nat /\ DOMAIN s = 1 .. Len(s) /\ Len(t) \in Nat /\ DOMAIN t = 1 .. Len(t)
      /\ Len(Cat(s, t)) = Len(s) + Len(t) /\ DOMAIN Cat(s, t) = 1 .. Len(s) + Len(t)
      /\ \A k \in 1 .. Len(s) : Cat(s, t)[k] = s[k]
      /\ \A k \in 1 .. Len(t) : Cat(s, t)[Len(s) + k] = t[k]
  BY CatFacts, IsSeqFacts
<1>3. \A k \in 1 .. Len(s) : h[k] = f[k]
  <2>1. \A k \in 1 .. Len(s) : k \in DOMAIN s /\ k \in DOMAIN Cat(s, t)
    BY <1>2
  <2> QED BY <1>1, <1>2, <2>1
<1>4. \A k \in 1 .. Len(t) : h[Len(s) + k] = g[k]
  <2>1. \A k \in 1 .. Len(t) : k \in DOMAIN t /\ Len(s) + k \in DOMAIN Cat(s, t)
    BY <1>2
  <2> QED BY <1>1, <1>2, <2>1
<1>5. MapOn(s, f) /\ MapOn(t, g) /\ MapOn(Cat(s, t), h)
  BY <1>1 DEF MapOn
<1>6. h = Cat(f, g)
  BY <1>3, <1>4, <1>5, MapCat
<1> QED BY <1>6 DEF f, g, h

LEMMA ContentNone ==
  ASSUME NEW d
  PROVE  Content(d, Empty) = Empty
<1> DEFINE f == Content(d, Empty)
<1>1. f = [k \in DOMAIN Empty |-> f[k]]
  BY DEF Content
<1> HIDE DEF f
<1>2. f = Empty
  BY <1>1, MapNone
<1> QED BY <1>2 DEF f

-----------------------------------------------------------------------------
(* Pages.                                                                  *)
LEMMA MaximumFacts ==
  ASSUME NEW m \in Nat, NEW n \in Int
  PROVE  Maximum(m, n) \in Nat /\ Maximum(n, m) = Maximum(m, n)
BY DEF Maximum

LEMMA PageTyped == Page \in Pages /\ Page.column = 0
<1>1. <<>> \in Seq(Nat \X Nat \X Nat)
  BY EmptySeq
<1> QED BY <1>1 DEF Page, Pages

LEMMA PageFields ==
  ASSUME NEW page \in Pages
  PROVE  /\ page.line \in Nat /\ page.breaks \in Nat /\ page.column \in Nat
         /\ page.texts \in Seq(Nat \X Nat \X Nat)
         /\ page = [line |-> page.line, breaks |-> page.breaks, column |-> page.column,
                    texts |-> page.texts]
<1> DEFINE T == Seq(Nat \X Nat \X Nat)
<1>1. page \in [line : Nat, breaks : Nat, column : Nat, texts : T]
  BY DEF Pages
<1> HIDE DEF T
<1>2. /\ page.line \in Nat /\ page.breaks \in Nat /\ page.column \in Nat /\ page.texts \in T
      /\ page = [line |-> page.line, breaks |-> page.breaks, column |-> page.column,
                 texts |-> page.texts]
  BY <1>1
<1> QED BY <1>2 DEF T

LEMMA PageMade ==
  ASSUME NEW l \in Nat, NEW b \in Nat, NEW c \in Nat, NEW t \in Seq(Nat \X Nat \X Nat)
  PROVE  [line |-> l, breaks |-> b, column |-> c, texts |-> t] \in Pages
<1> DEFINE T == Seq(Nat \X Nat \X Nat)
<1>1. t \in T
  OBVIOUS
<1> HIDE DEF T
<1>2. [line |-> l, breaks |-> b, column |-> c, texts |-> t]
        \in [line : Nat, breaks : Nat, column : Nat, texts : T]
  BY <1>1
<1> QED BY <1>2 DEF Pages, T

LEMMA FeedTyped ==
  ASSUME NEW page \in Pages, NEW node, node.count \in Nat
  PROVE  Feed(page, node) \in Pages /\ Feed(page, node).column = 0
<1> DEFINE b == Maximum(page.breaks, node.count)
<1>1. /\ page.line \in Nat /\ page.breaks \in Nat /\ page.texts \in Seq(Nat \X Nat \X Nat)
      /\ page = [line |-> page.line, breaks |-> page.breaks, column |-> page.column,
                 texts |-> page.texts]
  BY PageFields
<1>2. b \in Nat
  BY <1>1 DEF Maximum
<1>3. Feed(page, node) = [page EXCEPT !.breaks = b, !.column = 0]
  BY DEF Feed
<1> HIDE DEF b
<1>4. Feed(page, node) = [line |-> page.line, breaks |-> b, column |-> 0, texts |-> page.texts]
  BY <1>1, <1>3
<1> QED BY <1>1, <1>2, <1>4, PageMade

LEMMA WriteTyped ==
  ASSUME NEW page \in Pages, NEW text \in Nat, NEW n \in Int
  PROVE  Write(page, text, n) \in Pages /\ Write(page, text, n).column = Maximum(page.column, n) + text
<1> DEFINE line == page.line + page.breaks
           column == Maximum(page.column, n)
           texts == Append(page.texts, <<line, column, text>>)
<1>1. /\ page.line \in Nat /\ page.breaks \in Nat /\ page.column \in Nat
      /\ page.texts \in Seq(Nat \X Nat \X Nat)
  BY PageFields
<1>2. line \in Nat /\ column \in Nat /\ column + text \in Nat
  BY <1>1 DEF Maximum
<1>3. Write(page, text, n) = [line |-> line, breaks |-> 0, column |-> column + text, texts |-> texts]
  BY DEF Write
<1> HIDE DEF line, column
<1>4. texts \in Seq(Nat \X Nat \X Nat)
  <2>1. <<line, column, text>> \in Nat \X Nat \X Nat
    BY <1>2
  <2> QED BY <1>1, <2>1, AppendProperties
<1> HIDE DEF texts
<1>5. Write(page, text, n) \in Pages
  BY <1>2, <1>3, <1>4, PageMade
<1>6. Write(page, text, n).column = column + text
  BY <1>3
<1> QED BY <1>5, <1>6 DEF column

IsWritten(node) == node.type \in Texts \cup {"break"}

LEMMA PutTyped ==
  ASSUME NEW d, DataType(d), NEW node \in NodeType(d), IsWritten(node), NEW page \in Pages
  PROVE  /\ Put(d, page, node) \in Pages
         /\ node.type = "break" => Put(d, page, node).column = 0
         /\ node.type \in Texts =>
              Put(d, page, node).column = Maximum(page.column, Info(d, node).indent) + Info(d, node).text
<1>1. CASE node.type = "break"
  <2>1. node.count \in Nat /\ Put(d, page, node) = Feed(page, node)
    BY <1>1, NodeFacts DEF Put
  <2> QED BY <1>1, <2>1, FeedTyped DEF Texts
<1>2. CASE node.type \in Texts
  <2>1. Info(d, node).text \in Nat /\ Info(d, node).indent \in Int
    BY <1>2, InfoFacts
  <2>2. Put(d, page, node) = Write(page, Info(d, node).text, Info(d, node).indent)
    BY <1>2 DEF Put, Texts
  <2> QED BY <1>2, <2>1, <2>2, WriteTyped DEF Texts
<1> QED BY <1>1, <1>2 DEF IsWritten

-----------------------------------------------------------------------------
(* What generate makes of one more node.                                   *)
PutAll(d, seg) == [k \in DOMAIN seg |-> [page \in Pages |-> Put(d, page, seg[k])]]

LEMMA PutAllCat ==
  ASSUME NEW d, NEW s, NEW t, IsSeq(s), IsSeq(t)
  PROVE  IsSeq(PutAll(d, s)) /\ IsSeq(PutAll(d, t)) /\ PutAll(d, Cat(s, t)) = Cat(PutAll(d, s), PutAll(d, t))
<1> DEFINE f == PutAll(d, s)
           g == PutAll(d, t)
           h == PutAll(d, Cat(s, t))
           X(node) == [page \in Pages |-> Put(d, page, node)]
<1>1. /\ f = [k \in DOMAIN s |-> X(s[k])] /\ g = [k \in DOMAIN t |-> X(t[k])]
      /\ h = [k \in DOMAIN Cat(s, t) |-> X(Cat(s, t)[k])]
  BY DEF PutAll
<1> HIDE DEF f, g, h, X
<1>2. /\ Len(s) \in Nat /\ DOMAIN s = 1 .. Len(s) /\ Len(t) \in Nat /\ DOMAIN t = 1 .. Len(t)
      /\ Len(Cat(s, t)) = Len(s) + Len(t) /\ DOMAIN Cat(s, t) = 1 .. Len(s) + Len(t)
      /\ \A k \in 1 .. Len(s) : Cat(s, t)[k] = s[k]
      /\ \A k \in 1 .. Len(t) : Cat(s, t)[Len(s) + k] = t[k]
  BY CatFacts, IsSeqFacts
<1>3. \A k \in 1 .. Len(s) : h[k] = f[k]
  <2>1. \A k \in 1 .. Len(s) : k \in DOMAIN s /\ k \in DOMAIN Cat(s, t)
    BY <1>2
  <2> QED BY <1>1, <1>2, <2>1
<1>4. \A k \in 1 .. Len(t) : h[Len(s) + k] = g[k]
  <2>1. \A k \in 1 .. Len(t) : k \in DOMAIN t /\ Len(s) + k \in DOMAIN Cat(s, t)
    BY <1>2
  <2> QED BY <1>1, <1>2, <2>1
<1>5. MapOn(s, f) /\ MapOn(t, g) /\ MapOn(Cat(s, t), h)
  BY <1>1 DEF MapOn
<1>6. h = Cat(f, g) /\ IsSeq(f) /\ IsSeq(g)
  BY <1>3, <1>4, <1>5, MapCat
<1> QED BY <1>6 DEF f, g, h

LEMMA PutAllTyped ==
  ASSUME NEW d, DataType(d), NEW seg \in Segments(d), Written(seg)
  PROVE  PutAll(d, seg) \in Seq(PageSteps)
<1> DEFINE f == PutAll(d, seg)
<1>1. Len(seg) \in Nat /\ DOMAIN seg = 1 .. Len(seg) /\ \A k \in DOMAIN seg : seg[k] \in NodeType(d)
  BY SegmentFacts
<1>2. ASSUME NEW k \in DOMAIN seg
      PROVE  f[k] \in PageSteps
  <2>1. seg[k] \in NodeType(d) /\ IsWritten(seg[k])
    BY <1>1 DEF Written, IsWritten
  <2>2. \A page \in Pages : Put(d, page, seg[k]) \in Pages
    BY <2>1, PutTyped
  <2>3. f[k] = [page \in Pages |-> Put(d, page, seg[k])]
    BY DEF PutAll
  <2> QED BY <2>2, <2>3 DEF PageSteps
<1>3. f = [k \in 1 .. Len(seg) |-> f[k]]
  BY <1>1 DEF PutAll
<1> HIDE DEF f
<1>4. IsSeq(f) /\ Len(f) = Len(seg)
  BY <1>1, <1>3, SeqMade
<1>5. f \in Seq(PageSteps)
  BY <1>1, <1>2, <1>4, SeqTyped
<1> QED BY <1>5 DEF f

LEMMA GenerateTyped ==
  ASSUME NEW d, DataType(d), NEW seg \in Segments(d), Written(seg)
  PROVE  Generate(d, seg) \in Pages
<1>1. Generate(d, seg) = Through(PutAll(d, seg), Page)
  BY DEF Generate, PutAll
<1> QED BY <1>1, PutAllTyped, PageTyped, ThroughPages

LEMMA GenerateOne ==
  ASSUME NEW d, DataType(d), NEW seg \in Segments(d), Written(seg), NEW node
  PROVE  Generate(d, Cat(seg, One(node))) = Put(d, Generate(d, seg), node)
<1> DEFINE f == PutAll(d, One(node))
<1>1. /\ Generate(d, seg) = Through(PutAll(d, seg), Page)
      /\ Generate(d, Cat(seg, One(node))) = Through(PutAll(d, Cat(seg, One(node))), Page)
  BY DEF Generate, PutAll
<1>2. IsSeq(seg) /\ IsSeq(One(node)) /\ One(node)[1] = node
  BY SegmentFacts, OneFacts
<1>3. /\ PutAll(d, Cat(seg, One(node))) = Cat(PutAll(d, seg), f)
      /\ IsSeq(PutAll(d, seg)) /\ IsSeq(f)
  BY <1>2, PutAllCat
<1>4. f = One(f[1]) /\ f[1] = [page \in Pages |-> Put(d, page, node)]
  <2>1. f = [k \in DOMAIN One(node) |-> f[k]]
    BY DEF PutAll
  <2>2. 1 \in DOMAIN One(node)
    BY OneFacts, IsSeqFacts
  <2>3. f[1] = [page \in Pages |-> Put(d, page, node)]
    BY <1>2, <2>2 DEF PutAll
  <2> HIDE DEF f
  <2>4. f = One(f[1])
    BY <2>1, MapOne
  <2> QED BY <2>3, <2>4
<1> HIDE DEF f
<1>5. Through(Cat(PutAll(d, seg), f), Page) = Through(f, Through(PutAll(d, seg), Page))
  BY <1>3, ThroughCat
<1>6. Through(f, Generate(d, seg)) = f[1][Generate(d, seg)]
  BY <1>4, ThroughOne
<1>7. Generate(d, seg) \in Pages
  BY GenerateTyped
<1> QED BY <1>1, <1>3, <1>4, <1>5, <1>6, <1>7

LEMMA GenerateNone ==
  ASSUME NEW d
  PROVE  Generate(d, Empty) = Page
<1> DEFINE f == PutAll(d, Empty)
<1>1. f = [k \in DOMAIN Empty |-> f[k]]
  BY DEF PutAll
<1>2. Generate(d, Empty) = Through(f, Page)
  BY DEF Generate, PutAll
<1> HIDE DEF f
<1>3. f = Empty
  BY <1>1, MapNone
<1> QED BY <1>2, <1>3, ThroughNone

LEMMA GenerateGrows ==
  ASSUME NEW d, NEW e, Extends(d, e), NEW seg \in Segments(d)
  PROVE  Generate(e, seg) = Generate(d, seg)
<1>1. ASSUME NEW k \in DOMAIN seg, NEW page
      PROVE  Put(e, page, seg[k]) = Put(d, page, seg[k])
  <2>1. Info(e, seg[k]) = Info(d, seg[k])
    BY SegmentFacts, InfoGrows
  <2> QED BY <2>1 DEF Put
<1>2. [k \in DOMAIN seg |-> [page \in Pages |-> Put(e, page, seg[k])]]
        = [k \in DOMAIN seg |-> [page \in Pages |-> Put(d, page, seg[k])]]
  BY <1>1
<1> QED BY <1>2 DEF Generate

-----------------------------------------------------------------------------
(* A sequence on both sides of a place.                                    *)
Before(s, j) == SubSeq(s, 1, j - 1)
Beyond(s, j) == SubSeq(s, j, Len(s))

LEMMA SplitFacts ==
  ASSUME NEW S, NEW s \in Seq(S), NEW j \in 1 .. Len(s) + 1
  PROVE  /\ Before(s, j) \in Seq(S) /\ Len(Before(s, j)) = j - 1
         /\ Beyond(s, j) \in Seq(S) /\ Len(Beyond(s, j)) = Len(s) + 1 - j
         /\ \A k \in 1 .. j - 1 : Before(s, j)[k] = s[k]
         /\ \A k \in 1 .. Len(s) + 1 - j : Beyond(s, j)[k] = s[j + k - 1]
<1>1. Len(s) \in Nat /\ j \in Int /\ j - 1 \in Int /\ 1 \in Int /\ \A k \in 1 .. Len(s) : s[k] \in S
  BY SeqIs
<1>2. (\A k \in 1 .. j - 1 : s[k] \in S) /\ (\A k \in j .. Len(s) : s[k] \in S)
  BY <1>1
<1>3. /\ Before(s, j) \in Seq(S)
      /\ Len(Before(s, j)) = IF 1 <= j - 1 THEN (j - 1) - 1 + 1 ELSE 0
      /\ \A k \in 1 .. (j - 1) - 1 + 1 : Before(s, j)[k] = s[1 + k - 1]
  BY <1>1, <1>2, SubSeqProperties DEF Before
<1>4. /\ Beyond(s, j) \in Seq(S)
      /\ Len(Beyond(s, j)) = IF j <= Len(s) THEN Len(s) - j + 1 ELSE 0
      /\ \A k \in 1 .. Len(s) - j + 1 : Beyond(s, j)[k] = s[j + k - 1]
  BY <1>1, <1>2, SubSeqProperties DEF Beyond
<1>5. (j - 1) - 1 + 1 = j - 1 /\ Len(s) - j + 1 = Len(s) + 1 - j /\ \A k \in 1 .. j - 1 : 1 + k - 1 = k
  BY <1>1
<1>6. Len(Before(s, j)) = j - 1 /\ Len(Beyond(s, j)) = Len(s) + 1 - j
  BY <1>1, <1>3, <1>4
<1>7. \A k \in 1 .. j - 1 : Before(s, j)[k] = s[k]
  BY <1>3, <1>5
<1>8. \A k \in 1 .. Len(s) + 1 - j : Beyond(s, j)[k] = s[j + k - 1]
  BY <1>4, <1>5
<1> QED BY <1>3, <1>4, <1>6, <1>7, <1>8

LEMMA StepFacts ==
  ASSUME NEW S, NEW s \in Seq(S), NEW j \in 1 .. Len(s)
  PROVE  /\ Before(s, j + 1) = Cat(Before(s, j), One(s[j]))
         /\ Beyond(s, j) = Cat(One(s[j]), Beyond(s, j + 1))
<1>1. Len(s) \in Nat /\ j \in 1 .. Len(s) + 1 /\ j + 1 \in 1 .. Len(s) + 1
  BY SeqIs
<1>2. Beyond(s, j) = Cat(One(s[j]), Beyond(s, j + 1))
  <2>1. Len(s) \in j .. Len(s)
    BY <1>1
  <2> QED BY <2>1, SubSeqRecursiveFirst DEF Beyond, Cat, One
<1>3. Before(s, j + 1) = Cat(Before(s, j), One(s[j]))
  <2>1. 1 \in 1 .. Len(s) /\ j \in 1 .. Len(s) /\ (j + 1) - 1 = j
    BY <1>1
  <2>2. SubSeq(s, 1, j) = SubSeq(s, 1, j - 1) \o <<s[j]>>
    BY <2>1, SubSeqRecursiveSecond
  <2> QED BY <2>1, <2>2 DEF Before, Cat, One
<1> QED BY <1>2, <1>3

LEMMA SplicedFacts ==
  ASSUME NEW S, NEW b \in Seq(S), NEW seg \in Seq(S), NEW r \in Seq(S), NEW j, j = Len(b) + 1
  PROVE  LET t == Cat(Cat(b, seg), r)
         IN t \in Seq(S) /\ j \in 1 .. Len(t) + 1 /\ Before(t, j) = b /\ Beyond(t, j) = Cat(seg, r)
<1> DEFINE t == Cat(Cat(b, seg), r)
           u == Cat(seg, r)
<1>1. IsSeq(b) /\ IsSeq(seg) /\ IsSeq(r) /\ Len(b) \in Nat /\ Len(seg) \in Nat /\ Len(r) \in Nat
  BY SeqIs
<1>2. t = Cat(b, u)
  BY <1>1, CatAssoc
<1>3. t \in Seq(S) /\ u \in Seq(S) /\ IsSeq(u)
  BY CatTyped, SeqIs
<1>4. Len(u) = Len(seg) + Len(r)
  BY <1>1, CatFacts
<1> HIDE DEF t, u
<1>5. /\ Len(t) = Len(b) + Len(u)
      /\ (\A k \in 1 .. Len(b) : t[k] = b[k]) /\ (\A k \in 1 .. Len(u) : t[Len(b) + k] = u[k])
  BY <1>1, <1>2, <1>3, CatFacts
<1>6. Len(u) \in Nat /\ Len(t) \in Nat /\ j \in 1 .. Len(t) + 1
  BY <1>1, <1>4, <1>5
<1>7. /\ Before(t, j) \in Seq(S) /\ Len(Before(t, j)) = j - 1
      /\ Beyond(t, j) \in Seq(S) /\ Len(Beyond(t, j)) = Len(t) + 1 - j
      /\ \A k \in 1 .. j - 1 : Before(t, j)[k] = t[k]
      /\ \A k \in 1 .. Len(t) + 1 - j : Beyond(t, j)[k] = t[j + k - 1]
  BY <1>3, <1>6, SplitFacts
<1>8. j - 1 = Len(b) /\ Len(t) + 1 - j = Len(u) /\ \A k \in 1 .. Len(u) : j + k - 1 = Len(b) + k
  BY <1>1, <1>5, <1>6
<1>9. Before(t, j) = b
  <2>1. IsSeq(Before(t, j)) /\ Len(Before(t, j)) = Len(b)
    BY <1>7, <1>8, SeqIs
  <2>2. \A k \in 1 .. Len(b) : Before(t, j)[k] = b[k]
    BY <1>5, <1>7, <1>8
  <2> QED BY <1>1, <2>1, <2>2, SameSeq
<1>10. Beyond(t, j) = u
  <2>1. IsSeq(Beyond(t, j)) /\ Len(Beyond(t, j)) = Len(u)
    BY <1>7, <1>8, SeqIs
  <2>2. \A k \in 1 .. Len(u) : Beyond(t, j)[k] = u[k]
    BY <1>5, <1>7, <1>8
  <2> QED BY <1>3, <2>1, <2>2, SameSeq
<1> QED BY <1>3, <1>6, <1>9, <1>10 DEF t, u

-----------------------------------------------------------------------------
(* The scan: its segment on both sides of its place.                       *)
Behind == Before(nodes, i)
Ahead == Beyond(nodes, i)
Rest == Beyond(nodes, i + 1)

CallsGrounded ==
  /\ IsSeq(calls) /\ (pc = "scan" => Len(calls) # 0)
  /\ \A k \in 1 .. Len(calls) : Grounded(data, calls[k])

Typed == TypeOK /\ Heap(data) /\ CallsGrounded

LEMMA ScanFacts ==
  ASSUME Typed
  PROVE  /\ Behind \in Segments(data) /\ Ahead \in Segments(data) /\ Len(Behind) = i - 1
         /\ i \in Nat /\ Len(nodes) \in Nat /\ DOMAIN nodes = 1 .. Len(nodes)
         /\ Scanning =>
              /\ i \in DOMAIN nodes /\ i + 1 \in 1 .. Len(nodes) + 1
              /\ nodes[i] \in NodeType(data) /\ Rest \in Segments(data)
              /\ Ahead = Cat(One(nodes[i]), Rest)
              /\ Before(nodes, i + 1) = Cat(Behind, One(nodes[i]))
<1> DEFINE S == NodeType(data)
<1>1. nodes \in Seq(S) /\ i \in 1 .. Len(nodes) + 1
  BY DEF Typed, TypeOK, Segments
<1>2. Len(nodes) \in Nat /\ DOMAIN nodes = 1 .. Len(nodes) /\ \A k \in DOMAIN nodes : nodes[k] \in S
  BY <1>1, SeqIs
<1> HIDE DEF S
<1>3. Behind \in Seq(S) /\ Ahead \in Seq(S) /\ Len(Behind) = i - 1
  BY <1>1, SplitFacts DEF Behind, Ahead
<1>4. ASSUME Scanning
      PROVE  /\ i \in DOMAIN nodes /\ i + 1 \in 1 .. Len(nodes) + 1
             /\ nodes[i] \in S /\ Rest \in Seq(S)
             /\ Ahead = Cat(One(nodes[i]), Rest)
             /\ Before(nodes, i + 1) = Cat(Behind, One(nodes[i]))
  <2>1. i \in 1 .. Len(nodes) /\ i + 1 \in 1 .. Len(nodes) + 1
    BY <1>1, <1>2, <1>4 DEF Scanning
  <2>2. Rest \in Seq(S)
    BY <1>1, <2>1, SplitFacts DEF Rest
  <2>3. Ahead = Cat(One(nodes[i]), Rest) /\ Before(nodes, i + 1) = Cat(Behind, One(nodes[i]))
    BY <1>1, <2>1, StepFacts DEF Ahead, Rest, Behind
  <2> QED BY <1>2, <2>1, <2>2, <2>3
<1> QED BY <1>1, <1>2, <1>3, <1>4 DEF S, Segments

LEMMA CallFacts ==
  ASSUME Typed, pc = "scan"
  PROVE  Grounded(data, call) /\ CallType(call) /\ Heap(data)
<1>1. Len(calls) \in Nat /\ Len(calls) # 0
  BY IsSeqFacts DEF Typed, CallsGrounded
<1>2. 1 \in 1 .. Len(calls)
  BY <1>1
<1>3. call = calls[1]
  BY DEF call
<1> QED BY <1>2, <1>3 DEF Typed, CallsGrounded, Grounded

(* A step that leaves its node behind, and one that puts a segment in.     *)
PassStep == Scanning /\ i' = i + 1 /\ UNCHANGED <<data, nodes, start, calls, pc>>

PutIn(seg) ==
  /\ Scanning
  /\ Heap(data') /\ Extends(data, data') /\ \A k \in 1 .. Len(calls) : Grounded(data', calls[k])
  /\ seg \in Segments(data')
  /\ nodes' = Cat(Cat(Behind, seg), Rest)
  /\ UNCHANGED <<start, calls, i, indent, pc>>

LEMMA PassMoves ==
  ASSUME Typed, PassStep, indent' \in Nat
  PROVE  Typed' /\ Behind' = Cat(Behind, One(nodes[i])) /\ Ahead' = Rest
<1>1. i' \in 1 .. Len(nodes) + 1 /\ Before(nodes, i + 1) = Cat(Behind, One(nodes[i]))
  BY ScanFacts DEF PassStep
<1>2. TypeOK'
  BY <1>1 DEF Typed, TypeOK, PassStep, DataType, Segments, NodeType, ConditionalData
<1>3. CallsGrounded' /\ Heap(data)'
  BY DEF Typed, CallsGrounded, PassStep
<1> QED BY <1>1, <1>2, <1>3 DEF Typed, PassStep, Behind, Ahead, Rest

LEMMA PutInMoves ==
  ASSUME Typed, NEW seg, PutIn(seg)
  PROVE  Typed' /\ Behind' = Behind /\ Ahead' = Cat(seg, Rest)
<1> DEFINE S == NodeType(data')
<1>1. Segments(data) \subseteq Segments(data') /\ Segments(data') = Seq(S)
  BY SegmentsGrow DEF PutIn, Segments
<1>2. Behind \in Seq(S) /\ Rest \in Seq(S) /\ seg \in Seq(S) /\ i = Len(Behind) + 1
  BY <1>1, ScanFacts DEF PutIn
<1> HIDE DEF S
<1>3. /\ nodes' \in Seq(S) /\ i \in 1 .. Len(nodes') + 1
      /\ Before(nodes', i) = Behind /\ Beyond(nodes', i) = Cat(seg, Rest)
  <2> DEFINE t == Cat(Cat(Behind, seg), Rest)
  <2>1. t \in Seq(S) /\ i \in 1 .. Len(t) + 1 /\ Before(t, i) = Behind /\ Beyond(t, i) = Cat(seg, Rest)
    BY <1>2, SplicedFacts
  <2>2. nodes' = t
    BY DEF PutIn
  <2> HIDE DEF t
  <2> QED BY <2>1, <2>2
<1>4. pc' = pc /\ i' = i /\ indent' = indent /\ start' = start /\ calls' = calls
  BY DEF PutIn
<1>5. TypeOK'
  <2>1. /\ pc \in {"idle", "scan"} /\ indent \in Nat /\ start \in Segments(data)
    BY DEF Typed, TypeOK
  <2>2. DataType(data')
    BY DEF PutIn, Heap
  <2> QED BY <1>1, <1>3, <1>4, <2>1, <2>2 DEF TypeOK
<1>6. CallsGrounded' /\ Heap(data)'
  BY <1>4 DEF Typed, CallsGrounded, PutIn
<1>7. Behind' = Behind /\ Ahead' = Cat(seg, Rest)
  BY <1>3, <1>4 DEF Behind, Ahead
<1> QED BY <1>5, <1>6, <1>7 DEF Typed

(* The argument of a wildcard.                                             *)
LEMMA GivenArgument ==
  ASSUME NEW d, NEW c, CallType(c), NEW node \in NodeType(d), IsArgument(c, node),
         c.args[node.index + 1] # None
  PROVE  /\ c.args[node.index + 1] \in Segments(Data) /\ node.indent \in Int
         /\ <<"argument", node.index + 1>> \in Units(d, c)
         /\ Inside(d, c, <<"argument", node.index + 1>>) = c.args[node.index + 1]
<1>1. node.type = "wildcard" /\ node.index + 1 \in DOMAIN c.args
  BY ArgumentIndex
<1>2. node.indent \in Int
  BY <1>1, NodeFacts
<1> QED BY <1>1, <1>2, ArgumentUnit DEF CallType

IndentedBy == Maximum(nodes[i].indent, indent)
Replacement == IndentNodes(data, args[nodes[i].index + 1], IndentedBy)
Resolved == IF Truth(And(spec, data[nodes[i].data].guard)) THEN data[nodes[i].data].nodes ELSE <<>>

LEMMA SpliceCat ==
  ASSUME NEW seg
  PROVE  Splice(seg) = Cat(Cat(Behind, seg), Rest)
BY DEF Splice, Cat, Behind, Rest, Before, Beyond

(* What indenting does to shared data.                                     *)
LEMMA IndentHeap ==
  ASSUME NEW d, Heap(d), NEW n \in Int, NEW seg \in Segments(Data)
  PROVE  LET r == IndentNodes(d, seg, n)
         IN /\ Heap(r[1]) /\ Extends(d, r[1]) /\ r[2] \in Segments(r[1])
            /\ \A c : Grounded(d, c) => Grounded(r[1], c)
<1>1. CASE n = 0
  <2>1. seg \in Segments(d)
    BY SegmentsGrow DEF Heap
  <2> QED BY <1>1, <2>1, IndentNone, ExtendsItself
<1>2. CASE n # 0
  <2> DEFINE e == IndentNodes(d, seg, n)[1]
  <2>1. Copied(d, e, n) /\ IndentNodes(d, seg, n)[2] = ShiftAll(seg, d, n)
    BY <1>2, IndentCopies
  <2> HIDE DEF e
  <2>2. Heap(e) /\ Extends(d, e)
    BY <2>1, HeapCopied
  <2>3. ShiftAll(seg, d, n) \in Segments(e)
    BY <2>1, ShiftAllTyped
  <2>4. \A c : Grounded(d, c) => Grounded(e, c)
    BY <2>1, GroundedCopied
  <2> QED BY <2>1, <2>2, <2>3, <2>4 DEF e
<1> QED BY <1>1, <1>2

LEMMA ReplacementPutIn ==
  ASSUME Typed, ReplaceWildcard
  PROVE  /\ PutIn(Replacement[2]) /\ data' = Replacement[1] /\ IndentedBy \in Nat
         /\ args[nodes[i].index + 1] \in Segments(Data)
<1>1. Scanning /\ pc = "scan" /\ IsArgument(call, nodes[i]) /\ args[nodes[i].index + 1] # None
  BY DEF ReplaceWildcard, Scanning
<1>2. nodes[i] \in NodeType(data) /\ CallType(call) /\ Heap(data)
  BY <1>1, ScanFacts, CallFacts
<1>3. args[nodes[i].index + 1] \in Segments(Data) /\ nodes[i].indent \in Int
  BY <1>1, <1>2, GivenArgument DEF args
<1>4. IndentedBy \in Nat
  <2>1. indent \in Nat
    BY DEF Typed, TypeOK
  <2> QED BY <1>3, <2>1 DEF IndentedBy, Maximum
<1>5. /\ data' = Replacement[1] /\ nodes' = Splice(Replacement[2])
      /\ UNCHANGED <<start, calls, i, indent, pc>>
  BY DEF ReplaceWildcard, Replacement, IndentedBy
<1>6. /\ Heap(Replacement[1]) /\ Extends(data, Replacement[1])
      /\ Replacement[2] \in Segments(Replacement[1])
      /\ \A c : Grounded(data, c) => Grounded(Replacement[1], c)
  BY <1>2, <1>3, <1>4, IndentHeap DEF Replacement
<1>7. \A k \in 1 .. Len(calls) : Grounded(Replacement[1], calls[k])
  BY <1>6 DEF Typed, CallsGrounded
<1>8. nodes' = Cat(Cat(Behind, Replacement[2]), Rest)
  BY <1>5, SpliceCat
<1>9. PutIn(Replacement[2])
  BY <1>1, <1>5, <1>6, <1>7, <1>8 DEF PutIn
<1> QED BY <1>3, <1>4, <1>5, <1>9

LEMMA ResolvedPutIn ==
  ASSUME Typed, ResolveCondition
  PROVE  PutIn(Resolved) /\ data' = data
<1>1. Scanning /\ nodes[i].type = "conditional" /\ data' = data
  BY DEF ResolveCondition
<1>2. nodes[i] \in NodeType(data) /\ Heap(data)
  BY <1>1, ScanFacts DEF Typed
<1>3. data[nodes[i].data].nodes \in Segments(data)
  <2>1. nodes[i].data \in DOMAIN data /\ data[nodes[i].data].type = "conditional"
    BY <1>1, <1>2, NodeFacts
  <2> QED BY <1>2, <2>1, DataFacts DEF Heap
<1>4. Resolved \in Segments(data)
  BY <1>3, NoNodes DEF Resolved
<1>5. nodes' = Splice(Resolved) /\ UNCHANGED <<start, calls, i, indent, pc>>
  BY DEF ResolveCondition, Resolved
<1>6. nodes' = Cat(Cat(Behind, Resolved), Rest)
  BY <1>5, SpliceCat
<1>7. \A k \in 1 .. Len(calls) : Grounded(data', calls[k])
  BY <1>1 DEF Typed, CallsGrounded
<1>8. Heap(data') /\ Extends(data, data') /\ Resolved \in Segments(data')
  BY <1>1, <1>2, <1>4, ExtendsItself
<1>9. PutIn(Resolved)
  BY <1>1, <1>5, <1>6, <1>7, <1>8 DEF PutIn
<1> QED BY <1>1, <1>9

LEMMA PutInNext ==
  ASSUME Typed, ReplaceWildcard \/ ResolveCondition
  PROVE  \E seg : PutIn(seg)
BY ReplacementPutIn, ResolvedPutIn

LEMMA PassNext ==
  ASSUME Typed, KeepWildcard \/ PassBreak \/ PassText \/ PassUnexpanded
  PROVE  PassStep /\ indent' \in Nat
<1>1. PassStep
  BY DEF KeepWildcard, PassBreak, PassText, PassUnexpanded, PassStep
<1>2. indent \in Nat
  BY DEF Typed, TypeOK
<1>3. nodes[i] \in NodeType(data) /\ DataType(data)
  BY <1>1, ScanFacts DEF PassStep, Typed, Heap
<1>4. CASE KeepWildcard \/ PassBreak
  BY <1>1, <1>2, <1>4 DEF KeepWildcard, PassBreak
<1>5. CASE PassText
  <2>1. Info(data, nodes[i]).text \in Nat /\ Info(data, nodes[i]).indent \in Int
    BY <1>3, <1>5, InfoFacts DEF PassText
  <2>2. Maximum(indent, Info(data, nodes[i]).indent) \in Nat
    BY <1>2, <2>1, MaximumFacts
  <2>3. indent' = Maximum(indent, Info(data, nodes[i]).indent) + Info(data, nodes[i]).text
    BY <1>5 DEF PassText
  <2> QED BY <1>1, <2>1, <2>2, <2>3
<1>6. CASE PassUnexpanded
  <2>1. nodes[i].type = "wildcard" => Maximum(indent, nodes[i].indent) \in Nat
    BY <1>2, <1>3, NodeFacts, MaximumFacts
  <2>2. indent' = IF nodes[i].type = "wildcard" THEN Maximum(indent, nodes[i].indent) ELSE indent
    BY <1>6 DEF PassUnexpanded
  <2> QED BY <1>1, <1>2, <2>1, <2>2
<1> QED BY <1>1, <1>4, <1>5, <1>6

LEMMA CallsFacts ==
  ASSUME NEW s \in Calls
  PROVE  IsSeq(s) /\ \A k \in 1 .. Len(s) : Grounded(Data, s[k])
<1>1. IsSeq(s)
  BY SegmentAssumption DEF IsSeq
<1>2. ASSUME NEW k \in 1 .. Len(s)
      PROVE  Grounded(Data, s[k])
  <2>1. s[k] \in Range(s)
    BY <1>1, IsSeqFacts DEF Range
  <2>2. PICK c \in Range(s) : c = s[k]
    BY <2>1
  <2>3. /\ c.args \in Seq(Range(c.args)) /\ Founded(Data, c)
        /\ \A seg \in Range(c.args) : seg # None => seg \in Segments(Data)
    BY SegmentAssumption
  <2>4. \A j \in DOMAIN c.args : c.args[j] \in Range(c.args)
    BY DEF Range
  <2>5. CallType(c)
    BY <2>3, <2>4 DEF CallType
  <2> QED BY <2>2, <2>3, <2>5, DataIs DEF Grounded
<1> QED BY <1>1, <1>2

LEMMA InitTyped ==
  ASSUME Init
  PROVE  Typed
<1>1. nodes \in Segments(data) /\ data = Data /\ start = nodes
  BY SegmentAssumption DEF Init
<1>2. Len(nodes) \in Nat
  BY <1>1, SegmentFacts
<1>3. TypeOK
  BY <1>1, <1>2, DataIs DEF Init, TypeOK
<1>4. CallsGrounded
  BY <1>1, CallsFacts DEF Init, CallsGrounded
<1> QED BY <1>1, <1>3, <1>4, DataIs DEF Typed

LEMMA NextTyped ==
  ASSUME Typed, [Next]_vars
  PROVE  Typed'
<1>1. CASE UNCHANGED vars
  BY <1>1 DEF vars, Typed, TypeOK, DataType, Segments, NodeType, Heap, CallsGrounded
<1>2. CASE Replace
  <2>1. Len(nodes) \in Nat
    BY ScanFacts
  <2>2. TypeOK'
    BY <1>2, <2>1 DEF Replace, Typed, TypeOK, DataType, Segments, NodeType
  <2>3. Len(calls) # 0
    <3>1. IsSeq(calls) /\ calls # Empty
      BY <1>2 DEF Replace, Typed, CallsGrounded, Empty
    <3> QED BY <3>1, EmptyIs
  <2>4. CallsGrounded' /\ Heap(data)'
    BY <1>2, <2>3 DEF Replace, Typed, CallsGrounded
  <2> QED BY <2>2, <2>4 DEF Typed
<1>3. CASE ReplaceWildcard \/ ResolveCondition
  BY <1>3, PutInNext, PutInMoves
<1>4. CASE KeepWildcard \/ PassBreak \/ PassText \/ PassUnexpanded
  BY <1>4, PassNext, PassMoves
<1>5. CASE Return
  <2>1. TypeOK'
    BY <1>5 DEF Return, Typed, TypeOK, DataType, Segments, NodeType
  <2>2. IsSeq(calls) /\ Len(calls) \in Nat /\ Len(calls) # 0
    BY <1>5, IsSeqFacts DEF Return, Typed, CallsGrounded
  <2>3. /\ IsSeq(Tail(calls)) /\ Len(Tail(calls)) = Len(calls) - 1
        /\ \A k \in 1 .. Len(Tail(calls)) : Tail(calls)[k] = calls[k + 1]
    <3>1. calls \in Seq(Range(calls)) /\ calls # <<>>
      BY <2>2, EmptyFacts DEF IsSeq, Empty
    <3>2. Tail(calls) \in Seq(Range(calls)) /\ Len(Tail(calls)) = Len(calls) - 1
      BY <3>1, HeadTailProperties
    <3>3. \A k \in 1 .. Len(Tail(calls)) : Tail(calls)[k] = calls[k + 1]
      BY <3>1, HeadTailProperties
    <3> QED BY <3>2, <3>3, SeqIs
  <2>4. calls' = Tail(calls) /\ data' = data /\ pc' = "idle"
    BY <1>5 DEF Return
  <2>5. \A k \in 1 .. Len(Tail(calls)) : k + 1 \in 1 .. Len(calls)
    BY <2>2, <2>3
  <2>6. CallsGrounded' /\ Heap(data)'
    BY <2>3, <2>4, <2>5 DEF Typed, CallsGrounded
  <2> QED BY <2>1, <2>6 DEF Typed
<1> QED BY <1>1, <1>2, <1>3, <1>4, <1>5 DEF Next

(* Every reference leads to shared data of its type, in the template, in   *)
(* its copies and in the shared data itself, and the scan stays in the     *)
(* segment while replace() rewrites it.                                    *)
THEOREM SegmentTyped == Spec => []TypeOK
<1>1. Init => Typed
  BY InitTyped
<1>2. Typed /\ [Next]_vars => Typed'
  BY NextTyped
<1>3. Typed => TypeOK
  BY DEF Typed
<1> QED BY <1>1, <1>2, <1>3, PTL DEF Spec

-----------------------------------------------------------------------------
(* What other segments hold.                                               *)
LEMMA NextGrows ==
  ASSUME Typed, [Next]_vars, data' # data
  PROVE  pc = "scan" /\ Extends(data, data') /\ Grounded(data', call)
<1>1. ReplaceWildcard
  BY DEF Next, vars, Replace, KeepWildcard, ResolveCondition, PassBreak, PassText, PassUnexpanded, Return
<1>2. PutIn(Replacement[2])
  BY <1>1, ReplacementPutIn
<1>3. pc = "scan" /\ IsSeq(calls) /\ Len(calls) # 0
  BY <1>2 DEF PutIn, Scanning, Typed, CallsGrounded
<1>4. 1 \in 1 .. Len(calls) /\ call = calls[1]
  BY <1>3, IsSeqFacts DEF call
<1> QED BY <1>2, <1>3, <1>4 DEF PutIn

LEMMA OthersTyped ==
  ASSUME Typed, NEW seg \in {start} \cup UNION {Range(calls[k].args) : k \in DOMAIN calls}, seg # None
  PROVE  seg \in Segments(data)
<1>1. CASE seg = start
  BY <1>1 DEF Typed, TypeOK
<1>2. ASSUME NEW k \in DOMAIN calls, seg \in Range(calls[k].args)
      PROVE  seg \in Segments(data)
  <2>1. k \in 1 .. Len(calls)
    BY IsSeqFacts DEF Typed, CallsGrounded
  <2>2. CallType(calls[k])
    BY <2>1 DEF Typed, CallsGrounded, Grounded
  <2>3. seg \in Segments(Data)
    BY <1>2, <2>2 DEF CallType, Range
  <2> QED BY <2>3, SegmentsGrow DEF Typed, Heap
<1> QED BY <1>1, <1>2

(* A call changes no other segment, whatever they share: its arguments,    *)
(* those of the calls to come and a copy of the template all read the      *)
(* same, texts and indents, after each step.                               *)
THEOREM CopiesIndependent == Spec => OthersIntact
<1> DEFINE Others == {start} \cup UNION {Range(calls[k].args) : k \in DOMAIN calls}
           Same == \A seg \in Others : seg # None => Whole(data', seg) = Whole(data, seg)
<1>1. Init => Typed
  BY InitTyped
<1>2. Typed /\ [Next]_vars => Typed'
  BY NextTyped
<1>3. Typed /\ [Next]_vars => [Same]_vars
  <2> SUFFICES ASSUME Typed, [Next]_vars
               PROVE  Same
    OBVIOUS
  <2>1. CASE data' = data
    BY <2>1
  <2>2. CASE data' # data
    <3>1. pc = "scan" /\ Extends(data, data') /\ Grounded(data', call)
      BY <2>2, NextGrows
    <3>2. Grounded(data, call)
      BY <3>1, CallFacts
    <3> SUFFICES ASSUME NEW seg \in Others, seg # None
                 PROVE  Whole(data', seg) = Whole(data, seg)
      OBVIOUS
    <3>3. seg \in Segments(data)
      BY OthersTyped
    <3> HIDE DEF Others
    <3> QED BY <3>1, <3>2, <3>3, WholeGrows
  <2> QED BY <2>1, <2>2
<1>4. [][Same]_vars => OthersIntact
  BY DEF OthersIntact
<1> HIDE DEF Same
<1> QED BY <1>1, <1>2, <1>3, <1>4, PTL DEF Spec

-----------------------------------------------------------------------------
(* The column of the scan.                                                 *)
ColumnKnown == pc = "scan" /\ Written(Behind) => indent = Generate(data, Behind).column

LEMMA WrittenCat ==
  ASSUME NEW s, NEW t, IsSeq(s), IsSeq(t)
  PROVE  Written(Cat(s, t)) <=> Written(s) /\ Written(t)
<1>1. /\ Len(s) \in Nat /\ DOMAIN s = 1 .. Len(s) /\ Len(t) \in Nat /\ DOMAIN t = 1 .. Len(t)
      /\ Len(Cat(s, t)) = Len(s) + Len(t) /\ DOMAIN Cat(s, t) = 1 .. Len(s) + Len(t)
      /\ \A k \in 1 .. Len(s) : Cat(s, t)[k] = s[k]
      /\ \A k \in 1 .. Len(t) : Cat(s, t)[Len(s) + k] = t[k]
  BY CatFacts, IsSeqFacts
<1>2. ASSUME Written(Cat(s, t))
      PROVE  Written(s) /\ Written(t)
  <2>1. ASSUME NEW k \in DOMAIN s
        PROVE  s[k].type \in Texts \cup {"break"}
    <3>1. k \in DOMAIN Cat(s, t) /\ Cat(s, t)[k] = s[k]
      BY <1>1
    <3> QED BY <1>2, <3>1 DEF Written
  <2>2. ASSUME NEW k \in DOMAIN t
        PROVE  t[k].type \in Texts \cup {"break"}
    <3>1. Len(s) + k \in DOMAIN Cat(s, t) /\ Cat(s, t)[Len(s) + k] = t[k]
      BY <1>1
    <3> QED BY <1>2, <3>1 DEF Written
  <2> QED BY <2>1, <2>2 DEF Written
<1>3. ASSUME Written(s), Written(t), NEW k \in DOMAIN Cat(s, t)
      PROVE  Cat(s, t)[k].type \in Texts \cup {"break"}
  <2>1. \/ k \in DOMAIN s /\ Cat(s, t)[k] = s[k]
        \/ k - Len(s) \in DOMAIN t /\ Cat(s, t)[k] = t[k - Len(s)]
    <3>1. k \in 1 .. Len(Cat(s, t))
      BY <1>1
    <3> QED BY <1>1, <3>1, CatAt
  <2> QED BY <1>3, <2>1 DEF Written
<1> QED BY <1>2, <1>3 DEF Written

LEMMA WrittenOne ==
  ASSUME NEW node
  PROVE  Written(One(node)) <=> IsWritten(node)
<1>1. DOMAIN One(node) = 1 .. 1 /\ One(node)[1] = node
  BY OneFacts, IsSeqFacts
<1>2. \A k \in 1 .. 1 : k = 1
  OBVIOUS
<1> QED BY <1>1, <1>2 DEF Written, IsWritten

(* What the scan leaves behind is written if it was and the node is.       *)
LEMMA PassWritten ==
  ASSUME Typed, PassStep, indent' \in Nat
  PROVE  /\ Written(Behind)' <=> Written(Behind) /\ IsWritten(nodes[i])
         /\ Written(Behind)' => Generate(data, Behind)' = Put(data, Generate(data, Behind), nodes[i])
<1>1. Behind' = Cat(Behind, One(nodes[i])) /\ data' = data
  BY PassMoves DEF PassStep
<1>2. Behind \in Segments(data) /\ IsSeq(Behind) /\ IsSeq(One(nodes[i])) /\ DataType(data)
  BY ScanFacts, SegmentFacts, OneFacts DEF Typed, Heap
<1>3. Written(Cat(Behind, One(nodes[i]))) <=> Written(Behind) /\ IsWritten(nodes[i])
  BY <1>2, WrittenCat, WrittenOne
<1>4. Written(Behind)' <=> Written(Behind) /\ IsWritten(nodes[i])
  <2>1. Written(Behind)' <=> Written(Cat(Behind, One(nodes[i])))
    BY <1>1 DEF Written
  <2> QED BY <1>3, <2>1
<1>5. Generate(data, Behind)' = Generate(data, Cat(Behind, One(nodes[i])))
  BY <1>1 DEF Generate, Put, Info
<1>6. Written(Behind) => Generate(data, Cat(Behind, One(nodes[i]))) = Put(data, Generate(data, Behind), nodes[i])
  BY <1>2, GenerateOne
<1> QED BY <1>4, <1>5, <1>6

LEMMA PassKinds ==
  ASSUME Typed, KeepWildcard \/ PassUnexpanded
  PROVE  ~IsWritten(nodes[i])
BY DEF KeepWildcard, PassUnexpanded, IsArgument, IsWritten, Texts

LEMMA InitColumn ==
  ASSUME Init
  PROVE  ColumnKnown
BY DEF Init, ColumnKnown

LEMMA NextColumn ==
  ASSUME Typed, ColumnKnown, [Next]_vars
  PROVE  ColumnKnown'
<1>1. CASE UNCHANGED vars
  BY <1>1 DEF vars, ColumnKnown, Behind, Before, Written, Generate, Put, Info
<1>2. CASE Replace
  <2>1. Behind' = SubSeq(nodes, 1, 0) /\ indent' = 0
    BY <1>2 DEF Replace, Behind, Before
  <2>2. Behind' = Empty
    BY <2>1, SubSeqEmpty DEF Empty
  <2>3. Generate(data, Behind)' = Generate(data', Empty)
    BY <2>2 DEF Generate, Put, Info
  <2> QED BY <2>1, <2>3, GenerateNone, PageTyped DEF ColumnKnown
<1>3. ASSUME NEW seg, PutIn(seg)
      PROVE  ColumnKnown'
  <2>1. /\ Behind' = Behind /\ Extends(data, data') /\ Behind \in Segments(data)
        /\ indent' = indent /\ pc' = pc
    BY <1>3, PutInMoves, ScanFacts DEF PutIn
  <2>2. Generate(data', Behind) = Generate(data, Behind)
    BY <2>1, GenerateGrows
  <2>3. Generate(data, Behind)' = Generate(data', Behind) /\ (Written(Behind)' <=> Written(Behind))
    BY <2>1 DEF Generate, Put, Info, Written
  <2> QED BY <2>1, <2>2, <2>3 DEF ColumnKnown
<1>4. ASSUME KeepWildcard \/ PassBreak \/ PassText \/ PassUnexpanded
      PROVE  ColumnKnown'
  <2>1. PassStep /\ indent' \in Nat
    BY <1>4, PassNext
  <2>2. /\ Written(Behind)' <=> Written(Behind) /\ IsWritten(nodes[i])
        /\ Written(Behind)' => Generate(data, Behind)' = Put(data, Generate(data, Behind), nodes[i])
    BY <2>1, PassWritten
  <2>3. /\ pc = "scan" /\ nodes[i] \in NodeType(data) /\ Behind \in Segments(data) /\ DataType(data)
    BY <2>1, ScanFacts DEF PassStep, Scanning, Typed, Heap
  <2> SUFFICES ASSUME Written(Behind)'
               PROVE  indent' = Put(data, Generate(data, Behind), nodes[i]).column
    BY <2>2 DEF ColumnKnown
  <2>4. Written(Behind) /\ IsWritten(nodes[i])
    BY <2>2
  <2>5. indent = Generate(data, Behind).column /\ Generate(data, Behind) \in Pages
    BY <2>3, <2>4, GenerateTyped DEF ColumnKnown
  <2>6. CASE PassBreak
    <3>1. nodes[i].type = "break" /\ indent' = 0
      BY <2>6 DEF PassBreak
    <3> QED BY <2>3, <2>4, <2>5, <3>1, PutTyped
  <2>7. CASE PassText
    <3>1. /\ nodes[i].type \in Texts
          /\ indent' = Maximum(indent, Info(data, nodes[i]).indent) + Info(data, nodes[i]).text
      BY <2>7 DEF PassText
    <3>2. Put(data, Generate(data, Behind), nodes[i]).column
            = Maximum(Generate(data, Behind).column, Info(data, nodes[i]).indent) + Info(data, nodes[i]).text
      BY <2>3, <2>4, <2>5, <3>1, PutTyped
    <3> QED BY <2>5, <3>1, <3>2
  <2> QED BY <1>4, <2>4, <2>6, <2>7, PassKinds
<1>5. CASE Return
  BY <1>5 DEF Return, ColumnKnown
<1> QED BY <1>1, <1>2, <1>3, <1>4, <1>5, PutInNext DEF Next

(* While it changes what lies ahead, the scan knows the column where       *)
(* generate() will be, so that what it puts in is indented by the right    *)
(* amount.                                                                 *)
THEOREM ScanTracksColumn == Spec => []ColumnTracked
<1>1. Init => Typed /\ ColumnKnown
  BY InitTyped, InitColumn
<1>2. Typed /\ ColumnKnown /\ [Next]_vars => Typed' /\ ColumnKnown'
  BY NextTyped, NextColumn
<1>3. ColumnKnown => ColumnTracked
  BY DEF ColumnKnown, ColumnTracked, Behind, Before
<1> QED BY <1>1, <1>2, <1>3, PTL DEF Spec

-----------------------------------------------------------------------------
(* Expansions and Layouts: their recursions look at what a unit refers to, *)
(* so that they have solutions, which stay as shared data grows.           *)
Follows(c, x, y, node) ==
  /\ IsGiven(c, node) => x[<<"argument", node.index + 1>>] = y[<<"argument", node.index + 1>>]
  /\ IsDecided(c, node) => x[<<"data", node.data>>] = y[<<"data", node.data>>]

LEMMA RefersFollow ==
  ASSUME NEW d, Heap(d), NEW c, CallType(c), NEW u \in Units(d, c), NEW x, NEW y,
         \A v \in Refers(d, c, u) : x[v] = y[v], NEW k \in DOMAIN Inside(d, c, u)
  PROVE  Inside(d, c, u)[k] \in NodeType(d) /\ Follows(c, x, y, Inside(d, c, u)[k])
<1> DEFINE node == Inside(d, c, u)[k]
<1>1. node \in NodeType(d)
  BY InsideTyped, SegmentFacts
<1>2. /\ node.type \in {"string", "conditional"} => <<"data", node.data>> \in Refers(d, c, u)
      /\ IsArgument(c, node) => <<"argument", node.index + 1>> \in Refers(d, c, u)
  BY RefersTo
<1> HIDE DEF node
<1>3. Follows(c, x, y, node)
  BY <1>2 DEF Follows, IsGiven, IsDecided
<1> QED BY <1>1, <1>3 DEF node

LEMMA OneSegment ==
  ASSUME NEW d, NEW node \in NodeType(d)
  PROVE  One(node) \in Segments(d) /\ <<node>> = One(node)
BY DEF One, Segments

LEMMA HoldsGrows ==
  ASSUME NEW d, NEW e, Extends(d, e), NEW c, NEW node \in NodeType(d), node.type = "conditional"
  PROVE  Holds(d, c, node) <=> Holds(e, c, node)
<1>1. node.data \in DOMAIN d
  BY NodeFacts
<1>2. e[node.data] = d[node.data]
  BY <1>1 DEF Extends
<1> QED BY <1>2 DEF Holds

LEMMA StandLocal ==
  ASSUME NEW d, NEW e, NEW c, Grounded(d, c), Grounded(e, c), Extends(d, e),
         NEW node \in NodeType(d), NEW x, NEW y, Follows(c, x, y, node)
  PROVE  Stand(d, c, x, node) = Stand(e, c, y, node)
<1>1. CASE IsGiven(c, node)
  BY <1>1 DEF Stand, Follows
<1>2. CASE ~IsGiven(c, node) /\ ~IsDecided(c, node)
  <2>1. Content(e, <<node>>) = Content(d, <<node>>)
    BY OneSegment, WholeGrows
  <2> QED BY <1>2, <2>1 DEF Stand
<1>3. CASE ~IsGiven(c, node) /\ IsDecided(c, node)
  <2>1. Holds(d, c, node) <=> Holds(e, c, node)
    BY <1>3, HoldsGrows DEF IsDecided
  <2>2. CASE Holds(d, c, node)
    BY <1>3, <2>1, <2>2 DEF Stand, Follows
  <2>3. CASE ~Holds(d, c, node)
    BY <1>3, <2>1, <2>3 DEF Stand
  <2> QED BY <2>2, <2>3
<1> QED BY <1>1, <1>2, <1>3

LEMMA StandAllLocal ==
  ASSUME NEW d, NEW e, NEW c, Grounded(d, c), Grounded(e, c), Extends(d, e),
         NEW seg \in Segments(d), NEW x, NEW y, \A k \in DOMAIN seg : Follows(c, x, y, seg[k])
  PROVE  StandAll(d, c, x, seg) = StandAll(e, c, y, seg)
<1>1. \A k \in DOMAIN seg : Stand(d, c, x, seg[k]) = Stand(e, c, y, seg[k])
  BY SegmentFacts, StandLocal
<1>2. [k \in DOMAIN seg |-> Stand(d, c, x, seg[k])] = [k \in DOMAIN seg |-> Stand(e, c, y, seg[k])]
  BY <1>1
<1> QED BY <1>2 DEF StandAll

LEMMA ExpandLocal ==
  ASSUME NEW d, NEW e, NEW c, Grounded(d, c), Grounded(e, c), Extends(d, e)
  PROVE  Local("expand", d, e, c)
<1> SUFFICES ASSUME NEW u \in Units(d, c), NEW x, NEW y, \A v \in Refers(d, c, u) : x[v] = y[v]
             PROVE  Body("expand", d, c, x, u) = Body("expand", e, c, y, u)
  BY DEF Local
<1> DEFINE seg == Inside(d, c, u)
<1>1. Inside(e, c, u) = seg /\ seg \in Segments(d)
  BY InsideGrows, InsideTyped DEF Grounded
<1>2. \A k \in DOMAIN seg : Follows(c, x, y, seg[k])
  BY RefersFollow DEF Grounded
<1> HIDE DEF seg
<1>3. StandAll(d, c, x, seg) = StandAll(e, c, y, seg)
  BY <1>1, <1>2, StandAllLocal
<1>4. Body("expand", d, c, x, u) = StandAll(d, c, x, seg) /\ Body("expand", e, c, y, u) = StandAll(e, c, y, seg)
  BY <1>1 DEF Body, seg
<1> QED BY <1>3, <1>4

LEMMA LayLocal ==
  ASSUME NEW d, NEW e, Extends(d, e), NEW c, NEW node \in NodeType(d),
         NEW x, NEW y, Follows(c, x, y, node), NEW page, NEW m
  PROVE  Lay(d, c, x, page, node, m) = Lay(e, c, y, page, node, m)
<1>1. CASE node.type = "break"
  BY <1>1 DEF Lay
<1>2. CASE node.type \in Texts
  <2>1. Info(e, node) = Info(d, node)
    BY InfoGrows
  <2> QED BY <1>2, <2>1 DEF Lay, Texts
<1>3. CASE node.type = "wildcard"
  <2>1. ~IsDecided(c, node)
    BY <1>3 DEF IsDecided
  <2>2. CASE IsGiven(c, node)
    BY <1>3, <2>2 DEF Lay, Texts, Follows
  <2>3. CASE ~IsGiven(c, node)
    BY <1>3, <2>1, <2>3 DEF Lay, Texts
  <2> QED BY <2>2, <2>3
<1>4. CASE node.type = "conditional"
  <2>1. ~IsGiven(c, node) /\ (Holds(d, c, node) <=> Holds(e, c, node))
    BY <1>4, HoldsGrows DEF IsGiven, IsArgument
  <2>2. CASE IsDecided(c, node) /\ Holds(d, c, node)
    BY <1>4, <2>1, <2>2 DEF Lay, Texts, Follows
  <2>3. CASE ~(IsDecided(c, node) /\ Holds(d, c, node))
    BY <1>4, <2>1, <2>3 DEF Lay, Texts
  <2> QED BY <2>2, <2>3
<1> QED BY <1>1, <1>2, <1>3, <1>4, NodeFacts DEF Texts

LEMMA LayAllLocal ==
  ASSUME NEW d, NEW e, Extends(d, e), NEW c, NEW seg \in Segments(d),
         NEW x, NEW y, \A k \in DOMAIN seg : Follows(c, x, y, seg[k]), NEW page, NEW m
  PROVE  LayAll(d, c, x, page, seg, m) = LayAll(e, c, y, page, seg, m)
<1>1. \A k \in DOMAIN seg : \A p \in Pages : Lay(d, c, x, p, seg[k], m) = Lay(e, c, y, p, seg[k], m)
  BY SegmentFacts, LayLocal
<1>2. [k \in DOMAIN seg |-> [p \in Pages |-> Lay(d, c, x, p, seg[k], m)]]
        = [k \in DOMAIN seg |-> [p \in Pages |-> Lay(e, c, y, p, seg[k], m)]]
  BY <1>1
<1> QED BY <1>2 DEF LayAll

LEMMA LayoutLocal ==
  ASSUME NEW d, NEW e, NEW c, Grounded(d, c), Extends(d, e)
  PROVE  Local("layout", d, e, c)
<1> SUFFICES ASSUME NEW u \in Units(d, c), NEW x, NEW y, \A v \in Refers(d, c, u) : x[v] = y[v]
             PROVE  Body("layout", d, c, x, u) = Body("layout", e, c, y, u)
  BY DEF Local
<1> DEFINE seg == Inside(d, c, u)
<1>1. Inside(e, c, u) = seg /\ seg \in Segments(d)
  BY InsideGrows, InsideTyped DEF Grounded
<1>2. \A k \in DOMAIN seg : Follows(c, x, y, seg[k])
  BY RefersFollow DEF Grounded
<1> HIDE DEF seg
<1>3. \A page, m : LayAll(d, c, x, page, seg, m) = LayAll(e, c, y, page, seg, m)
  BY <1>1, <1>2, LayAllLocal
<1>4. /\ Body("layout", d, c, x, u) = [m \in Int |-> [page \in Pages |-> LayAll(d, c, x, page, seg, m)]]
      /\ Body("layout", e, c, y, u) = [m \in Int |-> [page \in Pages |-> LayAll(e, c, y, page, seg, m)]]
  BY <1>1 DEF Body, seg
<1> QED BY <1>3, <1>4

LEMMA ExpansionsSolve ==
  ASSUME NEW d, NEW c, Grounded(d, c)
  PROVE  Solves("expand", d, c, Units(d, c), Expansions(d, c))
<1> DEFINE U == Units(d, c)
           x[u \in U] == StandAll(d, c, x, Inside(d, c, u))
<1>1. Local("expand", d, d, c)
  BY ExpandLocal, ExtendsItself
<1>2. PICK y : y = [u \in U |-> y[u]] /\ Solves("expand", d, c, U, y)
  BY <1>1, SolutionExists
<1>3. \A u \in U : y[u] = StandAll(d, c, y, Inside(d, c, u))
  BY <1>2 DEF Solves, Body
<1>4. y = [u \in U |-> StandAll(d, c, y, Inside(d, c, u))]
  BY <1>2, <1>3
<1>5. x = [u \in U |-> StandAll(d, c, x, Inside(d, c, u))]
  BY <1>4
<1>6. Expansions(d, c) = x
  BY DEF Expansions
<1> HIDE DEF x
<1>7. ASSUME NEW u \in U
      PROVE  x[u] = Body("expand", d, c, x, u)
  <2> DEFINE h == [v \in U |-> StandAll(d, c, x, Inside(d, c, v))]
  <2>1. h[u] = StandAll(d, c, x, Inside(d, c, u)) /\ x = h
    BY <1>5
  <2> HIDE DEF h
  <2> QED BY <2>1 DEF Body
<1> QED BY <1>6, <1>7 DEF Solves

LEMMA LayoutsSolve ==
  ASSUME NEW d, NEW c, Grounded(d, c)
  PROVE  Solves("layout", d, c, Units(d, c), Layouts(d, c))
<1> DEFINE U == Units(d, c)
           F(x, u) == [m \in Int |-> [page \in Pages |-> LayAll(d, c, x, page, Inside(d, c, u), m)]]
           x[u \in U] == [m \in Int |-> [page \in Pages |-> LayAll(d, c, x, page, Inside(d, c, u), m)]]
<1>1. Local("layout", d, d, c)
  BY LayoutLocal, ExtendsItself
<1>2. PICK y : y = [u \in U |-> y[u]] /\ Solves("layout", d, c, U, y)
  BY <1>1, SolutionExists
<1>3. \A u \in U : y[u] = F(y, u)
  BY <1>2 DEF Solves, Body
<1>4. y = [u \in U |-> F(y, u)]
  <2> HIDE DEF F
  <2> QED BY <1>2, <1>3
<1>5. x = [u \in U |-> F(x, u)]
  BY <1>4
<1>6. Layouts(d, c) = x
  BY DEF Layouts
<1> HIDE DEF x
<1>7. ASSUME NEW u \in U
      PROVE  x[u] = Body("layout", d, c, x, u)
  <2> DEFINE h == [v \in U |-> F(x, v)]
  <2>1. h[u] = F(x, u)
    OBVIOUS
  <2>2. x = h
    BY <1>5
  <2> HIDE DEF h
  <2>3. F(x, u) = Body("layout", d, c, x, u)
    BY DEF Body
  <2> HIDE DEF F
  <2> QED BY <2>1, <2>2, <2>3
<1> QED BY <1>6, <1>7 DEF Solves

(* As shared data grows, what a unit stands for stays.                     *)
LEMMA UnitsClosed ==
  ASSUME NEW d, NEW c, Grounded(d, c)
  PROVE  Closed(d, c, Units(d, c))
BY RefersInside DEF Closed, Grounded

LEMMA UnitsGrow ==
  ASSUME NEW d, NEW e, NEW c, Grounded(d, c), Grounded(e, c), Extends(d, e)
  PROVE  \A u \in Units(d, c) :
           Expansions(e, c)[u] = Expansions(d, c)[u] /\ Layouts(e, c)[u] = Layouts(d, c)[u]
<1> DEFINE U == Units(d, c)
<1>1. Closed(d, c, U) /\ Founded(d, c) /\ U \subseteq Units(e, c)
  BY UnitsClosed, InsideGrows DEF Grounded
<1>2. Local("expand", d, e, c) /\ Local("layout", d, e, c)
  BY ExpandLocal, LayoutLocal
<1>3. Solves("expand", d, c, U, Expansions(d, c)) /\ Solves("layout", d, c, U, Layouts(d, c))
  BY ExpansionsSolve, LayoutsSolve
<1>4. Solves("expand", e, c, U, Expansions(e, c)) /\ Solves("layout", e, c, U, Layouts(e, c))
  BY <1>1, ExpansionsSolve, LayoutsSolve DEF Solves
<1> HIDE DEF U
<1>5. \A u \in U : Expansions(d, c)[u] = Expansions(e, c)[u]
  BY <1>1, <1>2, <1>3, <1>4, Agree
<1>6. \A u \in U : Layouts(d, c)[u] = Layouts(e, c)[u]
  BY <1>1, <1>2, <1>3, <1>4, Agree
<1> QED BY <1>5, <1>6 DEF U


-----------------------------------------------------------------------------
(* What units stand for are sequences, and functions from pages to pages   *)
(* for every margin.                                                       *)
LEMMA CatIndices ==
  ASSUME NEW s, NEW t, IsSeq(s), IsSeq(t)
  PROVE  /\ \A k \in 1 .. Len(s) : k \in DOMAIN s /\ k \in DOMAIN Cat(s, t) /\ Cat(s, t)[k] = s[k]
         /\ \A k \in 1 .. Len(t) :
              /\ k \in DOMAIN t /\ Len(s) + k \in DOMAIN Cat(s, t)
              /\ Cat(s, t)[Len(s) + k] = t[k]
<1>1. /\ Len(s) \in Nat /\ DOMAIN s = 1 .. Len(s) /\ Len(t) \in Nat /\ DOMAIN t = 1 .. Len(t)
      /\ Len(Cat(s, t)) = Len(s) + Len(t) /\ DOMAIN Cat(s, t) = 1 .. Len(s) + Len(t)
      /\ \A k \in 1 .. Len(s) : Cat(s, t)[k] = s[k]
      /\ \A k \in 1 .. Len(t) : Cat(s, t)[Len(s) + k] = t[k]
  BY CatFacts, IsSeqFacts
<1> QED BY <1>1

Stands(d, c, x, seg) == [k \in DOMAIN seg |-> Stand(d, c, x, seg[k])]

StandsFor(c, x, node) ==
  /\ IsGiven(c, node) => IsSeq(x[<<"argument", node.index + 1>>])
  /\ IsDecided(c, node) => IsSeq(x[<<"data", node.data>>])

LEMMA StandIsSeq ==
  ASSUME NEW d, NEW c, NEW x, NEW node, StandsFor(c, x, node)
  PROVE  IsSeq(Stand(d, c, x, node))
<1>1. IsSeq(Content(d, One(node))) /\ IsSeq(Empty) /\ Empty = <<>> /\ One(node) = <<node>>
  BY ContentIsSeq, OneFacts, EmptyFacts DEF One, Empty
<1> QED BY <1>1 DEF Stand, StandsFor

LEMMA StandsAreSeqs ==
  ASSUME NEW d, NEW c, NEW x, NEW seg, IsSeq(seg), \A k \in DOMAIN seg : StandsFor(c, x, seg[k])
  PROVE  Lists(Stands(d, c, x, seg)) /\ IsSeq(StandAll(d, c, x, seg))
<1> DEFINE f == Stands(d, c, x, seg)
<1>1. Len(seg) \in Nat /\ DOMAIN seg = 1 .. Len(seg)
  BY IsSeqFacts
<1>2. f = [k \in 1 .. Len(seg) |-> f[k]] /\ \A k \in 1 .. Len(seg) : f[k] = Stand(d, c, x, seg[k])
  BY <1>1 DEF Stands
<1>3. StandAll(d, c, x, seg) = FlattenSeq(f)
  BY DEF StandAll, Stands
<1> HIDE DEF f
<1>4. IsSeq(f) /\ Len(f) = Len(seg)
  BY <1>1, <1>2, SeqMade
<1>5. \A k \in 1 .. Len(f) : IsSeq(f[k])
  BY <1>1, <1>2, <1>4, StandIsSeq
<1>6. Lists(f)
  BY <1>4, <1>5 DEF Lists
<1> QED BY <1>3, <1>6, FlattenIsSeq DEF f

LEMMA ExpansionsAreSeqs ==
  ASSUME NEW d, NEW c, Grounded(d, c)
  PROVE  \A u \in Units(d, c) : IsSeq(Expansions(d, c)[u])
<1> DEFINE x == Expansions(d, c)
           S == {u \in Units(d, c) : ~IsSeq(x[u])}
<1>0. Heap(d) /\ CallType(c) /\ Founded(d, c)
  BY DEF Grounded
<1> SUFFICES ASSUME S # {} PROVE FALSE
  OBVIOUS
<1>1. PICK u \in S : Refers(d, c, u) \cap S = {}
  <2>1. S \subseteq Units(d, c)
    OBVIOUS
  <2> HIDE DEF S
  <2> QED BY <1>0, <2>1, MinimalUnit
<1>2. u \in Units(d, c) /\ ~IsSeq(x[u])
  OBVIOUS
<1>3. \A v \in Refers(d, c, u) : IsSeq(x[v])
  BY <1>0, <1>1, <1>2, RefersInside
<1> DEFINE seg == Inside(d, c, u)
<1>4. IsSeq(seg)
  BY <1>0, <1>2, InsideTyped, SegmentFacts
<1>5. ASSUME NEW k \in DOMAIN seg
      PROVE  StandsFor(c, x, seg[k])
  <2>1. /\ seg[k].type \in {"string", "conditional"} => <<"data", seg[k].data>> \in Refers(d, c, u)
        /\ IsArgument(c, seg[k]) => <<"argument", seg[k].index + 1>> \in Refers(d, c, u)
    BY RefersTo
  <2> HIDE DEF seg, x, S
  <2> QED BY <1>3, <2>1 DEF StandsFor, IsGiven, IsDecided
<1>6. x[u] = StandAll(d, c, x, seg)
  <2>1. Solves("expand", d, c, Units(d, c), x)
    BY ExpansionsSolve
  <2> HIDE DEF x, S
  <2> QED BY <1>2, <2>1 DEF Solves, Body
<1> HIDE DEF x, seg, S
<1>7. IsSeq(StandAll(d, c, x, seg))
  BY <1>4, <1>5, StandsAreSeqs
<1> QED BY <1>2, <1>6, <1>7

LaySteps(d, c, x, seg, m) == [k \in DOMAIN seg |-> [page \in Pages |-> Lay(d, c, x, page, seg[k], m)]]

LaysOut(c, x, node) ==
  /\ IsGiven(c, node) => x[<<"argument", node.index + 1>>] \in [Int -> PageSteps]
  /\ IsDecided(c, node) => x[<<"data", node.data>>] \in [Int -> PageSteps]

LEMMA LayTyped ==
  ASSUME NEW d, DataType(d), NEW c, NEW x, NEW node \in NodeType(d), LaysOut(c, x, node),
         NEW page \in Pages, NEW m \in Int
  PROVE  Lay(d, c, x, page, node, m) \in Pages
<1>1. CASE node.type = "break"
  <2>1. Feed(page, node) \in Pages
    BY <1>1, NodeFacts, FeedTyped
  <2> QED BY <1>1, <2>1 DEF Lay
<1>2. CASE node.type \in Texts
  <2>1. Info(d, node).text \in Nat /\ m + Info(d, node).indent \in Int
    BY <1>2, InfoFacts
  <2>2. Write(page, Info(d, node).text, m + Info(d, node).indent) \in Pages
    BY <2>1, WriteTyped
  <2> QED BY <1>2, <2>2 DEF Lay, Texts
<1>3. CASE node.type = "wildcard"
  <2>1. ~IsDecided(c, node)
    BY <1>3 DEF IsDecided
  <2>2. CASE IsGiven(c, node)
    <3> DEFINE l == page.column
               n == m + node.indent
    <3>0. l \in Nat /\ node.indent \in Int
      BY <1>3, NodeFacts, PageFields
    <3>5. n \in Int
      BY <3>0
    <3> HIDE DEF l, n
    <3>6. Maximum(l, n) \in Int
      BY <3>0, <3>5 DEF Maximum
    <3>1. Maximum(page.column, m + node.indent) \in Int
      BY <3>6 DEF l, n
    <3>2. x[<<"argument", node.index + 1>>][Maximum(page.column, m + node.indent)] \in PageSteps
      BY <2>2, <3>1 DEF LaysOut
    <3>3. x[<<"argument", node.index + 1>>][Maximum(page.column, m + node.indent)][page] \in Pages
      BY <3>2 DEF PageSteps
    <3> QED BY <1>3, <2>2, <3>3 DEF Lay, Texts
  <2>3. CASE ~IsGiven(c, node)
    BY <1>3, <2>1, <2>3 DEF Lay, Texts
  <2> QED BY <2>2, <2>3
<1>4. CASE node.type = "conditional"
  <2>1. ~IsGiven(c, node)
    BY <1>4 DEF IsGiven, IsArgument
  <2>2. CASE IsDecided(c, node) /\ Holds(d, c, node)
    <3>1. x[<<"data", node.data>>][m][page] \in Pages
      BY <2>2 DEF LaysOut, PageSteps
    <3> QED BY <1>4, <2>1, <2>2, <3>1 DEF Lay, Texts
  <2>3. CASE ~(IsDecided(c, node) /\ Holds(d, c, node))
    BY <1>4, <2>1, <2>3 DEF Lay, Texts
  <2> QED BY <2>2, <2>3
<1> QED BY <1>1, <1>2, <1>3, <1>4, NodeFacts DEF Texts

LEMMA LayAllTyped ==
  ASSUME NEW d, DataType(d), NEW c, NEW x, NEW seg \in Segments(d),
         \A k \in DOMAIN seg : LaysOut(c, x, seg[k]), NEW m \in Int
  PROVE  /\ LaySteps(d, c, x, seg, m) \in Seq(PageSteps)
         /\ \A page \in Pages : LayAll(d, c, x, page, seg, m) \in Pages
<1> DEFINE f == LaySteps(d, c, x, seg, m)
<1>1. Len(seg) \in Nat /\ DOMAIN seg = 1 .. Len(seg) /\ \A k \in DOMAIN seg : seg[k] \in NodeType(d)
  BY SegmentFacts
<1>2. ASSUME NEW k \in DOMAIN seg
      PROVE  f[k] \in PageSteps
  <2>1. seg[k] \in NodeType(d) /\ LaysOut(c, x, seg[k])
    BY <1>1
  <2>2. \A page \in Pages : Lay(d, c, x, page, seg[k], m) \in Pages
    BY <2>1, LayTyped
  <2>3. f[k] = [page \in Pages |-> Lay(d, c, x, page, seg[k], m)]
    BY DEF LaySteps
  <2> QED BY <2>2, <2>3 DEF PageSteps
<1>3. f = [k \in 1 .. Len(seg) |-> f[k]]
  BY <1>1 DEF LaySteps
<1>4. \A page : LayAll(d, c, x, page, seg, m) = Through(f, page)
  BY DEF LayAll, LaySteps
<1> HIDE DEF f
<1>5. IsSeq(f) /\ Len(f) = Len(seg)
  BY <1>1, <1>3, SeqMade
<1>6. f \in Seq(PageSteps)
  BY <1>1, <1>2, <1>5, SeqTyped
<1>7. \A page \in Pages : LayAll(d, c, x, page, seg, m) \in Pages
  BY <1>4, <1>6, ThroughPages
<1> QED BY <1>6, <1>7 DEF f

LEMMA LayoutsTyped ==
  ASSUME NEW d, NEW c, Grounded(d, c)
  PROVE  \A u \in Units(d, c) : Layouts(d, c)[u] \in [Int -> PageSteps]
<1> DEFINE x == Layouts(d, c)
           S == {u \in Units(d, c) : x[u] \notin [Int -> PageSteps]}
<1>0. Heap(d) /\ CallType(c) /\ Founded(d, c) /\ DataType(d)
  BY DEF Grounded, Heap
<1> SUFFICES ASSUME S # {} PROVE FALSE
  OBVIOUS
<1>1. PICK u \in S : Refers(d, c, u) \cap S = {}
  <2>1. S \subseteq Units(d, c)
    OBVIOUS
  <2> HIDE DEF S
  <2> QED BY <1>0, <2>1, MinimalUnit
<1>2. u \in Units(d, c) /\ x[u] \notin [Int -> PageSteps]
  OBVIOUS
<1>3. \A v \in Refers(d, c, u) : x[v] \in [Int -> PageSteps]
  BY <1>0, <1>1, <1>2, RefersInside
<1> DEFINE seg == Inside(d, c, u)
<1>4. seg \in Segments(d)
  BY <1>0, <1>2, InsideTyped
<1>5. ASSUME NEW k \in DOMAIN seg
      PROVE  LaysOut(c, x, seg[k])
  <2>1. /\ seg[k].type \in {"string", "conditional"} => <<"data", seg[k].data>> \in Refers(d, c, u)
        /\ IsArgument(c, seg[k]) => <<"argument", seg[k].index + 1>> \in Refers(d, c, u)
    BY RefersTo
  <2> HIDE DEF seg, x, S
  <2> QED BY <1>3, <2>1 DEF LaysOut, IsGiven, IsDecided
<1>6. x[u] = [m \in Int |-> [page \in Pages |-> LayAll(d, c, x, page, seg, m)]]
  <2>1. Solves("layout", d, c, Units(d, c), x)
    BY LayoutsSolve
  <2> HIDE DEF x, S
  <2> QED BY <1>2, <2>1 DEF Solves, Body
<1> HIDE DEF x, seg, S
<1>7. \A m \in Int : \A page \in Pages : LayAll(d, c, x, page, seg, m) \in Pages
  BY <1>0, <1>4, <1>5, LayAllTyped
<1>8. \A m \in Int : [page \in Pages |-> LayAll(d, c, x, page, seg, m)] \in PageSteps
  BY <1>7 DEF PageSteps
<1> QED BY <1>2, <1>6, <1>8

(* The units of a node.                                                    *)
LEMMA NodeUnits ==
  ASSUME NEW d, NEW c, Grounded(d, c), NEW node \in NodeType(d)
  PROVE  /\ IsGiven(c, node) => <<"argument", node.index + 1>> \in Units(d, c)
         /\ IsDecided(c, node) => <<"data", node.data>> \in Units(d, c)
<1>1. ASSUME IsGiven(c, node)
      PROVE  <<"argument", node.index + 1>> \in Units(d, c)
  BY <1>1, ArgumentIndex, ArgumentUnit DEF IsGiven, Grounded
<1>2. ASSUME IsDecided(c, node)
      PROVE  <<"data", node.data>> \in Units(d, c)
  <2>1. node.data \in DOMAIN d
    BY <1>2, NodeFacts DEF IsDecided
  <2> QED BY <2>1, DataUnit
<1> QED BY <1>1, <1>2

LEMMA NodeReady ==
  ASSUME NEW d, NEW c, Grounded(d, c), NEW node \in NodeType(d)
  PROVE  StandsFor(c, Expansions(d, c), node) /\ LaysOut(c, Layouts(d, c), node)
<1>1. StandsFor(c, Expansions(d, c), node)
  BY NodeUnits, ExpansionsAreSeqs DEF StandsFor
<1>2. LaysOut(c, Layouts(d, c), node)
  BY NodeUnits, LayoutsTyped DEF LaysOut
<1> QED BY <1>1, <1>2

-----------------------------------------------------------------------------
(* The expansion of a concatenation.                                       *)
LEMMA StandsCat ==
  ASSUME NEW d, NEW c, NEW x, NEW s, NEW t, IsSeq(s), IsSeq(t)
  PROVE  Stands(d, c, x, Cat(s, t)) = Cat(Stands(d, c, x, s), Stands(d, c, x, t))
<1> DEFINE f == Stands(d, c, x, s)
           g == Stands(d, c, x, t)
           h == Stands(d, c, x, Cat(s, t))
           X(node) == Stand(d, c, x, node)
<1>1. /\ f = [k \in DOMAIN s |-> X(s[k])] /\ g = [k \in DOMAIN t |-> X(t[k])]
      /\ h = [k \in DOMAIN Cat(s, t) |-> X(Cat(s, t)[k])]
  BY DEF Stands
<1> HIDE DEF f, g, h, X
<1>2. \A k \in 1 .. Len(s) : h[k] = f[k]
  BY <1>1, CatIndices
<1>3. \A k \in 1 .. Len(t) : h[Len(s) + k] = g[k]
  BY <1>1, CatIndices
<1>4. MapOn(s, f) /\ MapOn(t, g) /\ MapOn(Cat(s, t), h)
  BY <1>1 DEF MapOn
<1>5. h = Cat(f, g)
  BY <1>2, <1>3, <1>4, MapCat
<1> QED BY <1>5 DEF f, g, h

LEMMA ExpandCat ==
  ASSUME NEW d, NEW c, Grounded(d, c), NEW s \in Segments(d), NEW t \in Segments(d)
  PROVE  /\ Expand(d, c, Cat(s, t)) = Cat(Expand(d, c, s), Expand(d, c, t))
         /\ IsSeq(Expand(d, c, s))
<1> DEFINE x == Expansions(d, c)
<1>1. /\ IsSeq(s) /\ \A k \in DOMAIN s : s[k] \in NodeType(d)
      /\ IsSeq(t) /\ \A k \in DOMAIN t : t[k] \in NodeType(d)
  BY SegmentFacts
<1>2. /\ \A k \in DOMAIN s : StandsFor(c, x, s[k])
      /\ \A k \in DOMAIN t : StandsFor(c, x, t[k])
  BY <1>1, NodeReady
<1>3. \A seg : Expand(d, c, seg) = StandAll(d, c, x, seg)
  BY DEF Expand
<1> HIDE DEF x
<1>4. /\ Lists(Stands(d, c, x, s)) /\ Lists(Stands(d, c, x, t))
      /\ IsSeq(StandAll(d, c, x, s))
  BY <1>1, <1>2, StandsAreSeqs
<1>5. \A seg : StandAll(d, c, x, seg) = FlattenSeq(Stands(d, c, x, seg))
  BY DEF StandAll, Stands
<1>6. Stands(d, c, x, Cat(s, t)) = Cat(Stands(d, c, x, s), Stands(d, c, x, t))
  BY <1>1, StandsCat
<1> QED BY <1>3, <1>4, <1>5, <1>6, FlattenCat

LEMMA ExpandNone ==
  ASSUME NEW d, NEW c
  PROVE  Expand(d, c, Empty) = Empty
<1> DEFINE f == Stands(d, c, Expansions(d, c), Empty)
<1>1. Expand(d, c, Empty) = FlattenSeq(f)
  BY DEF Expand, StandAll, Stands
<1>2. f = [k \in DOMAIN Empty |-> f[k]]
  BY DEF Stands
<1> HIDE DEF f
<1>3. f = Empty
  BY <1>2, MapNone
<1> QED BY <1>1, <1>3, FlattenNone

LEMMA ExpandOne ==
  ASSUME NEW d, NEW c, Grounded(d, c), NEW node \in NodeType(d)
  PROVE  Expand(d, c, One(node)) = Stand(d, c, Expansions(d, c), node)
<1> DEFINE f == Stands(d, c, Expansions(d, c), One(node))
           r == Stand(d, c, Expansions(d, c), node)
<1>1. Expand(d, c, One(node)) = FlattenSeq(f)
  BY DEF Expand, StandAll, Stands
<1>2. f = [k \in DOMAIN One(node) |-> f[k]]
  BY DEF Stands
<1>3. f[1] = r
  <2>1. 1 \in DOMAIN One(node) /\ One(node)[1] = node
    BY OneFacts, IsSeqFacts
  <2> QED BY <2>1 DEF Stands
<1>4. IsSeq(r)
  BY NodeReady, StandIsSeq
<1> HIDE DEF f, r
<1>5. f = One(r)
  BY <1>2, <1>3, MapOne
<1>6. FlattenSeq(One(r)) = r
  BY <1>4, FlattenOne
<1> QED BY <1>1, <1>5, <1>6 DEF r

-----------------------------------------------------------------------------
(* The layout of a concatenation.                                          *)
LayBy(d, c, page, seg, m) == LayAll(d, c, Layouts(d, c), page, seg, m)

LEMMA LayStepsCat ==
  ASSUME NEW d, NEW c, NEW x, NEW m, NEW s, NEW t, IsSeq(s), IsSeq(t)
  PROVE  LaySteps(d, c, x, Cat(s, t), m) = Cat(LaySteps(d, c, x, s, m), LaySteps(d, c, x, t, m))
<1> DEFINE f == LaySteps(d, c, x, s, m)
           g == LaySteps(d, c, x, t, m)
           h == LaySteps(d, c, x, Cat(s, t), m)
           X(node) == [page \in Pages |-> Lay(d, c, x, page, node, m)]
<1>1. /\ f = [k \in DOMAIN s |-> X(s[k])] /\ g = [k \in DOMAIN t |-> X(t[k])]
      /\ h = [k \in DOMAIN Cat(s, t) |-> X(Cat(s, t)[k])]
  BY DEF LaySteps
<1> HIDE DEF f, g, h, X
<1>2. \A k \in 1 .. Len(s) : h[k] = f[k]
  BY <1>1, CatIndices
<1>3. \A k \in 1 .. Len(t) : h[Len(s) + k] = g[k]
  BY <1>1, CatIndices
<1>4. MapOn(s, f) /\ MapOn(t, g) /\ MapOn(Cat(s, t), h)
  BY <1>1 DEF MapOn
<1>5. h = Cat(f, g)
  BY <1>2, <1>3, <1>4, MapCat
<1> QED BY <1>5 DEF f, g, h

LEMMA LayCat ==
  ASSUME NEW d, NEW c, Grounded(d, c), NEW s \in Segments(d), NEW t \in Segments(d),
         NEW page \in Pages, NEW m \in Int
  PROVE  /\ LayBy(d, c, page, Cat(s, t), m) = LayBy(d, c, LayBy(d, c, page, s, m), t, m)
         /\ LayBy(d, c, page, s, m) \in Pages
<1> DEFINE x == Layouts(d, c)
<1>1. /\ IsSeq(s) /\ \A k \in DOMAIN s : s[k] \in NodeType(d)
      /\ IsSeq(t) /\ \A k \in DOMAIN t : t[k] \in NodeType(d)
      /\ DataType(d)
  BY SegmentFacts DEF Grounded, Heap
<1>2. /\ \A k \in DOMAIN s : LaysOut(c, x, s[k])
      /\ \A k \in DOMAIN t : LaysOut(c, x, t[k])
  BY <1>1, NodeReady
<1>3. \A p, seg : LayBy(d, c, p, seg, m) = LayAll(d, c, x, p, seg, m)
  BY DEF LayBy
<1> HIDE DEF x
<1>4. /\ LaySteps(d, c, x, s, m) \in Seq(PageSteps) /\ LaySteps(d, c, x, t, m) \in Seq(PageSteps)
      /\ LayAll(d, c, x, page, s, m) \in Pages
  BY <1>1, <1>2, LayAllTyped
<1>5. \A p, seg : LayAll(d, c, x, p, seg, m) = Through(LaySteps(d, c, x, seg, m), p)
  BY DEF LayAll, LaySteps
<1>6. LaySteps(d, c, x, Cat(s, t), m) = Cat(LaySteps(d, c, x, s, m), LaySteps(d, c, x, t, m))
  BY <1>1, LayStepsCat
<1>7. IsSeq(LaySteps(d, c, x, s, m)) /\ IsSeq(LaySteps(d, c, x, t, m))
  BY <1>4, SeqIs
<1> DEFINE F == LaySteps(d, c, x, s, m)
           H == LaySteps(d, c, x, t, m)
<1>8. Through(Cat(F, H), page) = Through(H, Through(F, page))
  <2> HIDE DEF F, H
  <2> QED BY <1>7, ThroughCat DEF F, H
<1> QED BY <1>3, <1>4, <1>5, <1>6, <1>8

LEMMA LayNone ==
  ASSUME NEW d, NEW c, NEW page, NEW m
  PROVE  LayBy(d, c, page, Empty, m) = page
<1> DEFINE f == LaySteps(d, c, Layouts(d, c), Empty, m)
<1>1. LayBy(d, c, page, Empty, m) = Through(f, page)
  BY DEF LayBy, LayAll, LaySteps
<1>2. f = [k \in DOMAIN Empty |-> f[k]]
  BY DEF LaySteps
<1> HIDE DEF f
<1>3. f = Empty
  BY <1>2, MapNone
<1> QED BY <1>1, <1>3, ThroughNone

LEMMA LayOne ==
  ASSUME NEW d, NEW c, NEW page \in Pages, NEW node, NEW m
  PROVE  LayBy(d, c, page, One(node), m) = Lay(d, c, Layouts(d, c), page, node, m)
<1> DEFINE f == LaySteps(d, c, Layouts(d, c), One(node), m)
           r == [p \in Pages |-> Lay(d, c, Layouts(d, c), p, node, m)]
<1>1. LayBy(d, c, page, One(node), m) = Through(f, page)
  BY DEF LayBy, LayAll, LaySteps
<1>2. f = [k \in DOMAIN One(node) |-> f[k]]
  BY DEF LaySteps
<1>3. f[1] = r
  <2>1. 1 \in DOMAIN One(node) /\ One(node)[1] = node
    BY OneFacts, IsSeqFacts
  <2> QED BY <2>1 DEF LaySteps
<1>4. r[page] = Lay(d, c, Layouts(d, c), page, node, m)
  OBVIOUS
<1> HIDE DEF f, r
<1>5. f = One(r)
  BY <1>2, <1>3, MapOne
<1>6. Through(One(r), page) = r[page]
  BY ThroughOne
<1> QED BY <1>1, <1>4, <1>5, <1>6

-----------------------------------------------------------------------------
(* What units are, in terms of what is in them, and how it grows.          *)
LEMMA UnitIs ==
  ASSUME NEW d, NEW c, Grounded(d, c), NEW u \in Units(d, c)
  PROVE  /\ Expansions(d, c)[u] = Expand(d, c, Inside(d, c, u))
         /\ \A m \in Int : \A page \in Pages :
              Layouts(d, c)[u][m][page] = LayBy(d, c, page, Inside(d, c, u), m)
<1> DEFINE x == Expansions(d, c)
           y == Layouts(d, c)
           seg == Inside(d, c, u)
<1>1. x[u] = StandAll(d, c, x, seg)
  <2>1. Solves("expand", d, c, Units(d, c), x)
    BY ExpansionsSolve
  <2> HIDE DEF x
  <2> QED BY <2>1 DEF Solves, Body
<1>2. y[u] = [m \in Int |-> [page \in Pages |-> LayAll(d, c, y, page, seg, m)]]
  <2>1. Solves("layout", d, c, Units(d, c), y)
    BY LayoutsSolve
  <2> HIDE DEF y
  <2> QED BY <2>1 DEF Solves, Body
<1>3. Expand(d, c, seg) = StandAll(d, c, x, seg) /\ \A page, m : LayBy(d, c, page, seg, m) = LayAll(d, c, y, page, seg, m)
  BY DEF Expand, LayBy
<1> HIDE DEF x, y, seg
<1> QED BY <1>1, <1>2, <1>3 DEF x, y, seg

LEMMA NodesFollow ==
  ASSUME NEW d, NEW e, NEW c, Grounded(d, c), Grounded(e, c), Extends(d, e), NEW node \in NodeType(d)
  PROVE  Follows(c, Expansions(d, c), Expansions(e, c), node) /\ Follows(c, Layouts(d, c), Layouts(e, c), node)
<1>1. \A u \in Units(d, c) :
        Expansions(e, c)[u] = Expansions(d, c)[u] /\ Layouts(e, c)[u] = Layouts(d, c)[u]
  BY UnitsGrow
<1>2. /\ IsGiven(c, node) => <<"argument", node.index + 1>> \in Units(d, c)
      /\ IsDecided(c, node) => <<"data", node.data>> \in Units(d, c)
  BY NodeUnits
<1> QED BY <1>1, <1>2 DEF Follows

LEMMA ExpandGrows ==
  ASSUME NEW d, NEW e, NEW c, Grounded(d, c), Grounded(e, c), Extends(d, e), NEW seg \in Segments(d)
  PROVE  /\ Expand(e, c, seg) = Expand(d, c, seg)
         /\ \A page, m : LayBy(e, c, page, seg, m) = LayBy(d, c, page, seg, m)
<1>1. \A k \in DOMAIN seg :
        Follows(c, Expansions(d, c), Expansions(e, c), seg[k]) /\ Follows(c, Layouts(d, c), Layouts(e, c), seg[k])
  BY SegmentFacts, NodesFollow
<1>2. Expand(e, c, seg) = Expand(d, c, seg)
  BY <1>1, StandAllLocal DEF Expand
<1>3. \A page, m : LayBy(e, c, page, seg, m) = LayBy(d, c, page, seg, m)
  BY <1>1, LayAllLocal DEF LayBy
<1> QED BY <1>2, <1>3

-----------------------------------------------------------------------------
(* Copies of shared data stand for what is copied.                         *)
Inherits(seg, T) == \A k \in DOMAIN seg : seg[k].type \in {"string", "conditional"} => seg[k].data \in T

LEMMA CopyInduction ==
  ASSUME NEW d, NEW c, Grounded(d, c), NEW n \in Int, NEW e, Copied(d, e, n), NEW T,
         \A a \in DOMAIN Data : Inherits(Inside(d, c, <<"data", a>>), T) => a \in T
  PROVE  DOMAIN Data \subseteq T
<1> DEFINE S == {<<"data", a>> : a \in DOMAIN Data \ T}
<1>0. Heap(d) /\ CallType(c) /\ Founded(d, c)
  BY DEF Grounded
<1> SUFFICES ASSUME NEW b \in DOMAIN Data, b \notin T PROVE FALSE
  OBVIOUS
<1>1. S \subseteq Units(d, c) /\ S # {}
  BY <1>0, InsideCopied
<1>2. PICK u \in S : Refers(d, c, u) \cap S = {}
  <2> HIDE DEF S
  <2> QED BY <1>0, <1>1, MinimalUnit
<1>3. PICK a \in DOMAIN Data : a \notin T /\ u = <<"data", a>>
  OBVIOUS
<1> DEFINE seg == Inside(d, c, <<"data", a>>)
<1>4. seg \in Segments(Data)
  BY <1>0, InsideCopied
<1>5. ASSUME NEW k \in DOMAIN seg, seg[k].type \in {"string", "conditional"}
      PROVE  seg[k].data \in T
  <2>1. <<"data", seg[k].data>> \in Refers(d, c, u)
    BY <1>3, <1>5, RefersTo
  <2>2. seg[k].data \in DOMAIN Data
    <3> HIDE DEF seg
    <3> QED BY <1>4, <1>5, SegmentFacts, NodeFacts
  <2>3. <<"data", seg[k].data>> \notin S
    BY <1>2, <2>1
  <2> HIDE DEF seg
  <2> QED BY <2>2, <2>3
<1> HIDE DEF seg
<1>6. Inherits(seg, T)
  BY <1>5 DEF Inherits
<1> QED BY <1>3, <1>6 DEF seg

LEMMA HoldsCopied ==
  ASSUME NEW d, NEW c, Grounded(d, c), NEW n \in Int, NEW e, Copied(d, e, n),
         NEW node \in NodeType(Data), node.type = "conditional"
  PROVE  /\ node.data \in DOMAIN Data /\ Shift(node, d, n).data = Len(d) + node.data
         /\ e[Len(d) + node.data].guard = d[node.data].guard
         /\ Holds(e, c, Shift(node, d, n)) <=> Holds(d, c, node)
<1>0. Heap(d)
  BY DEF Grounded
<1>1. node.data \in DOMAIN Data /\ Shift(node, d, n).data = Len(d) + node.data
  BY <1>0, ShiftTyped
<1>2. Data[node.data].type = "conditional" /\ d[node.data] = Data[node.data]
  BY <1>0, <1>1, NodeFacts, CopiedTypes
<1>3. e[Len(d) + node.data].guard = d[node.data].guard
  <2> DEFINE a == node.data
  <2>1. a \in DOMAIN Data /\ Data[a].type = "conditional" /\ d[a] = Data[a]
    BY <1>1, <1>2
  <2> HIDE DEF a
  <2>2. e[Len(d) + a].guard = Data[a].guard
    BY <1>0, <2>1, CopiedCondition
  <2>3. e[Len(d) + a].guard = d[a].guard
    BY <2>1, <2>2
  <2> QED BY <2>3 DEF a
<1> QED BY <1>1, <1>3 DEF Holds

LEMMA SeeCopied ==
  ASSUME NEW d, NEW c, Grounded(d, c), NEW n \in Int, NEW e, Copied(d, e, n),
         NEW node \in NodeType(Data), NEW x, NEW y,
         node.type = "conditional" => y[Len(d) + node.data] = x[node.data]
  PROVE  See(e, y, Shift(node, d, n), "content") = See(d, x, node, "content")
<1> DEFINE copy == Shift(node, d, n)
<1>0. Heap(d)
  BY DEF Grounded
<1>1. copy.type = node.type
  BY <1>0, ShiftTyped
<1>2. CASE node.type = "break"
  <2>1. copy = node
    BY <1>0, <1>2, ShiftTyped
  <2> HIDE DEF copy
  <2> QED BY <1>2, <2>1 DEF See, Texts, copy
<1>3. CASE node.type \in Texts
  <2>1. Info(e, copy).text = Info(d, node).text
    BY <1>0, <1>3, ShiftTyped
  <2> HIDE DEF copy
  <2> QED BY <1>1, <1>3, <2>1 DEF See, Texts, copy
<1>4. CASE node.type = "wildcard"
  <2>1. copy.index = node.index
    BY <1>0, <1>4, ShiftTyped
  <2> HIDE DEF copy
  <2> QED BY <1>1, <1>4, <2>1 DEF See, Texts, copy
<1>5. CASE node.type = "conditional"
  <2>1. copy.data = Len(d) + node.data /\ e[Len(d) + node.data].guard = d[node.data].guard
    BY <1>5, HoldsCopied
  <2> HIDE DEF copy
  <2> QED BY <1>1, <1>5, <2>1 DEF See, Texts, copy
<1> QED BY <1>2, <1>3, <1>4, <1>5, NodeFacts DEF Texts

LEMMA ContentCopied ==
  ASSUME NEW d, NEW c, Grounded(d, c), NEW n \in Int, NEW e, Copied(d, e, n),
         NEW seg \in Segments(Data),
         \A k \in DOMAIN seg : seg[k].type = "conditional" =>
           Seen(e, "content")[Len(d) + seg[k].data] = Seen(d, "content")[seg[k].data]
  PROVE  Content(e, ShiftAll(seg, d, n)) = Content(d, seg)
<1> DEFINE X(node) == See(d, Seen(d, "content"), node, "content")
           Y(node) == See(e, Seen(e, "content"), node, "content")
           copy == ShiftAll(seg, d, n)
<1>0. Heap(d)
  BY DEF Grounded
<1>1. /\ DOMAIN copy = DOMAIN seg
      /\ \A k \in DOMAIN seg : copy[k] = Shift(seg[k], d, n) /\ seg[k] \in NodeType(Data)
  BY <1>0, ShiftAllTyped, SegmentFacts
<1>2. \A k \in DOMAIN seg : Y(Shift(seg[k], d, n)) = X(seg[k])
  BY <1>1, SeeCopied
<1>3. Content(d, seg) = [k \in DOMAIN seg |-> X(seg[k])] /\ Content(e, copy) = [k \in DOMAIN copy |-> Y(copy[k])]
  BY DEF Content
<1> HIDE DEF X, Y, copy
<1>4. \A k \in DOMAIN seg : Y(copy[k]) = X(seg[k])
  BY <1>1, <1>2
<1>5. Content(e, copy) = Content(d, seg)
  BY <1>1, <1>3, <1>4
<1> QED BY <1>5 DEF copy

LEMMA SeenInside ==
  ASSUME NEW d, NEW c, Grounded(d, c), NEW a \in DOMAIN d
  PROVE  Seen(d, "content")[a] = Content(d, Inside(d, c, <<"data", a>>))
<1> DEFINE x == Seen(d, "content")
           seg == Inside(d, c, <<"data", a>>)
<1>1. x[a] = SeenOf(d, x, a, "content")
  BY SeenIs DEF SeenKinds
<1>2. seg = (IF d[a].type = "string" THEN <<>> ELSE d[a].nodes)
  BY DataUnit
<1>3. \A s : Content(d, s) = [k \in DOMAIN s |-> See(d, x, s[k], "content")]
  BY DEF Content
<1>4. Content(d, <<>>) = <<>>
  BY ContentNone DEF Empty
<1> HIDE DEF x, seg
<1> QED BY <1>1, <1>2, <1>3, <1>4 DEF SeenOf, x, seg

LEMMA SeenCopied ==
  ASSUME NEW d, NEW c, Grounded(d, c), NEW n \in Int, NEW e, Copied(d, e, n)
  PROVE  \A a \in DOMAIN Data : Seen(e, "content")[Len(d) + a] = Seen(d, "content")[a]
<1> DEFINE x == Seen(d, "content")
           y == Seen(e, "content")
           T == {a \in DOMAIN Data : y[Len(d) + a] = x[a]}
<1>0. Heap(d) /\ Grounded(e, c)
  BY GroundedCopied DEF Grounded
<1>1. ASSUME NEW a \in DOMAIN Data, Inherits(Inside(d, c, <<"data", a>>), T)
      PROVE  a \in T
  <2> DEFINE old == Inside(d, c, <<"data", a>>)
             new == Inside(e, c, <<"data", Len(d) + a>>)
  <2>1. old \in Segments(Data) /\ new = ShiftAll(old, d, n)
    BY <1>0, InsideCopied
  <2>2. a \in DOMAIN d /\ Len(d) + a \in DOMAIN e
    BY <1>0, CopiedTypes
  <2>3. x[a] = Content(d, old) /\ y[Len(d) + a] = Content(e, new)
    BY <1>0, <2>2, SeenInside
  <2>4. \A k \in DOMAIN old : old[k].type = "conditional" => y[Len(d) + old[k].data] = x[old[k].data]
    BY <1>1 DEF Inherits
  <2> HIDE DEF old, new
  <2>5. Content(e, ShiftAll(old, d, n)) = Content(d, old)
    BY <2>1, <2>4, ContentCopied
  <2> QED BY <2>1, <2>3, <2>5
<1>2. DOMAIN Data \subseteq T
  <2> HIDE DEF T
  <2> QED BY <1>1, CopyInduction
<1> QED BY <1>2

LEMMA ContentOne ==
  ASSUME NEW d, NEW node
  PROVE  Content(d, One(node)) = One(See(d, Seen(d, "content"), node, "content"))
<1> DEFINE f == Content(d, One(node))
           r == See(d, Seen(d, "content"), node, "content")
<1>1. f = [k \in DOMAIN One(node) |-> f[k]]
  BY DEF Content
<1>2. f[1] = r
  <2>1. 1 \in DOMAIN One(node) /\ One(node)[1] = node
    BY OneFacts, IsSeqFacts
  <2> QED BY <2>1 DEF Content
<1> HIDE DEF f, r
<1>3. f = One(r)
  BY <1>1, <1>2, MapOne
<1> QED BY <1>3 DEF f, r

(* What stays of a node when it is copied.                                 *)
LEMMA GivenCopied ==
  ASSUME NEW d, NEW c, Grounded(d, c), NEW n \in Int, NEW e, Copied(d, e, n), NEW node \in NodeType(Data)
  PROVE  /\ Shift(node, d, n) \in NodeType(e) /\ Shift(node, d, n).type = node.type
         /\ node \in NodeType(d)
         /\ IsGiven(c, Shift(node, d, n)) <=> IsGiven(c, node)
         /\ IsGiven(c, node) => Shift(node, d, n).index = node.index /\ node.type = "wildcard"
         /\ IsDecided(c, Shift(node, d, n)) <=> IsDecided(c, node)
<1> DEFINE copy == Shift(node, d, n)
<1>0. Heap(d) /\ Extends(Data, d)
  BY DEF Grounded, Heap
<1>1. copy \in NodeType(e) /\ copy.type = node.type /\ (node.type = "wildcard" => copy.index = node.index)
  BY <1>0, ShiftTyped
<1>2. node \in NodeType(d)
  BY <1>0, InfoGrows
<1> HIDE DEF copy
<1>3. IsArgument(c, copy) <=> IsArgument(c, node)
  BY <1>1 DEF IsArgument
<1>4. IsArgument(c, node) => node.type = "wildcard"
  BY DEF IsArgument
<1>5. IsGiven(c, copy) <=> IsGiven(c, node)
  BY <1>1, <1>3, <1>4 DEF IsGiven
<1>6. IsGiven(c, node) => copy.index = node.index /\ node.type = "wildcard"
  BY <1>1, <1>4 DEF IsGiven
<1>7. IsDecided(c, copy) <=> IsDecided(c, node)
  BY <1>1 DEF IsDecided
<1> QED BY <1>1, <1>2, <1>5, <1>6, <1>7 DEF copy

LEMMA StandCopied ==
  ASSUME NEW d, NEW c, Grounded(d, c), NEW n \in Int, NEW e, Copied(d, e, n),
         NEW node \in NodeType(Data), NEW x, NEW y,
         IsGiven(c, node) => y[<<"argument", node.index + 1>>] = x[<<"argument", node.index + 1>>],
         IsDecided(c, node) => y[<<"data", Len(d) + node.data>>] = x[<<"data", node.data>>]
  PROVE  Stand(e, c, y, Shift(node, d, n)) = Stand(d, c, x, node)
<1> DEFINE copy == Shift(node, d, n)
<1>0. Heap(d)
  BY DEF Grounded
<1>1. /\ IsGiven(c, copy) <=> IsGiven(c, node)
      /\ IsGiven(c, node) => copy.index = node.index
      /\ IsDecided(c, copy) <=> IsDecided(c, node)
  BY GivenCopied
<1>2. Content(e, <<copy>>) = Content(d, <<node>>)
  <2> DEFINE old == Seen(d, "content")
             new == Seen(e, "content")
             r == See(d, old, node, "content")
             q == See(e, new, copy, "content")
  <2>1. node.type = "conditional" => new[Len(d) + node.data] = old[node.data]
    BY HoldsCopied, SeenCopied
  <2>2. \A f, g : (node.type = "conditional" => g[Len(d) + node.data] = f[node.data])
                    => See(e, g, copy, "content") = See(d, f, node, "content")
    BY SeeCopied
  <2>4. q = r
    <3> HIDE DEF old, new, copy
    <3> QED BY <2>1, <2>2
  <2>3. Content(d, One(node)) = One(r) /\ Content(e, One(copy)) = One(q)
    BY ContentOne
  <2> HIDE DEF r, q, copy
  <2> QED BY <2>3, <2>4 DEF One
<1>3. IsDecided(c, node) =>
        copy.data = Len(d) + node.data /\ (Holds(e, c, copy) <=> Holds(d, c, node))
  BY HoldsCopied DEF IsDecided
<1> HIDE DEF copy
<1>4. CASE IsGiven(c, node)
  BY <1>1, <1>4 DEF Stand, copy
<1>5. CASE ~IsGiven(c, node) /\ ~IsDecided(c, node)
  BY <1>1, <1>2, <1>5 DEF Stand, copy
<1>6. CASE ~IsGiven(c, node) /\ IsDecided(c, node) /\ Holds(d, c, node)
  BY <1>1, <1>3, <1>6 DEF Stand, copy
<1>7. CASE ~IsGiven(c, node) /\ IsDecided(c, node) /\ ~Holds(d, c, node)
  BY <1>1, <1>3, <1>7 DEF Stand, copy
<1> QED BY <1>4, <1>5, <1>6, <1>7

(* Arguments stand for the same when data has been copied.                 *)
LEMMA ArgumentsKept ==
  ASSUME NEW d, NEW c, Grounded(d, c), NEW n \in Int, NEW e, Copied(d, e, n),
         NEW node \in NodeType(Data), IsGiven(c, node)
  PROVE  /\ Expansions(e, c)[<<"argument", node.index + 1>>] = Expansions(d, c)[<<"argument", node.index + 1>>]
         /\ Layouts(e, c)[<<"argument", node.index + 1>>] = Layouts(d, c)[<<"argument", node.index + 1>>]
<1>1. Extends(d, e) /\ Grounded(e, c) /\ node \in NodeType(d)
  BY GroundedCopied, GivenCopied DEF Copied
<1>2. <<"argument", node.index + 1>> \in Units(d, c)
  BY <1>1, NodeUnits
<1> QED BY <1>1, <1>2, UnitsGrow

LEMMA StandAllCopied ==
  ASSUME NEW d, NEW c, Grounded(d, c), NEW n \in Int, NEW e, Copied(d, e, n),
         NEW seg \in Segments(Data),
         \A k \in DOMAIN seg : seg[k].type = "conditional" =>
           Expansions(e, c)[<<"data", Len(d) + seg[k].data>>] = Expansions(d, c)[<<"data", seg[k].data>>]
  PROVE  Expand(e, c, ShiftAll(seg, d, n)) = Expand(d, c, seg)
<1> DEFINE X(node) == Stand(d, c, Expansions(d, c), node)
           Y(node) == Stand(e, c, Expansions(e, c), node)
           copy == ShiftAll(seg, d, n)
<1>0. Heap(d)
  BY DEF Grounded
<1>1. /\ DOMAIN copy = DOMAIN seg
      /\ \A k \in DOMAIN seg : copy[k] = Shift(seg[k], d, n) /\ seg[k] \in NodeType(Data)
  BY <1>0, ShiftAllTyped, SegmentFacts
<1>2. ASSUME NEW k \in DOMAIN seg
      PROVE  Y(Shift(seg[k], d, n)) = X(seg[k])
  <2>1. seg[k] \in NodeType(Data)
    BY <1>1
  <2>2. IsGiven(c, seg[k]) =>
          Expansions(e, c)[<<"argument", seg[k].index + 1>>] = Expansions(d, c)[<<"argument", seg[k].index + 1>>]
    BY <2>1, ArgumentsKept
  <2>3. IsDecided(c, seg[k]) =>
          Expansions(e, c)[<<"data", Len(d) + seg[k].data>>] = Expansions(d, c)[<<"data", seg[k].data>>]
    BY DEF IsDecided
  <2> QED BY <2>1, <2>2, <2>3, StandCopied
<1>3. /\ Expand(d, c, seg) = FlattenSeq([k \in DOMAIN seg |-> X(seg[k])])
      /\ Expand(e, c, copy) = FlattenSeq([k \in DOMAIN copy |-> Y(copy[k])])
  BY DEF Expand, StandAll
<1> HIDE DEF X, Y, copy
<1>4. \A k \in DOMAIN seg : Y(copy[k]) = X(seg[k])
  BY <1>1, <1>2
<1>5. [k \in DOMAIN copy |-> Y(copy[k])] = [k \in DOMAIN seg |-> X(seg[k])]
  BY <1>1, <1>4
<1> QED BY <1>3, <1>5 DEF copy

LEMMA ExpandCopied ==
  ASSUME NEW d, NEW c, Grounded(d, c), NEW n \in Int, NEW e, Copied(d, e, n), NEW seg \in Segments(Data)
  PROVE  Expand(e, c, ShiftAll(seg, d, n)) = Expand(d, c, seg)
<1> DEFINE x == Expansions(d, c)
           y == Expansions(e, c)
           T == {a \in DOMAIN Data : y[<<"data", Len(d) + a>>] = x[<<"data", a>>]}
<1>0. Heap(d) /\ Grounded(e, c)
  BY GroundedCopied DEF Grounded
<1>1. ASSUME NEW a \in DOMAIN Data, Inherits(Inside(d, c, <<"data", a>>), T)
      PROVE  a \in T
  <2> DEFINE old == Inside(d, c, <<"data", a>>)
             new == Inside(e, c, <<"data", Len(d) + a>>)
  <2>1. /\ old \in Segments(Data) /\ new = ShiftAll(old, d, n)
        /\ <<"data", a>> \in Units(d, c) /\ <<"data", Len(d) + a>> \in Units(e, c)
    BY <1>0, InsideCopied
  <2>2. x[<<"data", a>>] = Expand(d, c, old) /\ y[<<"data", Len(d) + a>>] = Expand(e, c, new)
    BY <1>0, <2>1, UnitIs
  <2>3. \A k \in DOMAIN old : old[k].type = "conditional" =>
          y[<<"data", Len(d) + old[k].data>>] = x[<<"data", old[k].data>>]
    BY <1>1 DEF Inherits
  <2> HIDE DEF old, new
  <2>4. Expand(e, c, ShiftAll(old, d, n)) = Expand(d, c, old)
    BY <2>1, <2>3, StandAllCopied
  <2> QED BY <2>1, <2>2, <2>4
<1>2. DOMAIN Data \subseteq T
  <2> HIDE DEF T
  <2> QED BY <1>1, CopyInduction
<1>3. ASSUME NEW k \in DOMAIN seg, seg[k].type = "conditional"
      PROVE  y[<<"data", Len(d) + seg[k].data>>] = x[<<"data", seg[k].data>>]
  <2>1. seg[k].data \in DOMAIN Data
    BY <1>3, SegmentFacts, NodeFacts
  <2> QED BY <1>2, <2>1
<1> QED BY <1>3, StandAllCopied

(* A copy that is indented by n is laid out as what is copied is with a    *)
(* margin that is n wider.                                                 *)
Alike(d, c, node, x, w, y, m, page) ==
  /\ IsGiven(c, node) => y[<<"argument", node.index + 1>>] = x[<<"argument", node.index + 1>>]
  /\ IsDecided(c, node) => y[<<"data", Len(d) + node.data>>][m][page] = x[<<"data", node.data>>][w][page]

LEMMA LayCopied ==
  ASSUME NEW d, NEW c, Grounded(d, c), NEW n \in Int, NEW e, Copied(d, e, n),
         NEW node \in NodeType(Data), NEW x, NEW y, NEW m \in Int, NEW w, w = m + n, NEW page \in Pages,
         Alike(d, c, node, x, w, y, m, page)
  PROVE  Lay(e, c, y, page, Shift(node, d, n), m) = Lay(d, c, x, page, node, w)
<1> DEFINE copy == Shift(node, d, n)
<1>0. Heap(d) /\ DataType(d)
  BY DEF Grounded, Heap
<1>1. /\ IsGiven(c, copy) <=> IsGiven(c, node)
      /\ IsGiven(c, node) => copy.index = node.index
      /\ IsDecided(c, copy) <=> IsDecided(c, node)
      /\ copy.type = node.type /\ node \in NodeType(d)
  BY GivenCopied
<1>2. CASE node.type = "break"
  <2>1. copy = node
    BY <1>0, <1>2, ShiftTyped
  <2> HIDE DEF copy
  <2> QED BY <1>2, <2>1 DEF Lay, copy
<1>3. CASE node.type \in Texts
  <2>1. Info(e, copy).text = Info(d, node).text /\ Info(e, copy).indent = Info(d, node).indent + n
    BY <1>0, <1>3, ShiftTyped
  <2>2. Info(d, node).indent \in Int
    BY <1>0, <1>1, <1>3, InfoFacts
  <2> HIDE DEF copy
  <2>3. m + Info(e, copy).indent = w + Info(d, node).indent
    BY <2>1, <2>2
  <2> QED BY <1>1, <1>3, <2>1, <2>3 DEF Lay, Texts, copy
<1>4. CASE node.type = "wildcard"
  <2>1. copy.indent = node.indent + n /\ node.indent \in Int
    BY <1>0, <1>4, ShiftTyped, NodeFacts
  <2>2. ~IsDecided(c, node)
    BY <1>4 DEF IsDecided
  <2> HIDE DEF copy
  <2>3. m + copy.indent = w + node.indent
    BY <2>1
  <2>4. CASE IsGiven(c, node)
    BY <1>1, <1>4, <2>3, <2>4 DEF Lay, Texts, copy, Alike
  <2>5. CASE ~IsGiven(c, node)
    BY <1>1, <1>4, <2>2, <2>5 DEF Lay, Texts, copy
  <2> QED BY <2>4, <2>5
<1>5. CASE node.type = "conditional"
  <2>1. copy.data = Len(d) + node.data /\ (Holds(e, c, copy) <=> Holds(d, c, node))
    BY <1>5, HoldsCopied
  <2>2. ~IsGiven(c, node)
    BY <1>5 DEF IsGiven, IsArgument
  <2> HIDE DEF copy
  <2>3. CASE IsDecided(c, node) /\ Holds(d, c, node)
    BY <1>1, <1>5, <2>1, <2>2, <2>3 DEF Lay, Texts, copy, Alike
  <2>4. CASE ~(IsDecided(c, node) /\ Holds(d, c, node))
    BY <1>1, <1>5, <2>1, <2>2, <2>4 DEF Lay, Texts, copy
  <2> QED BY <2>3, <2>4
<1> QED BY <1>2, <1>3, <1>4, <1>5, NodeFacts DEF Texts

LEMMA LayAllCopied ==
  ASSUME NEW d, NEW c, Grounded(d, c), NEW n \in Int, NEW e, Copied(d, e, n),
         NEW seg \in Segments(Data), NEW m \in Int,
         \A k \in DOMAIN seg : seg[k].type = "conditional" =>
           \A page \in Pages : Layouts(e, c)[<<"data", Len(d) + seg[k].data>>][m][page]
                                 = Layouts(d, c)[<<"data", seg[k].data>>][m + n][page]
  PROVE  \A page : LayBy(e, c, page, ShiftAll(seg, d, n), m) = LayBy(d, c, page, seg, m + n)
<1> DEFINE X(node) == [page \in Pages |-> Lay(d, c, Layouts(d, c), page, node, m + n)]
           Y(node) == [page \in Pages |-> Lay(e, c, Layouts(e, c), page, node, m)]
           copy == ShiftAll(seg, d, n)
<1>0. Heap(d)
  BY DEF Grounded
<1>1. /\ DOMAIN copy = DOMAIN seg
      /\ \A k \in DOMAIN seg : copy[k] = Shift(seg[k], d, n) /\ seg[k] \in NodeType(Data)
  BY <1>0, ShiftAllTyped, SegmentFacts
<1>2. ASSUME NEW k \in DOMAIN seg
      PROVE  Y(Shift(seg[k], d, n)) = X(seg[k])
  <2> DEFINE node == seg[k]
             x == Layouts(d, c)
             y == Layouts(e, c)
             w == m + n
  <2> HIDE DEF w
  <2>1. node \in NodeType(Data)
    BY <1>1
  <2>2. IsGiven(c, node) => y[<<"argument", node.index + 1>>] = x[<<"argument", node.index + 1>>]
    BY <2>1, ArgumentsKept
  <2>3. ASSUME NEW page \in Pages
        PROVE  Lay(e, c, y, page, Shift(node, d, n), m) = Lay(d, c, x, page, node, w)
    <3>1. IsDecided(c, node) => y[<<"data", Len(d) + node.data>>][m][page] = x[<<"data", node.data>>][w][page]
      BY DEF IsDecided, w
    <3>2. w = m + n
      BY DEF w
    <3> HIDE DEF node, x, y
    <3>3. Alike(d, c, node, x, w, y, m, page)
      BY <2>2, <3>1 DEF Alike
    <3> QED BY <2>1, <3>2, <3>3, LayCopied
  <2> HIDE DEF node, x, y
  <2>4. [page \in Pages |-> Lay(e, c, y, page, Shift(node, d, n), m)]
          = [page \in Pages |-> Lay(d, c, x, page, node, w)]
    BY <2>3
  <2> USE DEF w
  <2> QED BY <2>4 DEF node, x, y
<1>3. \A page :
        /\ LayBy(d, c, page, seg, m + n) = Through([k \in DOMAIN seg |-> X(seg[k])], page)
        /\ LayBy(e, c, page, copy, m) = Through([k \in DOMAIN copy |-> Y(copy[k])], page)
  BY DEF LayBy, LayAll
<1> HIDE DEF X, Y, copy
<1>4. \A k \in DOMAIN seg : Y(copy[k]) = X(seg[k])
  BY <1>1, <1>2
<1>5. [k \in DOMAIN copy |-> Y(copy[k])] = [k \in DOMAIN seg |-> X(seg[k])]
  BY <1>1, <1>4
<1> QED BY <1>3, <1>5 DEF copy

LEMMA LayByCopied ==
  ASSUME NEW d, NEW c, Grounded(d, c), NEW n \in Int, NEW e, Copied(d, e, n), NEW seg \in Segments(Data),
         NEW m \in Int
  PROVE  \A page : LayBy(e, c, page, ShiftAll(seg, d, n), m) = LayBy(d, c, page, seg, m + n)
<1> DEFINE x == Layouts(d, c)
           y == Layouts(e, c)
           T == {a \in DOMAIN Data : \A w \in Int : \A page \in Pages :
                   y[<<"data", Len(d) + a>>][w][page] = x[<<"data", a>>][w + n][page]}
<1>0. Heap(d) /\ Grounded(e, c)
  BY GroundedCopied DEF Grounded
<1>1. ASSUME NEW a \in DOMAIN Data, Inherits(Inside(d, c, <<"data", a>>), T)
      PROVE  a \in T
  <2> DEFINE old == Inside(d, c, <<"data", a>>)
             new == Inside(e, c, <<"data", Len(d) + a>>)
  <2>1. /\ old \in Segments(Data) /\ new = ShiftAll(old, d, n)
        /\ <<"data", a>> \in Units(d, c) /\ <<"data", Len(d) + a>> \in Units(e, c)
    BY <1>0, InsideCopied
  <2> SUFFICES ASSUME NEW w \in Int, NEW page \in Pages
               PROVE  y[<<"data", Len(d) + a>>][w][page] = x[<<"data", a>>][w + n][page]
    OBVIOUS
  <2>2. /\ x[<<"data", a>>][w + n][page] = LayBy(d, c, page, old, w + n)
        /\ y[<<"data", Len(d) + a>>][w][page] = LayBy(e, c, page, new, w)
    BY <1>0, <2>1, UnitIs
  <2>3. \A k \in DOMAIN old : old[k].type = "conditional" =>
          \A p \in Pages : y[<<"data", Len(d) + old[k].data>>][w][p] = x[<<"data", old[k].data>>][w + n][p]
    BY <1>1 DEF Inherits
  <2> HIDE DEF old, new, T
  <2>4. LayBy(e, c, page, ShiftAll(old, d, n), w) = LayBy(d, c, page, old, w + n)
    BY <2>1, <2>3, LayAllCopied
  <2> QED BY <2>1, <2>2, <2>4
<1>2. DOMAIN Data \subseteq T
  <2> HIDE DEF T
  <2> QED BY <1>1, CopyInduction
<1>3. ASSUME NEW k \in DOMAIN seg, seg[k].type = "conditional", NEW page \in Pages
      PROVE  y[<<"data", Len(d) + seg[k].data>>][m][page] = x[<<"data", seg[k].data>>][m + n][page]
  <2>1. seg[k].data \in DOMAIN Data
    BY <1>3, SegmentFacts, NodeFacts
  <2> QED BY <1>2, <2>1
<1> HIDE DEF T
<1> QED BY <1>3, LayAllCopied

-----------------------------------------------------------------------------
(* An argument that is put in stands for itself, at its column.            *)
LEMMA IndentStands ==
  ASSUME NEW d, NEW c, Grounded(d, c), NEW n \in Int, NEW seg \in Segments(Data), NEW e, NEW t,
         e = IndentNodes(d, seg, n)[1], t = IndentNodes(d, seg, n)[2]
  PROVE  /\ Expand(e, c, t) = Expand(d, c, seg)
         /\ \A page : LayBy(e, c, page, t, 0) = LayBy(d, c, page, seg, n)
<1>1. CASE n = 0
  BY <1>1, IndentNone
<1>2. CASE n # 0
  <2>1. Copied(d, e, n) /\ t = ShiftAll(seg, d, n)
    BY <1>2, IndentCopies DEF Grounded
  <2>2. 0 \in Int /\ 0 + n = n
    OBVIOUS
  <2>3. Expand(e, c, ShiftAll(seg, d, n)) = Expand(d, c, seg)
    BY <2>1, ExpandCopied
  <2>4. \A page : LayBy(e, c, page, ShiftAll(seg, d, n), 0) = LayBy(d, c, page, seg, 0 + n)
    BY <2>1, <2>2, LayByCopied
  <2> QED BY <2>1, <2>2, <2>3, <2>4
<1> QED BY <1>1, <1>2

-----------------------------------------------------------------------------
(* The loop of replace: what it has left behind and the expansion of what  *)
(* is ahead make the expansion of what the segment was.                    *)
ExpandInv == pc = "scan" => Cat(Content(data, Behind), Expand(data, call, Ahead)) = Expand(data, call, start)

LayInv ==
  pc = "scan" /\ Written(Behind) =>
    LayBy(data, call, Generate(data, Behind), Ahead, 0) = LayBy(data, call, Page, start, 0)

LEMMA PutInCall ==
  ASSUME Typed, NEW seg, PutIn(seg)
  PROVE  /\ pc = "scan" /\ Grounded(data, call) /\ Grounded(data', call) /\ call' = call
         /\ Extends(data, data') /\ start \in Segments(data) /\ start' = start
         /\ Behind \in Segments(data) /\ Rest \in Segments(data) /\ nodes[i] \in NodeType(data)
         /\ seg \in Segments(data') /\ Rest \in Segments(data')
         /\ Ahead = Cat(One(nodes[i]), Rest) /\ One(nodes[i]) \in Segments(data)
<1>1. pc = "scan" /\ IsSeq(calls) /\ Len(calls) # 0
  BY DEF PutIn, Scanning, Typed, CallsGrounded
<1>2. 1 \in 1 .. Len(calls) /\ call = calls[1]
  BY <1>1, IsSeqFacts DEF call
<1>3. Grounded(data', call) /\ Extends(data, data') /\ start' = start /\ call' = call /\ seg \in Segments(data')
  BY <1>2 DEF PutIn, call
<1>4. Grounded(data, call)
  BY <1>1, CallFacts
<1>5. start \in Segments(data)
  BY DEF Typed, TypeOK
<1>6. /\ Behind \in Segments(data) /\ Rest \in Segments(data) /\ nodes[i] \in NodeType(data)
      /\ Ahead = Cat(One(nodes[i]), Rest)
  BY ScanFacts DEF PutIn
<1>7. Rest \in Segments(data') /\ One(nodes[i]) \in Segments(data)
  BY <1>3, <1>6, SegmentsGrow, OneSegment
<1> QED BY <1>1, <1>3, <1>4, <1>5, <1>6, <1>7

LEMMA PutInExpand ==
  ASSUME Typed, NEW seg, PutIn(seg), ExpandInv,
         Expand(data', call, seg) = Stand(data, call, Expansions(data, call), nodes[i])
  PROVE  ExpandInv'
<1> DEFINE d == data
           e == data'
           c == call
           b == Behind
           r == Rest
           s == start
           node == nodes[i]
           x == Stand(data, call, Expansions(data, call), nodes[i])
<1>1. /\ Grounded(d, c) /\ Grounded(e, c) /\ Extends(d, e) /\ s \in Segments(d)
      /\ b \in Segments(d) /\ r \in Segments(d) /\ seg \in Segments(e) /\ r \in Segments(e)
      /\ One(node) \in Segments(d) /\ node \in NodeType(d)
  BY PutInCall
<1>2. Cat(Content(d, b), Expand(d, c, Cat(One(node), r))) = Expand(d, c, s)
  BY PutInCall DEF ExpandInv
<1>3. Expand(d, c, One(node)) = x
  BY <1>1, ExpandOne
<1>4. Expand(e, c, seg) = x
  OBVIOUS
<1>5. ExpandInv' <=> (pc' = "scan" => Cat(Content(e, b), Expand(e, c, Cat(seg, r))) = Expand(e, c, s))
  BY PutInCall, PutInMoves DEF ExpandInv
<1> HIDE DEF d, e, c, b, r, s, node, x
<1>6. Content(e, b) = Content(d, b) /\ Expand(e, c, r) = Expand(d, c, r) /\ Expand(e, c, s) = Expand(d, c, s)
  BY <1>1, WholeGrows, ExpandGrows
<1>7. Expand(d, c, Cat(One(node), r)) = Cat(x, Expand(d, c, r))
  BY <1>1, <1>3, ExpandCat
<1>8. Expand(e, c, Cat(seg, r)) = Cat(x, Expand(e, c, r))
  BY <1>1, <1>4, ExpandCat
<1> QED BY <1>2, <1>5, <1>6, <1>7, <1>8

LEMMA PutInLay ==
  ASSUME Typed, NEW seg, PutIn(seg), LayInv,
         Written(Behind) =>
           LayBy(data', call, Generate(data, Behind), seg, 0)
             = Lay(data, call, Layouts(data, call), Generate(data, Behind), nodes[i], 0)
  PROVE  LayInv'
<1> DEFINE d == data
           e == data'
           c == call
           b == Behind
           r == Rest
           s == start
           node == nodes[i]
           g == Generate(d, b)
           p == Lay(d, c, Layouts(d, c), g, node, 0)
<1>1. /\ Grounded(d, c) /\ Grounded(e, c) /\ Extends(d, e) /\ s \in Segments(d)
      /\ b \in Segments(d) /\ r \in Segments(d) /\ seg \in Segments(e) /\ r \in Segments(e)
      /\ One(node) \in Segments(d) /\ node \in NodeType(d)
  BY PutInCall
<1>2. Written(b) => LayBy(d, c, g, Cat(One(node), r), 0) = LayBy(d, c, Page, s, 0)
  BY PutInCall DEF LayInv
<1>3. Written(b) => LayBy(e, c, g, seg, 0) = p
  OBVIOUS
<1>4. LayInv' <=> (pc' = "scan" /\ Written(b) =>
                     LayBy(e, c, Generate(e, b), Cat(seg, r), 0) = LayBy(e, c, Page, s, 0))
  BY PutInCall, PutInMoves DEF LayInv
<1>5. p = Lay(d, c, Layouts(d, c), g, node, 0) /\ g = Generate(d, b)
  OBVIOUS
<1> HIDE DEF d, e, c, b, r, s, node, g, p
<1>6. Generate(e, b) = g
  BY <1>1, <1>5, GenerateGrows
<1>7. \A page : LayBy(e, c, page, r, 0) = LayBy(d, c, page, r, 0) /\ LayBy(e, c, page, s, 0) = LayBy(d, c, page, s, 0)
  BY <1>1, ExpandGrows
<1>8. ASSUME Written(b)
      PROVE  LayBy(d, c, g, Cat(One(node), r), 0) = LayBy(e, c, g, Cat(seg, r), 0)
  <2>1. g \in Pages /\ 0 \in Int
    BY <1>1, <1>5, <1>8, GenerateTyped DEF Grounded, Heap
  <2>2. LayBy(d, c, g, One(node), 0) = p
    BY <1>5, <2>1, LayOne
  <2>3. LayBy(d, c, g, Cat(One(node), r), 0) = LayBy(d, c, p, r, 0)
    BY <1>1, <2>1, <2>2, LayCat
  <2>4. LayBy(e, c, g, Cat(seg, r), 0) = LayBy(e, c, p, r, 0)
    BY <1>1, <1>3, <1>8, <2>1, LayCat
  <2> QED BY <1>7, <2>3, <2>4
<1> QED BY <1>2, <1>4, <1>6, <1>7, <1>8

(* A node that is passed stands for itself.                                *)
LEMMA PassCall ==
  ASSUME Typed, PassStep
  PROVE  /\ pc = "scan" /\ pc' = pc /\ Grounded(data, call) /\ data' = data /\ call' = call /\ start' = start
         /\ Behind \in Segments(data) /\ Rest \in Segments(data) /\ nodes[i] \in NodeType(data)
         /\ Ahead = Cat(One(nodes[i]), Rest) /\ One(nodes[i]) \in Segments(data)
<1>1. pc = "scan" /\ Scanning /\ pc' = pc /\ data' = data /\ start' = start
  BY DEF PassStep, Scanning
<1>2. call' = call
  BY DEF PassStep, call
<1>3. /\ Behind \in Segments(data) /\ Rest \in Segments(data) /\ nodes[i] \in NodeType(data)
      /\ Ahead = Cat(One(nodes[i]), Rest)
  BY <1>1, ScanFacts
<1> QED BY <1>1, <1>2, <1>3, CallFacts, OneSegment

LEMMA PassExpand ==
  ASSUME Typed, PassStep, indent' \in Nat, ExpandInv,
         ~IsGiven(call, nodes[i]), ~IsDecided(call, nodes[i])
  PROVE  ExpandInv'
<1> DEFINE d == data
           c == call
           b == Behind
           r == Rest
           s == start
           node == nodes[i]
           one == Content(data, One(nodes[i]))
<1>1. /\ Grounded(d, c) /\ b \in Segments(d) /\ r \in Segments(d)
      /\ node \in NodeType(d) /\ One(node) \in Segments(d)
  BY PassCall
<1>2. Cat(Content(d, b), Expand(d, c, Cat(One(node), r))) = Expand(d, c, s)
  BY PassCall DEF ExpandInv
<1>3. Expand(d, c, One(node)) = one
  BY <1>1, ExpandOne DEF Stand, One
<1>4. ExpandInv' <=> (Cat(Content(d, Cat(b, One(node))), Expand(d, c, r)) = Expand(d, c, s))
  BY PassCall, PassMoves DEF ExpandInv
<1>5. one = Content(d, One(node))
  OBVIOUS
<1> HIDE DEF d, c, b, r, s, node, one
<1>6. Expand(d, c, Cat(One(node), r)) = Cat(one, Expand(d, c, r))
  BY <1>1, <1>3, ExpandCat
<1>7. IsSeq(b) /\ IsSeq(One(node))
  BY <1>1, SegmentFacts
<1>8. Content(d, Cat(b, One(node))) = Cat(Content(d, b), one)
  BY <1>5, <1>7, ContentCat
<1>9. IsSeq(Content(d, b)) /\ IsSeq(one) /\ IsSeq(Expand(d, c, r))
  BY <1>1, <1>5, <1>7, ContentIsSeq, ExpandCat
<1>10. Cat(Cat(Content(d, b), one), Expand(d, c, r)) = Cat(Content(d, b), Cat(one, Expand(d, c, r)))
  BY <1>9, CatAssoc
<1> QED BY <1>2, <1>4, <1>6, <1>8, <1>10

(* What generate() writes is what the layout writes at a margin of 0.      *)
LEMMA LayIsPut ==
  ASSUME NEW d, DataType(d), NEW c, NEW x, NEW page, NEW node \in NodeType(d), IsWritten(node)
  PROVE  Lay(d, c, x, page, node, 0) = Put(d, page, node)
<1>1. CASE node.type = "break"
  BY <1>1 DEF Lay, Put
<1>2. CASE node.type \in Texts
  <2>1. Info(d, node).indent \in Int
    BY <1>2, InfoFacts
  <2>2. 0 + Info(d, node).indent = Info(d, node).indent
    BY <2>1
  <2> QED BY <1>2, <2>2 DEF Lay, Put, Texts
<1> QED BY <1>1, <1>2 DEF IsWritten

LEMMA PassLay ==
  ASSUME Typed, PassStep, indent' \in Nat, LayInv
  PROVE  LayInv'
<1> DEFINE d == data
           c == call
           b == Behind
           r == Rest
           s == start
           node == nodes[i]
           g == Generate(data, Behind)
<1>1. /\ Grounded(d, c) /\ b \in Segments(d) /\ r \in Segments(d)
      /\ node \in NodeType(d) /\ One(node) \in Segments(d)
  BY PassCall
<1>2. Written(b) => LayBy(d, c, g, Cat(One(node), r), 0) = LayBy(d, c, Page, s, 0)
  BY PassCall DEF LayInv
<1>3. /\ Written(Behind)' <=> Written(b) /\ IsWritten(node)
      /\ Written(Behind)' => Generate(data, Behind)' = Put(d, g, node)
  BY PassWritten
<1>4. LayInv' <=> (Written(Behind)' => LayBy(d, c, Generate(data, Behind)', r, 0) = LayBy(d, c, Page, s, 0))
  BY PassCall, PassMoves DEF LayInv
<1>5. g = Generate(d, b)
  OBVIOUS
<1> HIDE DEF d, c, b, r, s, node, g
<1>6. ASSUME Written(b), IsWritten(node)
      PROVE  LayBy(d, c, g, Cat(One(node), r), 0) = LayBy(d, c, Put(d, g, node), r, 0)
  <2>1. g \in Pages /\ 0 \in Int /\ DataType(d)
    BY <1>1, <1>5, <1>6, GenerateTyped DEF Grounded, Heap
  <2>2. LayBy(d, c, g, One(node), 0) = Lay(d, c, Layouts(d, c), g, node, 0)
    BY <2>1, LayOne
  <2>3. Lay(d, c, Layouts(d, c), g, node, 0) = Put(d, g, node)
    BY <1>1, <1>6, <2>1, LayIsPut
  <2> QED BY <1>1, <2>1, <2>2, <2>3, LayCat
<1> QED BY <1>2, <1>3, <1>4, <1>6

(* What is put in for a wildcard, or what a condition leaves, stands for   *)
(* it.                                                                     *)
LEMMA ReplacementStands ==
  ASSUME Typed, ReplaceWildcard
  PROVE  Expand(data', call, Replacement[2]) = Stand(data, call, Expansions(data, call), nodes[i])
<1> DEFINE d == data
           c == call
           node == nodes[i]
           seg == args[nodes[i].index + 1]
           u == <<"argument", nodes[i].index + 1>>
           e == data'
           t == Replacement[2]
<1>1. PutIn(t) /\ e = Replacement[1] /\ IndentedBy \in Int /\ seg \in Segments(Data)
  BY ReplacementPutIn
<1>2. Grounded(d, c) /\ node \in NodeType(d)
  BY <1>1, PutInCall
<1>3. IsGiven(c, node) /\ seg = c.args[node.index + 1]
  BY DEF ReplaceWildcard, IsGiven, args
<1>4. u \in Units(d, c) /\ Inside(d, c, u) = seg
  BY <1>2, <1>3, GivenArgument DEF IsGiven, Grounded
<1>5. e = IndentNodes(d, seg, IndentedBy)[1] /\ t = IndentNodes(d, seg, IndentedBy)[2]
  BY <1>1 DEF Replacement
<1>6. Stand(d, c, Expansions(d, c), node) = Expansions(d, c)[u]
  BY <1>3 DEF Stand
<1> HIDE DEF d, c, node, seg, u, e, t
<1>7. Expansions(d, c)[u] = Expand(d, c, seg)
  BY <1>2, <1>4, UnitIs
<1>8. Expand(e, c, t) = Expand(d, c, seg)
  BY <1>1, <1>2, <1>5, IndentStands
<1> QED BY <1>6, <1>7, <1>8 DEF d, c, node, e, t

LEMMA ReplacementLaysOut ==
  ASSUME Typed, ColumnKnown, ReplaceWildcard, Written(Behind)
  PROVE  LayBy(data', call, Generate(data, Behind), Replacement[2], 0)
           = Lay(data, call, Layouts(data, call), Generate(data, Behind), nodes[i], 0)
<1> DEFINE d == data
           c == call
           node == nodes[i]
           seg == args[nodes[i].index + 1]
           u == <<"argument", nodes[i].index + 1>>
           e == data'
           t == Replacement[2]
           g == Generate(data, Behind)
           n == IndentedBy
<1>1. PutIn(t) /\ e = Replacement[1] /\ n \in Int /\ seg \in Segments(Data)
  BY ReplacementPutIn
<1>2. /\ Grounded(d, c) /\ node \in NodeType(d) /\ DataType(d) /\ g \in Pages
      /\ g.column = indent /\ indent \in Nat
  <2>1. pc = "scan" /\ Grounded(d, c) /\ node \in NodeType(d) /\ Behind \in Segments(d)
    BY <1>1, PutInCall
  <2>2. DataType(d) /\ indent \in Nat
    BY DEF Typed, Heap, TypeOK
  <2> QED BY <2>1, <2>2, GenerateTyped DEF ColumnKnown
<1>3. IsGiven(c, node) /\ seg = c.args[node.index + 1]
  BY DEF ReplaceWildcard, IsGiven, args
<1>4. u \in Units(d, c) /\ Inside(d, c, u) = seg /\ node.indent \in Int
  BY <1>2, <1>3, GivenArgument DEF IsGiven, Grounded
<1>5. e = IndentNodes(d, seg, n)[1] /\ t = IndentNodes(d, seg, n)[2]
  BY <1>1 DEF Replacement
<1>6. n = Maximum(node.indent, indent)
  BY DEF IndentedBy
<1>7. node.type = "wildcard"
  BY <1>3 DEF IsGiven, IsArgument
<1>8. u = <<"argument", node.index + 1>>
  OBVIOUS
<1> HIDE DEF d, c, node, seg, u, e, t, g, n
<1>9. Maximum(g.column, 0 + node.indent) = n
  <2>1. 0 + node.indent = node.indent
    BY <1>4
  <2> QED BY <1>2, <1>4, <1>6, <2>1, MaximumFacts
<1>10. Lay(d, c, Layouts(d, c), g, node, 0) = Layouts(d, c)[u][n][g]
  BY <1>3, <1>7, <1>8, <1>9 DEF Lay, Texts
<1>11. Layouts(d, c)[u][n][g] = LayBy(d, c, g, seg, n)
  BY <1>1, <1>2, <1>4, UnitIs
<1>12. LayBy(e, c, g, t, 0) = LayBy(d, c, g, seg, n)
  BY <1>1, <1>2, <1>5, IndentStands
<1> QED BY <1>10, <1>11, <1>12 DEF d, c, node, e, t, g

LEMMA ResolvedStands ==
  ASSUME Typed, ResolveCondition
  PROVE  /\ Expand(data', call, Resolved) = Stand(data, call, Expansions(data, call), nodes[i])
         /\ Written(Behind) =>
              LayBy(data', call, Generate(data, Behind), Resolved, 0)
                = Lay(data, call, Layouts(data, call), Generate(data, Behind), nodes[i], 0)
<1> DEFINE d == data
           c == call
           node == nodes[i]
           u == <<"data", nodes[i].data>>
           g == Generate(data, Behind)
<1>1. PutIn(Resolved) /\ data' = d
  BY ResolvedPutIn
<1>2. Grounded(d, c) /\ node \in NodeType(d) /\ Behind \in Segments(d) /\ DataType(d)
  BY <1>1, PutInCall DEF Typed, Heap
<1>3. /\ node.type = "conditional" /\ IsDecided(c, node) /\ ~IsGiven(c, node)
      /\ Resolved = IF Holds(d, c, node) THEN d[node.data].nodes ELSE Empty
  BY DEF ResolveCondition, IsDecided, IsGiven, IsArgument, Resolved, Holds, spec, Empty
<1>4. node.data \in DOMAIN d /\ d[node.data].type = "conditional"
  BY <1>2, <1>3, NodeFacts
<1>5. u \in Units(d, c) /\ Inside(d, c, u) = d[node.data].nodes
  BY <1>4, DataUnit
<1>6. Written(Behind) => g \in Pages
  BY <1>2, GenerateTyped
<1>7. u = <<"data", node.data>>
  OBVIOUS
<1> DEFINE R == Resolved
<1> SUFFICES /\ Expand(d, c, R) = Stand(d, c, Expansions(d, c), node)
             /\ Written(Behind) => LayBy(d, c, g, R, 0) = Lay(d, c, Layouts(d, c), g, node, 0)
  BY <1>1
<1> HIDE DEF d, c, node, u, g, R
<1>8. CASE Holds(d, c, node)
  <2>1. R = Inside(d, c, u)
    BY <1>3, <1>5, <1>8 DEF R
  <2>2. Stand(d, c, Expansions(d, c), node) = Expansions(d, c)[u]
    BY <1>3, <1>7, <1>8 DEF Stand
  <2>3. Lay(d, c, Layouts(d, c), g, node, 0) = Layouts(d, c)[u][0][g]
    BY <1>3, <1>7, <1>8 DEF Lay, Texts
  <2>4. 0 \in Int
    OBVIOUS
  <2>5. Expansions(d, c)[u] = Expand(d, c, R)
    BY <1>2, <1>5, <2>1, UnitIs
  <2>6. g \in Pages => Layouts(d, c)[u][0][g] = LayBy(d, c, g, R, 0)
    BY <1>2, <1>5, <2>1, <2>4, UnitIs
  <2> QED BY <1>6, <2>2, <2>3, <2>5, <2>6
<1>9. CASE ~Holds(d, c, node)
  <2>1. R = Empty
    BY <1>3, <1>9 DEF R
  <2>2. Stand(d, c, Expansions(d, c), node) = Empty
    BY <1>3, <1>9 DEF Stand, Empty
  <2>3. Lay(d, c, Layouts(d, c), g, node, 0) = g
    BY <1>3, <1>9 DEF Lay, Texts
  <2> QED BY <2>1, <2>2, <2>3, ExpandNone, LayNone
<1> QED BY <1>8, <1>9

-----------------------------------------------------------------------------
(* The loop keeps its invariant.                                           *)
LEMMA ReplaceBegins ==
  ASSUME Typed, Replace
  PROVE  /\ Behind' = Empty /\ Ahead' = nodes /\ start' = nodes /\ data' = data /\ call' = call
         /\ Grounded(data, call) /\ nodes \in Segments(data)
<1>1. nodes \in Segments(data) /\ IsSeq(nodes) /\ Len(nodes) \in Nat
  BY SegmentFacts DEF Typed, TypeOK
<1>2. Behind' = SubSeq(nodes, 1, 0) /\ Ahead' = Beyond(nodes, 1)
  BY DEF Replace, Behind, Before, Ahead, Beyond
<1>3. Behind' = Empty
  BY <1>2, SubSeqEmpty DEF Empty
<1>4. Beyond(nodes, 1) = nodes
  <2> DEFINE S == Range(nodes)
             t == Beyond(nodes, 1)
  <2>1. nodes \in Seq(S) /\ 1 \in 1 .. Len(nodes) + 1
    BY <1>1 DEF IsSeq
  <2> HIDE DEF S
  <2>2. /\ t \in Seq(S) /\ Len(t) = Len(nodes) + 1 - 1
        /\ \A k \in 1 .. Len(nodes) + 1 - 1 : t[k] = nodes[1 + k - 1]
    BY <2>1, SplitFacts
  <2> HIDE DEF t
  <2>3. Len(t) = Len(nodes) /\ IsSeq(t)
    BY <1>1, <2>2, SeqIs
  <2>4. \A k \in 1 .. Len(t) : t[k] = nodes[k]
    <3>1. \A k \in 1 .. Len(t) : k \in 1 .. Len(nodes) + 1 - 1 /\ 1 + k - 1 = k
      BY <1>1, <2>3
    <3> QED BY <2>2, <3>1
  <2>5. t = nodes
    BY <1>1, <2>3, <2>4, SameSeq
  <2> QED BY <2>5 DEF t
<1>5. IsSeq(calls) /\ calls # Empty
  BY DEF Replace, Typed, CallsGrounded, Empty
<1>6. Len(calls) \in Nat /\ Len(calls) # 0
  BY <1>5, IsSeqFacts, EmptyIs
<1>7. 1 \in 1 .. Len(calls) /\ call = calls[1]
  BY <1>6 DEF call
<1>8. Grounded(data, call)
  BY <1>7 DEF Typed, CallsGrounded
<1>9. start' = nodes /\ data' = data /\ call' = call
  BY DEF Replace, call
<1> QED BY <1>1, <1>2, <1>3, <1>4, <1>8, <1>9

LEMMA PassStands ==
  ASSUME Typed, KeepWildcard \/ PassBreak \/ PassText \/ PassUnexpanded
  PROVE  ~IsGiven(call, nodes[i]) /\ ~IsDecided(call, nodes[i])
<1>1. CASE KeepWildcard
  BY <1>1 DEF KeepWildcard, IsGiven, IsDecided, IsArgument, args
<1>2. CASE PassBreak
  BY <1>2 DEF PassBreak, IsGiven, IsDecided, IsArgument
<1>3. CASE PassText
  BY <1>3 DEF PassText, Texts, IsGiven, IsDecided, IsArgument
<1>4. CASE PassUnexpanded
  BY <1>4 DEF PassUnexpanded, IsGiven, IsDecided, spec
<1> QED BY <1>1, <1>2, <1>3, <1>4

LoopInv == Typed /\ ColumnKnown /\ ExpandInv /\ LayInv

LEMMA InitLoop ==
  ASSUME Init
  PROVE  LoopInv
<1>1. pc # "scan"
  BY DEF Init
<1> QED BY <1>1, InitTyped, InitColumn DEF LoopInv, ExpandInv, LayInv

LEMMA NextLoop ==
  ASSUME LoopInv, [Next]_vars
  PROVE  LoopInv'
<1> USE DEF LoopInv
<1>1. Typed' /\ ColumnKnown'
  BY NextTyped, NextColumn
<1>2. ExpandInv' /\ LayInv'
  <2>1. CASE UNCHANGED vars
    <3>1. /\ Behind' = Behind /\ Ahead' = Ahead /\ data' = data /\ call' = call /\ start' = start
          /\ pc' = pc
      BY <2>1 DEF vars, Behind, Before, Ahead, Beyond, call
    <3> QED BY <3>1 DEF ExpandInv, LayInv
  <2>2. CASE Replace
    <3>1. /\ Behind' = Empty /\ Ahead' = nodes /\ start' = nodes /\ data' = data /\ call' = call
          /\ Grounded(data, call) /\ nodes \in Segments(data)
      BY <2>2, ReplaceBegins
    <3>2. Content(data, Empty) = Empty /\ Generate(data, Empty) = Page
      BY ContentNone, GenerateNone
    <3>3. Cat(Empty, Expand(data, call, nodes)) = Expand(data, call, nodes)
      BY <3>1, ExpandCat, CatEmpty
    <3>4. ExpandInv'
      BY <3>1, <3>2, <3>3 DEF ExpandInv
    <3>5. LayInv'
      BY <3>1, <3>2 DEF LayInv
    <3> QED BY <3>4, <3>5
  <2>3. CASE ReplaceWildcard
    BY <2>3, ReplacementPutIn, ReplacementStands, ReplacementLaysOut, PutInExpand, PutInLay
  <2>4. CASE ResolveCondition
    BY <2>4, ResolvedPutIn, ResolvedStands, PutInExpand, PutInLay
  <2>5. CASE KeepWildcard \/ PassBreak \/ PassText \/ PassUnexpanded
    BY <2>5, PassNext, PassStands, PassExpand, PassLay
  <2>6. CASE Return
    <3>1. pc' # "scan"
      BY <2>6 DEF Return
    <3> QED BY <3>1 DEF ExpandInv, LayInv
  <2> QED BY <2>1, <2>2, <2>3, <2>4, <2>5, <2>6 DEF Next
<1> QED BY <1>1, <1>2

(* When the scan is done, nothing is ahead of it.                          *)
LEMMA ScanDone ==
  ASSUME Typed, Scanned
  PROVE  Behind = nodes /\ Ahead = Empty
<1> DEFINE S == Range(nodes)
           b == Before(nodes, i)
           t == Beyond(nodes, i)
<1>1. i = Len(nodes) + 1 /\ Len(nodes) \in Nat /\ IsSeq(nodes)
  BY SegmentFacts DEF Typed, TypeOK, Scanned
<1>2. nodes \in Seq(S) /\ i \in 1 .. Len(nodes) + 1
  BY <1>1 DEF IsSeq
<1> HIDE DEF S
<1>3. /\ b \in Seq(S) /\ Len(b) = i - 1 /\ \A k \in 1 .. i - 1 : b[k] = nodes[k]
      /\ t \in Seq(S) /\ Len(t) = Len(nodes) + 1 - i
  BY <1>2, SplitFacts
<1> HIDE DEF b, t
<1>4. IsSeq(b) /\ IsSeq(t)
  BY <1>3, SeqIs
<1>5. Len(b) = Len(nodes) /\ (\A k \in 1 .. Len(b) : b[k] = nodes[k]) /\ Len(t) = 0
  BY <1>1, <1>3
<1>6. b = nodes /\ t = Empty
  BY <1>1, <1>4, <1>5, SameSeq, EmptyIs
<1> QED BY <1>6 DEF b, t, Behind, Ahead

(* Replacing in place, with what was put in scanned again, amounts to the  *)
(* recursive expansion of wildcards and of the conditions that hold.       *)
THEOREM InPlaceExpands == Spec => []Expanded
<1>1. Init => LoopInv
  BY InitLoop
<1>2. LoopInv /\ [Next]_vars => LoopInv'
  BY NextLoop
<1>3. LoopInv => Expanded
  <2> SUFFICES ASSUME LoopInv, Scanned
               PROVE  Content(data, nodes) = Expand(data, call, start)
    BY DEF Expanded
  <2>1. Behind = nodes /\ Ahead = Empty /\ IsSeq(nodes)
    BY ScanDone, SegmentFacts DEF LoopInv, Typed, TypeOK
  <2>2. Cat(Content(data, nodes), Expand(data, call, Empty)) = Expand(data, call, start)
    BY <2>1 DEF LoopInv, ExpandInv, Scanned
  <2>3. IsSeq(Content(data, nodes)) /\ Expand(data, call, Empty) = Empty
    BY <2>1, ContentIsSeq, ExpandNone
  <2> QED BY <2>2, <2>3, CatEmpty
<1> QED BY <1>1, <1>2, <1>3, PTL DEF Spec

(* All lines of a replacement start at the column of its wildcard, however *)
(* deep replacements nest.                                                 *)
THEOREM ReplacementsAligned == Spec => []Aligned
<1>1. Init => LoopInv
  BY InitLoop
<1>2. LoopInv /\ [Next]_vars => LoopInv'
  BY NextLoop
<1>3. LoopInv => Aligned
  <2> SUFFICES ASSUME LoopInv, Scanned, Written(nodes)
               PROVE  Generate(data, nodes).texts = LayOut(data, call, start).texts
    BY DEF Aligned
  <2>1. Behind = nodes /\ Ahead = Empty
    BY ScanDone DEF LoopInv
  <2>2. LayBy(data, call, Generate(data, nodes), Empty, 0) = LayBy(data, call, Page, start, 0)
    BY <2>1 DEF LoopInv, LayInv, Scanned
  <2>3. LayBy(data, call, Page, start, 0) = LayOut(data, call, start)
    BY DEF LayBy, LayOut
  <2> QED BY <2>2, <2>3, LayNone
<1> QED BY <1>1, <1>2, <1>3, PTL DEF Spec

=============================================================================
