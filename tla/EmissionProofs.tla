--------------------------- MODULE EmissionProofs ---------------------------
(***************************************************************************)
(* Proofs about ConditionalTree and Emission, for sources and declarations *)
(* of any size.  Whatever places resolve() navigates to one after another, *)
(* the directives put out leave the generated header under the conditions  *)
(* of the place.  So each emitted text is under the conditions of what it  *)
(* is about, and in every configuration the lists of a declaration are     *)
(* separated as C++ wants it.                                              *)
(***************************************************************************)
EXTENDS Emission, SequenceTheorems, WellFoundedInduction, TLAPS

-----------------------------------------------------------------------------
(* What a directive does to the conditions.                                *)
LEMMA FrontFacts ==
  ASSUME NEW S, NEW c \in Seq(S), c # <<>>
  PROVE  /\ Len(c) \in Nat /\ Len(c) >= 1
         /\ Front(c) \in Seq(S) /\ Len(Front(c)) = Len(c) - 1
         /\ \A b \in 1 .. Len(c) - 1 : Front(c)[b] = c[b]
<1>1. Len(c) \in Nat /\ Len(c) >= 1 /\ \A b \in 1 .. Len(c) : c[b] \in S
  OBVIOUS
<1> DEFINE n == Len(c) - 1
           f == SubSeq(c, 1, n)
<1>2. n \in Nat /\ \A b \in 1 .. n : c[b] \in S
  BY <1>1
<1> HIDE DEF n
<1>3. /\ f \in Seq(S)
      /\ Len(f) = IF 1 <= n THEN n - 1 + 1 ELSE 0
      /\ \A b \in 1 .. n - 1 + 1 : f[b] = c[1 + b - 1]
  BY <1>2, SubSeqProperties
<1> HIDE DEF f
<1>4. Len(f) = n /\ \A b \in 1 .. n : f[b] = c[b]
  BY <1>2, <1>3
<1>5. Front(c) = f
  BY DEF Front, f, n
<1> QED BY <1>1, <1>3, <1>4, <1>5 DEF n

LEMMA AfterIf ==
  ASSUME NEW S, NEW c \in Seq(Seq(S)), NEW p \in S
  PROVE  /\ After(c, "if", p) \in Seq(Seq(S)) /\ After(c, "if", p) # <<>>
         /\ Len(After(c, "if", p)) = Len(c) + 1
         /\ Front(After(c, "if", p)) = c
         /\ Last(Last(After(c, "if", p))) = p
         /\ \A b \in 1 .. Len(c) : After(c, "if", p)[b] = c[b]
<1> DEFINE n == Len(c)
           a == Append(c, <<p>>)
<1>1. <<p>> \in Seq(S) /\ n \in Nat
  OBVIOUS
<1>2. /\ a \in Seq(Seq(S)) /\ a # <<>> /\ Len(a) = n + 1
      /\ \A b \in 1 .. n : a[b] = c[b]
      /\ a[n + 1] = <<p>>
  BY <1>1, AppendProperties
<1> HIDE DEF a, n
<1>3. /\ Front(a) \in Seq(Seq(S)) /\ Len(Front(a)) = Len(a) - 1
      /\ \A b \in 1 .. Len(a) - 1 : Front(a)[b] = a[b]
  BY <1>2, FrontFacts
<1>4. Front(a) = c
  <2>1. Len(a) - 1 = Len(c)
    BY <1>1, <1>2 DEF n
  <2>2. Len(Front(a)) = Len(c) /\ \A b \in 1 .. Len(Front(a)) : Front(a)[b] = c[b]
    BY <1>2, <1>3, <2>1 DEF n
  <2> QED BY <1>3, <2>2, SeqEqual
<1>5. Last(Last(a)) = p
  BY <1>1, <1>2 DEF Last
<1>6. After(c, "if", p) = a
  BY DEF After, a
<1> QED BY <1>2, <1>4, <1>5, <1>6 DEF n

LEMMA AfterBranch ==
  ASSUME NEW S, NEW c \in Seq(Seq(S)), c # <<>>, NEW p \in S, NEW kind \in {"elif", "else"}
  PROVE  /\ After(c, kind, p) \in Seq(Seq(S)) /\ After(c, kind, p) # <<>>
         /\ Len(After(c, kind, p)) = Len(c)
         /\ Front(After(c, kind, p)) = Front(c)
         /\ Last(Last(After(c, kind, p))) = p
         /\ \A b \in 1 .. Len(c) - 1 : After(c, kind, p)[b] = c[b]
<1> DEFINE n == Len(c)
           d == Append(c[n], p)
           a == [c EXCEPT ![n] = d]
<1>1. n \in Nat /\ n >= 1 /\ n \in 1 .. n /\ c[n] \in Seq(S)
  OBVIOUS
<1>2. d \in Seq(S) /\ Len(d) = Len(c[n]) + 1 /\ d[Len(c[n]) + 1] = p
  BY <1>1, AppendProperties
<1> HIDE DEF d
<1>3. /\ a \in Seq(Seq(S)) /\ Len(a) = n
      /\ \A b \in 1 .. n : a[b] = IF b = n THEN d ELSE c[b]
  BY <1>1, <1>2, ExceptSeq
<1> HIDE DEF a
<1>4. a[n] = d /\ \A b \in 1 .. n - 1 : a[b] = c[b]
  BY <1>1, <1>3
<1>5. a # <<>>
  BY <1>1, <1>3
<1>6. /\ Front(a) \in Seq(Seq(S)) /\ Len(Front(a)) = n - 1
      /\ \A b \in 1 .. n - 1 : Front(a)[b] = a[b]
      /\ Front(c) \in Seq(Seq(S)) /\ Len(Front(c)) = n - 1
      /\ \A b \in 1 .. n - 1 : Front(c)[b] = c[b]
  BY <1>3, <1>5, FrontFacts
<1>7. Front(a) = Front(c)
  BY <1>4, <1>6, SeqEqual
<1>8. Last(Last(a)) = p
  BY <1>2, <1>3, <1>4 DEF Last
<1>9. After(c, kind, p) = a
  BY DEF After, a, d
<1> QED BY <1>3, <1>4, <1>5, <1>7, <1>8, <1>9

LEMMA AfterEndif ==
  ASSUME NEW c, NEW p, c # <<>>
  PROVE  After(c, "endif", p) = Front(c)
BY DEF After

-----------------------------------------------------------------------------
(* What TypeOK says of single elements.                                    *)
LEMMA StatementType ==
  ASSUME TypeOK, NEW n \in Numbers
  PROVE  /\ Len(statements) \in Nat /\ n \in Nat /\ n < Len(statements)
         /\ n + 1 \in 1 .. Len(statements)
         /\ at(n).type \in Kinds \ {"guard"}
         /\ at(n).sourcePosition \in Lowest .. Highest
         /\ at(n).sourcePosition \in Int
         /\ at(n).descent \in Numbers \cup {-1}
         /\ at(n).ascent \in Numbers \cup {-1}
         /\ at(n).descent \in Int /\ at(n).ascent \in Int
         /\ at(n) = Statement(at(n).type, at(n).sourcePosition, at(n).descent, at(n).ascent)
<1> DEFINE R == [type : Kinds \ {"guard"}, sourcePosition : Lowest .. Highest,
                 descent : Numbers \cup {-1}, ascent : Numbers \cup {-1}]
<1>1. statements \in Seq(R)
  BY DEF TypeOK
<1>2. Len(statements) \in Nat /\ n \in Nat /\ n < Len(statements)
      /\ n + 1 \in 1 .. Len(statements)
  BY <1>1 DEF Numbers
<1>3. at(n) \in R
  <2> HIDE DEF R
  <2>1. statements[n + 1] \in R
    BY <1>1, <1>2, ElementOfSeq
  <2> QED BY <2>1 DEF at
<1>4. Numbers \subseteq Int
  BY <1>2 DEF Numbers
<1>5. Highest \in Int /\ Lowest \in Int
  BY BoundAssumption DEF Highest, Lowest
<1> QED BY <1>2, <1>3, <1>4, <1>5 DEF Statement

LEMMA SourceType ==
  ASSUME TypeOK
  PROVE  /\ Len(source) \in Nat /\ Len(source) <= MaxDirectives
         /\ Highest \in Nat /\ Len(source) < Highest
         /\ Len(statements) \in Nat /\ Len(stack) \in Nat /\ Len(blocks) \in Nat
         /\ position \in Int
BY BoundAssumption DEF TypeOK, Highest, Reset

LEMMA ConditionsType ==
  ASSUME TypeOK, NEW p \in Reset .. Len(source)
  PROVE  Conditions(p) \in Seq(Seq(1 .. Len(source)))
<1>1. Len(source) \in Nat /\ p \in Int
  BY SourceType DEF Reset
<1>2. CASE p < 1
  BY <1>2 DEF Conditions
<1>3. CASE ~(p < 1)
  <2>1. p \in 1 .. Len(conditions)
    BY <1>1, <1>3 DEF TypeOK
  <2> QED BY <1>3, <2>1 DEF Conditions, TypeOK
<1> QED BY <1>2, <1>3

-----------------------------------------------------------------------------
(* findTop() finds the innermost of the branches that are open, but for    *)
(* those it skips.                                                         *)
LEMMA TopUnique ==
  ASSUME NEW m \in Nat, NEW k, NEW l, IsTop(stack, k, m), IsTop(stack, l, m)
  PROVE  k = l
<1>1. k \in 1 .. m /\ l \in 1 .. m
  BY DEF IsTop
<1>2. ~(k < l) /\ ~(l < k)
  BY <1>1 DEF IsTop
<1> QED BY <1>1, <1>2

LEMMA FindTop ==
  ASSUME TypeOK, NEW offset \in Nat, offset < Len(stack),
         NEW l, IsTop(stack, l, Len(stack) - offset)
  PROVE  findTop(stack, offset) = stack[l]
<1> DEFINE m == Len(stack) - offset
           Q(j) == stack[j] # -1 /\ \A n \in j + 1 .. m : stack[n] = -1
           j == CHOOSE x \in 1 .. m : Q(x)
<1>1. m \in Nat
  BY SourceType
<1>2. l \in 1 .. m /\ Q(l)
  BY DEF IsTop
<1>3. j \in 1 .. m /\ Q(j)
  BY <1>2
<1>4. IsTop(stack, j, m)
  BY <1>3 DEF IsTop
<1>5. j = l
  BY <1>1, <1>4, TopUnique
<1>6. findTop(stack, offset) = stack[j]
  BY DEF findTop
<1> QED BY <1>5, <1>6

LEMMA TopExists ==
  ASSUME StackedInOrder, NEW m \in 1 .. Len(stack)
  PROVE  \E l \in 1 .. m : IsTop(stack, l, m)
BY DEF StackedInOrder, InOrder

(* It is the latest of the branches that are open.                         *)
LEMMA TopGreatest ==
  ASSUME TypeOK, StackedInOrder, NEW m \in 1 .. Len(stack), NEW l, IsTop(stack, l, m),
         NEW k \in 1 .. m, stack[k] # -1
  PROVE  stack[k] <= stack[l] /\ k <= l /\ stack[l] \in Numbers /\ stack[k] \in Numbers
<1>1. Len(stack) \in Nat /\ l \in 1 .. m /\ stack[l] # -1
  BY SourceType DEF IsTop
<1>2. k <= l
  BY <1>1 DEF IsTop
<1>3. stack[l] \in Numbers /\ stack[k] \in Numbers
  BY <1>1 DEF TypeOK
<1>4. stack[l] \in Int /\ stack[k] \in Int
  BY <1>3, SourceType DEF Numbers
<1>5. k < l => stack[k] < stack[l]
  BY <1>1 DEF StackedInOrder, InOrder
<1> QED BY <1>1, <1>2, <1>3, <1>4, <1>5

-----------------------------------------------------------------------------
(* What the constructor does to the tree: statement N follows statement d. *)
Grows(N, kind, p, d, up) ==
  /\ N = Len(statements) /\ N \in Nat /\ N > 0 /\ Len(statements') = N + 1
  /\ Numbers' = Numbers \cup {N} /\ Numbers = 0 .. N - 1
  /\ d \in Numbers
  /\ at(N)' = Statement(kind, p, d, up)
  /\ \A n \in Numbers :
       /\ at(n)'.type = at(n).type /\ at(n)'.sourcePosition = at(n).sourcePosition
       /\ at(n)'.descent = at(n).descent
       /\ at(n)'.ascent = IF kind # "if" /\ n = d THEN N ELSE at(n).ascent

(* Conditions that are known stay known.                                   *)
Remembers ==
  /\ Len(source) \in Nat /\ Len(source') \in Nat
  /\ Len(source) <= Len(source') /\ Len(source') <= MaxDirectives
  /\ \A p \in Reset .. Len(source) : Conditions(p)' = Conditions(p)

LEMMA OrderedGrows ==
  ASSUME TypeOK, Ordered, Remembers, phase' = phase,
         NEW N, NEW kind, NEW p, NEW d, NEW up, Grows(N, kind, p, d, up),
         \/ p \in 1 .. Len(source')
         \/ p = Highest /\ kind = "endif" /\ phase # "scan",
         \A n \in Numbers : \/ at(n).sourcePosition < p
                            \/ at(n).sourcePosition = Highest /\ p = Highest
  PROVE  Ordered'
<1>1. /\ N \in Nat /\ N > 0 /\ Numbers' = Numbers \cup {N} /\ Numbers = 0 .. N - 1
      /\ at(N)'.type = kind /\ at(N)'.sourcePosition = p
      /\ \A n \in Numbers : /\ at(n)'.type = at(n).type
                            /\ at(n)'.sourcePosition = at(n).sourcePosition
  BY DEF Grows, Statement
<1>2. /\ Len(source) \in Nat /\ Len(source') \in Nat /\ Len(source) <= Len(source')
      /\ Highest \in Nat /\ Len(source') < Highest
  BY BoundAssumption DEF Remembers, Highest
<1>3. ASSUME NEW n \in Numbers' \ {0}
      PROVE  at(n)'.sourcePosition \in 1 .. Len(source') \/ at(n)'.sourcePosition = Highest
  <2>1. CASE n = N
    BY <1>1, <2>1
  <2>2. CASE n \in Numbers
    <3>1. at(n).sourcePosition \in 1 .. Len(source) \/ at(n).sourcePosition = Highest
      BY <2>2 DEF Ordered
    <3> QED BY <1>1, <1>2, <2>2, <3>1
  <2> QED BY <1>1, <2>1, <2>2
<1>4. ASSUME NEW n \in Numbers', at(n)'.sourcePosition = Highest
      PROVE  at(n)'.type = "endif" /\ phase' # "scan"
  <2>1. CASE n = N
    BY <1>1, <1>2, <1>4, <2>1
  <2>2. CASE n \in Numbers
    BY <1>1, <1>4, <2>2 DEF Ordered
  <2> QED BY <1>1, <2>1, <2>2
<1>5. ASSUME NEW m \in Numbers', NEW n \in Numbers', m < n
      PROVE  \/ at(m)'.sourcePosition < at(n)'.sourcePosition
             \/ at(m)'.sourcePosition = Highest /\ at(n)'.sourcePosition = Highest
  <2>1. m \in Numbers
    BY <1>1, <1>5
  <2>2. CASE n = N
    BY <1>1, <2>1, <2>2
  <2>3. CASE n \in Numbers
    BY <1>1, <1>5, <2>1, <2>3 DEF Ordered
  <2> QED BY <1>1, <2>2, <2>3
<1> QED BY <1>3, <1>4, <1>5 DEF Ordered

LEMMA LinkedGrows ==
  ASSUME TypeOK, Linked,
         NEW N, NEW kind \in Kinds, NEW p, NEW d, NEW up, Grows(N, kind, p, d, up),
         at(d).type # "endif",
         kind # "if" => at(d).ascent = -1,
         kind # "endif" => up = -1,
         kind = "endif" /\ d # 0 => up \in Numbers /\ at(up).type # "endif",
         d = 0 /\ kind # "if" => p = Highest /\ up = -1 /\ kind = "endif"
  PROVE  Linked'
<1>1. /\ N = Len(statements) /\ N \in Nat /\ N > 0
      /\ Numbers' = Numbers \cup {N} /\ Numbers = 0 .. N - 1 /\ d \in Numbers
      /\ at(N)' = Statement(kind, p, d, up)
      /\ at(N)'.type = kind /\ at(N)'.descent = d /\ at(N)'.ascent = up
  BY DEF Grows, Statement
<1>2. \A n \in Numbers :
        /\ at(n)'.type = at(n).type /\ at(n)'.sourcePosition = at(n).sourcePosition
        /\ at(n)'.descent = at(n).descent
        /\ at(n)'.ascent = IF kind # "if" /\ n = d THEN N ELSE at(n).ascent
  BY DEF Grows
<1>3. Len(statements)' > 0
  BY <1>1 DEF Grows
<1>4. 0 \in Numbers
  BY <1>1
<1>5. at(0)'.type = "if" /\ at(0)'.sourcePosition = Lowest /\ at(0)'.descent = -1
  BY <1>2, <1>4 DEF Linked
<1>6. SourceEnd' = IF kind # "if" /\ d = 0 THEN N ELSE SourceEnd
  BY <1>2, <1>4 DEF SourceEnd
<1>7. SourceEnd' # -1 =>
        /\ at(SourceEnd)'.type = "endif" /\ at(SourceEnd)'.sourcePosition = Highest
        /\ at(SourceEnd)'.descent = 0 /\ at(SourceEnd)'.ascent = -1
  <2>1. PICK e : e = SourceEnd'
    OBVIOUS
  <2>2. CASE kind # "if" /\ d = 0
    <3>1. e = N /\ kind = "endif" /\ p = Highest /\ up = -1
      BY <1>6, <2>1, <2>2
    <3>2. /\ at(e)'.type = "endif" /\ at(e)'.sourcePosition = Highest
          /\ at(e)'.descent = 0 /\ at(e)'.ascent = -1
      BY <1>1, <2>2, <3>1 DEF Statement
    <3> QED BY <2>1, <3>2 DEF at
  <2>3. CASE ~(kind # "if" /\ d = 0) /\ SourceEnd # -1
    <3>1. e = SourceEnd
      BY <1>6, <2>1, <2>3
    <3>2. e \in Numbers
      BY <1>4, <2>3, <3>1, StatementType DEF SourceEnd
    <3>3. /\ at(e).type = "endif" /\ at(e).sourcePosition = Highest
          /\ at(e).descent = 0 /\ at(e).ascent = -1
      BY <2>3, <3>1 DEF Linked
    <3>4. e # d
      BY <3>3
    <3>5. /\ at(e)'.type = "endif" /\ at(e)'.sourcePosition = Highest
          /\ at(e)'.descent = 0 /\ at(e)'.ascent = -1
      BY <1>2, <3>2, <3>3, <3>4
    <3> QED BY <2>1, <3>5 DEF at
  <2> QED BY <1>6, <2>2, <2>3
<1>8. ASSUME NEW n \in Numbers' \ {0}
      PROVE  /\ at(n)'.descent \in 0 .. n - 1
             /\ at(at(n).descent)'.type # "endif"
             /\ at(n)'.type # "if" => at(at(n).descent)'.ascent = n
             /\ at(n)'.type = "endif" /\ n # SourceEnd' =>
                  at(n)'.ascent \in 0 .. n - 1 /\ at(at(n).ascent)'.type # "endif"
  <2>1. PICK c, a : c = at(n)'.descent /\ a = at(n)'.ascent
    OBVIOUS
  <2>2. CASE n = N
    <3>1. c = d /\ c \in Numbers /\ at(c)'.type # "endif" /\ (kind # "if" => at(c)'.ascent = N)
      BY <1>1, <1>2, <2>1, <2>2
    <3>2. kind = "endif" /\ n # SourceEnd' => a \in Numbers /\ at(a)'.type # "endif"
      BY <1>1, <1>2, <1>6, <2>1, <2>2
    <3> QED BY <1>1, <2>1, <2>2, <3>1, <3>2 DEF at
  <2>3. CASE n \in Numbers \ {0}
    <3>1. /\ c = at(n).descent /\ c \in 0 .. n - 1
          /\ at(c).type # "endif"
          /\ at(n).type # "if" => at(c).ascent = n
      BY <1>2, <2>1, <2>3 DEF Linked
    <3>2. c \in Numbers /\ n # -1
      BY <1>1, <2>3, <3>1
    <3>3. at(c)'.type # "endif" /\ (at(n)'.type # "if" => at(c)'.ascent = n)
      BY <1>2, <2>3, <3>1, <3>2
    <3>4. ASSUME at(n)'.type = "endif", n # SourceEnd'
          PROVE  a \in 0 .. n - 1 /\ at(a)'.type # "endif"
      <4>1. at(n).type = "endif" /\ n # SourceEnd /\ n # d
        BY <1>2, <1>6, <2>3, <3>2, <3>4 DEF SourceEnd
      <4>2. a = at(n).ascent /\ a \in 0 .. n - 1 /\ at(a).type # "endif"
        BY <1>2, <2>1, <2>3, <4>1 DEF Linked
      <4>3. a \in Numbers
        BY <1>1, <2>3, <4>2
      <4> QED BY <1>2, <4>2, <4>3
    <3> QED BY <2>1, <2>3, <3>1, <3>3, <3>4 DEF at
  <2> QED BY <1>1, <2>2, <2>3
<1>9. ASSUME NEW n \in Numbers', at(n)'.type # "endif", at(n)'.ascent # -1
      PROVE  /\ at(n)'.ascent > n
             /\ at(at(n).ascent)'.type # "if" /\ at(at(n).ascent)'.descent = n
  <2>1. PICK a : a = at(n)'.ascent
    OBVIOUS
  <2>2. n # N /\ n \in Numbers
    BY <1>1, <1>9
  <2>3. CASE kind # "if" /\ n = d
    <3>1. a = N
      BY <1>2, <2>1, <2>2, <2>3
    <3> QED BY <1>1, <2>1, <2>2, <2>3, <3>1 DEF at
  <2>4. CASE ~(kind # "if" /\ n = d)
    <3>1. a = at(n).ascent
      BY <1>2, <2>1, <2>2, <2>4
    <3>2. a > n /\ at(a).type # "if" /\ at(a).descent = n
      BY <1>2, <1>9, <2>1, <2>2, <3>1 DEF Linked
    <3>3. a \in Numbers
      BY <1>9, <2>1, <2>2, <3>1, StatementType
    <3>4. at(a)'.type # "if" /\ at(a)'.descent = n
      BY <1>2, <3>2, <3>3
    <3> QED BY <2>1, <3>2, <3>4 DEF at
  <2> QED BY <2>3, <2>4
<1> QED BY <1>3, <1>5, <1>7, <1>8, <1>9 DEF Linked

LEMMA NestedGrows ==
  ASSUME TypeOK, Linked, Nested,
         NEW N, NEW kind, NEW p, NEW d, NEW up, Grows(N, kind, p, d, up),
         kind # "if" => at(d).type # "endif" /\ at(d).ascent = -1,
         \A n \in Numbers : at(n).type # "endif" /\ at(n).ascent = -1 =>
           d >= n /\ (kind = "endif" /\ n # d => up >= n)
  PROVE  Nested'
<1>1. /\ N \in Nat /\ Numbers' = Numbers \cup {N} /\ Numbers = 0 .. N - 1 /\ d \in Numbers
      /\ at(N)'.type = kind /\ at(N)'.descent = d /\ at(N)'.ascent = up
      /\ \A n \in Numbers :
           /\ at(n)'.type = at(n).type
           /\ at(n)'.descent = at(n).descent
           /\ at(n)'.ascent = IF kind # "if" /\ n = d THEN N ELSE at(n).ascent
  BY DEF Grows, Statement
<1> SUFFICES ASSUME NEW m \in Numbers', NEW n \in Numbers', m < n, at(m)'.type # "endif",
                    at(m)'.ascent = -1 \/ n < at(m)'.ascent
             PROVE  at(n)'.descent >= m /\ (at(n)'.type = "endif" => at(n)'.ascent >= m)
  BY DEF Nested
<1>2. m \in Numbers /\ at(m).type # "endif" /\ m # -1 /\ N # -1
  BY <1>1
<1>3. at(m).ascent \in Numbers \cup {-1} /\ at(m).ascent \in Int
  BY <1>2, StatementType
<1>4. at(m).ascent = -1 \/ n < at(m).ascent
  BY <1>1, <1>2
<1>5. CASE n = N
  <2>1. at(m).ascent = -1
    BY <1>1, <1>3, <1>4, <1>5
  <2>2. ~(kind # "if" /\ m = d)
    BY <1>1, <1>2, <1>5
  <2>3. d >= m /\ (kind = "endif" /\ m # d => up >= m)
    BY <1>2, <2>1
  <2> QED BY <1>1, <1>5, <2>2, <2>3
<1>6. CASE n \in Numbers
  <2>1. at(n).descent >= m /\ (at(n).type = "endif" => at(n).ascent >= m)
    BY <1>2, <1>4, <1>6 DEF Nested
  <2>2. at(n).type = "endif" => ~(kind # "if" /\ n = d)
    OBVIOUS
  <2> QED BY <1>1, <1>6, <2>1, <2>2
<1> QED BY <1>1, <1>5, <1>6

-----------------------------------------------------------------------------
(* The conditions after statements that are there already do not change.   *)
LEMMA PositionKnown ==
  ASSUME TypeOK, Ordered, Linked, NEW n \in Numbers, at(n).type # "endif"
  PROVE  at(n).sourcePosition < 1 \/ at(n).sourcePosition \in 1 .. Len(source)
<1>1. CASE n = 0
  BY <1>1 DEF Linked, Lowest
<1>2. CASE n # 0
  BY <1>2 DEF Ordered
<1> QED BY <1>1, <1>2

Keeps ==
  \A n \in Numbers :
    /\ at(n)'.type = at(n).type /\ at(n)'.sourcePosition = at(n).sourcePosition
    /\ at(n).type = "endif" => at(n)'.ascent = at(n).ascent

LEMMA GrowsKeeps ==
  ASSUME NEW N, NEW kind, NEW p, NEW d, NEW up, Grows(N, kind, p, d, up),
         kind # "if" => at(d).type # "endif"
  PROVE  Keeps
BY DEF Grows, Keeps

LEMMA PathOf ==
  ASSUME TypeOK, Linked, NEW n \in Numbers, n # SourceEnd
  PROVE  \E m \in Numbers :
           /\ m = IF at(n).type = "endif" THEN at(n).ascent ELSE n
           /\ m <= n
           /\ at(m).type # "endif" /\ Path(n) = Conditions(at(m).sourcePosition)
<1>1. CASE at(n).type # "endif"
  BY <1>1, StatementType DEF Path
<1>2. CASE at(n).type = "endif"
  <2> DEFINE m == at(n).ascent
  <2>1. n # 0
    BY <1>2 DEF Linked
  <2>2. m \in 0 .. n - 1 /\ at(m).type # "endif"
    BY <1>2, <2>1 DEF Linked
  <2>3. m \in Numbers
    BY <2>2, StatementType DEF Numbers
  <2> QED BY <1>2, <2>2, <2>3, StatementType DEF Path
<1> QED BY <1>1, <1>2

LEMMA PathSame ==
  ASSUME TypeOK, Ordered, Linked, Remembers, Keeps, NEW n \in Numbers, n # SourceEnd
  PROVE  Path(n)' = Path(n)
<1>1. PICK m \in Numbers :
        /\ m = IF at(n).type = "endif" THEN at(n).ascent ELSE n
        /\ at(m).type # "endif" /\ Path(n) = Conditions(at(m).sourcePosition)
  BY PathOf
<1>2. PICK q : q = at(m).sourcePosition
  OBVIOUS
<1>3. q < 1 \/ q \in 1 .. Len(source)
  BY <1>1, <1>2, PositionKnown
<1>4. Conditions(q)' = Conditions(q)
  <2>1. CASE q < 1
    BY <2>1 DEF Conditions
  <2>2. CASE q \in 1 .. Len(source)
    <3>1. q \in Reset .. Len(source)
      BY <2>2, SourceType DEF Reset
    <3> QED BY <3>1 DEF Remembers
  <2> QED BY <1>3, <2>1, <2>2
<1>5. at(m)'.sourcePosition = q /\ m = IF at(n)'.type = "endif" THEN at(n)'.ascent ELSE n
  BY <1>1, <1>2 DEF Keeps
<1>6. Path(n)' = Conditions(q)'
  BY <1>5 DEF Path, at
<1> QED BY <1>1, <1>2, <1>4, <1>6

LEMMA PathsFollowGrows ==
  ASSUME TypeOK, Ordered, Linked, Remembers, PathsFollow,
         NEW N, NEW kind, NEW p, NEW d, NEW up, Grows(N, kind, p, d, up),
         at(d).type # "endif",
         kind # "if" => at(d).ascent = -1,
         N # SourceEnd' => Path(N)' = After(Path(d), kind, p)
  PROVE  PathsFollow'
<1>1. /\ N \in Nat /\ N > 0 /\ Numbers' = Numbers \cup {N} /\ Numbers = 0 .. N - 1
      /\ d \in Numbers
      /\ at(N)'.type = kind /\ at(N)'.descent = d /\ at(N)'.sourcePosition = p
      /\ \A n \in Numbers :
           /\ at(n)'.type = at(n).type /\ at(n)'.sourcePosition = at(n).sourcePosition
           /\ at(n)'.descent = at(n).descent
           /\ at(n)'.ascent = IF kind # "if" /\ n = d THEN N ELSE at(n).ascent
  BY DEF Grows, Statement
<1>2. Keeps
  BY GrowsKeeps
<1>3. \A n \in Numbers : n # SourceEnd => Path(n)' = Path(n)
  BY <1>2, PathSame
<1>4. SourceEnd # -1 => at(SourceEnd).type = "endif"
  BY DEF Linked
<1>5. \A n \in Numbers : at(n).type # "endif" => n # SourceEnd
  BY <1>1, <1>4
<1>6. SourceEnd' = IF kind # "if" /\ d = 0 THEN N ELSE SourceEnd
  BY <1>1 DEF SourceEnd
<1> SUFFICES ASSUME NEW n \in Numbers' \ {0}, n # SourceEnd'
             PROVE  Path(n)' = After(Path(at(n).descent), at(n).type, at(n).sourcePosition)'
  BY DEF PathsFollow
<1>7. CASE n = N
  <2>1. Path(d)' = Path(d)
    BY <1>1, <1>3, <1>5
  <2>2. Path(at(n).descent)' = Path(d)'
    BY <1>1, <1>7 DEF Path, at
  <2>3. After(Path(at(n).descent), at(n).type, at(n).sourcePosition)' =
          After(Path(d)', kind, p)
    BY <1>1, <1>7, <2>2 DEF After
  <2> QED BY <1>7, <2>1, <2>3
<1>8. CASE n \in Numbers \ {0}
  <2>1. PICK c : c = at(n).descent
    OBVIOUS
  <2>2. c \in Numbers /\ at(c).type # "endif"
    BY <1>1, <1>8, <2>1 DEF Linked
  <2>3. n # SourceEnd
    <3>1. CASE kind # "if" /\ d = 0
      BY <1>1, <1>8, <3>1 DEF SourceEnd
    <3> QED BY <1>6, <3>1
  <2>4. Path(n) = After(Path(c), at(n).type, at(n).sourcePosition)
    BY <1>8, <2>1, <2>3 DEF PathsFollow
  <2>5. Path(n)' = Path(n) /\ Path(c)' = Path(c)
    BY <1>3, <1>5, <1>8, <2>2, <2>3
  <2>6. at(n)'.descent = c
    BY <1>1, <1>8, <2>1
  <2>7. Path(at(n).descent)' = Path(c)'
    BY <2>6 DEF Path, at
  <2>8. After(Path(at(n).descent), at(n).type, at(n).sourcePosition)' =
          After(Path(c)', at(n).type, at(n).sourcePosition)
    BY <1>1, <1>8, <2>7 DEF After
  <2> QED BY <2>4, <2>5, <2>8
<1> QED BY <1>1, <1>7, <1>8

LEMMA PathsLastGrows ==
  ASSUME TypeOK, Ordered, Linked, Remembers, PathsLast,
         NEW N, NEW kind, NEW p, NEW d, NEW up, Grows(N, kind, p, d, up),
         kind # "if" => at(d).type # "endif",
         \/ /\ p = Highest /\ Len(source') = Len(source)
         \/ /\ p = Len(source) + 1 /\ Len(source') = p
            /\ \A n \in Numbers : at(n).sourcePosition < p
            /\ Path(N)' = Conditions(p)'
  PROVE  PathsLast'
<1>1. /\ N \in Nat /\ N > 0 /\ Numbers' = Numbers \cup {N} /\ Numbers = 0 .. N - 1
      /\ at(N)'.sourcePosition = p
      /\ \A n \in Numbers : at(n)'.sourcePosition = at(n).sourcePosition
  BY DEF Grows, Statement
<1>2. \A n \in Numbers : n # SourceEnd => Path(n)' = Path(n)
  BY GrowsKeeps, PathSame
<1>3. Len(source) \in Nat /\ Len(source) < Highest /\ Highest \in Nat
  BY SourceType
<1> SUFFICES ASSUME NEW n \in Numbers', NEW r \in Reset .. Len(source'),
                    at(n)'.sourcePosition <= r,
                    n + 1 \in Numbers' => r < at(n + 1)'.sourcePosition
             PROVE  Conditions(r)' = Path(n)'
  BY DEF PathsLast, Reset
<1>4. r \in Int
  BY <1>3 DEF Reset
<1>5. CASE r <= Len(source)
  <2>1. r \in Reset .. Len(source)
    BY <1>3, <1>4, <1>5
  <2>2. n # N
    BY <1>1, <1>3, <1>4, <1>5
  <2>3. n \in Numbers
    BY <1>1, <2>2
  <2>4. at(n).sourcePosition <= r
    BY <1>1, <2>3
  <2>5. n + 1 \in Numbers => r < at(n + 1).sourcePosition
    BY <1>1
  <2>6. Conditions(r) = Path(n)
    BY <2>1, <2>3, <2>4, <2>5 DEF PathsLast
  <2>7. n # SourceEnd
    <3>1. n # -1
      BY <1>1, <2>3
    <3>2. SourceEnd # -1 => at(SourceEnd).sourcePosition = Highest
      BY DEF Linked
    <3> QED BY <1>3, <1>4, <1>5, <2>4, <3>1, <3>2
  <2> QED BY <1>2, <2>1, <2>3, <2>6, <2>7 DEF Remembers
<1>6. CASE ~(r <= Len(source))
  <2>1. /\ r = p /\ p = Len(source) + 1
        /\ \A m \in Numbers : at(m).sourcePosition < p
        /\ Path(N)' = Conditions(p)'
    BY <1>3, <1>4, <1>6 DEF Reset
  <2>2. n = N
    <3>1. ASSUME n # N PROVE FALSE
      <4>1. n + 1 \in Numbers'
        BY <1>1, <3>1
      <4>2. at(n + 1)'.sourcePosition <= p
        <5>1. CASE n + 1 = N
          BY <1>1, <1>3, <2>1, <5>1
        <5>2. CASE n + 1 # N
          <6>1. n + 1 \in Numbers
            BY <1>1, <4>1, <5>2
          <6>2. at(n + 1)'.sourcePosition = at(n + 1).sourcePosition
            BY <1>1, <6>1
          <6>3. at(n + 1).sourcePosition < p /\ at(n + 1).sourcePosition \in Int
            BY <2>1, <6>1, StatementType
          <6> QED BY <1>3, <2>1, <6>2, <6>3
        <5> QED BY <5>1, <5>2
      <4>3. at(n + 1)'.sourcePosition \in Int
        <5>1. CASE n + 1 = N
          BY <1>1, <1>3, <2>1, <5>1
        <5>2. CASE n + 1 # N
          <6>1. n + 1 \in Numbers
            BY <1>1, <4>1, <5>2
          <6> QED BY <1>1, <6>1, StatementType
        <5> QED BY <5>1, <5>2
      <4> QED BY <1>4, <2>1, <4>1, <4>2, <4>3
    <3> QED BY <3>1
  <2> QED BY <2>1, <2>2
<1> QED BY <1>5, <1>6

(* A directive that leaves no statement changes no conditions.             *)
LEMMA PathsLastIgnored ==
  ASSUME TypeOK, Ordered, Linked, Remembers, PathsLast,
         UNCHANGED statements, phase = "scan",
         NEW q, q = Len(source) + 1, Len(source') = q,
         Conditions(q)' = Conditions(Len(source))
  PROVE  PathsLast'
<1>1. Len(source) \in Nat /\ Len(source) < Highest /\ Highest \in Nat
      /\ Len(statements) \in Nat
  BY SourceType
<1>2. \A n : at(n)' = at(n)
  BY DEF at
<1>3. Numbers' = Numbers /\ SourceEnd' = SourceEnd
  BY DEF Numbers, SourceEnd, at
<1>4. Keeps
  BY <1>2 DEF Keeps
<1>5. \A n \in Numbers : n # SourceEnd => Path(n)' = Path(n)
  BY <1>4, PathSame
<1>6. ASSUME NEW n \in Numbers
      PROVE  /\ at(n).sourcePosition <= Len(source) /\ at(n).sourcePosition \in Int
             /\ n # SourceEnd
  <2>1. at(n).sourcePosition # Highest
    BY DEF Ordered
  <2>2. n = 0 => at(n).sourcePosition = Lowest
    BY DEF Linked
  <2>3. n # 0 => at(n).sourcePosition \in 1 .. Len(source)
    BY <2>1 DEF Ordered
  <2>4. n # SourceEnd
    BY <2>1, StatementType DEF Linked
  <2> QED BY <1>1, <2>2, <2>3, <2>4 DEF Lowest
<1> SUFFICES ASSUME NEW n \in Numbers', NEW r \in Reset .. Len(source'),
                    at(n)'.sourcePosition <= r,
                    n + 1 \in Numbers' => r < at(n + 1)'.sourcePosition
             PROVE  Conditions(r)' = Path(n)'
  BY DEF PathsLast, Reset
<1>7. r \in Int /\ n \in Numbers /\ Path(n)' = Path(n) /\ n \in Int
  BY <1>1, <1>3, <1>5, <1>6 DEF Reset, Numbers
<1>8. CASE r <= Len(source)
  <2>1. r \in Reset .. Len(source)
    BY <1>1, <1>7, <1>8
  <2>2. Conditions(r) = Path(n)
    BY <1>2, <1>3, <1>7, <2>1 DEF PathsLast
  <2> QED BY <1>7, <2>1, <2>2 DEF Remembers
<1>9. CASE ~(r <= Len(source))
  <2>1. r = Len(source) + 1
    BY <1>1, <1>7, <1>9
  <2>2. n + 1 \notin Numbers
    BY <1>1, <1>2, <1>3, <1>6, <2>1
  <2>3. Len(source) \in Reset .. Len(source)
    BY <1>1 DEF Reset
  <2>4. Conditions(Len(source)) = Path(n)
    BY <1>6, <1>7, <2>2, <2>3 DEF PathsLast
  <2>5. Conditions(r)' = Conditions(Len(source))
    BY <2>1
  <2> QED BY <1>7, <2>4, <2>5
<1> QED BY <1>8, <1>9

LEMMA PathsOwnGrows ==
  ASSUME TypeOK, Ordered, Linked, Remembers, PathsOwn,
         NEW N, NEW kind, NEW p, NEW d, NEW up, Grows(N, kind, p, d, up),
         kind # "if" => at(d).type # "endif",
         kind # "endif" => Path(N)' # <<>> /\ Last(Last(Path(N)')) = p
  PROVE  PathsOwn'
<1>1. /\ N \in Nat /\ N > 0 /\ Numbers' = Numbers \cup {N} /\ Numbers = 0 .. N - 1
      /\ at(N)'.type = kind /\ at(N)'.sourcePosition = p
      /\ \A n \in Numbers : /\ at(n)'.type = at(n).type
                            /\ at(n)'.sourcePosition = at(n).sourcePosition
  BY DEF Grows, Statement
<1>2. \A n \in Numbers : at(n).type # "endif" => Path(n)' = Path(n)
  BY <1>1, GrowsKeeps, PathSame DEF Linked
<1> SUFFICES ASSUME NEW n \in Numbers' \ {0}, at(n)'.type # "endif"
             PROVE  Path(n)' # <<>> /\ Last(Last(Path(n)')) = at(n)'.sourcePosition
  BY DEF PathsOwn, Last
<1>3. CASE n = N
  BY <1>1, <1>3
<1>4. CASE n \in Numbers \ {0}
  <2>1. Path(n) # <<>> /\ Last(Last(Path(n))) = at(n).sourcePosition
    BY <1>1, <1>4 DEF PathsOwn
  <2> QED BY <1>1, <1>2, <1>4, <2>1
<1> QED BY <1>1, <1>3, <1>4

-----------------------------------------------------------------------------
(* A block that a place is in is closed behind it.                         *)
LEMMA AroundGrows ==
  ASSUME TypeOK, Ordered, Linked, Remembers,
         NEW N, NEW kind, NEW p, NEW d, NEW up, Grows(N, kind, p, d, up),
         NEW r \in 1 .. Len(source), r < p, Around(r)
  PROVE  Around(r)'
<1>1. /\ N \in Nat /\ N > 0 /\ Numbers' = Numbers \cup {N} /\ Numbers = 0 .. N - 1
      /\ at(N)'.sourcePosition = p
      /\ \A n \in Numbers :
           /\ at(n)'.type = at(n).type /\ at(n)'.sourcePosition = at(n).sourcePosition
           /\ at(n)'.ascent = IF kind # "if" /\ n = d THEN N ELSE at(n).ascent
  BY DEF Grows, Statement
<1>2. Conditions(r)' = Conditions(r)
  BY SourceType DEF Remembers, Reset
<1>3. ASSUME NEW b \in 1 .. Len(Conditions(r))
      PROVE  \E n \in Numbers' \ {0} :
               /\ at(n)'.type # "endif"
               /\ at(n)'.sourcePosition = Last(Conditions(r)[b])
               /\ at(n)'.sourcePosition <= r
               /\ at(n)'.ascent = -1 \/ r < at(at(n).ascent)'.sourcePosition
  <2>1. PICK n \in Numbers \ {0} :
          /\ at(n).type # "endif"
          /\ at(n).sourcePosition = Last(Conditions(r)[b]) /\ at(n).sourcePosition <= r
          /\ at(n).ascent = -1 \/ r < at(at(n).ascent).sourcePosition
    BY DEF Around
  <2>2. at(n)'.ascent = -1 \/ r < at(at(n).ascent)'.sourcePosition
    <3>1. PICK a : a = at(n)'.ascent
      OBVIOUS
    <3>2. CASE kind # "if" /\ n = d
      <4>1. a = N /\ at(a)'.sourcePosition = p
        BY <1>1, <2>1, <3>1, <3>2
      <4> QED BY <3>1, <4>1 DEF at
    <3>3. CASE ~(kind # "if" /\ n = d) /\ at(n).ascent # -1
      <4>1. a = at(n).ascent /\ a \in Numbers
        BY <1>1, <2>1, <3>1, <3>3, StatementType
      <4>2. at(a)'.sourcePosition = at(a).sourcePosition
        BY <1>1, <4>1
      <4> QED BY <2>1, <3>1, <3>3, <4>1, <4>2 DEF at
    <3>4. CASE ~(kind # "if" /\ n = d) /\ at(n).ascent = -1
      BY <1>1, <2>1, <3>4
    <3> QED BY <3>2, <3>3, <3>4
  <2>3. n \in Numbers' \ {0} /\ at(n)'.type # "endif"
    BY <1>1, <2>1
  <2>4. at(n)'.sourcePosition = Last(Conditions(r)[b]) /\ at(n)'.sourcePosition <= r
    BY <1>1, <2>1
  <2> QED BY <2>2, <2>3, <2>4
<1>4. \A b \in 1 .. Len(Conditions(r)) : \A a \in 1 .. b - 1 :
        Last(Conditions(r)[a]) < Last(Conditions(r)[b])
  BY DEF Around
<1> QED BY <1>2, <1>3, <1>4 DEF Around, Last

(* While the source is scanned, the blocks that it is in are open.         *)
LEMMA AroundEnd ==
  ASSUME TypeOK, Ordered, Linked, BlocksAround, phase = "scan",
         NEW b \in 1 .. Len(Conditions(Len(source)))
  PROVE  /\ \A a \in 1 .. b - 1 :
              Last(Conditions(Len(source))[a]) < Last(Conditions(Len(source))[b])
         /\ Last(Conditions(Len(source))[b]) <= Len(source)
         /\ \E n \in Numbers \ {0} :
              /\ at(n).type # "endif" /\ at(n).ascent = -1
              /\ at(n).sourcePosition = Last(Conditions(Len(source))[b])
<1>1. Len(source) \in Nat /\ Len(source) < Highest /\ Highest \in Nat
  BY SourceType
<1>2. CASE Len(source) = 0
  <2>1. Conditions(Len(source)) = <<>>
    BY <1>2 DEF Conditions
  <2> QED BY <2>1
<1>3. CASE Len(source) # 0
  <2>1. Len(source) \in 1 .. Len(source)
    BY <1>1, <1>3
  <2>2. Around(Len(source))
    BY <2>1 DEF BlocksAround
  <2>3. PICK n \in Numbers \ {0} :
          /\ at(n).type # "endif"
          /\ at(n).sourcePosition = Last(Conditions(Len(source))[b])
          /\ at(n).sourcePosition <= Len(source)
          /\ at(n).ascent = -1 \/ Len(source) < at(at(n).ascent).sourcePosition
    BY <2>2 DEF Around
  <2>4. at(n).ascent = -1
    <3>1. ASSUME at(n).ascent # -1 PROVE FALSE
      <4> DEFINE a == at(n).ascent
      <4>1. a \in Numbers /\ n \in Nat /\ a > n
        BY <2>3, <3>1, StatementType DEF Linked
      <4>2. a # 0 /\ a \in Numbers \ {0}
        BY <4>1
      <4>3. at(a).sourcePosition \in 1 .. Len(source)
        BY <4>1, <4>2 DEF Ordered
      <4> QED BY <1>1, <2>3, <3>1, <4>3
    <3> QED BY <3>1
  <2>5. \A a \in 1 .. b - 1 :
          Last(Conditions(Len(source))[a]) < Last(Conditions(Len(source))[b])
    BY <2>2 DEF Around
  <2> QED BY <2>3, <2>4, <2>5
<1> QED BY <1>2, <1>3

(* The next directive leaves the first m of them as they were.             *)
LEMMA AroundNext ==
  ASSUME TypeOK, Ordered, Linked, BlocksAround, phase = "scan",
         NEW q, q = Len(source) + 1,
         NEW c, c = Conditions(Len(source)),
         NEW m \in 0 .. Len(c),
         Len(Conditions(q)') \in {m, m + 1},
         \A b \in 1 .. m : Conditions(q)'[b] = c[b],
         \A b \in 1 .. m : \A n \in Numbers \ {0} :
           at(n).type # "endif" /\ at(n).ascent = -1 /\ at(n).sourcePosition = Last(c[b]) =>
             /\ n \in Numbers' /\ at(n)'.type # "endif" /\ at(n)'.ascent = -1
             /\ at(n)'.sourcePosition = at(n).sourcePosition,
         Len(Conditions(q)') = m + 1 =>
           /\ Last(Conditions(q)'[m + 1]) = q
           /\ \E n \in Numbers' \ {0} : /\ at(n)'.type # "endif" /\ at(n)'.ascent = -1
                                        /\ at(n)'.sourcePosition = q
  PROVE  Around(q)'
<1> DEFINE e == Conditions(q)'
<1>1. Len(source) \in Nat /\ c \in Seq(Seq(1 .. Len(source)))
  <2>1. Len(source) \in Nat
    BY SourceType
  <2>2. Len(source) \in Reset .. Len(source)
    BY <2>1 DEF Reset
  <2> QED BY <2>1, <2>2, ConditionsType
<1>2. m \in Nat /\ m <= Len(c) /\ Len(c) \in Nat /\ q \in Nat
  BY <1>1
<1>3. ASSUME NEW b \in 1 .. m
      PROVE  /\ \A a \in 1 .. b - 1 : Last(e[a]) < Last(e[b])
             /\ Last(e[b]) < q
             /\ \E n \in Numbers' \ {0} :
                  /\ at(n)'.type # "endif" /\ at(n)'.ascent = -1
                  /\ at(n)'.sourcePosition = Last(e[b])
  <2>1. b \in 1 .. Len(c) /\ e[b] = c[b] /\ \A a \in 1 .. b - 1 : e[a] = c[a]
    BY <1>2
  <2>2. /\ \A a \in 1 .. b - 1 : Last(c[a]) < Last(c[b])
        /\ Last(c[b]) <= Len(source)
    BY <2>1, AroundEnd
  <2>3. PICK n \in Numbers \ {0} :
          /\ at(n).type # "endif" /\ at(n).ascent = -1
          /\ at(n).sourcePosition = Last(c[b])
    BY <2>1, AroundEnd
  <2>4. n \in Numbers' \ {0} /\ at(n)'.type # "endif" /\ at(n)'.ascent = -1
        /\ at(n)'.sourcePosition = Last(e[b])
    BY <2>1, <2>3
  <2>5. Last(e[b]) < q
    <3>1. at(n).sourcePosition \in Int
      BY <2>3, StatementType
    <3> QED BY <1>1, <2>1, <2>2, <2>3, <3>1
  <2>6. \A a \in 1 .. b - 1 : Last(e[a]) < Last(e[b])
    BY <2>1, <2>2
  <2> QED BY <2>4, <2>5, <2>6
<1>4. ASSUME NEW b \in 1 .. Len(e)
      PROVE  /\ \A a \in 1 .. b - 1 : Last(e[a]) < Last(e[b])
             /\ \E n \in Numbers' \ {0} :
                  /\ at(n)'.type # "endif"
                  /\ at(n)'.sourcePosition = Last(e[b]) /\ at(n)'.sourcePosition <= q
                  /\ at(n)'.ascent = -1 \/ q < at(at(n).ascent)'.sourcePosition
  <2>1. CASE b \in 1 .. m
    <3>1. PICK n \in Numbers' \ {0} :
            /\ at(n)'.type # "endif" /\ at(n)'.ascent = -1
            /\ at(n)'.sourcePosition = Last(e[b])
      BY <1>3, <2>1
    <3>2. at(n)'.sourcePosition < q
      BY <1>3, <2>1, <3>1
    <3>3. at(n)'.sourcePosition \in Int
      <4>1. PICK k \in Numbers \ {0} :
              /\ at(k).type # "endif" /\ at(k).ascent = -1
              /\ at(k).sourcePosition = Last(c[b])
        BY <1>2, <2>1, AroundEnd
      <4> QED BY <2>1, <3>1, <4>1, StatementType
    <3>4. at(n)'.sourcePosition <= q
      BY <1>2, <3>2, <3>3
    <3> QED BY <1>3, <2>1, <3>1, <3>4
  <2>2. CASE Len(e) = m + 1 /\ b = m + 1
    <3>1. Last(e[b]) = q /\ \A a \in 1 .. b - 1 : Last(e[a]) < q
      BY <1>2, <1>3, <2>2
    <3> QED BY <1>2, <2>2, <3>1
  <2> QED BY <1>2, <2>1, <2>2
<1> QED BY <1>4 DEF Around, Last

-----------------------------------------------------------------------------
(* One more directive of the source.                                       *)
LEMMA ScanFacts ==
  ASSUME TypeOK, NEW kind \in Kinds, Scan(kind), NEW q, q = Len(source) + 1,
         NEW c, c = Conditions(Len(source))
  PROVE  /\ phase = "scan" /\ phase' = "scan"
         /\ q \in Nat /\ Len(source) \in Nat /\ Len(source') = q /\ q <= MaxDirectives
         /\ q \in 1 .. Len(source')
         /\ source' \in Seq(Kinds)
         /\ conditions' = Append(conditions, IF Ignored(kind) THEN c ELSE After(c, kind, q))
         /\ Len(conditions') = q
         /\ Conditions(q)' = IF Ignored(kind) THEN c ELSE After(c, kind, q)
         /\ Remembers
         /\ c \in Seq(Seq(1 .. Len(source)))
         /\ blocks' = Blocks(kind)
         /\ kind \notin {"if", "guard"} => blocks # <<>>
         /\ UNCHANGED <<statement, position, search, text, open>>
<1>1. phase = "scan" /\ phase' = "scan" /\ source' = Append(source, kind)
  BY DEF Scan
<1>2. /\ source \in Seq(Kinds) /\ Len(source) \in Nat /\ Len(conditions) = Len(source)
      /\ conditions \in Seq(Seq(Seq(1 .. Len(source))))
  BY SourceType DEF TypeOK
<1>3. source' \in Seq(Kinds) /\ Len(source') = q
  BY <1>1, <1>2, AppendProperties
<1>4. q <= MaxDirectives /\ q \in Nat
  BY <1>2, BoundAssumption DEF Scan
<1>5. conditions' = Append(conditions, IF Ignored(kind) THEN c ELSE After(c, kind, q))
  BY <1>3 DEF Scan
<1>6. /\ Len(conditions') = q
      /\ \A p \in 1 .. Len(source) : conditions'[p] = conditions[p]
      /\ conditions'[q] = IF Ignored(kind) THEN c ELSE After(c, kind, q)
  BY <1>2, <1>5
<1>7. Conditions(q)' = IF Ignored(kind) THEN c ELSE After(c, kind, q)
  BY <1>2, <1>6 DEF Conditions
<1>8. ASSUME NEW p \in Reset .. Len(source)
      PROVE  Conditions(p)' = Conditions(p)
  <2>1. p < 1 \/ p \in 1 .. Len(source)
    BY <1>2 DEF Reset
  <2> QED BY <1>6, <2>1 DEF Conditions
<1>9. Remembers
  BY <1>2, <1>3, <1>4, <1>8 DEF Remembers
<1>10. c \in Seq(Seq(1 .. Len(source)))
  <2>1. Len(source) \in Reset .. Len(source)
    BY <1>2 DEF Reset
  <2> QED BY <2>1, ConditionsType
<1>11. /\ blocks' = Blocks(kind)
       /\ kind \notin {"if", "guard"} => blocks # <<>>
       /\ UNCHANGED <<statement, position, search, text, open>>
  BY DEF Scan
<1> QED BY <1>1, <1>2, <1>3, <1>4, <1>5, <1>6, <1>7, <1>9, <1>10, <1>11

(* What it does to C's open blocks.                                        *)
Block == [first : {"if", "guard"}, latest : Kinds]

LEMMA BlocksOpen ==
  ASSUME TypeOK, NEW kind \in {"if", "guard"}
  PROVE  /\ Blocks(kind) \in Seq(Block) /\ Len(Blocks(kind)) = Len(blocks) + 1
         /\ \A m \in 1 .. Len(blocks) : Blocks(kind)[m] = blocks[m]
         /\ Blocks(kind)[Len(blocks) + 1].first = kind
<1>1. blocks \in Seq(Block)
  BY DEF TypeOK, Block
<1>2. [first |-> kind, latest |-> kind] \in Block
  BY DEF Block, Kinds
<1>3. Blocks(kind) = Append(blocks, [first |-> kind, latest |-> kind])
  BY DEF Blocks
<1> HIDE DEF Block
<1>4. /\ Append(blocks, [first |-> kind, latest |-> kind]) \in Seq(Block)
      /\ Len(Append(blocks, [first |-> kind, latest |-> kind])) = Len(blocks) + 1
      /\ \A m \in 1 .. Len(blocks) :
           Append(blocks, [first |-> kind, latest |-> kind])[m] = blocks[m]
      /\ Append(blocks, [first |-> kind, latest |-> kind])[Len(blocks) + 1] =
           [first |-> kind, latest |-> kind]
  BY <1>1, <1>2, AppendProperties
<1> QED BY <1>3, <1>4

LEMMA BlocksClose ==
  ASSUME TypeOK, blocks # <<>>
  PROVE  /\ Blocks("endif") \in Seq(Block) /\ Len(Blocks("endif")) = Len(blocks) - 1
         /\ \A m \in 1 .. Len(blocks) - 1 : Blocks("endif")[m] = blocks[m]
<1>1. blocks \in Seq(Block)
  BY DEF TypeOK, Block
<1>2. Blocks("endif") = Front(blocks)
  BY DEF Blocks
<1> QED BY <1>1, <1>2, FrontFacts

LEMMA BlocksBranch ==
  ASSUME TypeOK, blocks # <<>>, NEW kind \in {"elif", "else"}
  PROVE  /\ Blocks(kind) \in Seq(Block) /\ Len(Blocks(kind)) = Len(blocks)
         /\ \A m \in 1 .. Len(blocks) : Blocks(kind)[m].first = blocks[m].first
<1> DEFINE n == Len(blocks)
           e == [blocks[n] EXCEPT !.latest = kind]
<1>1. blocks \in Seq(Block) /\ n \in Nat /\ n >= 1
  BY DEF TypeOK, Block
<1>2. blocks[n] \in Block
  BY <1>1
<1>3. e \in Block /\ e.first = blocks[n].first
  BY <1>2 DEF Block, Kinds
<1>4. Blocks(kind) = [blocks EXCEPT ![n] = e]
  BY DEF Blocks
<1> HIDE DEF e, Block, n
<1>5. n \in 1 .. Len(blocks)
  BY <1>1 DEF n
<1>6. /\ [blocks EXCEPT ![n] = e] \in Seq(Block)
      /\ Len([blocks EXCEPT ![n] = e]) = Len(blocks)
      /\ \A m \in 1 .. Len(blocks) :
           [blocks EXCEPT ![n] = e][m] = IF m = n THEN e ELSE blocks[m]
  BY <1>1, <1>3, <1>5, ExceptSeq
<1> QED BY <1>3, <1>4, <1>6

-----------------------------------------------------------------------------
(* What happens to the stack.                                              *)
LEMMA TopSame ==
  ASSUME NEW s, NEW t, NEW n \in Nat, \A m \in 1 .. n : t[m] = s[m], NEW m \in 0 .. n, NEW l
  PROVE  IsTop(t, l, m) <=> IsTop(s, l, m)
BY DEF IsTop

LEMMA PushInOrder ==
  ASSUME NEW s \in Seq(Int), InOrder(s), s # <<>>, NEW x \in Int,
         x # -1 => \A m \in 1 .. Len(s) : s[m] # -1 => s[m] < x
  PROVE  InOrder(Append(s, x))
<1> DEFINE t == Append(s, x)
           n == Len(s)
<1>1. n \in Nat /\ n >= 1
  OBVIOUS
<1>2. /\ Len(t) = n + 1 /\ t[n + 1] = x /\ t # <<>>
      /\ \A m \in 1 .. n : t[m] = s[m]
  BY AppendProperties
<1> HIDE DEF t, n
<1>3. ASSUME NEW l \in 1 .. Len(t), NEW m \in 1 .. Len(t), l < m, t[l] # -1, t[m] # -1
      PROVE  t[l] < t[m]
  <2>1. l \in 1 .. n
    BY <1>1, <1>2, <1>3
  <2>2. CASE m = n + 1
    BY <1>2, <1>3, <2>1, <2>2 DEF n
  <2>3. CASE m \in 1 .. n
    BY <1>2, <1>3, <2>1, <2>3 DEF InOrder, n
  <2> QED BY <1>1, <1>2, <2>2, <2>3
<1>4. t[1] = 0
  BY <1>1, <1>2 DEF InOrder, n
<1>5. ASSUME NEW m \in 1 .. Len(t)
      PROVE  \E l \in 1 .. m : IsTop(t, l, m)
  <2>1. CASE m \in 1 .. n
    <3>1. PICK l \in 1 .. m : IsTop(s, l, m)
      BY <2>1 DEF InOrder, n
    <3>2. m \in 0 .. n
      BY <1>1, <2>1
    <3>3. IsTop(t, l, m)
      BY <1>1, <1>2, <3>1, <3>2, TopSame
    <3> QED BY <3>3
  <2>2. CASE m = n + 1 /\ x # -1
    BY <1>1, <1>2, <2>2 DEF IsTop
  <2>3. CASE m = n + 1 /\ x = -1
    <3>1. PICK l \in 1 .. n : IsTop(s, l, n)
      BY <1>1 DEF InOrder, n
    <3>2. IsTop(t, l, m)
      BY <1>1, <1>2, <2>3, <3>1 DEF IsTop
    <3> QED BY <1>1, <2>3, <3>1, <3>2
  <2> QED BY <1>1, <1>2, <2>1, <2>2, <2>3
<1>6. InOrder(t)
  BY <1>3, <1>4, <1>5 DEF InOrder
<1> QED BY <1>6 DEF t

LEMMA PopInOrder ==
  ASSUME NEW s \in Seq(Int), InOrder(s), s # <<>>
  PROVE  InOrder(Front(s))
<1> DEFINE t == Front(s)
           n == Len(s) - 1
<1>1. n \in Nat /\ Len(s) \in Nat
  OBVIOUS
<1>2. /\ Len(t) = n /\ t \in Seq(Int)
      /\ \A m \in 1 .. n : t[m] = s[m]
  BY FrontFacts
<1> HIDE DEF t
<1>3. \A m \in 1 .. n : m \in 1 .. Len(s)
  BY <1>1
<1>4. ASSUME NEW l \in 1 .. Len(t), NEW m \in 1 .. Len(t), l < m, t[l] # -1, t[m] # -1
      PROVE  t[l] < t[m]
  <2>1. l \in 1 .. n /\ m \in 1 .. n
    BY <1>2, <1>4
  <2>2. l \in 1 .. Len(s) /\ m \in 1 .. Len(s) /\ t[l] = s[l] /\ t[m] = s[m]
    BY <1>2, <1>3, <2>1
  <2> QED BY <1>4, <2>2 DEF InOrder
<1>5. t # <<>> => t[1] = 0
  BY <1>1, <1>2 DEF InOrder
<1>6. ASSUME NEW m \in 1 .. Len(t)
      PROVE  \E l \in 1 .. m : IsTop(t, l, m)
  <2>1. PICK l \in 1 .. m : IsTop(s, l, m)
    BY <1>2, <1>3 DEF InOrder
  <2>2. m \in 0 .. n
    BY <1>1, <1>2
  <2>3. IsTop(t, l, m)
    BY <1>1, <1>2, <2>1, <2>2, TopSame
  <2> QED BY <2>3
<1>7. InOrder(t)
  BY <1>4, <1>5, <1>6 DEF InOrder
<1> QED BY <1>7 DEF t

(* The branches on a stack.                                                *)
Members(s) == {s[m] : m \in 1 .. Len(s)}

LEMMA MembersPush ==
  ASSUME NEW s \in Seq(Int), NEW x \in Int
  PROVE  Members(Append(s, x)) = Members(s) \cup {x}
<1> DEFINE t == Append(s, x)
           n == Len(s)
<1>1. n \in Nat /\ Len(t) = n + 1 /\ t[n + 1] = x /\ \A m \in 1 .. n : t[m] = s[m]
  BY AppendProperties
<1> HIDE DEF t, n
<1>2. ASSUME NEW y PROVE y \in Members(t) <=> y \in Members(s) \cup {x}
  <2>1. y \in Members(t) => y \in Members(s) \cup {x}
    BY <1>1 DEF Members, n
  <2>2. y \in Members(s) => y \in Members(t)
    BY <1>1 DEF Members, n
  <2>3. x \in Members(t)
    <3>1. n + 1 \in 1 .. Len(t)
      BY <1>1
    <3> QED BY <1>1, <3>1 DEF Members
  <2> QED BY <2>1, <2>2, <2>3
<1>3. Members(t) = Members(s) \cup {x}
  BY <1>2
<1> QED BY <1>3 DEF t

LEMMA MembersPop ==
  ASSUME NEW s \in Seq(Int), s # <<>>, InOrder(s)
  PROVE  /\ Last(s) \in Members(s)
         /\ Last(s) # -1 => Members(Front(s)) = Members(s) \ {Last(s)}
         /\ Last(s) = -1 => Members(Front(s)) \cup {-1} = Members(s)
<1> DEFINE t == Front(s)
           n == Len(s) - 1
           x == Last(s)
<1>1. n \in Nat /\ Len(s) = n + 1 /\ Len(t) = n
      /\ \A m \in 1 .. n : t[m] = s[m]
  BY FrontFacts
<1>2. x = s[n + 1]
  BY <1>1 DEF Last
<1>3. \A m \in 1 .. n : x # -1 /\ s[m] # -1 => s[m] < x
  <2> TAKE m \in 1 .. n
  <2>1. m \in 1 .. Len(s) /\ n + 1 \in 1 .. Len(s) /\ m < n + 1
    BY <1>1
  <2> QED BY <1>2, <2>1 DEF InOrder
<1>4. \A m \in 1 .. n + 1 : s[m] \in Int
  BY <1>1
<1>5. n + 1 \in 1 .. Len(s)
  BY <1>1
<1> HIDE DEF t, n, x
<1>6. x \in Members(s)
  BY <1>2, <1>5 DEF Members
<1>7. ASSUME NEW y PROVE y \in Members(s) <=> y \in Members(t) \/ y = x
  <2>1. y \in Members(s) => y \in Members(t) \/ y = x
    BY <1>1, <1>2 DEF Members
  <2>2. y \in Members(t) => y \in Members(s)
    BY <1>1 DEF Members
  <2> QED BY <1>6, <2>1, <2>2
<1>8. x # -1 => x \notin Members(t)
  BY <1>1, <1>2, <1>3, <1>4 DEF Members
<1>9. Last(s) \in Members(s)
  BY <1>6 DEF x
<1>10. x # -1 => Members(t) = Members(s) \ {x}
  BY <1>7, <1>8
<1>11. x = -1 => Members(t) \cup {-1} = Members(s)
  BY <1>7
<1> QED BY <1>9, <1>10, <1>11 DEF t, x

(* The stack is one that the constructor makes.                            *)
LEMMA StackFacts ==
  ASSUME TypeOK, StackedInOrder, StackedOpen, Linked, stack # <<>>, NEW n, n = Len(stack)
  PROVE  /\ n \in Nat /\ n >= 1 /\ stack \in Seq(Int) /\ n \in 1 .. n
         /\ stack[1] = 0 /\ Last(stack) = stack[n]
         /\ n = 1 => Last(stack) # -1
         /\ \A m \in 1 .. n : stack[m] # -1 =>
              /\ stack[m] \in Numbers /\ at(stack[m]).type # "endif"
              /\ at(stack[m]).ascent = -1 /\ stack[m] # SourceEnd
         /\ \A m \in 2 .. n : stack[m] # 0
<1>1. n \in Nat /\ n >= 1 /\ n \in 1 .. n
  BY SourceType DEF TypeOK
<1>2. \A m \in 1 .. n : stack[m] \in Numbers \cup {-1}
  BY <1>1 DEF TypeOK
<1>3. Numbers \subseteq Int
  BY SourceType DEF Numbers
<1>4. stack \in Seq(Int)
  <2> DEFINE S == Numbers \cup {-1}
  <2>1. S \subseteq Int
    BY <1>3
  <2>2. stack \in Seq(S)
    BY DEF TypeOK
  <2> HIDE DEF S
  <2> QED BY <2>1, <2>2, SeqMonotonic
<1>5. stack[1] = 0 /\ Last(stack) = stack[n]
  BY DEF StackedInOrder, InOrder, Last
<1>6. \A m \in 1 .. n : stack[m] # -1 =>
        /\ stack[m] \in Numbers /\ at(stack[m]).type # "endif"
        /\ at(stack[m]).ascent = -1 /\ stack[m] # SourceEnd
  BY <1>2 DEF StackedOpen, Linked
<1>7. \A m \in 2 .. n : stack[m] # 0
  BY <1>1, <1>5 DEF StackedInOrder, InOrder
<1> QED BY <1>1, <1>4, <1>5, <1>6, <1>7

LEMMA OpenMembers ==
  StackedOpen <=>
    \A n \in Numbers : at(n).type # "endif" /\ at(n).ascent = -1 <=> n \in Members(stack)
BY DEF StackedOpen, Members

LEMMA OpenMembersNext ==
  (\A n \in Numbers' : at(n)'.type # "endif" /\ at(n)'.ascent = -1 <=> n \in Members(stack'))
  => StackedOpen'
BY DEF StackedOpen, Members

LEMMA StackedOpenGrows ==
  ASSUME TypeOK, StackedOpen,
         NEW N, NEW kind, NEW p, NEW d, NEW up, Grows(N, kind, p, d, up),
         kind # "endif" => up = -1,
         Members(stack') = (IF kind = "if" THEN Members(stack) ELSE Members(stack) \ {d})
                           \cup (IF kind = "endif" THEN {} ELSE {N})
  PROVE  StackedOpen'
<1>1. /\ N \in Nat /\ Numbers' = Numbers \cup {N} /\ Numbers = 0 .. N - 1
      /\ at(N)'.type = kind /\ at(N)'.ascent = up
      /\ \A n \in Numbers :
           /\ at(n)'.type = at(n).type
           /\ at(n)'.ascent = IF kind # "if" /\ n = d THEN N ELSE at(n).ascent
  BY DEF Grows, Statement
<1>2. \A n \in Numbers : at(n).type # "endif" /\ at(n).ascent = -1 <=> n \in Members(stack)
  BY OpenMembers
<1>3. N \notin Numbers /\ N # -1
  BY <1>1
<1>4. N \notin Members(stack)
  <2>1. Members(stack) \subseteq Numbers \cup {-1}
    BY SourceType DEF TypeOK, Members
  <2> QED BY <1>3, <2>1
<1>5. ASSUME NEW n \in Numbers'
      PROVE  at(n)'.type # "endif" /\ at(n)'.ascent = -1 <=> n \in Members(stack')
  <2>1. CASE n = N
    BY <1>1, <1>4, <2>1
  <2>2. CASE n \in Numbers
    BY <1>1, <1>2, <1>3, <2>2
  <2> QED BY <1>1, <2>1, <2>2
<1> QED BY <1>5, OpenMembersNext

LEMMA StackedOpenSame ==
  ASSUME TypeOK, StackedOpen, UNCHANGED statements,
         Members(stack') \cup {-1} = Members(stack) \cup {-1}
  PROVE  StackedOpen'
<1>1. Numbers' = Numbers /\ \A n : at(n)' = at(n)
  BY DEF Numbers, at
<1>2. -1 \notin Numbers
  BY SourceType DEF Numbers
<1>3. \A n \in Numbers : at(n).type # "endif" /\ at(n).ascent = -1 <=> n \in Members(stack)
  BY OpenMembers
<1> QED BY <1>1, <1>2, <1>3, OpenMembersNext

-----------------------------------------------------------------------------
(* The conditions of the branches on the stack, when one is pushed or      *)
(* popped.                                                                 *)
PathsStay == \A n \in Numbers : n # SourceEnd => Path(n)' = Path(n)

OnStack == stack # <<>> /\ TypeOK /\ StackedInOrder /\ StackedOpen /\ Linked

(* All of the stack but the first n elements gives way to at most one.     *)
StackTo(n) ==
  /\ n \in 0 .. Len(stack)
  /\ Len(stack') \in {n, n + 1}
  /\ \A m \in 1 .. n : stack'[m] = stack[m]

LEMMA PathsNestTo ==
  ASSUME OnStack, PathsNest, PathsStay, NEW n, StackTo(n),
         NEW x, Len(stack') = n + 1 => x = stack'[n + 1],
         Len(stack') = n + 1 /\ x # -1 =>
           \A l \in 1 .. n : IsTop(stack, l, n) =>
             Path(x)' # <<>> /\ Front(Path(x)') = Path(stack[l])
  PROVE  PathsNest'
<1>1. /\ Len(stack) \in Nat /\ n \in Nat /\ n <= Len(stack)
      /\ \A m \in 1 .. n : stack[m] # -1 => stack[m] \in Numbers /\ stack[m] # SourceEnd
  BY StackFacts DEF OnStack, StackTo
<1>2. Len(stack') \in {n, n + 1} /\ \A m \in 1 .. n : stack'[m] = stack[m]
  BY DEF StackTo
<1> SUFFICES ASSUME NEW m \in 2 .. Len(stack'), NEW l \in 1 .. Len(stack'),
                    stack'[m] # -1, IsTop(stack', l, m - 1)
             PROVE  Path(stack[m])' # <<>> /\ Front(Path(stack[m])') = Path(stack[l])'
  BY DEF PathsNest, IsTop, Front
<1>3. m - 1 \in 0 .. n
  BY <1>1, <1>2
<1>4. IsTop(stack, l, m - 1) <=> IsTop(stack', l, m - 1)
  BY <1>1, <1>2, <1>3, TopSame
<1>5. IsTop(stack, l, m - 1) /\ l \in 1 .. m - 1
  BY <1>4 DEF IsTop
<1>6. l \in 1 .. n /\ stack'[l] = stack[l] /\ stack[l] # -1
  BY <1>1, <1>2, <1>3, <1>5 DEF IsTop
<1>7. PICK c, e : c = stack'[m] /\ e = stack'[l]
  OBVIOUS
<1>8. Path(stack[l])' = Path(e)' /\ Path(stack[m])' = Path(c)'
  BY <1>7 DEF Path, at
<1>9. e \in Numbers /\ e # SourceEnd /\ e = stack[l]
  BY <1>1, <1>6, <1>7
<1>10. Path(e)' = Path(e)
  BY <1>9 DEF PathsStay
<1>11. CASE m \in 2 .. n
  <2>1. m \in 1 .. n /\ c = stack[m] /\ c \in Numbers /\ c # SourceEnd
        /\ m \in 2 .. Len(stack) /\ l \in 1 .. Len(stack)
    BY <1>1, <1>2, <1>6, <1>7, <1>11
  <2>2. Path(c) # <<>> /\ Front(Path(c)) = Path(e)
    BY <1>5, <1>7, <1>9, <2>1 DEF PathsNest
  <2>3. Path(c)' = Path(c)
    BY <2>1 DEF PathsStay
  <2> QED BY <1>8, <1>10, <2>2, <2>3
<1>12. CASE m = n + 1
  <2>1. Len(stack') = n + 1 /\ c = x /\ m - 1 = n
    BY <1>1, <1>2, <1>7, <1>12
  <2>2. Path(x)' # <<>> /\ Front(Path(x)') = Path(stack[l])
    BY <1>5, <1>6, <1>7, <2>1
  <2>3. Path(c)' = Path(x)' /\ Path(stack[l]) = Path(e)
    BY <1>9, <2>1
  <2> QED BY <1>8, <1>10, <2>2, <2>3
<1> QED BY <1>1, <1>2, <1>11, <1>12

LEMMA PathsOpenTo ==
  ASSUME OnStack, PathsStay, NEW n, StackTo(n),
         NEW x, Len(stack') = n + 1 => x = stack'[n + 1],
         NEW q, q = Len(source'),
         Len(stack') = n + 1 /\ x # -1 => Path(x)' = Conditions(q)',
         ~(Len(stack') = n + 1 /\ x # -1) =>
           \A l \in 1 .. n : IsTop(stack, l, n) => Path(stack[l]) = Conditions(q)'
  PROVE  PathsOpen'
<1>1. /\ Len(stack) \in Nat /\ n \in Nat /\ n <= Len(stack)
      /\ \A m \in 1 .. n : stack[m] # -1 => stack[m] \in Numbers /\ stack[m] # SourceEnd
  BY StackFacts DEF OnStack, StackTo
<1>2. Len(stack') \in {n, n + 1} /\ \A m \in 1 .. n : stack'[m] = stack[m]
  BY DEF StackTo
<1>3. PICK k : k = Len(stack')
  OBVIOUS
<1> SUFFICES ASSUME NEW l \in 1 .. k, IsTop(stack', l, k)
             PROVE  Path(stack[l])' = Conditions(q)'
  BY <1>3 DEF PathsOpen, IsTop, Conditions
<1>4. stack'[l] # -1 /\ \A m \in l + 1 .. k : stack'[m] = -1
  BY DEF IsTop
<1>5. PICK e : e = stack'[l]
  OBVIOUS
<1>6. Path(stack[l])' = Path(e)'
  BY <1>5 DEF Path, at
<1>7. CASE k = n + 1 /\ x # -1
  <2>1. k \in Nat /\ stack'[k] # -1
    BY <1>1, <1>3, <1>7
  <2>2. ~(k \in l + 1 .. k)
    BY <1>4, <2>1
  <2>3. l = k
    BY <2>1, <2>2
  <2> QED BY <1>3, <1>5, <1>6, <1>7, <2>3
<1>8. CASE ~(k = n + 1 /\ x # -1)
  <2>1. l # n + 1
    BY <1>1, <1>2, <1>3, <1>4, <1>8
  <2>2. l \in 1 .. n
    BY <1>1, <1>2, <1>3, <2>1
  <2>3. IsTop(stack, l, n)
    BY <1>1, <1>2, <1>3, <1>4, <2>2 DEF IsTop
  <2>4. e = stack[l] /\ e \in Numbers /\ e # SourceEnd
    BY <1>1, <1>2, <1>4, <1>5, <2>2
  <2>5. Path(e)' = Path(e)
    BY <2>4 DEF PathsStay
  <2> QED BY <1>3, <1>6, <1>8, <2>2, <2>3, <2>4, <2>5
<1> QED BY <1>7, <1>8

-----------------------------------------------------------------------------
(* One more statement.                                                     *)
StatementsOf(N) == [type : Kinds \ {"guard"}, sourcePosition : Lowest .. Highest,
                    descent : (0 .. N - 1) \cup {-1}, ascent : (0 .. N - 1) \cup {-1}]

LEMMA StatementsType ==
  ASSUME TypeOK
  PROVE  statements \in Seq(StatementsOf(Len(statements)))
BY DEF TypeOK, StatementsOf, Numbers

LEMMA StatementsMore ==
  ASSUME NEW N \in Nat
  PROVE  StatementsOf(N) \subseteq StatementsOf(N + 1)
<1>1. (0 .. N - 1) \cup {-1} \subseteq (0 .. (N + 1) - 1) \cup {-1}
  OBVIOUS
<1> QED BY <1>1 DEF StatementsOf

LEMMA IfGrows ==
  ASSUME TypeOK, NEW N, N = Len(statements), NEW d \in Numbers, NEW p \in Lowest .. Highest,
         statements' = Append(statements, Statement("if", p, d, -1))
  PROVE  Grows(N, "if", p, d, -1) /\ statements' \in Seq(StatementsOf(N + 1))
<1> DEFINE S == StatementsOf(N + 1)
           x == Statement("if", p, d, -1)
<1>1. N \in Nat /\ Numbers = 0 .. N - 1 /\ d \in 0 .. N - 1 /\ N > 0
  BY SourceType DEF Numbers
<1>2. statements \in Seq(S)
  <2>1. StatementsOf(N) \subseteq S
    BY <1>1, StatementsMore
  <2> QED BY <2>1, StatementsType, SeqMonotonic
<1>3. x \in S
  BY <1>1 DEF Statement, StatementsOf, Kinds
<1> HIDE DEF S, x
<1>4. /\ statements' \in Seq(S) /\ Len(statements') = N + 1
      /\ statements'[N + 1] = x
      /\ \A m \in 1 .. N : statements'[m] = statements[m]
  BY <1>1, <1>2, <1>3, AppendProperties DEF x
<1>5. Numbers' = Numbers \cup {N}
  BY <1>1, <1>4 DEF Numbers
<1>6. at(N)' = x
  BY <1>4 DEF at
<1>7. \A n \in Numbers : at(n)' = at(n)
  BY <1>1, <1>4 DEF at
<1>8. Grows(N, "if", p, d, -1)
  BY <1>1, <1>4, <1>5, <1>6, <1>7 DEF Grows, x
<1> QED BY <1>4, <1>8 DEF S

LEMMA FollowGrows ==
  ASSUME TypeOK, NEW N, N = Len(statements), NEW d \in Numbers, NEW p \in Lowest .. Highest,
         NEW kind \in Kinds \ {"guard", "if"}, NEW up \in Numbers \cup {-1},
         statements' = Follow(d, kind, p, up)
  PROVE  Grows(N, kind, p, d, up) /\ statements' \in Seq(StatementsOf(N + 1))
<1> DEFINE S == StatementsOf(N + 1)
           x == Statement(kind, p, d, up)
           y == [statements[d + 1] EXCEPT !.ascent = N]
           s == [statements EXCEPT ![d + 1] = y]
<1>1. N \in Nat /\ Numbers = 0 .. N - 1 /\ d \in 0 .. N - 1 /\ N > 0 /\ d + 1 \in 1 .. N
  BY SourceType DEF Numbers
<1>2. statements \in Seq(S)
  <2>1. StatementsOf(N) \subseteq S
    BY <1>1, StatementsMore
  <2> QED BY <2>1, StatementsType, SeqMonotonic
<1>3. x \in S
  BY <1>1 DEF Statement, StatementsOf
<1>4. /\ y \in S
      /\ y.type = statements[d + 1].type
      /\ y.sourcePosition = statements[d + 1].sourcePosition
      /\ y.descent = statements[d + 1].descent /\ y.ascent = N
  <2>1. statements[d + 1] \in S
    BY <1>1, <1>2, ElementOfSeq
  <2> QED BY <1>1, <2>1 DEF StatementsOf
<1>5. statements' = Append(s, x)
  BY DEF Follow
<1> HIDE DEF S, x, y
<1>6. /\ s \in Seq(S) /\ Len(s) = N
      /\ \A m \in 1 .. N : s[m] = IF m = d + 1 THEN y ELSE statements[m]
  BY <1>1, <1>2, <1>4, ExceptSeq
<1> HIDE DEF s
<1>7. /\ statements' \in Seq(S) /\ Len(statements') = N + 1
      /\ statements'[N + 1] = x
      /\ \A m \in 1 .. N : statements'[m] = s[m]
  BY <1>1, <1>3, <1>5, <1>6, AppendProperties
<1>8. Numbers' = Numbers \cup {N}
  BY <1>1, <1>7 DEF Numbers
<1>9. at(N)' = x
  BY <1>7 DEF at
<1>10. \A n \in Numbers : at(n)' = IF n = d THEN y ELSE at(n)
  <2> TAKE n \in Numbers
  <2>1. n + 1 \in 1 .. N /\ (n + 1 = d + 1 <=> n = d)
    BY <1>1
  <2> QED BY <1>6, <1>7, <2>1 DEF at
<1>11. ASSUME NEW n \in Numbers
       PROVE  /\ at(n)'.type = at(n).type /\ at(n)'.sourcePosition = at(n).sourcePosition
              /\ at(n)'.descent = at(n).descent
              /\ at(n)'.ascent = IF kind # "if" /\ n = d THEN N ELSE at(n).ascent
  <2>1. at(d) = statements[d + 1]
    BY DEF at
  <2>2. CASE n = d
    BY <1>4, <1>10, <2>1, <2>2
  <2>3. CASE n # d
    BY <1>10, <2>3
  <2> QED BY <2>2, <2>3
<1>12. Grows(N, kind, p, d, up)
  BY <1>1, <1>7, <1>8, <1>9, <1>11 DEF Grows, x
<1> QED BY <1>7, <1>12 DEF S

LEMMA SeqSub ==
  ASSUME NEW S, NEW T, S \subseteq T
  PROVE  Seq(S) \subseteq Seq(T)
BY SeqMonotonic

LEMMA TypeScan ==
  ASSUME TypeOK, NEW kind \in Kinds, Scan(kind), NEW q, q = Len(source) + 1,
         NEW M, M = Len(statements'), M >= Len(statements),
         statements' \in Seq(StatementsOf(M)),
         stack' \in Seq((0 .. M - 1) \cup {-1}),
         blocks' \in Seq(Block),
         Conditions(q)' \in Seq(Seq(1 .. q))
  PROVE  TypeOK'
<1> DEFINE c == Conditions(Len(source))
           e == IF Ignored(kind) THEN c ELSE After(c, kind, q)
<1>1. /\ phase' = "scan" /\ q \in Nat /\ Len(source') = q /\ q <= MaxDirectives
      /\ source' \in Seq(Kinds) /\ Len(source) \in Nat
      /\ conditions' = Append(conditions, e) /\ Len(conditions') = q
      /\ Conditions(q)' = e
      /\ UNCHANGED <<statement, position, search, text, open>>
  BY ScanFacts
<1> HIDE DEF e
<1>2. M \in Nat /\ Len(statements) \in Nat /\ Numbers' = 0 .. M - 1 /\ Numbers \subseteq Numbers'
  <2>1. M \in Nat
    BY LenProperties
  <2> QED BY <2>1, SourceType DEF Numbers
<1>3. conditions' \in Seq(Seq(Seq(1 .. q)))
  <2> DEFINE S == Seq(Seq(1 .. q))
  <2>1. 1 .. Len(source) \subseteq 1 .. q
    BY <1>1
  <2>2. Seq(Seq(1 .. Len(source))) \subseteq S
    BY <2>1, SeqSub
  <2>3. conditions \in Seq(S)
    BY <2>2, SeqSub DEF TypeOK
  <2>4. e \in S
    BY <1>1
  <2> HIDE DEF S
  <2>5. Append(conditions, e) \in Seq(S)
    BY <2>3, <2>4, AppendProperties
  <2> QED BY <1>1, <2>5 DEF S
<1>4. statements' \in Seq([type : Kinds \ {"guard"}, sourcePosition : Lowest .. Highest,
                           descent : Numbers \cup {-1}, ascent : Numbers \cup {-1}])'
  BY <1>2 DEF StatementsOf, Lowest, Highest
<1>5. stack' \in Seq(Numbers' \cup {-1})
  BY <1>2
<1>6. {statement', low', high', target', i'} \subseteq Numbers'
  BY <1>1, <1>2 DEF TypeOK, search
<1>7. position' \in Reset .. Len(source')
  BY <1>1 DEF TypeOK, Reset
<1>8. ascent' \in Seq(Numbers') /\ descent' \in Seq(Numbers') /\ open' \in Seq(Seq(1 .. Highest))
  <2> DEFINE S == 0 .. Len(statements) - 1
             T == 0 .. M - 1
  <2>1. S \subseteq T /\ S = Numbers /\ T = Numbers'
    BY <1>2 DEF Numbers
  <2> HIDE DEF S, T
  <2>2. Seq(S) \subseteq Seq(T)
    BY <2>1, SeqSub
  <2> QED BY <1>1, <2>1, <2>2 DEF TypeOK, text
<1>9. blocks' \in Seq([first : {"if", "guard"}, latest : Kinds])
  BY DEF Block
<1> QED BY <1>1, <1>3, <1>4, <1>5, <1>6, <1>7, <1>8, <1>9 DEF TypeOK, Reset, Highest

(* What the scan looks at.                                                 *)
LEMMA ScanTop ==
  ASSUME IInv, phase = "scan", NEW n, n = Len(stack), NEW c, c = Conditions(Len(source))
  PROVE  /\ OnStack /\ n \in Nat /\ n = Len(blocks) + 1 /\ n \in 1 .. n
         /\ stack \in Seq(Int) /\ Last(stack) = stack[n]
         /\ blocks # <<>> <=> n >= 2
         /\ n >= 2 => (stack[n] = -1 <=> Last(blocks).first = "guard")
         /\ n >= 2 /\ stack[n] # -1 => stack[n] # 0 /\ c # <<>>
         /\ statement = 0 /\ position = Reset /\ open = <<>>
         /\ SourceEnd = -1
         /\ \A x \in Numbers : at(x).sourcePosition <= Len(source)
                               /\ at(x).sourcePosition < Len(source) + 1
         /\ \E l \in 1 .. n :
              /\ IsTop(stack, l, n) /\ findTop(stack, 0) = stack[l]
              /\ (stack[n] # -1 => l = n)
              /\ stack[l] \in Numbers /\ at(stack[l]).type # "endif"
              /\ at(stack[l]).ascent = -1 /\ Path(stack[l]) = c
              /\ \A x \in Numbers : at(x).type # "endif" /\ at(x).ascent = -1 => stack[l] >= x
<1>1. /\ Len(stack) = Len(blocks) + 1 /\ n \in Nat /\ n >= 1 /\ stack # <<>>
      /\ Len(blocks) \in Nat
  <2>1. Len(stack) = Len(blocks) + 1
    BY DEF IInv, TreeInv, StackedBlocks
  <2> QED BY <2>1, SourceType DEF IInv
<1>2. OnStack
  BY <1>1 DEF IInv, TreeInv, OnStack
<1>3. /\ n \in 1 .. n /\ stack \in Seq(Int) /\ Last(stack) = stack[n]
      /\ \A m \in 1 .. n : stack[m] # -1 =>
           /\ stack[m] \in Numbers /\ at(stack[m]).type # "endif"
           /\ at(stack[m]).ascent = -1 /\ stack[m] # SourceEnd
      /\ \A m \in 2 .. n : stack[m] # 0
  BY <1>1, <1>2, StackFacts DEF OnStack
<1>4. blocks # <<>> <=> n >= 2
  BY <1>1 DEF IInv, TypeOK
<1>5. n >= 2 => (stack[n] = -1 <=> Last(blocks).first = "guard")
  <2> SUFFICES ASSUME n >= 2 PROVE stack[n] = -1 <=> Last(blocks).first = "guard"
    OBVIOUS
  <2>1. Len(blocks) \in 1 .. Len(blocks) /\ Len(blocks) + 1 = n
    BY <1>1
  <2>2. stack[Len(blocks) + 1] = -1 <=> blocks[Len(blocks)].first = "guard"
    BY <2>1 DEF IInv, TreeInv, StackedBlocks
  <2> QED BY <2>1, <2>2 DEF Last
<1>6. statement = 0 /\ position = Reset /\ open = <<>>
  BY DEF IInv, NavigationInv
<1>7. SourceEnd = -1
  <2>1. SourceEnd \in Numbers \cup {-1}
    <3>1. 0 \in Numbers
      BY DEF IInv, TypeOK, NavigationInv
    <3> QED BY <3>1, StatementType DEF SourceEnd, IInv
  <2>2. \A x \in Numbers : at(x).sourcePosition # Highest
    BY DEF IInv, TreeInv, Ordered
  <2> QED BY <2>1, <2>2 DEF IInv, TreeInv, Linked
<1>8. \A x \in Numbers : at(x).sourcePosition <= Len(source)
                         /\ at(x).sourcePosition < Len(source) + 1
  <2> TAKE x \in Numbers
  <2>1. at(x).sourcePosition # Highest
    BY DEF IInv, TreeInv, Ordered
  <2>2. x # 0 => at(x).sourcePosition \in 1 .. Len(source)
    BY <2>1 DEF IInv, TreeInv, Ordered
  <2>3. x = 0 => at(x).sourcePosition = Lowest
    BY DEF IInv, TreeInv, Linked
  <2>4. Len(source) \in Nat
    BY SourceType DEF IInv
  <2> QED BY <2>2, <2>3, <2>4 DEF Lowest
<1>9. PICK l \in 1 .. n : IsTop(stack, l, n)
  BY <1>3, TopExists DEF IInv, TreeInv
<1>10. findTop(stack, 0) = stack[l]
  <2>1. 0 \in Nat /\ 0 < Len(stack) /\ Len(stack) - 0 = n
    BY <1>1
  <2>2. IsTop(stack, l, Len(stack) - 0)
    BY <1>9, <2>1
  <2>3. TypeOK
    BY DEF IInv
  <2> QED BY <2>1, <2>2, <2>3, FindTop
<1>11. stack[n] # -1 => l = n
  BY <1>1, <1>9 DEF IsTop
<1>12. stack[l] \in Numbers /\ at(stack[l]).type # "endif" /\ at(stack[l]).ascent = -1
  BY <1>3, <1>9 DEF IsTop
<1>13. Path(stack[l]) = c
  BY <1>9 DEF IInv, TreeInv, PathsOpen
<1>14. ASSUME NEW x \in Numbers, at(x).type # "endif", at(x).ascent = -1
       PROVE  stack[l] >= x
  <2>1. PICK m \in 1 .. n : stack[m] = x
    BY <1>14 DEF IInv, TreeInv, StackedOpen
  <2>2. stack[m] # -1
    BY <2>1, SourceType DEF Numbers, IInv
  <2>3. stack[m] <= stack[l]
    BY <1>3, <1>9, <2>2, TopGreatest DEF IInv, TreeInv
  <2>4. x \in Int /\ stack[l] \in Int
    BY <1>12, StatementType, SourceType DEF Numbers, IInv
  <2> QED BY <2>1, <2>3, <2>4
<1>15. n >= 2 /\ stack[n] # -1 => stack[n] # 0 /\ c # <<>>
  <2> SUFFICES ASSUME n >= 2, stack[n] # -1 PROVE stack[n] # 0 /\ c # <<>>
    OBVIOUS
  <2>1. n \in 2 .. n /\ l = n
    BY <1>1, <1>11
  <2>2. stack[n] \in Numbers \ {0} /\ at(stack[n]).type # "endif"
    BY <1>3, <1>12, <2>1
  <2>3. Path(stack[n]) # <<>>
    BY <2>2 DEF IInv, TreeInv, PathsOwn
  <2> QED BY <1>13, <2>1, <2>2, <2>3
<1>16. \E k \in 1 .. n :
         /\ IsTop(stack, k, n) /\ findTop(stack, 0) = stack[k]
         /\ (stack[n] # -1 => k = n)
         /\ stack[k] \in Numbers /\ at(stack[k]).type # "endif"
         /\ at(stack[k]).ascent = -1 /\ Path(stack[k]) = c
         /\ \A x \in Numbers : at(x).type # "endif" /\ at(x).ascent = -1 => stack[k] >= x
  BY <1>9, <1>10, <1>11, <1>12, <1>13, <1>14
<1> QED BY <1>1, <1>2, <1>3, <1>4, <1>5, <1>6, <1>7, <1>8, <1>15, <1>16

-----------------------------------------------------------------------------
(* A directive that leaves a statement N after d, the branch that the scan *)
(* is in.                                                                  *)
LEMMA ScanGrows ==
  ASSUME IInv, NEW kind \in Kinds \ {"guard"}, Scan(kind), ~Ignored(kind),
         NEW N, NEW q, q = Len(source) + 1, NEW c, c = Conditions(Len(source)),
         NEW d, NEW up, Grows(N, kind, q, d, up),
         at(d).type # "endif", at(d).ascent = -1, Path(d) = c,
         \A x \in Numbers : at(x).type # "endif" /\ at(x).ascent = -1 => d >= x,
         kind # "if" => d # 0 /\ c # <<>>,
         kind # "endif" => up = -1,
         kind = "endif" =>
           /\ up \in Numbers /\ at(up).type # "endif" /\ Path(up) = Front(c)
           /\ \A x \in Numbers : at(x).type # "endif" /\ at(x).ascent = -1 /\ x # d => up >= x
  PROVE  /\ Ordered' /\ Linked' /\ Nested' /\ PathsFollow' /\ PathsLast' /\ PathsOwn'
         /\ BlocksAround' /\ PathsStay /\ SourceEnd' = -1
         /\ Conditions(q)' = After(c, kind, q) /\ Path(N)' = Conditions(q)'
         /\ Conditions(q)' \in Seq(Seq(1 .. q))
<1>1. /\ TypeOK /\ Ordered /\ Linked /\ Nested /\ PathsFollow /\ PathsLast /\ PathsOwn
      /\ BlocksAround
  BY DEF IInv, TreeInv
<1>2. /\ phase = "scan" /\ phase' = "scan" /\ q \in Nat /\ Len(source) \in Nat
      /\ Len(source') = q /\ q \in 1 .. Len(source') /\ Remembers
      /\ c \in Seq(Seq(1 .. Len(source))) /\ Conditions(q)' = After(c, kind, q)
      /\ q <= MaxDirectives
  BY <1>1, ScanFacts DEF Kinds
<1>3. /\ N \in Nat /\ N > 0 /\ Numbers' = Numbers \cup {N} /\ Numbers = 0 .. N - 1
      /\ d \in Numbers
      /\ at(N)' = Statement(kind, q, d, up)
      /\ at(N)'.type = kind /\ at(N)'.sourcePosition = q /\ at(N)'.descent = d
      /\ at(N)'.ascent = up
      /\ \A n \in Numbers :
           /\ at(n)'.type = at(n).type /\ at(n)'.sourcePosition = at(n).sourcePosition
           /\ at(n)'.descent = at(n).descent
           /\ at(n)'.ascent = IF kind # "if" /\ n = d THEN N ELSE at(n).ascent
  BY DEF Grows, Statement
<1>4. /\ SourceEnd = -1
      /\ \A x \in Numbers : at(x).sourcePosition <= Len(source)
                            /\ at(x).sourcePosition < Len(source) + 1
  BY <1>2, ScanTop
<1>5. \A x \in Numbers : at(x).sourcePosition < q
  BY <1>4
<1>6. Keeps
  BY GrowsKeeps
<1>7. PathsStay
  BY <1>1, <1>2, <1>6, PathSame DEF PathsStay
<1>8. SourceEnd' = -1
  BY <1>3, <1>4 DEF SourceEnd
<1>9. Ordered'
  BY <1>1, <1>2, <1>5, OrderedGrows
<1>10. Linked'
  BY <1>1, LinkedGrows
<1>11. Nested'
  BY <1>1, NestedGrows
<1>12. 1 .. Len(source) \subseteq 1 .. q /\ q \in 1 .. q
  BY <1>2
<1>13. c \in Seq(Seq(1 .. q))
  <2>1. Seq(Seq(1 .. Len(source))) \subseteq Seq(Seq(1 .. q))
    BY <1>12, SeqSub
  <2> QED BY <1>2, <2>1
<1>14. Conditions(q)' \in Seq(Seq(1 .. q))
  <2>1. CASE kind = "if"
    BY <1>2, <1>12, <1>13, <2>1, AfterIf
  <2>2. CASE kind \in {"elif", "else"}
    BY <1>2, <1>12, <1>13, <2>2, AfterBranch
  <2>3. CASE kind = "endif"
    BY <1>2, <1>13, <2>3, AfterEndif, FrontFacts
  <2> QED BY <2>1, <2>2, <2>3 DEF Kinds
<1>15. Path(N)' = Conditions(q)'
  <2>1. CASE kind # "endif"
    BY <1>3, <2>1 DEF Path
  <2>2. CASE kind = "endif"
    <3>1. Path(N)' = Path(up)'
      <4>1. at(up)'.type # "endif" /\ at(up)'.sourcePosition = at(up).sourcePosition
        BY <1>3, <2>2
      <4>2. Path(up)' = Conditions(at(up).sourcePosition)'
        BY <4>1 DEF Path
      <4>3. Path(N)' = Conditions(at(up).sourcePosition)'
        <5>1. PICK r : r = at(N)'
          OBVIOUS
        <5>2. r.type = "endif" /\ r.ascent = up
          BY <1>3, <2>2, <5>1
        <5> QED BY <5>1, <5>2 DEF Path, at
      <4> QED BY <4>2, <4>3
    <3>2. up # SourceEnd
      BY <1>3, <1>4, <2>2
    <3>3. Path(up)' = Path(up)
      BY <1>7, <2>2, <3>2 DEF PathsStay
    <3>4. Conditions(q)' = Front(c)
      BY <1>2, <2>2, AfterEndif
    <3> QED BY <2>2, <3>1, <3>3, <3>4
  <2> QED BY <2>1, <2>2
<1>16. PathsFollow'
  <2>1. N # SourceEnd' => Path(N)' = After(Path(d), kind, q)
    BY <1>2, <1>15
  <2> QED BY <1>1, <1>2, <2>1, PathsFollowGrows
<1>17. PathsLast'
  BY <1>1, <1>2, <1>5, <1>15, PathsLastGrows
<1>18. kind # "endif" => Path(N)' # <<>> /\ Last(Last(Path(N)')) = q
  <2>1. CASE kind = "if"
    BY <1>2, <1>12, <1>13, <1>15, <2>1, AfterIf
  <2>2. CASE kind \in {"elif", "else"}
    BY <1>2, <1>12, <1>13, <1>15, <2>2, AfterBranch
  <2> QED BY <2>1, <2>2 DEF Kinds
<1>19. PathsOwn'
  BY <1>1, <1>2, <1>18, PathsOwnGrows
<1>20. ASSUME NEW r \in 1 .. Len(source) PROVE Around(r)'
  <2>1. Around(r) /\ r < q
    BY <1>1, <1>2 DEF BlocksAround
  <2> QED BY <1>1, <1>2, <2>1, AroundGrows
<1>21. Around(q)'
  <2> DEFINE e == Conditions(q)'
  <2>1. Len(c) \in Nat /\ (kind # "if" => Len(c) >= 1)
    BY <1>2
  <2>2. PICK m : m \in 0 .. Len(c) /\ m = IF kind = "if" THEN Len(c) ELSE Len(c) - 1
    <3>1. Len(c) \in 0 .. Len(c) /\ (kind # "if" => Len(c) - 1 \in 0 .. Len(c))
      BY <2>1
    <3> QED BY <3>1
  <2>3. /\ Len(e) = IF kind = "endif" THEN m ELSE m + 1
        /\ \A b \in 1 .. m : e[b] = c[b]
    <3>1. e = After(c, kind, q) /\ q \in 1 .. q
      BY <1>2
    <3> HIDE DEF e
    <3>2. CASE kind = "if"
      <4>1. /\ Len(After(c, "if", q)) = Len(c) + 1
            /\ \A b \in 1 .. Len(c) : After(c, "if", q)[b] = c[b]
        BY <1>13, <3>1, AfterIf
      <4>2. e = After(c, "if", q) /\ m = Len(c) /\ kind # "endif"
        BY <2>2, <3>1, <3>2
      <4> QED BY <4>1, <4>2
    <3>3. CASE kind \in {"elif", "else"}
      <4>1. c # <<>>
        BY <3>3
      <4>2. /\ Len(After(c, kind, q)) = Len(c)
            /\ \A b \in 1 .. Len(c) - 1 : After(c, kind, q)[b] = c[b]
        <5>1. /\ After(c, kind, q) \in Seq(Seq(1 .. q)) /\ After(c, kind, q) # <<>>
              /\ Len(After(c, kind, q)) = Len(c) /\ Front(After(c, kind, q)) = Front(c)
          BY <1>13, <3>1, <3>3, <4>1, AfterBranch
        <5>2. \A b \in 1 .. Len(c) - 1 : Front(c)[b] = c[b]
          BY <1>13, <4>1, FrontFacts
        <5>3. \A b \in 1 .. Len(After(c, kind, q)) - 1 :
                Front(After(c, kind, q))[b] = After(c, kind, q)[b]
          BY <5>1, FrontFacts
        <5> QED BY <5>1, <5>2, <5>3
      <4>3. m = Len(c) - 1 /\ kind # "endif"
        BY <2>2, <3>3
      <4> QED BY <2>1, <3>1, <4>2, <4>3
    <3>4. CASE kind = "endif"
      <4>1. c # <<>>
        BY <3>4
      <4>2. Len(Front(c)) = Len(c) - 1 /\ \A b \in 1 .. Len(c) - 1 : Front(c)[b] = c[b]
        BY <1>13, <4>1, FrontFacts
      <4>3. m = Len(c) - 1 /\ e = Front(c)
        BY <2>2, <3>1, <3>4, <4>1, AfterEndif
      <4> QED BY <3>4, <4>2, <4>3
    <3> QED BY <3>2, <3>3, <3>4 DEF Kinds
  <2>4. ASSUME NEW b \in 1 .. m, NEW n \in Numbers \ {0},
               at(n).type # "endif", at(n).ascent = -1, at(n).sourcePosition = Last(c[b])
        PROVE  /\ n \in Numbers' /\ at(n)'.type # "endif" /\ at(n)'.ascent = -1
               /\ at(n)'.sourcePosition = at(n).sourcePosition
    <3>1. kind # "if" => n # d
      <4> SUFFICES ASSUME kind # "if" PROVE n # d
        OBVIOUS
      <4>1. b < Len(c) /\ Len(c) \in 1 .. Len(c) /\ b \in 1 .. Len(c) - 1
        BY <2>1, <2>2
      <4>2. Last(c[b]) < Last(c[Len(c)])
        BY <1>1, <1>2, <4>1, AroundEnd
      <4>3. at(d).sourcePosition = Last(Last(c))
        BY <1>1, <1>3 DEF PathsOwn
      <4>4. Last(c) = c[Len(c)]
        BY DEF Last
      <4>5. at(n).sourcePosition \in Int
        BY <1>1, StatementType
      <4> QED BY <2>4, <4>2, <4>3, <4>4, <4>5
    <3> QED BY <1>3, <2>4, <3>1
  <2>5. Len(e) = m + 1 =>
          /\ Last(e[m + 1]) = q
          /\ \E n \in Numbers' \ {0} : /\ at(n)'.type # "endif" /\ at(n)'.ascent = -1
                                       /\ at(n)'.sourcePosition = q
    <3> SUFFICES ASSUME Len(e) = m + 1
                 PROVE  /\ Last(e[m + 1]) = q
                        /\ \E n \in Numbers' \ {0} :
                             /\ at(n)'.type # "endif" /\ at(n)'.ascent = -1
                             /\ at(n)'.sourcePosition = q
      OBVIOUS
    <3>1. kind # "endif"
      BY <2>1, <2>2, <2>3
    <3>2. Last(Last(e)) = q
      BY <1>15, <1>18, <3>1
    <3>3. Last(e) = e[m + 1]
      BY DEF Last
    <3>4. N \in Numbers' \ {0} /\ at(N)'.type # "endif" /\ at(N)'.ascent = -1
          /\ at(N)'.sourcePosition = q
      BY <1>3, <3>1
    <3> QED BY <3>2, <3>3, <3>4
  <2>6. Len(e) \in {m, m + 1}
    BY <2>3
  <2> QED BY <1>1, <1>2, <2>2, <2>3, <2>4, <2>5, <2>6, AroundNext
<1>22. BlocksAround'
  <2>1. \A r \in 1 .. Len(source') : r \in 1 .. Len(source) \/ r = q
    BY <1>2
  <2>2. \A r \in 1 .. Len(source') : Around(r)'
    BY <1>20, <1>21, <2>1
  <2> QED BY <2>2 DEF BlocksAround
<1> QED BY <1>2, <1>7, <1>8, <1>9, <1>10, <1>11, <1>14, <1>15, <1>16, <1>17, <1>19, <1>22

-----------------------------------------------------------------------------
(* Each step of the scan.                                                  *)
LEMMA ScanNavigation ==
  ASSUME IInv, NEW kind \in Kinds, Scan(kind), SourceEnd' = -1
  PROVE  NavigationInv' /\ SearchAround'
<1>1. /\ phase = "scan" /\ phase' = "scan"
      /\ UNCHANGED <<statement, position, search, text, open>>
  BY DEF Scan
<1>2. statement = 0 /\ position = Reset /\ open = <<>>
  BY <1>1 DEF IInv, NavigationInv
<1>3. statement' = 0 /\ position' = Reset /\ open' = <<>>
  BY <1>1, <1>2 DEF Reset
<1> QED BY <1>1, <1>3 DEF NavigationInv, SearchAround, Reset

LEMMA PushFacts ==
  ASSUME NEW s \in Seq(Int), NEW x \in Int
  PROVE  /\ Append(s, x) \in Seq(Int) /\ Len(Append(s, x)) = Len(s) + 1
         /\ Append(s, x)[Len(s) + 1] = x
         /\ \A m \in 1 .. Len(s) : Append(s, x)[m] = s[m]
BY AppendProperties

LEMMA ScanIfStep ==
  ASSUME IInv, ScanIf
  PROVE  IInv'
<1>0. PICK n, N, q, c : /\ n = Len(stack) /\ N = Len(statements)
                        /\ q = Len(source) + 1 /\ c = Conditions(Len(source))
  OBVIOUS
<1>1. Scan("if") /\ "if" \in Kinds \ {"guard"} /\ "if" \in Kinds
  BY DEF ScanIf, Kinds
<1>2. TypeOK
  BY DEF IInv
<1>3. /\ phase = "scan" /\ phase' = "scan" /\ q \in Nat /\ Len(source) \in Nat
      /\ Len(source') = q /\ q \in 1 .. Len(source') /\ q <= MaxDirectives
      /\ c \in Seq(Seq(1 .. Len(source))) /\ blocks' = Blocks("if")
  BY <1>0, <1>1, <1>2, ScanFacts
<1>4. ~Ignored("if")
  BY DEF Ignored
<1>5. /\ OnStack /\ n \in Nat /\ n = Len(blocks) + 1 /\ n \in 1 .. n
      /\ stack \in Seq(Int)
  BY <1>0, <1>3, ScanTop
<1>6. PICK l \in 1 .. n :
        /\ IsTop(stack, l, n) /\ findTop(stack, 0) = stack[l]
        /\ stack[l] \in Numbers /\ at(stack[l]).type # "endif"
        /\ at(stack[l]).ascent = -1 /\ Path(stack[l]) = c
        /\ \A x \in Numbers : at(x).type # "endif" /\ at(x).ascent = -1 => stack[l] >= x
  BY <1>0, <1>3, ScanTop
<1>d. PICK d : d = stack[l]
  OBVIOUS
<1>7. statements' = Append(statements, Statement("if", q, d, -1))
  BY <1>0, <1>3, <1>6, <1>d DEF ScanIf
<1>8. q \in Lowest .. Highest
  BY <1>3, BoundAssumption DEF Lowest, Highest
<1>9. Grows(N, "if", q, d, -1) /\ statements' \in Seq(StatementsOf(N + 1))
  BY <1>0, <1>2, <1>6, <1>7, <1>8, <1>d, IfGrows
<1>10. N \in Nat /\ Len(statements') = N + 1 /\ Numbers = 0 .. N - 1
  BY <1>9 DEF Grows
<1>11. /\ Ordered' /\ Linked' /\ Nested' /\ PathsFollow' /\ PathsLast' /\ PathsOwn'
       /\ BlocksAround' /\ PathsStay /\ SourceEnd' = -1
       /\ Conditions(q)' = After(c, "if", q) /\ Path(N)' = Conditions(q)'
       /\ Conditions(q)' \in Seq(Seq(1 .. q))
  BY <1>0, <1>1, <1>4, <1>6, <1>9, <1>d, ScanGrows
<1>12. stack' = Append(stack, N) /\ N \in Int
  BY <1>0, <1>10 DEF ScanIf
<1>13. Len(stack') = n + 1 /\ stack'[n + 1] = N /\ \A m \in 1 .. n : stack'[m] = stack[m]
  <2>1. /\ Len(Append(stack, N)) = Len(stack) + 1
        /\ Append(stack, N)[Len(stack) + 1] = N
        /\ \A m \in 1 .. Len(stack) : Append(stack, N)[m] = stack[m]
    BY <1>5, <1>12, PushFacts
  <2> QED BY <1>0, <1>12, <2>1
<1>14. StackTo(n)
  BY <1>0, <1>5, <1>13 DEF StackTo
<1>15. /\ Path(N)' # <<>> /\ Front(Path(N)') = c
  <2>1. 1 .. Len(source) \subseteq 1 .. q /\ q \in 1 .. q
    BY <1>0, <1>3
  <2>2. c \in Seq(Seq(1 .. q))
    BY <1>3, <2>1, SeqSub
  <2>3. After(c, "if", q) # <<>> /\ Front(After(c, "if", q)) = c
    BY <2>1, <2>2, AfterIf
  <2> QED BY <1>11, <2>3
<1>16. PathsNest'
  <2>1. PathsNest
    BY DEF IInv, TreeInv
  <2>2. \A k \in 1 .. n : IsTop(stack, k, n) =>
          Path(N)' # <<>> /\ Front(Path(N)') = Path(stack[k])
    <3> SUFFICES ASSUME NEW k \in 1 .. n, IsTop(stack, k, n)
                 PROVE  Path(N)' # <<>> /\ Front(Path(N)') = Path(stack[k])
      OBVIOUS
    <3>1. k = l
      BY <1>5, <1>6, TopUnique
    <3> QED BY <1>6, <1>15, <3>1
  <2> QED BY <1>5, <1>11, <1>13, <1>14, <2>1, <2>2, PathsNestTo
<1>17. PathsOpen'
  <2>1. q = Len(source')
    BY <1>3
  <2>2. N = stack'[n + 1] /\ N # -1 /\ Len(stack') = n + 1
    BY <1>10, <1>13
  <2>3. Path(N)' = Conditions(q)'
    BY <1>11
  <2>4. OnStack /\ PathsStay
    BY <1>5, <1>11
  <2> QED BY ONLY <1>14, <2>1, <2>2, <2>3, <2>4, PathsOpenTo
<1>18. StackedOpen'
  <2>1. Members(stack') = Members(stack) \cup {N}
    BY <1>5, <1>12, MembersPush
  <2> QED BY <1>2, <1>5, <1>9, <2>1, StackedOpenGrows DEF OnStack
<1>19. StackedInOrder'
  <2>1. stack # <<>> /\ InOrder(stack)
    BY <1>5 DEF OnStack, StackedInOrder
  <2>2. \A m \in 1 .. Len(stack) : stack[m] # -1 => stack[m] < N
    BY <1>2, <1>5, <1>10, StackFacts DEF OnStack
  <2>3. InOrder(Append(stack, N))
    BY <1>5, <1>12, <2>1, <2>2, PushInOrder
  <2> QED BY <1>12, <2>3 DEF StackedInOrder, InOrder, IsTop
<1>20. /\ blocks' \in Seq(Block) /\ Len(blocks') = Len(blocks) + 1
       /\ \A m \in 1 .. Len(blocks) : blocks'[m] = blocks[m]
       /\ blocks'[Len(blocks) + 1].first = "if"
  BY <1>2, <1>3, BlocksOpen
<1>21. StackedBlocks'
  <2>1. Len(blocks) \in Nat
    BY <1>2, SourceType
  <2>2. \A m \in 1 .. Len(blocks) : stack[m + 1] = -1 <=> blocks[m].first = "guard"
    BY <1>3 DEF IInv, TreeInv, StackedBlocks
  <2>3. \A m \in 1 .. Len(blocks') : stack'[m + 1] = -1 <=> blocks'[m].first = "guard"
    <3>1. \A m \in 1 .. Len(blocks') : m \in 1 .. Len(blocks) \/ m = Len(blocks) + 1
      BY <1>20, <2>1
    <3>2. \A m \in 1 .. Len(blocks) : m + 1 \in 1 .. n
      BY <1>5, <2>1
    <3>3. stack'[Len(blocks) + 1 + 1] # -1
      BY <1>5, <1>10, <1>13
    <3>4. \A m \in 1 .. Len(blocks) : stack'[m + 1] = -1 <=> blocks'[m].first = "guard"
      <4>1. \A m \in 1 .. Len(blocks) : stack'[m + 1] = stack[m + 1]
        BY <1>13, <3>2
      <4> QED BY <1>20, <2>2, <4>1
    <3>5. ASSUME NEW m \in 1 .. Len(blocks')
          PROVE  stack'[m + 1] = -1 <=> blocks'[m].first = "guard"
      <4>1. CASE m \in 1 .. Len(blocks)
        BY <3>4, <4>1
      <4>2. CASE m = Len(blocks) + 1
        BY <1>20, <3>3, <4>2
      <4> QED BY <3>1, <4>1, <4>2
    <3> QED BY <3>5
  <2> QED BY <1>3, <1>5, <1>13, <1>20, <2>1, <2>3 DEF StackedBlocks
<1>22. TypeOK'
  <2>1. N + 1 = Len(statements') /\ N + 1 >= Len(statements)
    BY <1>0, <1>10
  <2>2. stack' \in Seq((0 .. (N + 1) - 1) \cup {-1})
    <3>1. Numbers \cup {-1} \subseteq (0 .. (N + 1) - 1) \cup {-1}
      BY <1>10
    <3>2. stack \in Seq((0 .. (N + 1) - 1) \cup {-1})
      BY <1>2, <3>1, SeqMonotonic DEF TypeOK
    <3>3. N \in (0 .. (N + 1) - 1) \cup {-1}
      BY <1>10
    <3> QED BY <1>12, <3>2, <3>3, AppendProperties
  <2>3. /\ statements' \in Seq(StatementsOf(N + 1)) /\ blocks' \in Seq(Block)
        /\ Conditions(q)' \in Seq(Seq(1 .. q)) /\ q = Len(source) + 1
    BY <1>0, <1>9, <1>11, <1>20
  <2> QED BY <1>1, <1>2, <2>1, <2>2, <2>3, TypeScan
<1>23. NavigationInv' /\ SearchAround'
  BY <1>1, <1>11, ScanNavigation
<1>24. TreeInv'
  BY <1>11, <1>16, <1>17, <1>18, <1>19, <1>21 DEF TreeInv
<1> QED BY <1>22, <1>23, <1>24 DEF IInv
(* A directive that leaves no statement.                                   *)
LEMMA ScanSame ==
  ASSUME IInv, NEW kind \in Kinds, Scan(kind), Ignored(kind), UNCHANGED statements,
         NEW q, q = Len(source) + 1, NEW c, c = Conditions(Len(source))
  PROVE  /\ Ordered' /\ Linked' /\ Nested' /\ PathsFollow' /\ PathsLast' /\ PathsOwn'
         /\ BlocksAround' /\ PathsStay /\ SourceEnd' = -1
         /\ Conditions(q)' = c /\ Conditions(q)' \in Seq(Seq(1 .. q))
<1>1. /\ phase = "scan" /\ phase' = "scan" /\ q \in Nat /\ Len(source) \in Nat
      /\ Len(source') = q /\ q \in 1 .. Len(source') /\ Remembers
      /\ c \in Seq(Seq(1 .. Len(source))) /\ Conditions(q)' = c
  BY ScanFacts DEF IInv
<1>2. /\ TypeOK /\ Ordered /\ Linked /\ Nested /\ PathsFollow /\ PathsLast /\ PathsOwn
      /\ BlocksAround
  BY DEF IInv, TreeInv
<1>3. SourceEnd = -1
  BY <1>1, ScanTop
<1>4. Numbers' = Numbers /\ (\A x : at(x)' = at(x)) /\ SourceEnd' = SourceEnd
  BY DEF Numbers, at, SourceEnd
<1>5. Keeps
  BY <1>4 DEF Keeps
<1>6. PathsStay
  BY <1>1, <1>2, <1>5, PathSame DEF PathsStay
<1>7. \A x \in Numbers : Path(x)' = Path(x) /\ x # SourceEnd
  <2>1. \A x \in Numbers : x # SourceEnd
    BY <1>2, <1>3, StatementType
  <2> QED BY <1>6, <2>1 DEF PathsStay
<1>8. Ordered'
  <2>1. \A x \in Numbers \ {0} : at(x).sourcePosition \in 1 .. Len(source')
                                 \/ at(x).sourcePosition = Highest
    BY <1>1, <1>2 DEF Ordered
  <2>2. \A x \in Numbers : at(x).sourcePosition # Highest
    BY <1>1, <1>2 DEF Ordered
  <2>3. \A x, y \in Numbers : x < y => at(x).sourcePosition < at(y).sourcePosition
    BY <1>2, <2>2 DEF Ordered
  <2> QED BY <1>4, <2>1, <2>2, <2>3 DEF Ordered
<1>9. Linked' /\ Nested'
  BY <1>2 DEF Linked, Nested, Numbers, at, SourceEnd
<1>10. PathsFollow'
  <2> SUFFICES ASSUME NEW x \in Numbers' \ {0}, x # SourceEnd'
               PROVE  Path(x)' = After(Path(at(x).descent)', at(x)'.type, at(x)'.sourcePosition)
    BY DEF PathsFollow
  <2>1. PICK e : e = at(x).descent
    OBVIOUS
  <2>2. x \in Numbers \ {0} /\ x # SourceEnd /\ at(x)' = at(x) /\ e = at(x)'.descent
    BY <1>4, <2>1
  <2>3. Path(x) = After(Path(e), at(x).type, at(x).sourcePosition)
    BY <1>2, <2>1, <2>2 DEF PathsFollow
  <2>4. e \in Numbers
    <3>1. e \in 0 .. x - 1
      BY <1>2, <2>1, <2>2 DEF Linked
    <3> QED BY <1>2, <2>2, <3>1, StatementType DEF Numbers
  <2>5. Path(x)' = Path(x) /\ Path(e)' = Path(e)
    BY <1>7, <2>2, <2>4
  <2>6. Path(x)' = After(Path(e)', at(x)'.type, at(x)'.sourcePosition)
    BY <2>2, <2>3, <2>5
  <2> QED BY <2>2, <2>6
<1>11. PathsOwn'
  BY <1>2, <1>4, <1>7 DEF PathsOwn
<1>12. PathsLast'
  BY <1>1, <1>2, PathsLastIgnored
<1>13. Around(q)'
  <2>1. Len(c) \in Nat /\ Len(c) \in 0 .. Len(c)
    BY <1>1
  <2>2. \A b \in 1 .. Len(c) : \A x \in Numbers \ {0} :
          at(x).type # "endif" /\ at(x).ascent = -1 /\ at(x).sourcePosition = Last(c[b]) =>
            /\ x \in Numbers' /\ at(x)'.type # "endif" /\ at(x)'.ascent = -1
            /\ at(x)'.sourcePosition = at(x).sourcePosition
    BY <1>4
  <2>3. Len(Conditions(q)') \in {Len(c), Len(c) + 1} /\ Len(Conditions(q)') # Len(c) + 1
        /\ \A b \in 1 .. Len(c) : Conditions(q)'[b] = c[b]
    BY <1>1, <2>1
  <2> QED BY <1>1, <1>2, <2>1, <2>2, <2>3, AroundNext
<1>14. BlocksAround'
  <2>1. \A r \in 1 .. Len(source) : Conditions(r)' = Conditions(r)
    BY <1>1 DEF Remembers, Reset
  <2>2. ASSUME NEW r \in 1 .. Len(source)
        PROVE  Around(r)'
    <3>1. Around(r)
      BY <1>2 DEF BlocksAround
    <3>2. Conditions(r)' = Conditions(r)
      BY <2>1
    <3> QED BY <1>4, <3>1, <3>2 DEF Around
  <2>3. \A r \in 1 .. Len(source') : r \in 1 .. Len(source) \/ r = q
    BY <1>1
  <2> QED BY <1>13, <2>2, <2>3 DEF BlocksAround
<1>15. Conditions(q)' \in Seq(Seq(1 .. q))
  <2>1. 1 .. Len(source) \subseteq 1 .. q
    BY <1>1
  <2>2. Seq(1 .. Len(source)) \subseteq Seq(1 .. q)
    BY <2>1, SeqSub
  <2>3. Seq(Seq(1 .. Len(source))) \subseteq Seq(Seq(1 .. q))
    BY <2>2, SeqSub
  <2> QED BY <1>1, <2>3
<1> QED BY <1>1, <1>3, <1>4, <1>6, <1>8, <1>9, <1>10, <1>11, <1>12, <1>14, <1>15
LEMMA ScanGuardStep ==
  ASSUME IInv, ScanGuard
  PROVE  IInv'
<1>0. PICK n, N, q, c : /\ n = Len(stack) /\ N = Len(statements)
                        /\ q = Len(source) + 1 /\ c = Conditions(Len(source))
  OBVIOUS
<1>1. /\ Scan("guard") /\ "guard" \in Kinds /\ Ignored("guard")
      /\ stack' = Append(stack, -1) /\ UNCHANGED statements
  BY DEF ScanGuard, Kinds, Ignored
<1>2. TypeOK
  BY DEF IInv
<1>3. /\ phase = "scan" /\ phase' = "scan" /\ q \in Nat
      /\ Len(source') = q /\ blocks' = Blocks("guard")
  BY <1>0, <1>1, <1>2, ScanFacts
<1>4. /\ Ordered' /\ Linked' /\ Nested' /\ PathsFollow' /\ PathsLast' /\ PathsOwn'
      /\ BlocksAround' /\ PathsStay /\ SourceEnd' = -1
      /\ Conditions(q)' = c /\ Conditions(q)' \in Seq(Seq(1 .. q))
  BY <1>0, <1>1, ScanSame
<1>5. /\ OnStack /\ n \in Nat /\ n = Len(blocks) + 1 /\ n \in 1 .. n
      /\ stack \in Seq(Int)
  BY <1>0, <1>3, ScanTop
<1>6. PICK l \in 1 .. n : IsTop(stack, l, n) /\ Path(stack[l]) = c
  BY <1>0, <1>3, ScanTop
<1>7. Len(stack') = n + 1 /\ stack'[n + 1] = -1 /\ \A m \in 1 .. n : stack'[m] = stack[m]
  <2>1. /\ Len(Append(stack, -1)) = Len(stack) + 1
        /\ Append(stack, -1)[Len(stack) + 1] = -1
        /\ \A m \in 1 .. Len(stack) : Append(stack, -1)[m] = stack[m]
    BY <1>5, PushFacts
  <2> QED BY <1>0, <1>1, <2>1
<1>8. StackTo(n)
  BY <1>0, <1>5, <1>7 DEF StackTo
<1>9. PathsNest'
  <2>1. PathsNest
    BY DEF IInv, TreeInv
  <2> QED BY <1>4, <1>5, <1>7, <1>8, <2>1, PathsNestTo
<1>10. PathsOpen'
  <2>1. q = Len(source')
    BY <1>3
  <2>2. \A k \in 1 .. n : IsTop(stack, k, n) => Path(stack[k]) = Conditions(q)'
    BY <1>4, <1>5, <1>6, TopUnique
  <2> QED BY <1>4, <1>5, <1>7, <1>8, <2>1, <2>2, PathsOpenTo
<1>11. StackedOpen'
  <2>1. Members(stack') = Members(stack) \cup {-1}
    BY <1>1, <1>5, MembersPush
  <2> QED BY <1>1, <1>2, <1>5, <2>1, StackedOpenSame DEF OnStack
<1>12. StackedInOrder'
  <2>1. stack # <<>> /\ InOrder(stack)
    BY <1>5 DEF OnStack, StackedInOrder
  <2>2. InOrder(Append(stack, -1))
    BY <1>5, <2>1, PushInOrder
  <2> QED BY <1>1, <2>2 DEF StackedInOrder, InOrder, IsTop
<1>13. /\ blocks' \in Seq(Block) /\ Len(blocks') = Len(blocks) + 1
       /\ \A m \in 1 .. Len(blocks) : blocks'[m] = blocks[m]
       /\ blocks'[Len(blocks) + 1].first = "guard"
  BY <1>2, <1>3, BlocksOpen
<1>14. StackedBlocks'
  <2>1. Len(blocks) \in Nat
    BY <1>2, SourceType
  <2>2. \A m \in 1 .. Len(blocks) : stack[m + 1] = -1 <=> blocks[m].first = "guard"
    BY <1>3 DEF IInv, TreeInv, StackedBlocks
  <2>3. \A m \in 1 .. Len(blocks') : stack'[m + 1] = -1 <=> blocks'[m].first = "guard"
    <3>1. \A m \in 1 .. Len(blocks') : m \in 1 .. Len(blocks) \/ m = Len(blocks) + 1
      BY <1>13, <2>1
    <3>2. \A m \in 1 .. Len(blocks) : m + 1 \in 1 .. n
      BY <1>5, <2>1
    <3>3. stack'[Len(blocks) + 1 + 1] = -1
      BY <1>5, <1>7
    <3>4. \A m \in 1 .. Len(blocks) : stack'[m + 1] = -1 <=> blocks'[m].first = "guard"
      <4>1. \A m \in 1 .. Len(blocks) : stack'[m + 1] = stack[m + 1]
        BY <1>7, <3>2
      <4> QED BY <1>13, <2>2, <4>1
    <3>5. ASSUME NEW m \in 1 .. Len(blocks')
          PROVE  stack'[m + 1] = -1 <=> blocks'[m].first = "guard"
      <4>1. CASE m \in 1 .. Len(blocks)
        BY <3>4, <4>1
      <4>2. CASE m = Len(blocks) + 1
        BY <1>13, <3>3, <4>2
      <4> QED BY <3>1, <4>1, <4>2
    <3> QED BY <3>5
  <2> QED BY <1>3, <1>5, <1>7, <1>13, <2>1, <2>3 DEF StackedBlocks
<1>15. TypeOK'
  <2>1. N \in Nat /\ N = Len(statements') /\ N >= Len(statements)
        /\ statements' \in Seq(StatementsOf(N))
    BY <1>0, <1>1, <1>2, SourceType, StatementsType
  <2>2. stack' \in Seq((0 .. N - 1) \cup {-1})
    <3>1. stack \in Seq((0 .. N - 1) \cup {-1})
      BY <1>0, <1>2 DEF TypeOK, Numbers
    <3> QED BY <1>1, <3>1, AppendProperties
  <2> QED BY <1>0, <1>1, <1>2, <1>4, <1>13, <2>1, <2>2, TypeScan
<1>16. NavigationInv' /\ SearchAround'
  BY <1>1, <1>4, ScanNavigation
<1>17. TreeInv'
  BY <1>4, <1>9, <1>10, <1>11, <1>12, <1>14 DEF TreeInv
<1> QED BY <1>15, <1>16, <1>17 DEF IInv

(* Within a guard: its #endif takes it off the stack, what else it has     *)
(* leaves the stack alone.                                                 *)
LEMMA ScanInGuardStep ==
  ASSUME IInv, NEW kind \in {"elif", "else", "endif"}, ScanInGuard(kind)
  PROVE  IInv'
<1>0. PICK n, N, q, c : /\ n = Len(stack) /\ N = Len(statements)
                        /\ q = Len(source) + 1 /\ c = Conditions(Len(source))
  OBVIOUS
<1>1. /\ Scan(kind) /\ kind \in Kinds /\ Last(stack) = -1
      /\ stack' = (IF kind = "endif" THEN Front(stack) ELSE stack) /\ UNCHANGED statements
  BY DEF ScanInGuard, Kinds
<1>2. TypeOK
  BY DEF IInv
<1>3. /\ phase = "scan" /\ phase' = "scan" /\ q \in Nat
      /\ Len(source') = q /\ blocks' = Blocks(kind) /\ blocks # <<>>
  BY <1>0, <1>1, <1>2, ScanFacts
<1>4. /\ OnStack /\ n \in Nat /\ n = Len(blocks) + 1 /\ n \in 1 .. n
      /\ stack \in Seq(Int) /\ Last(stack) = stack[n] /\ n >= 2
      /\ (stack[n] = -1 <=> Last(blocks).first = "guard")
  BY <1>0, <1>3, ScanTop
<1>5. Ignored(kind)
  BY <1>1, <1>4 DEF Ignored
<1>6. /\ Ordered' /\ Linked' /\ Nested' /\ PathsFollow' /\ PathsLast' /\ PathsOwn'
      /\ BlocksAround' /\ PathsStay /\ SourceEnd' = -1
      /\ Conditions(q)' = c /\ Conditions(q)' \in Seq(Seq(1 .. q))
  BY <1>0, <1>1, <1>5, ScanSame
<1>7. PICK l \in 1 .. n : IsTop(stack, l, n) /\ Path(stack[l]) = c
  BY <1>0, <1>3, ScanTop
<1>8. stack # <<>> /\ InOrder(stack) /\ stack[n] = -1
  BY <1>1, <1>4 DEF OnStack, StackedInOrder
<1>9. PICK k : k = IF kind = "endif" THEN n - 1 ELSE n
  OBVIOUS
<1>10. k \in 1 .. n /\ k \in Nat /\ Len(stack') = k /\ (\A m \in 1 .. k : stack'[m] = stack[m])
       /\ stack' \in Seq(Int)
  <2>1. CASE kind = "endif"
    <3>1. Front(stack) \in Seq(Int) /\ Len(Front(stack)) = n - 1
          /\ \A m \in 1 .. n - 1 : Front(stack)[m] = stack[m]
      BY <1>0, <1>4, <1>8, FrontFacts
    <3> QED BY <1>1, <1>4, <1>9, <2>1, <3>1
  <2>2. CASE kind # "endif"
    BY <1>0, <1>1, <1>4, <1>9, <2>2
  <2> QED BY <2>1, <2>2
<1>11. StackTo(k)
  BY <1>0, <1>10 DEF StackTo
<1>12. Len(stack') # k + 1
  BY <1>10
<1>13. PathsNest'
  <2>1. PathsNest
    BY DEF IInv, TreeInv
  <2> QED BY <1>4, <1>6, <1>11, <1>12, <2>1, PathsNestTo
<1>14. PathsOpen'
  <2>1. q = Len(source')
    BY <1>3
  <2>2. ASSUME NEW j \in 1 .. k, IsTop(stack, j, k)
        PROVE  Path(stack[j]) = Conditions(q)'
    <3>1. IsTop(stack, j, n)
      BY <1>4, <1>8, <1>9, <1>10, <2>2 DEF IsTop
    <3>2. j = l
      BY <1>4, <1>7, <3>1, TopUnique
    <3> QED BY <1>6, <1>7, <3>2
  <2> QED BY <1>4, <1>6, <1>11, <1>12, <2>1, <2>2, PathsOpenTo
<1>15. StackedOpen' /\ StackedInOrder'
  <2>1. CASE kind = "endif"
    <3>1. stack' = Front(stack)
      BY <1>1, <2>1
    <3>2. Members(stack') \cup {-1} = Members(stack)
      BY <1>1, <1>4, <1>8, <3>1, MembersPop
    <3>3. StackedOpen'
      BY <1>1, <1>2, <1>4, <3>2, StackedOpenSame DEF OnStack
    <3>4. InOrder(Front(stack))
      BY <1>4, <1>8, PopInOrder
    <3> QED BY <3>1, <3>3, <3>4 DEF StackedInOrder, InOrder, IsTop
  <2>2. CASE kind # "endif"
    <3>1. stack' = stack
      BY <1>1, <2>2
    <3>2. StackedOpen'
      BY <1>1, <1>2, <1>4, <3>1, StackedOpenSame DEF OnStack, Members
    <3> QED BY <1>8, <3>1, <3>2 DEF StackedInOrder, InOrder, IsTop
  <2> QED BY <2>1, <2>2
<1>16. /\ blocks' \in Seq(Block) /\ Len(blocks') = k - 1
       /\ \A m \in 1 .. k - 1 : blocks'[m].first = blocks[m].first
  <2>0. Len(blocks) = n - 1
    BY <1>2, <1>4, SourceType
  <2>1. CASE kind = "endif"
    <3>1. /\ blocks' \in Seq(Block) /\ Len(blocks') = Len(blocks) - 1
          /\ \A m \in 1 .. Len(blocks) - 1 : blocks'[m] = blocks[m]
      BY <1>2, <1>3, <2>1, BlocksClose
    <3> QED BY <1>4, <1>9, <2>0, <2>1, <3>1
  <2>2. CASE kind # "endif"
    <3>1. kind \in {"elif", "else"}
      BY <2>2
    <3>2. /\ blocks' \in Seq(Block) /\ Len(blocks') = Len(blocks)
          /\ \A m \in 1 .. Len(blocks) : blocks'[m].first = blocks[m].first
      BY <1>2, <1>3, <3>1, BlocksBranch
    <3> QED BY <1>4, <1>9, <2>0, <2>2, <3>2
  <2> QED BY <2>1, <2>2
<1>17. StackedBlocks'
  <2>1. Len(blocks) = n - 1
    BY <1>2, <1>4, SourceType
  <2>2. \A m \in 1 .. Len(blocks) : stack[m + 1] = -1 <=> blocks[m].first = "guard"
    BY <1>3 DEF IInv, TreeInv, StackedBlocks
  <2>3. \A m \in 1 .. k - 1 : m \in 1 .. Len(blocks) /\ m + 1 \in 1 .. k
    <3>1. n \in Nat /\ k \in Nat /\ k <= n
      BY <1>4, <1>10
    <3> QED BY <2>1, <3>1
  <2>4. \A m \in 1 .. k - 1 : stack'[m + 1] = -1 <=> blocks'[m].first = "guard"
    BY <1>10, <1>16, <2>2, <2>3
  <2> QED BY <1>3, <1>10, <1>16, <2>4 DEF StackedBlocks
<1>18. TypeOK'
  <2>1. N \in Nat /\ N = Len(statements') /\ N >= Len(statements)
        /\ statements' \in Seq(StatementsOf(N))
    BY <1>0, <1>1, <1>2, SourceType, StatementsType
  <2>2. stack' \in Seq((0 .. N - 1) \cup {-1})
    <3>1. stack \in Seq((0 .. N - 1) \cup {-1})
      BY <1>0, <1>2 DEF TypeOK, Numbers
    <3>2. Front(stack) \in Seq((0 .. N - 1) \cup {-1})
      BY <1>8, <3>1, FrontFacts
    <3> QED BY <1>1, <3>1, <3>2
  <2> QED BY <1>0, <1>1, <1>2, <1>6, <1>16, <2>1, <2>2, TypeScan
<1>19. NavigationInv' /\ SearchAround'
  BY <1>1, <1>6, ScanNavigation
<1>20. TreeInv'
  BY <1>6, <1>13, <1>14, <1>15, <1>17 DEF TreeInv
<1> QED BY <1>18, <1>19, <1>20 DEF IInv
(* The stack without its last element, which is no guard.                  *)
LEMMA ScanPop ==
  ASSUME IInv, phase = "scan", blocks # <<>>, Last(stack) # -1,
         NEW n, n = Len(stack), NEW k, k = n - 1,
         NEW d, d = Last(stack), NEW c, c = Conditions(Len(source))
  PROVE  /\ n \in Nat /\ n >= 2 /\ k \in Nat /\ k \in 1 .. n /\ k + 1 = n /\ k >= 1
         /\ n = Len(blocks) + 1
         /\ d = stack[n] /\ d # -1 /\ d # 0 /\ d \in Numbers /\ at(d).type # "endif"
         /\ at(d).ascent = -1 /\ Path(d) = c /\ c # <<>>
         /\ (\A x \in Numbers : at(x).type # "endif" /\ at(x).ascent = -1 => d >= x)
         /\ stack # <<>> /\ stack \in Seq(Int) /\ Last(blocks).first # "guard"
         /\ Front(stack) \in Seq(Int) /\ Len(Front(stack)) = k
         /\ (\A m \in 1 .. k : Front(stack)[m] = stack[m])
         /\ Members(Front(stack)) = Members(stack) \ {d} /\ InOrder(Front(stack))
         /\ \A l \in 1 .. n : IsTop(stack, l, k) => Front(c) = Path(stack[l])
<1>1. /\ OnStack /\ n \in Nat /\ n = Len(blocks) + 1 /\ n \in 1 .. n
      /\ stack \in Seq(Int) /\ d = stack[n] /\ n >= 2
      /\ (stack[n] = -1 <=> Last(blocks).first = "guard")
      /\ n >= 2 /\ stack[n] # -1 => stack[n] # 0 /\ c # <<>>
  BY ScanTop
<1>2. PICK l \in 1 .. n :
        /\ (stack[n] # -1 => l = n)
        /\ stack[l] \in Numbers /\ at(stack[l]).type # "endif"
        /\ at(stack[l]).ascent = -1 /\ Path(stack[l]) = c
        /\ \A x \in Numbers : at(x).type # "endif" /\ at(x).ascent = -1 => stack[l] >= x
  BY ScanTop
<1>3. l = n /\ d = stack[l] /\ d # -1
  BY <1>1, <1>2
<1>4. stack # <<>> /\ InOrder(stack)
  BY <1>1 DEF OnStack, StackedInOrder
<1>5. /\ Front(stack) \in Seq(Int) /\ Len(Front(stack)) = n - 1
      /\ \A m \in 1 .. n - 1 : Front(stack)[m] = stack[m]
  BY <1>1, <1>4, FrontFacts
<1>6. Members(Front(stack)) = Members(stack) \ {d} /\ InOrder(Front(stack))
  BY <1>1, <1>4, MembersPop, PopInOrder
<1>7. ASSUME NEW j \in 1 .. n, IsTop(stack, j, k)
      PROVE  Front(c) = Path(stack[j])
  <2>1. PathsNest
    BY DEF IInv, TreeInv
  <2>2. n \in 2 .. Len(stack) /\ j \in 1 .. Len(stack) /\ IsTop(stack, j, n - 1)
    BY <1>1, <1>7
  <2>3. Front(Path(stack[n])) = Path(stack[j])
    BY <1>1, <1>3, <2>1, <2>2 DEF PathsNest
  <2>4. Path(stack[n]) = c
    BY <1>2, <1>3
  <2> QED BY <2>3, <2>4
<1>8. k \in Nat /\ k \in 1 .. n /\ k + 1 = n /\ k >= 1
  BY <1>1
<1>9. d # 0 /\ c # <<>> /\ Last(blocks).first # "guard"
  BY <1>1, <1>3
<1>10. /\ d \in Numbers /\ at(d).type # "endif" /\ at(d).ascent = -1 /\ Path(d) = c
       /\ \A x \in Numbers : at(x).type # "endif" /\ at(x).ascent = -1 => d >= x
  BY <1>2, <1>3
<1> QED BY <1>1, <1>3, <1>4, <1>5, <1>6, <1>7, <1>8, <1>9, <1>10

LEMMA ScanBranchStep ==
  ASSUME IInv, NEW kind \in {"elif", "else"}, ScanBranch(kind)
  PROVE  IInv'
<1>0. PICK n, k, N, q, c, d : /\ n = Len(stack) /\ k = n - 1 /\ N = Len(statements)
                              /\ q = Len(source) + 1 /\ c = Conditions(Len(source))
                              /\ d = Last(stack)
  OBVIOUS
<1>1. /\ Scan(kind) /\ kind \in Kinds \ {"guard"} /\ kind \in Kinds \ {"guard", "if"}
      /\ kind \in Kinds /\ kind # "endif" /\ kind # "if" /\ kind # "guard"
      /\ Last(stack) # -1 /\ stack' = Append(Front(stack), N)
      /\ statements' = Follow(d, kind, Len(source'), -1)
  BY <1>0 DEF ScanBranch, Kinds
<1>2. TypeOK
  BY DEF IInv
<1>3. /\ phase = "scan" /\ phase' = "scan" /\ q \in Nat /\ Len(source) \in Nat
      /\ Len(source') = q /\ q \in 1 .. Len(source') /\ q <= MaxDirectives
      /\ c \in Seq(Seq(1 .. Len(source))) /\ blocks' = Blocks(kind) /\ blocks # <<>>
  BY <1>0, <1>1, <1>2, ScanFacts
<1>4. /\ n \in Nat /\ n >= 2 /\ k \in Nat /\ k \in 1 .. n /\ k + 1 = n /\ k >= 1
      /\ n = Len(blocks) + 1
      /\ d = stack[n] /\ d # -1 /\ d # 0 /\ d \in Numbers /\ at(d).type # "endif"
      /\ at(d).ascent = -1 /\ Path(d) = c /\ c # <<>>
      /\ (\A x \in Numbers : at(x).type # "endif" /\ at(x).ascent = -1 => d >= x)
      /\ stack # <<>> /\ stack \in Seq(Int) /\ Last(blocks).first # "guard"
  BY <1>0, <1>1, <1>3, ScanPop
<1>5. /\ Front(stack) \in Seq(Int) /\ Len(Front(stack)) = k
      /\ (\A m \in 1 .. k : Front(stack)[m] = stack[m])
      /\ Members(Front(stack)) = Members(stack) \ {d} /\ InOrder(Front(stack))
      /\ \A l \in 1 .. n : IsTop(stack, l, k) => Front(c) = Path(stack[l])
  BY <1>0, <1>1, <1>3, ScanPop
<1>6. ~Ignored(kind)
  BY <1>1, <1>4 DEF Ignored
<1>7. OnStack
  BY <1>3, ScanTop
<1>8. q \in Lowest .. Highest
  BY <1>3, BoundAssumption DEF Lowest, Highest
<1>9. Grows(N, kind, q, d, -1) /\ statements' \in Seq(StatementsOf(N + 1))
  <2>1. statements' = Follow(d, kind, q, -1)
    BY <1>1, <1>3
  <2> QED BY <1>0, <1>1, <1>2, <1>4, <1>8, <2>1, FollowGrows
<1>10. N \in Nat /\ N \in Int /\ N # -1 /\ Len(statements') = N + 1 /\ Numbers = 0 .. N - 1
  BY <1>9 DEF Grows
<1>11. /\ Ordered' /\ Linked' /\ Nested' /\ PathsFollow' /\ PathsLast' /\ PathsOwn'
       /\ BlocksAround' /\ PathsStay /\ SourceEnd' = -1
       /\ Conditions(q)' = After(c, kind, q) /\ Path(N)' = Conditions(q)'
       /\ Conditions(q)' \in Seq(Seq(1 .. q))
  <2>1. q = Len(source) + 1 /\ c = Conditions(Len(source)) /\ Grows(N, kind, q, d, -1)
    BY <1>0, <1>9
  <2>2. /\ at(d).type # "endif" /\ at(d).ascent = -1 /\ Path(d) = c /\ d # 0 /\ c # <<>>
        /\ \A x \in Numbers : at(x).type # "endif" /\ at(x).ascent = -1 => d >= x
    BY <1>4
  <2>3. kind \in Kinds \ {"guard"} /\ Scan(kind) /\ kind # "endif"
    BY <1>1
  <2> QED BY ONLY IInv, <1>6, <2>1, <2>2, <2>3, ScanGrows
<1>12. /\ Len(stack') = k + 1 /\ stack'[k + 1] = N
       /\ (\A m \in 1 .. k : stack'[m] = stack[m])
       /\ Members(stack') = Members(Front(stack)) \cup {N}
  <2>1. /\ Len(Append(Front(stack), N)) = Len(Front(stack)) + 1
        /\ Append(Front(stack), N)[Len(Front(stack)) + 1] = N
        /\ \A m \in 1 .. Len(Front(stack)) : Append(Front(stack), N)[m] = Front(stack)[m]
    BY <1>5, <1>10, PushFacts
  <2>2. Members(Append(Front(stack), N)) = Members(Front(stack)) \cup {N}
    BY <1>5, <1>10, MembersPush
  <2> QED BY <1>1, <1>5, <2>1, <2>2
<1>13. StackTo(k)
  <2>1. k \in 0 .. Len(stack) /\ Len(stack') \in {k, k + 1}
    <3>1. n \in Nat /\ k = n - 1 /\ k >= 1 /\ Len(stack) = n /\ Len(stack') = k + 1
      BY <1>0, <1>4, <1>12
    <3> QED BY ONLY <3>1
  <2>2. \A m \in 1 .. k : stack'[m] = stack[m]
    BY <1>12
  <2> QED BY <2>1, <2>2 DEF StackTo
<1>14. Path(N)' # <<>> /\ Front(Path(N)') = Front(c)
  <2>1. 1 .. Len(source) \subseteq 1 .. q /\ q \in 1 .. q
    BY <1>0, <1>3
  <2>2. Seq(1 .. Len(source)) \subseteq Seq(1 .. q)
    BY <2>1, SeqSub
  <2>a. Seq(Seq(1 .. Len(source))) \subseteq Seq(Seq(1 .. q))
    BY <2>2, SeqSub
  <2>3. c \in Seq(Seq(1 .. q))
    BY <1>3, <2>a
  <2>4. After(c, kind, q) # <<>> /\ Front(After(c, kind, q)) = Front(c)
    <3>1. q \in 1 .. q /\ c # <<>>
      BY <1>4, <2>1
    <3> QED BY ONLY <2>3, <3>1, kind \in {"elif", "else"}, AfterBranch
  <2> QED BY <1>11, <2>4
<1>15. PathsNest'
  <2>1. PathsNest
    BY DEF IInv, TreeInv
  <2>2. \A l \in 1 .. k : IsTop(stack, l, k) =>
          Path(N)' # <<>> /\ Front(Path(N)') = Path(stack[l])
    <3>1. \A l \in 1 .. k : l \in 1 .. n
      BY <1>4
    <3> QED BY <1>5, <1>14, <3>1
  <2>3. N = stack'[k + 1] /\ OnStack /\ PathsStay
    BY <1>7, <1>11, <1>12
  <2> QED BY ONLY <1>13, <2>1, <2>2, <2>3, PathsNestTo
<1>16. PathsOpen'
  <2>1. q = Len(source')
    BY <1>3
  <2>2. N = stack'[k + 1] /\ N # -1 /\ Len(stack') = k + 1
    BY <1>10, <1>12
  <2>3. Path(N)' = Conditions(q)'
    BY <1>11
  <2>4. OnStack /\ PathsStay
    BY <1>7, <1>11
  <2> QED BY ONLY <1>13, <2>1, <2>2, <2>3, <2>4, PathsOpenTo
<1>17. StackedOpen'
  <2>1. Members(stack') = (Members(stack) \ {d}) \cup {N}
    BY <1>5, <1>12
  <2> QED BY <1>1, <1>2, <1>7, <1>9, <2>1, StackedOpenGrows DEF OnStack
<1>18. StackedInOrder'
  <2>1. Front(stack) # <<>>
    BY <1>4, <1>5
  <2>2. \A m \in 1 .. Len(Front(stack)) : Front(stack)[m] # -1 => Front(stack)[m] < N
    <3>1. \A m \in 1 .. n : stack[m] # -1 => stack[m] \in Numbers
      BY <1>0, <1>7, StackFacts DEF OnStack
    <3>2. \A m \in 1 .. k : m \in 1 .. n
      BY <1>4
    <3>3. \A x \in Numbers : x < N
      BY <1>10
    <3> QED BY <1>5, <3>1, <3>2, <3>3
  <2>3. InOrder(Append(Front(stack), N))
    BY <1>5, <1>10, <2>1, <2>2, PushInOrder
  <2> QED BY <1>1, <2>3 DEF StackedInOrder, InOrder, IsTop
<1>19. /\ blocks' \in Seq(Block) /\ Len(blocks') = Len(blocks)
       /\ \A m \in 1 .. Len(blocks) : blocks'[m].first = blocks[m].first
  BY <1>2, <1>3, BlocksBranch
<1>20. StackedBlocks'
  <2>1. Len(blocks) \in Nat /\ Len(blocks) = k
    BY <1>2, <1>4, SourceType
  <2>2. \A m \in 1 .. Len(blocks) : stack[m + 1] = -1 <=> blocks[m].first = "guard"
    BY <1>3 DEF IInv, TreeInv, StackedBlocks
  <2>3. ASSUME NEW m \in 1 .. Len(blocks')
        PROVE  stack'[m + 1] = -1 <=> blocks'[m].first = "guard"
    <3>1. m \in 1 .. Len(blocks) /\ m + 1 \in 1 .. k + 1
      BY <1>19, <2>1
    <3>2. stack[m + 1] = -1 <=> blocks'[m].first = "guard"
      BY <1>19, <2>2, <3>1
    <3>3. CASE m + 1 \in 1 .. k
      BY <1>12, <3>2, <3>3
    <3>4. CASE m + 1 = k + 1
      <4>1. stack[m + 1] # -1 /\ stack'[m + 1] # -1
        BY <1>4, <1>10, <1>12, <3>4
      <4> QED BY <3>2, <4>1
    <3>5. m + 1 \in 1 .. k \/ m + 1 = k + 1
      BY <1>4, <3>1
    <3> QED BY <3>3, <3>4, <3>5
  <2> QED BY <1>3, <1>12, <1>19, <2>1, <2>3 DEF StackedBlocks
<1>21. TypeOK'
  <2>1. N + 1 = Len(statements') /\ N + 1 >= Len(statements)
    BY <1>0, <1>10
  <2>2. stack' \in Seq((0 .. (N + 1) - 1) \cup {-1})
    <3>1. Numbers \cup {-1} \subseteq (0 .. (N + 1) - 1) \cup {-1}
      BY <1>10
    <3>2. stack \in Seq((0 .. (N + 1) - 1) \cup {-1})
      BY <1>2, <3>1, SeqMonotonic DEF TypeOK
    <3>3. N \in (0 .. (N + 1) - 1) \cup {-1}
      BY <1>10
    <3>4. Front(stack) \in Seq((0 .. (N + 1) - 1) \cup {-1})
      BY <1>4, <3>2, FrontFacts
    <3> QED BY <1>1, <3>3, <3>4, AppendProperties
  <2>3. /\ statements' \in Seq(StatementsOf(N + 1)) /\ blocks' \in Seq(Block)
        /\ Conditions(q)' \in Seq(Seq(1 .. q)) /\ q = Len(source) + 1
    BY <1>0, <1>9, <1>11, <1>19
  <2> QED BY <1>1, <1>2, <2>1, <2>2, <2>3, TypeScan
<1>22. NavigationInv' /\ SearchAround'
  BY <1>1, <1>11, ScanNavigation
<1>23. TreeInv'
  BY <1>11, <1>15, <1>16, <1>17, <1>18, <1>20 DEF TreeInv
<1> QED BY <1>21, <1>22, <1>23 DEF IInv
(* The branch around the innermost block, where an #endif leads to.        *)
LEMMA OuterTop ==
  ASSUME OnStack, NEW n, n = Len(stack), n >= 2, NEW k, k = n - 1,
         NEW d, d = stack[n], d # -1
  PROVE  \E u \in 1 .. k :
           /\ IsTop(stack, u, k) /\ findTop(stack, 1) = stack[u]
           /\ stack[u] \in Numbers /\ at(stack[u]).type # "endif"
           /\ \A x \in Numbers :
                at(x).type # "endif" /\ at(x).ascent = -1 /\ x # d => stack[u] >= x
<1>1. TypeOK /\ StackedInOrder /\ StackedOpen /\ Linked /\ stack # <<>>
  BY DEF OnStack
<1>2. n \in Nat /\ k \in Nat /\ k \in 1 .. Len(stack) /\ Len(stack) - 1 = k /\ 1 < Len(stack)
  BY <1>1, SourceType
<1>3. PICK u \in 1 .. k : IsTop(stack, u, k)
  BY <1>1, <1>2, TopExists
<1>4. findTop(stack, 1) = stack[u]
  BY <1>1, <1>2, <1>3, FindTop
<1>5. stack[u] # -1 /\ u \in 1 .. n
  BY <1>2, <1>3 DEF IsTop
<1>6. stack[u] \in Numbers /\ at(stack[u]).type # "endif"
  BY <1>1, <1>5, StackFacts
<1>7. ASSUME NEW x \in Numbers, at(x).type # "endif", at(x).ascent = -1, x # d
      PROVE  stack[u] >= x
  <2>1. PICK m \in 1 .. Len(stack) : stack[m] = x
    BY <1>1, <1>7 DEF StackedOpen
  <2>2. m \in 1 .. k
    BY <1>2, <1>7, <2>1
  <2>3. x # -1 /\ x \in Int
    BY <1>1, <1>7, StatementType
  <2>4. stack[m] <= stack[u] /\ stack[u] \in Numbers
    BY <1>1, <1>2, <1>3, <2>1, <2>2, <2>3, TopGreatest
  <2>5. stack[u] \in Int
    BY <1>1, <1>6, StatementType
  <2> QED BY <2>1, <2>3, <2>4, <2>5
<1> QED BY <1>3, <1>4, <1>6, <1>7

LEMMA ScanEndifStep ==
  ASSUME IInv, ScanEndif
  PROVE  IInv'
<1>0. PICK n, k, N, q, c, d, up : /\ n = Len(stack) /\ k = n - 1 /\ N = Len(statements)
                                  /\ q = Len(source) + 1 /\ c = Conditions(Len(source))
                                  /\ d = Last(stack) /\ up = findTop(stack, 1)
  OBVIOUS
<1>1. /\ Scan("endif") /\ "endif" \in Kinds \ {"guard"} /\ "endif" \in Kinds \ {"guard", "if"}
      /\ "endif" \in Kinds
      /\ Last(stack) # -1 /\ stack' = Front(stack)
      /\ statements' = Follow(d, "endif", Len(source'), up)
  BY <1>0 DEF ScanEndif, Kinds
<1>2. TypeOK
  BY DEF IInv
<1>3. /\ phase = "scan" /\ phase' = "scan" /\ q \in Nat /\ Len(source) \in Nat
      /\ Len(source') = q /\ q \in 1 .. Len(source') /\ q <= MaxDirectives
      /\ blocks' = Blocks("endif") /\ blocks # <<>>
  BY <1>0, <1>1, <1>2, ScanFacts
<1>4. /\ n \in Nat /\ n >= 2 /\ k \in Nat /\ k \in 1 .. n /\ k + 1 = n /\ k >= 1
      /\ n = Len(blocks) + 1
      /\ d = stack[n] /\ d # -1 /\ d # 0 /\ d \in Numbers /\ at(d).type # "endif"
      /\ at(d).ascent = -1 /\ Path(d) = c /\ c # <<>>
      /\ (\A x \in Numbers : at(x).type # "endif" /\ at(x).ascent = -1 => d >= x)
      /\ stack # <<>> /\ stack \in Seq(Int) /\ Last(blocks).first # "guard"
  BY <1>0, <1>1, <1>3, ScanPop
<1>5. /\ Front(stack) \in Seq(Int) /\ Len(Front(stack)) = k
      /\ (\A m \in 1 .. k : Front(stack)[m] = stack[m])
      /\ Members(Front(stack)) = Members(stack) \ {d} /\ InOrder(Front(stack))
      /\ \A l \in 1 .. n : IsTop(stack, l, k) => Front(c) = Path(stack[l])
  BY <1>0, <1>1, <1>3, ScanPop
<1>6. ~Ignored("endif")
  BY <1>4 DEF Ignored
<1>7. OnStack
  BY <1>3, ScanTop
<1>8. q \in Lowest .. Highest
  BY <1>3, BoundAssumption DEF Lowest, Highest
<1>9. PICK u \in 1 .. k :
        /\ IsTop(stack, u, k) /\ findTop(stack, 1) = stack[u]
        /\ stack[u] \in Numbers /\ at(stack[u]).type # "endif"
        /\ \A x \in Numbers :
             at(x).type # "endif" /\ at(x).ascent = -1 /\ x # d => stack[u] >= x
  BY <1>0, <1>4, <1>7, OuterTop
<1>10. /\ up \in Numbers /\ up \in Numbers \cup {-1} /\ at(up).type # "endif"
       /\ Path(up) = Front(c)
       /\ \A x \in Numbers : at(x).type # "endif" /\ at(x).ascent = -1 /\ x # d => up >= x
  <2>1. up = stack[u] /\ u \in 1 .. n
    BY <1>0, <1>4, <1>9
  <2>2. Path(stack[u]) = Front(c)
    BY <1>5, <1>9, <2>1
  <2> QED BY <1>9, <2>1, <2>2
<1>11. Grows(N, "endif", q, d, up) /\ statements' \in Seq(StatementsOf(N + 1))
  <2>1. statements' = Follow(d, "endif", q, up)
    BY <1>1, <1>3
  <2> QED BY <1>0, <1>1, <1>2, <1>4, <1>8, <1>10, <2>1, FollowGrows
<1>12. N \in Nat /\ Len(statements') = N + 1 /\ Numbers = 0 .. N - 1
  BY <1>11 DEF Grows
<1>13. /\ Ordered' /\ Linked' /\ Nested' /\ PathsFollow' /\ PathsLast' /\ PathsOwn'
       /\ BlocksAround' /\ PathsStay /\ SourceEnd' = -1
       /\ Conditions(q)' = After(c, "endif", q)
       /\ Conditions(q)' \in Seq(Seq(1 .. q))
  <2>1. q = Len(source) + 1 /\ c = Conditions(Len(source)) /\ Grows(N, "endif", q, d, up)
    BY <1>0, <1>11
  <2>2. /\ at(d).type # "endif" /\ at(d).ascent = -1 /\ Path(d) = c /\ d # 0 /\ c # <<>>
        /\ \A x \in Numbers : at(x).type # "endif" /\ at(x).ascent = -1 => d >= x
    BY <1>4
  <2>3. "endif" \in Kinds \ {"guard"} /\ Scan("endif")
    BY <1>1
  <2> QED BY ONLY IInv, <1>6, <1>10, <2>1, <2>2, <2>3, ScanGrows
<1>14. Conditions(q)' = Front(c)
  BY <1>4, <1>13, AfterEndif
<1>15. Len(stack') = k /\ Len(stack') # k + 1 /\ \A m \in 1 .. k : stack'[m] = stack[m]
  BY <1>1, <1>4, <1>5
<1>16. StackTo(k)
  <2>1. k \in 0 .. Len(stack)
    BY <1>0, <1>4
  <2> QED BY <1>15, <2>1 DEF StackTo
<1>17. PathsNest'
  <2>1. PathsNest
    BY DEF IInv, TreeInv
  <2>2. OnStack /\ PathsStay
    BY <1>7, <1>13
  <2> QED BY ONLY <1>15, <1>16, <2>1, <2>2, PathsNestTo
<1>18. PathsOpen'
  <2>1. q = Len(source')
    BY <1>3
  <2>2. \A l \in 1 .. k : IsTop(stack, l, k) => Path(stack[l]) = Conditions(q)'
    <3>1. \A l \in 1 .. k : l \in 1 .. n
      BY <1>4
    <3> QED BY <1>5, <1>14, <3>1
  <2>3. OnStack /\ PathsStay
    BY <1>7, <1>13
  <2> QED BY ONLY <1>15, <1>16, <2>1, <2>2, <2>3, PathsOpenTo
<1>19. StackedOpen'
  <2>1. Members(stack') = Members(stack) \ {d}
    BY <1>1, <1>5
  <2> QED BY <1>1, <1>2, <1>7, <1>11, <2>1, StackedOpenGrows DEF OnStack
<1>20. StackedInOrder'
  BY <1>1, <1>5 DEF StackedInOrder, InOrder, IsTop
<1>21. /\ blocks' \in Seq(Block) /\ Len(blocks') = Len(blocks) - 1
       /\ \A m \in 1 .. Len(blocks) - 1 : blocks'[m] = blocks[m]
  BY <1>2, <1>3, BlocksClose
<1>22. StackedBlocks'
  <2>1. Len(blocks) \in Nat /\ Len(blocks) = k
    BY <1>2, <1>4, SourceType
  <2>2. \A m \in 1 .. Len(blocks) : stack[m + 1] = -1 <=> blocks[m].first = "guard"
    BY <1>3 DEF IInv, TreeInv, StackedBlocks
  <2>3. ASSUME NEW m \in 1 .. Len(blocks')
        PROVE  stack'[m + 1] = -1 <=> blocks'[m].first = "guard"
    <3>1. m \in 1 .. Len(blocks) - 1 /\ m \in 1 .. Len(blocks) /\ m + 1 \in 1 .. k
      BY <1>21, <2>1
    <3> QED BY <1>15, <1>21, <2>2, <3>1
  <2> QED BY <1>3, <1>4, <1>15, <1>21, <2>1, <2>3 DEF StackedBlocks
<1>23. TypeOK'
  <2>1. N + 1 = Len(statements') /\ N + 1 >= Len(statements)
    BY <1>0, <1>12
  <2>2. stack' \in Seq((0 .. (N + 1) - 1) \cup {-1})
    <3>1. Numbers \cup {-1} \subseteq (0 .. (N + 1) - 1) \cup {-1}
      BY <1>12
    <3>2. stack \in Seq((0 .. (N + 1) - 1) \cup {-1})
      BY <1>2, <3>1, SeqMonotonic DEF TypeOK
    <3> QED BY <1>1, <1>4, <3>2, FrontFacts
  <2>3. /\ statements' \in Seq(StatementsOf(N + 1)) /\ blocks' \in Seq(Block)
        /\ Conditions(q)' \in Seq(Seq(1 .. q)) /\ q = Len(source) + 1
    BY <1>0, <1>11, <1>13, <1>21
  <2> QED BY <1>1, <1>2, <2>1, <2>2, <2>3, TypeScan
<1>24. NavigationInv' /\ SearchAround'
  BY <1>1, <1>13, ScanNavigation
<1>25. TreeInv'
  BY <1>13, <1>17, <1>18, <1>19, <1>20, <1>22 DEF TreeInv
<1> QED BY <1>23, <1>24, <1>25 DEF IInv
-----------------------------------------------------------------------------
(* The source does not change any more, so nor does what C says.           *)
LEMMA SourceStays ==
  ASSUME TypeOK, UNCHANGED <<source, conditions>>
  PROVE  Remembers /\ Len(source') = Len(source) /\ \A p : Conditions(p)' = Conditions(p)
<1>1. \A p : Conditions(p)' = Conditions(p)
  BY DEF Conditions
<1> QED BY <1>1, SourceType DEF Remembers

(* A statement that is not the end of the source starts or leads to one    *)
(* that does.                                                              *)
LEMMA RootStarts ==
  ASSUME TypeOK, Linked
  PROVE  /\ 0 \in Numbers /\ 0 # SourceEnd /\ at(0).type # "endif"
         /\ Path(0) = <<>>
         /\ SourceEnd = -1 \/ (SourceEnd \in Numbers /\ SourceEnd > 0)
<1>1. 0 \in Numbers
  BY SourceType DEF Linked, Numbers
<1>2. at(0).type = "if" /\ at(0).sourcePosition = Lowest
  BY DEF Linked
<1>3. Path(0) = <<>>
  BY <1>2 DEF Path, Conditions, Lowest
<1>4. SourceEnd = at(0).ascent /\ SourceEnd \in Numbers \cup {-1}
  BY <1>1, StatementType DEF SourceEnd
<1>5. SourceEnd # -1 => SourceEnd > 0
  BY <1>1, <1>2, <1>4 DEF Linked
<1> QED BY <1>1, <1>2, <1>3, <1>4, <1>5

(* With the tree the same, everything said of it stays true.               *)
LEMMA TreeKept ==
  ASSUME IInv, UNCHANGED <<source, conditions, statements>>, phase' # "scan"
  PROVE  /\ Ordered' /\ Linked' /\ Nested' /\ PathsFollow' /\ PathsLast' /\ PathsOwn'
         /\ BlocksAround' /\ PathsStay /\ SourceEnd' = SourceEnd /\ Numbers' = Numbers
         /\ (\A x : at(x)' = at(x)) /\ (\A x : Path(x)' = Path(x))
         /\ \A p : Conditions(p)' = Conditions(p)
<1>1. /\ TypeOK /\ Ordered /\ Linked /\ Nested /\ PathsFollow /\ PathsLast /\ PathsOwn
      /\ BlocksAround
  BY DEF IInv, TreeInv
<1>2. Numbers' = Numbers /\ (\A x : at(x)' = at(x)) /\ SourceEnd' = SourceEnd
  BY DEF Numbers, at, SourceEnd
<1>3. (\A p : Conditions(p)' = Conditions(p)) /\ Len(source') = Len(source)
  BY <1>1, SourceStays
<1>4. \A x : Path(x)' = Path(x)
  BY DEF Path, Conditions, at
<1>5. Ordered'
  BY <1>1, <1>2, <1>3 DEF Ordered, Highest
<1>6. Linked' /\ Nested'
  BY <1>1 DEF Linked, Nested, Numbers, at, SourceEnd
<1>7. PathsFollow' /\ PathsOwn'
  BY <1>1 DEF PathsFollow, PathsOwn, Path, Conditions, Numbers, at, SourceEnd
<1>8. PathsLast'
  BY <1>1, <1>2, <1>3, <1>4 DEF PathsLast, Reset
<1>9. BlocksAround'
  BY <1>1 DEF BlocksAround, Around, Conditions, Numbers, at
<1>10. PathsStay
  BY <1>4 DEF PathsStay
<1> QED BY <1>2, <1>3, <1>4, <1>5, <1>6, <1>7, <1>8, <1>9, <1>10

LEMMA TreeSame ==
  ASSUME IInv, UNCHANGED tree, phase' # "scan",
         phase' # "close" => stack = <<>>
  PROVE  /\ TreeInv' /\ SourceEnd' = SourceEnd /\ Numbers' = Numbers
         /\ (\A x : at(x)' = at(x)) /\ (\A x : Path(x)' = Path(x))
         /\ \A p : Conditions(p)' = Conditions(p)
<1>1. UNCHANGED <<source, blocks, conditions, statements, stack>>
  BY DEF tree
<1>2. /\ Ordered' /\ Linked' /\ Nested' /\ PathsFollow' /\ PathsLast' /\ PathsOwn'
      /\ BlocksAround' /\ SourceEnd' = SourceEnd /\ Numbers' = Numbers
      /\ (\A x : at(x)' = at(x)) /\ (\A x : Path(x)' = Path(x))
      /\ \A p : Conditions(p)' = Conditions(p)
  BY <1>1, TreeKept
<1>3. StackedOpen /\ StackedInOrder /\ PathsNest
  BY DEF IInv, TreeInv
<1>4. StackedOpen'
  BY <1>1, <1>3 DEF StackedOpen, Numbers, at
<1>5. StackedInOrder'
  BY <1>1, <1>3 DEF StackedInOrder, InOrder, IsTop
<1>6. PathsNest'
  BY <1>1, <1>3 DEF PathsNest, IsTop, Path, Conditions, at
<1>7. StackedBlocks' /\ PathsOpen'
  BY <1>1 DEF StackedBlocks, PathsOpen
<1> QED BY <1>2, <1>4, <1>5, <1>6, <1>7 DEF TreeInv

(* What is left of TypeOK then.                                            *)
LEMMA TypeSame ==
  ASSUME TypeOK, UNCHANGED tree,
         phase' \in {"close", "idle", "ascend", "search", "leave", "descend", "put"},
         {statement', low', high', target', i'} \subseteq Numbers,
         position' \in Reset .. Len(source),
         ascent' \in Seq(Numbers), descent' \in Seq(Numbers),
         open' \in Seq(Seq(1 .. Highest)),
         phase' = "ascend" => at(statement').ascent # -1,
         phase' = "idle" => at(statement').type # "endif"
  PROVE  TypeOK'
<1>1. UNCHANGED <<source, blocks, conditions, statements, stack>>
  BY DEF tree
<1>2. Numbers' = Numbers
  BY <1>1 DEF Numbers
<1>3. current' = at(statement')
  BY <1>1 DEF current, at
<1>4. phase' \in {"scan", "close", "idle", "ascend", "search", "leave", "descend", "put"}
  OBVIOUS
<1>5. /\ source' \in Seq(Kinds) /\ Len(source') <= MaxDirectives
      /\ blocks' \in Seq([first : {"if", "guard"}, latest : Kinds])
      /\ conditions' \in Seq(Seq(Seq(1 .. Len(source')))) /\ Len(conditions') = Len(source')
      /\ stack' \in Seq(Numbers' \cup {-1})
  BY <1>1, <1>2 DEF TypeOK
<1>6. statements' \in Seq([type : Kinds \ {"guard"}, sourcePosition : Lowest .. Highest,
                           descent : Numbers' \cup {-1}, ascent : Numbers' \cup {-1}])
  BY <1>1, <1>2 DEF TypeOK
<1>7. {statement', low', high', target', i'} \subseteq Numbers'
  BY <1>2
<1>8. position' \in Reset .. Len(source')
  BY <1>1
<1>9. ascent' \in Seq(Numbers') /\ descent' \in Seq(Numbers')
  BY <1>2
<1> QED BY <1>3, <1>4, <1>5, <1>6, <1>7, <1>8, <1>9 DEF TypeOK, Reset, Highest, Lowest
-----------------------------------------------------------------------------
(* The rest of the constructor.                                            *)
LEMMA EndOfSourceStep ==
  ASSUME IInv, EndOfSource
  PROVE  IInv'
<1>1. /\ phase = "scan" /\ phase' = "close"
      /\ UNCHANGED <<tree, statement, position, search, text, open>>
  BY DEF EndOfSource
<1>2. TypeOK /\ Linked
  BY DEF IInv, TreeInv
<1>3. /\ TreeInv' /\ SourceEnd' = SourceEnd
  BY <1>1, TreeSame
<1>4. TypeOK'
  <2>1. {statement', low', high', target', i'} \subseteq Numbers
    BY <1>1, <1>2 DEF TypeOK, search
  <2>2. /\ position' \in Reset .. Len(source)
        /\ ascent' \in Seq(Numbers) /\ descent' \in Seq(Numbers)
        /\ open' \in Seq(Seq(1 .. Highest))
    BY <1>1, <1>2 DEF TypeOK, text
  <2> QED BY <1>1, <1>2, <2>1, <2>2, TypeSame
<1>5. statement' = 0 /\ position' = Reset /\ open' = <<>>
  BY <1>1 DEF IInv, NavigationInv, Reset
<1>6. 0 # SourceEnd
  BY <1>2, RootStarts
<1>7. NavigationInv' /\ SearchAround'
  BY <1>1, <1>3, <1>5, <1>6 DEF NavigationInv, SearchAround, Reset
<1> QED BY <1>3, <1>4, <1>7 DEF IInv

(* A statement closes each block that hangs, and the source.               *)
LEMMA CloseNavigation ==
  ASSUME IInv, CloseHanging, TypeOK', Linked'
  PROVE  NavigationInv' /\ SearchAround'
<1>1. phase = "close" /\ phase' = "close" /\ UNCHANGED <<statement, position, open>>
  BY DEF CloseHanging
<1>2. statement' = 0 /\ position' = Reset /\ open' = <<>>
  BY <1>1 DEF IInv, NavigationInv, Reset
<1>3. 0 # SourceEnd'
  <2>1. Numbers' = 0 .. Len(statements') - 1 /\ Len(statements') \in Nat
    BY DEF TypeOK, Numbers
  <2>2. Len(statements') > 0
    BY DEF Linked
  <2>3. 0 \in Numbers' /\ at(0)'.type = "if" /\ SourceEnd' = at(0)'.ascent
    BY <2>1, <2>2 DEF Linked, SourceEnd
  <2>4. at(0)'.ascent # -1 => at(0)'.ascent > 0
    BY <2>3 DEF Linked
  <2> QED BY <2>3, <2>4
<1> QED BY <1>1, <1>2, <1>3 DEF NavigationInv, SearchAround, Reset

LEMMA TypeClose ==
  ASSUME TypeOK, CloseHanging, NEW M, M = Len(statements'), M >= Len(statements),
         statements' \in Seq(StatementsOf(M)),
         stack' \in Seq((0 .. M - 1) \cup {-1})
  PROVE  TypeOK'
<1>1. /\ phase' = "close"
      /\ UNCHANGED <<source, blocks, conditions, statement, position, search, text, open>>
  BY DEF CloseHanging
<1>2. M \in Nat /\ Len(statements) \in Nat /\ Numbers' = 0 .. M - 1 /\ Numbers \subseteq Numbers'
  <2>1. M \in Nat
    BY LenProperties
  <2> QED BY <2>1, SourceType DEF Numbers
<1>3. statements' \in Seq([type : Kinds \ {"guard"}, sourcePosition : Lowest .. Highest,
                           descent : Numbers \cup {-1}, ascent : Numbers \cup {-1}])'
  BY <1>2 DEF StatementsOf, Lowest, Highest
<1>4. stack' \in Seq(Numbers' \cup {-1})
  BY <1>2
<1>5. {statement', low', high', target', i'} \subseteq Numbers'
  BY <1>1, <1>2 DEF TypeOK, search
<1>6. position' \in Reset .. Len(source')
  BY <1>1 DEF TypeOK
<1>7. ascent' \in Seq(Numbers') /\ descent' \in Seq(Numbers') /\ open' \in Seq(Seq(1 .. Highest))
  <2> DEFINE S == 0 .. Len(statements) - 1
             T == 0 .. M - 1
  <2>1. S \subseteq T /\ S = Numbers /\ T = Numbers'
    BY <1>2 DEF Numbers
  <2> HIDE DEF S, T
  <2>2. Seq(S) \subseteq Seq(T)
    BY <2>1, SeqSub
  <2> QED BY <1>1, <2>1, <2>2 DEF TypeOK, text
<1>8. /\ source' \in Seq(Kinds) /\ Len(source') <= MaxDirectives
      /\ blocks' \in Seq([first : {"if", "guard"}, latest : Kinds])
      /\ conditions' \in Seq(Seq(Seq(1 .. Len(source')))) /\ Len(conditions') = Len(source')
  BY <1>1 DEF TypeOK
<1> QED BY <1>1, <1>3, <1>4, <1>5, <1>6, <1>7, <1>8 DEF TypeOK, Reset, Highest

LEMMA CloseGuardStep ==
  ASSUME IInv, CloseHanging, Last(stack) = -1
  PROVE  IInv'
<1>0. PICK n, k, N : n = Len(stack) /\ k = n - 1 /\ N = Len(statements)
  OBVIOUS
<1>1. /\ phase = "close" /\ phase' = "close" /\ stack # <<>> /\ stack' = Front(stack)
      /\ UNCHANGED <<source, conditions, statements>>
  BY DEF CloseHanging
<1>2. TypeOK /\ StackedInOrder /\ StackedOpen /\ Linked /\ PathsNest
  BY DEF IInv, TreeInv
<1>3. OnStack
  BY <1>1, <1>2 DEF OnStack
<1>4. n \in Nat /\ n >= 1 /\ stack \in Seq(Int) /\ k \in Nat
  BY <1>0, <1>1, <1>2, StackFacts
<1>5. /\ Ordered' /\ Linked' /\ Nested' /\ PathsFollow' /\ PathsLast' /\ PathsOwn'
      /\ BlocksAround' /\ PathsStay
  BY <1>1, TreeKept
<1>6. /\ Len(Front(stack)) = Len(stack) - 1
      /\ \A m \in 1 .. Len(stack) - 1 : Front(stack)[m] = stack[m]
  BY <1>1, <1>4, FrontFacts
<1>7. StackTo(k) /\ Len(stack') # k + 1
  <2>1. k \in 0 .. Len(stack) /\ Len(stack') = k
    BY <1>0, <1>1, <1>4, <1>6
  <2>2. \A m \in 1 .. k : stack'[m] = stack[m]
    BY <1>0, <1>1, <1>6
  <2> QED BY <1>4, <2>1, <2>2 DEF StackTo
<1>8. PathsNest'
  BY <1>2, <1>3, <1>5, <1>7, PathsNestTo
<1>9. StackedOpen' /\ StackedInOrder'
  <2>1. InOrder(stack)
    BY <1>2 DEF StackedInOrder
  <2>2. Members(stack') \cup {-1} = Members(stack)
    BY <1>1, <1>4, <2>1, MembersPop
  <2>3. StackedOpen'
    BY <1>1, <1>2, <2>2, StackedOpenSame
  <2>4. InOrder(Front(stack))
    BY <1>1, <1>4, <2>1, PopInOrder
  <2> QED BY <1>1, <2>3, <2>4 DEF StackedInOrder, InOrder, IsTop
<1>10. StackedBlocks' /\ PathsOpen'
  BY <1>1 DEF StackedBlocks, PathsOpen
<1>11. TreeInv'
  BY <1>5, <1>8, <1>9, <1>10 DEF TreeInv
<1>12. TypeOK'
  <2>1. N \in Nat /\ N = Len(statements') /\ N >= Len(statements)
        /\ statements' \in Seq(StatementsOf(N))
    BY <1>0, <1>1, <1>2, SourceType, StatementsType
  <2>2. stack \in Seq((0 .. N - 1) \cup {-1})
    BY <1>0, <1>2 DEF TypeOK, Numbers
  <2>3. stack' \in Seq((0 .. N - 1) \cup {-1})
    BY <1>1, <2>2, FrontFacts
  <2> QED BY <1>2, <2>1, <2>3, TypeClose
<1>13. NavigationInv' /\ SearchAround'
  BY <1>5, <1>12, CloseNavigation
<1> QED BY <1>11, <1>12, <1>13 DEF IInv
LEMMA CloseBlockStep ==
  ASSUME IInv, CloseHanging, Last(stack) # -1
  PROVE  IInv'
<1>0. PICK n, k, N, d, up : /\ n = Len(stack) /\ k = n - 1 /\ N = Len(statements)
                            /\ d = Last(stack)
                            /\ up = IF n = 1 THEN -1 ELSE findTop(stack, 1)
  OBVIOUS
<1>1. /\ phase = "close" /\ phase' = "close" /\ stack # <<>> /\ stack' = Front(stack)
      /\ UNCHANGED <<source, conditions>>
      /\ statements' = Follow(d, "endif", Highest, up)
  BY <1>0 DEF CloseHanging
<1>2. /\ TypeOK /\ StackedInOrder /\ StackedOpen /\ PathsNest
      /\ Ordered /\ Linked /\ Nested /\ PathsFollow /\ PathsLast /\ PathsOwn /\ BlocksAround
  BY DEF IInv, TreeInv
<1>3. OnStack
  BY <1>1, <1>2 DEF OnStack
<1>4. /\ n \in Nat /\ n >= 1 /\ stack \in Seq(Int) /\ k \in Nat /\ n \in 1 .. n
      /\ stack[1] = 0 /\ d = stack[n] /\ d # -1
  BY <1>0, <1>1, <1>2, StackFacts
<1>5. d \in Numbers /\ at(d).type # "endif" /\ at(d).ascent = -1
  BY <1>0, <1>1, <1>2, <1>4, StackFacts
<1>6. d = 0 <=> n = 1
  BY <1>0, <1>1, <1>2, <1>4, StackFacts
<1>7. \A x \in Numbers : at(x).type # "endif" /\ at(x).ascent = -1 => d >= x
  <2>1. IsTop(stack, n, n)
    BY <1>4 DEF IsTop
  <2> SUFFICES ASSUME NEW x \in Numbers, at(x).type # "endif", at(x).ascent = -1
               PROVE  d >= x
    OBVIOUS
  <2>2. PICK m \in 1 .. n : stack[m] = x
    BY <1>0, <1>2 DEF StackedOpen
  <2>3. x \in Int /\ x # -1 /\ d \in Int
    BY <1>2, <1>5, StatementType
  <2>4. stack[m] <= stack[n]
    BY <1>0, <1>2, <1>4, <2>1, <2>2, <2>3, TopGreatest
  <2> QED BY <1>4, <2>2, <2>3, <2>4
<1>8. n # 1 =>
        /\ up \in Numbers /\ at(up).type # "endif"
        /\ Path(d) # <<>> /\ Path(up) = Front(Path(d))
        /\ \A x \in Numbers : at(x).type # "endif" /\ at(x).ascent = -1 /\ x # d => up >= x
  <2> SUFFICES ASSUME n # 1
               PROVE  /\ up \in Numbers /\ at(up).type # "endif"
                      /\ Path(d) # <<>> /\ Path(up) = Front(Path(d))
                      /\ \A x \in Numbers :
                           at(x).type # "endif" /\ at(x).ascent = -1 /\ x # d => up >= x
    OBVIOUS
  <2>1. n >= 2
    BY <1>4
  <2>2. PICK u \in 1 .. k :
          /\ IsTop(stack, u, k) /\ findTop(stack, 1) = stack[u]
          /\ stack[u] \in Numbers /\ at(stack[u]).type # "endif"
          /\ \A x \in Numbers :
               at(x).type # "endif" /\ at(x).ascent = -1 /\ x # d => stack[u] >= x
    BY <1>0, <1>3, <1>4, <2>1, OuterTop
  <2>3. n \in 2 .. Len(stack) /\ u \in 1 .. Len(stack) /\ IsTop(stack, u, n - 1)
    BY <1>0, <1>4, <2>1, <2>2
  <2>4. Path(stack[n]) # <<>> /\ Front(Path(stack[n])) = Path(stack[u])
    BY <1>2, <1>4, <2>3 DEF PathsNest
  <2>5. up = stack[u]
    BY <1>0, <2>2
  <2>6. Path(d) # <<>> /\ Path(up) = Front(Path(d))
    BY <1>4, <2>4, <2>5
  <2> QED BY <2>2, <2>5, <2>6
<1>9. up \in Numbers \cup {-1} /\ Highest \in Lowest .. Highest /\ Highest \in Nat
  BY <1>0, <1>8, BoundAssumption DEF Lowest, Highest
<1>10. Grows(N, "endif", Highest, d, up) /\ statements' \in Seq(StatementsOf(N + 1))
  <2>1. "endif" \in Kinds \ {"guard", "if"}
    BY DEF Kinds
  <2> QED BY <1>0, <1>1, <1>2, <1>5, <1>9, <2>1, FollowGrows
<1>11. /\ N \in Nat /\ N > 0 /\ Len(statements') = N + 1 /\ Numbers = 0 .. N - 1
       /\ at(N)' = Statement("endif", Highest, d, up)
       /\ \A x \in Numbers : /\ at(x)'.type = at(x).type
                             /\ at(x)'.sourcePosition = at(x).sourcePosition
                             /\ at(x)'.ascent = IF x = d THEN N ELSE at(x).ascent
  BY <1>10 DEF Grows
<1>12. Remembers /\ Len(source') = Len(source)
  BY <1>1, <1>2, SourceStays
<1>13. PathsStay
  <2>1. Keeps
    BY <1>5, <1>10, GrowsKeeps
  <2> QED BY <1>2, <1>12, <2>1, PathSame DEF PathsStay
<1>14. Ordered'
  <2>1. \A x \in Numbers : at(x).sourcePosition < Highest \/ at(x).sourcePosition = Highest
    BY <1>2, <1>9, StatementType
  <2> QED BY <1>1, <1>2, <1>10, <1>12, <2>1, OrderedGrows
<1>15. Linked'
  <2>1. "endif" \in Kinds
    BY DEF Kinds
  <2>2. d = 0 => up = -1
    BY <1>0, <1>6
  <2>3. d # 0 => up \in Numbers /\ at(up).type # "endif"
    BY <1>6, <1>8
  <2> QED BY ONLY <1>2, <1>5, <1>10, <2>1, <2>2, <2>3, LinkedGrows
<1>16. Nested'
  <2>1. ASSUME NEW x \in Numbers, at(x).type # "endif", at(x).ascent = -1
        PROVE  d >= x /\ (x # d => up >= x)
    <3>1. d >= x
      BY <1>7, <2>1
    <3>2. CASE n = 1
      <4>1. x \in Nat
        BY <1>11
      <4> QED BY <1>6, <3>1, <3>2, <4>1
    <3>3. CASE n # 1
      BY <1>8, <2>1, <3>1, <3>3
    <3> QED BY <3>2, <3>3
  <2> QED BY <1>2, <1>5, <1>10, <2>1, NestedGrows
<1>17. PathsFollow'
  <2>1. ASSUME N # SourceEnd'
        PROVE  Path(N)' = After(Path(d), "endif", Highest)
    <3>1. d # 0
      <4>1. SourceEnd' = at(0)'.ascent /\ 0 \in Numbers
        BY <1>11 DEF SourceEnd
      <4> QED BY <1>11, <2>1, <4>1
    <3>2. n # 1
      BY <1>6, <3>1
    <3>3. up # SourceEnd
      BY <1>2, <1>8, <3>2, PathOf DEF Linked
    <3>4. Path(up)' = Path(up)
      BY <1>8, <1>13, <3>2, <3>3 DEF PathsStay
    <3>5. at(N)'.type = "endif" /\ at(N)'.ascent = up /\ at(up)'.type # "endif"
      BY <1>8, <1>11, <3>2 DEF Statement
    <3>6. Path(N)' = Path(up)'
      BY <3>5 DEF Path
    <3>7. After(Path(d), "endif", Highest) = Front(Path(d))
      BY <1>8, <3>2, AfterEndif
    <3> QED BY <1>8, <3>2, <3>4, <3>6, <3>7
  <2> QED BY <1>2, <1>5, <1>10, <1>12, <2>1, PathsFollowGrows
<1>18. PathsLast' /\ PathsOwn'
  BY <1>2, <1>5, <1>10, <1>12, PathsLastGrows, PathsOwnGrows
<1>19. BlocksAround'
  <2>1. ASSUME NEW r \in 1 .. Len(source)
        PROVE  Around(r)'
    <3>1. Around(r)
      BY <1>2 DEF BlocksAround
    <3>2. r < Highest
      BY <1>2, SourceType
    <3> QED BY <1>2, <1>10, <1>12, <3>1, <3>2, AroundGrows
  <2> QED BY <1>12, <2>1 DEF BlocksAround
<1>20. /\ Front(stack) \in Seq(Int) /\ Len(Front(stack)) = Len(stack) - 1
       /\ \A m \in 1 .. Len(stack) - 1 : Front(stack)[m] = stack[m]
  BY <1>1, <1>4, FrontFacts
<1>21. StackTo(k) /\ Len(stack') # k + 1
  <2>1. k \in 0 .. Len(stack) /\ Len(stack') = k
    BY <1>0, <1>1, <1>4, <1>20
  <2>2. \A m \in 1 .. k : stack'[m] = stack[m]
    BY <1>0, <1>1, <1>20
  <2> QED BY <1>4, <2>1, <2>2 DEF StackTo
<1>22. PathsNest'
  BY <1>2, <1>3, <1>13, <1>21, PathsNestTo
<1>23. StackedOpen' /\ StackedInOrder'
  <2>1. InOrder(stack)
    BY <1>2 DEF StackedInOrder
  <2>2. Members(stack') = Members(stack) \ {d}
    BY <1>0, <1>1, <1>4, <2>1, MembersPop
  <2>3. StackedOpen'
    BY <1>2, <1>10, <2>2, StackedOpenGrows
  <2>4. InOrder(Front(stack))
    BY <1>1, <1>4, <2>1, PopInOrder
  <2> QED BY <1>1, <2>3, <2>4 DEF StackedInOrder, InOrder, IsTop
<1>24. StackedBlocks' /\ PathsOpen'
  BY <1>1 DEF StackedBlocks, PathsOpen
<1>25. TreeInv'
  BY <1>14, <1>15, <1>16, <1>17, <1>18, <1>19, <1>22, <1>23, <1>24 DEF TreeInv
<1>26. TypeOK'
  <2>1. N + 1 = Len(statements') /\ N + 1 >= Len(statements)
    BY <1>0, <1>11
  <2>2. stack' \in Seq((0 .. (N + 1) - 1) \cup {-1})
    <3>1. Numbers \cup {-1} \subseteq (0 .. (N + 1) - 1) \cup {-1}
      BY <1>11
    <3>2. stack \in Seq((0 .. (N + 1) - 1) \cup {-1})
      BY <1>2, <3>1, SeqMonotonic DEF TypeOK
    <3> QED BY <1>1, <3>2, FrontFacts
  <2> QED BY <1>2, <1>10, <2>1, <2>2, TypeClose
<1>27. NavigationInv' /\ SearchAround'
  BY <1>15, <1>26, CloseNavigation
<1> QED BY <1>25, <1>26, <1>27 DEF IInv

LEMMA TraverseStep ==
  ASSUME IInv, Traverse
  PROVE  IInv'
<1>1. /\ phase = "close" /\ stack = <<>> /\ phase' = "idle" /\ statement' = 0
      /\ UNCHANGED <<tree, position, search, text, open>>
  BY DEF Traverse
<1>2. TypeOK /\ Linked
  BY DEF IInv, TreeInv
<1>3. /\ TreeInv' /\ SourceEnd' = SourceEnd
      /\ (\A x : at(x)' = at(x)) /\ (\A x : Path(x)' = Path(x))
      /\ \A p : Conditions(p)' = Conditions(p)
  BY <1>1, TreeSame
<1>4. /\ 0 \in Numbers /\ 0 # SourceEnd /\ at(0).type # "endif" /\ Path(0) = <<>>
  BY <1>2, RootStarts
<1>5. TypeOK'
  <2>1. {statement', low', high', target', i'} \subseteq Numbers
    BY <1>1, <1>2, <1>4 DEF TypeOK, search
  <2>2. /\ position' \in Reset .. Len(source)
        /\ ascent' \in Seq(Numbers) /\ descent' \in Seq(Numbers)
        /\ open' \in Seq(Seq(1 .. Highest))
    BY <1>1, <1>2 DEF TypeOK, text
  <2> QED BY <1>1, <1>2, <1>4, <2>1, <2>2, TypeSame
<1>6. position' = Reset /\ open' = <<>>
  BY <1>1 DEF IInv, NavigationInv, Reset
<1>7. Conditions(position') = <<>> /\ Conditions(position)' = <<>>
  <2>1. Conditions(Reset) = <<>>
    BY DEF Conditions, Reset
  <2>2. Conditions(position') = <<>>
    BY <1>6, <2>1
  <2>3. Conditions(position)' = Conditions(position')
    BY <1>1 DEF Conditions, tree
  <2> QED BY <2>2, <2>3
<1>8. current'.type # "endif" /\ Path(statement)' = <<>>
  <2>1. current' = at(0)
    BY <1>1, <1>3 DEF current, at, tree
  <2>2. Path(statement)' = Path(0)
    BY <1>1 DEF Path, Conditions, at, tree
  <2> QED BY <1>4, <2>1, <2>2
<1>9. NavigationInv' /\ SearchAround'
  BY <1>1, <1>3, <1>4, <1>6, <1>7, <1>8 DEF NavigationInv, SearchAround
<1> QED BY <1>3, <1>5, <1>9 DEF IInv
-----------------------------------------------------------------------------
(* The traversal: what the invariant says of it, as operators of the place,*)
(* the text and what is open, which the next state's are instances of.     *)
WalkOf(t, o, p) ==
  \A m \in 1 .. Len(t) :
    /\ t[m] \in Numbers \ {0, SourceEnd}
    /\ Path(at(t[m]).descent) = IF m = 1 THEN o ELSE Path(t[m - 1])
    /\ at(t[m]).type # "if" => \/ p < at(at(t[m]).descent).sourcePosition
                               \/ p >= at(t[m]).sourcePosition

ReachedOf(t, o) == IF t = <<>> THEN o ELSE Path(Last(t))

ChainOf(e, s, g, j) ==
  /\ \A m \in 1 .. Len(e) :
       /\ e[m] \in s + 1 .. g
       /\ at(e[m]).descent = IF m = 1 THEN j ELSE e[m - 1]
  /\ g = IF e = <<>> THEN j ELSE Last(e)

AtTargetOf(s, g, p) ==
  /\ g >= s /\ g < at(s).ascent
  /\ at(g).sourcePosition <= p /\ Path(g) = Conditions(p)

LEMMA NowOf ==
  /\ Walk(ascent) <=> WalkOf(ascent, open, position)
  /\ Reached(ascent) = ReachedOf(ascent, open)
  /\ AtTarget <=> AtTargetOf(statement, target, position)
  /\ Chain <=> ChainOf(descent, statement, target, i)
BY DEF Walk, WalkOf, Reached, ReachedOf, AtTarget, AtTargetOf, Chain, ChainOf, current

LEMMA NextOf ==
  ASSUME UNCHANGED tree,
         NEW s, s = statement', NEW p, p = position', NEW t, t = ascent', NEW o, o = open',
         NEW e, e = descent', NEW g, g = target', NEW j, j = i'
  PROVE  /\ Walk(ascent)' <=> WalkOf(t, o, p)
         /\ Reached(ascent)' = ReachedOf(t, o)
         /\ AtTarget' <=> AtTargetOf(s, g, p)
         /\ Chain' <=> ChainOf(e, s, g, j)
         /\ current' = at(s) /\ at(target)' = at(g)
         /\ Path(statement)' = Path(s) /\ Conditions(position)' = Conditions(p)
<1>1. source' = source /\ conditions' = conditions /\ statements' = statements
  BY DEF tree
<1>2. current' = at(s) /\ at(target)' = at(g)
  BY <1>1 DEF current, at
<1>3. Path(statement)' = Path(s) /\ Conditions(position)' = Conditions(p)
  BY <1>1 DEF Path, Conditions, at
<1>4. Walk(ascent)' <=> WalkOf(t, o, p)
  BY <1>1 DEF Walk, WalkOf, Path, Conditions, at, Numbers, SourceEnd
<1>5. Reached(ascent)' = ReachedOf(t, o)
  BY <1>1 DEF Reached, ReachedOf, Path, Conditions, at
<1>6. AtTarget' <=> AtTargetOf(s, g, p)
  BY <1>1 DEF AtTarget, AtTargetOf, current, Path, Conditions, at
<1>7. Chain' <=> ChainOf(e, s, g, j)
  BY <1>1 DEF Chain, ChainOf, at
<1> QED BY <1>2, <1>3, <1>4, <1>5, <1>6, <1>7

(* With the source scanned no block is open.                               *)
LEMMA Scanned ==
  ASSUME IInv, phase \notin {"scan", "close"}
  PROVE  /\ TypeOK /\ Ordered /\ Linked /\ Nested /\ PathsFollow /\ PathsLast /\ PathsOwn
         /\ BlocksAround /\ stack = <<>>
         /\ statement \in Numbers /\ position \in Int /\ statement \in Int
         /\ position >= Reset /\ position <= Len(source) /\ position < Highest
         /\ position \in Reset .. Len(source)
         /\ SourceEnd \in Numbers /\ at(SourceEnd).type = "endif"
         /\ at(SourceEnd).sourcePosition = Highest
         /\ at(SourceEnd).descent = 0
         /\ \A n \in Numbers :
              /\ at(n).type # "endif" =>
                   /\ at(n).ascent # -1 /\ at(n).ascent \in Numbers /\ at(n).ascent > n
                   /\ at(at(n).ascent).descent = n /\ at(at(n).ascent).type # "if"
              /\ at(n).type = "endif" /\ n # SourceEnd =>
                   /\ n # 0 /\ at(n).ascent \in Numbers /\ at(n).ascent < n
                   /\ at(n).ascent # -1
                   /\ at(at(n).ascent).type # "endif" /\ Path(n) = Path(at(n).ascent)
<1>1. /\ TypeOK /\ Ordered /\ Linked /\ Nested /\ PathsFollow /\ PathsLast /\ PathsOwn
      /\ BlocksAround /\ StackedOpen /\ stack = <<>>
  BY DEF IInv, TreeInv, StackedBlocks
<1>2. /\ statement \in Numbers /\ position \in Int /\ Len(source) \in Nat
      /\ position >= Reset /\ position <= Len(source) /\ position < Highest
      /\ position \in Reset .. Len(source)
  <2>1. Len(source) \in Nat /\ Len(source) < Highest /\ Highest \in Nat
    BY <1>1, SourceType
  <2>2. statement \in Numbers /\ position \in Reset .. Len(source) /\ Reset \in Int
    BY <1>1 DEF TypeOK, Reset
  <2> QED BY <2>1, <2>2
<1>3. statement \in Int
  BY <1>1, <1>2, StatementType
<1>4. ASSUME NEW n \in Numbers, at(n).type # "endif"
      PROVE  /\ at(n).ascent # -1 /\ at(n).ascent \in Numbers /\ at(n).ascent > n
             /\ at(at(n).ascent).descent = n /\ at(at(n).ascent).type # "if"
  <2>1. at(n).ascent # -1
    BY <1>1, <1>4 DEF StackedOpen
  <2>2. at(n).ascent \in Numbers
    BY <1>1, <2>1, StatementType
  <2> QED BY <1>1, <1>4, <2>1, <2>2 DEF Linked
<1>5. ASSUME NEW n \in Numbers, at(n).type = "endif", n # SourceEnd
      PROVE  /\ n # 0 /\ at(n).ascent \in Numbers /\ at(n).ascent < n
             /\ at(n).ascent # -1
             /\ at(at(n).ascent).type # "endif" /\ Path(n) = Path(at(n).ascent)
  <2>1. n # 0
    BY <1>1, <1>5, RootStarts
  <2>2. at(n).ascent \in 0 .. n - 1 /\ at(at(n).ascent).type # "endif"
    BY <1>1, <1>5, <2>1 DEF Linked
  <2>3. at(n).ascent \in Numbers /\ at(n).ascent < n /\ at(n).ascent # -1
    BY <1>1, <2>2, StatementType DEF Numbers
  <2>4. Path(n) = Path(at(n).ascent)
    BY <1>5, <2>2 DEF Path
  <2> QED BY <2>1, <2>2, <2>3, <2>4
<1>6. /\ SourceEnd \in Numbers /\ at(SourceEnd).type = "endif"
      /\ at(SourceEnd).sourcePosition = Highest
      /\ at(SourceEnd).descent = 0
  <2>1. SourceEnd # -1 /\ SourceEnd \in Numbers
    BY <1>1, <1>4, RootStarts DEF SourceEnd
  <2> QED BY <1>1, <2>1 DEF Linked
<1> QED BY <1>1, <1>2, <1>3, <1>4, <1>5, <1>6

(* Statements in the order of the source, but for those at its end.        *)
LEMMA PositionsOrdered ==
  ASSUME TypeOK, Ordered, NEW m \in Numbers, NEW n \in Numbers, m < n,
         at(m).type # "endif" \/ at(n).sourcePosition # Highest
  PROVE  at(m).sourcePosition < at(n).sourcePosition
<1>1. \/ at(m).sourcePosition < at(n).sourcePosition
      \/ at(m).sourcePosition = Highest /\ at(n).sourcePosition = Highest
  BY DEF Ordered
<1>2. at(m).sourcePosition = Highest => at(m).type = "endif"
  BY DEF Ordered
<1> QED BY <1>1, <1>2
-----------------------------------------------------------------------------
(* Each step of the traversal.                                             *)
LEMMA NavigateStep ==
  ASSUME IInv, NEW r \in Reset .. Len(source), Navigate(r)
  PROVE  IInv'
<1>1. /\ phase = "idle" /\ phase' = "ascend" /\ position' = r
      /\ ascent' = <<>> /\ descent' = <<>>
      /\ UNCHANGED <<tree, statement, search, open>>
  BY DEF Navigate
<1>2. PICK s, o : s = statement' /\ o = open'
  OBVIOUS
<1>3. TypeOK /\ statement \in Numbers /\ stack = <<>>
  BY <1>1, Scanned
<1>4. /\ TreeInv' /\ SourceEnd' = SourceEnd
  BY <1>1, <1>3, TreeSame
<1>5. /\ s = statement /\ o = open /\ s \in Numbers /\ at(s).type # "endif"
      /\ at(s).ascent # -1 /\ s # SourceEnd /\ o = Path(s)
  <2>1. current.type # "endif" /\ statement # SourceEnd
    BY <1>1 DEF IInv, NavigationInv
  <2>2. open = Path(statement)
    BY <1>1 DEF IInv, NavigationInv
  <2> QED BY <1>1, <1>2, <1>3, <2>1, <2>2, Scanned DEF current
<1>6. TypeOK'
  <2>1. {statement', low', high', target', i'} \subseteq Numbers
    BY <1>1, <1>3 DEF TypeOK, search
  <2>2. open' \in Seq(Seq(1 .. Highest)) /\ ascent' \in Seq(Numbers) /\ descent' \in Seq(Numbers)
    BY <1>1, <1>3 DEF TypeOK
  <2>3. at(statement').ascent # -1
    BY <1>2, <1>5
  <2> QED BY <1>1, <1>3, <2>1, <2>2, <2>3, TypeSame
<1>7. Walk(ascent)' /\ Reached(ascent)' = Path(statement)'
  <2>1. /\ Walk(ascent)' <=> WalkOf(<<>>, o, r)
        /\ Reached(ascent)' = ReachedOf(<<>>, o) /\ Path(statement)' = Path(s)
    BY <1>1, <1>2, NextOf
  <2> QED BY <1>5, <2>1 DEF WalkOf, ReachedOf
<1>8. NavigationInv' /\ SearchAround'
  BY <1>1, <1>2, <1>4, <1>5, <1>7 DEF NavigationInv, SearchAround
<1> QED BY <1>4, <1>6, <1>8 DEF IInv

LEMMA AscendStep ==
  ASSUME IInv, Ascend
  PROVE  IInv'
<1>0. PICK s, a, p, o, t, u : /\ s = statement /\ a = at(s).ascent /\ p = position
                              /\ o = open /\ t = ascent /\ u = ascent'
  OBVIOUS
<1>1. /\ phase = "ascend" /\ phase' = "ascend" /\ statement' = a
      /\ u = (IF at(a).sourcePosition > at(s).sourcePosition THEN Append(t, a) ELSE t)
      /\ (p >= at(a).sourcePosition \/ p < at(s).sourcePosition)
      /\ UNCHANGED <<tree, position, search, descent, open>>
  BY <1>0 DEF Ascend, Outside, current
<1>2. /\ TypeOK /\ Ordered /\ Linked /\ stack = <<>> /\ s \in Numbers /\ s \in Int
      /\ p \in Int /\ p >= Reset /\ p < Highest /\ s # SourceEnd
      /\ SourceEnd \in Numbers /\ at(SourceEnd).type = "endif"
      /\ at(SourceEnd).sourcePosition = Highest /\ at(SourceEnd).descent = 0
  BY <1>0, <1>1, Scanned DEF IInv, NavigationInv
<1>3. /\ WalkOf(t, o, p) /\ ReachedOf(t, o) = Path(s) /\ t \in Seq(Numbers) /\ descent = <<>>
  <2>1. Walk(ascent) /\ Reached(ascent) = Path(statement) /\ descent = <<>>
    BY <1>1 DEF IInv, NavigationInv
  <2> QED BY <1>0, <1>2, <2>1, NowOf DEF TypeOK
<1>4. /\ TreeInv' /\ SourceEnd' = SourceEnd
  BY <1>1, <1>2, TreeSame
<1>5. Highest \in Nat
  BY <1>2, SourceType
<1>6. /\ a \in Numbers /\ a # SourceEnd /\ at(a).ascent # -1 /\ u \in Seq(Numbers)
      /\ WalkOf(u, o, p) /\ ReachedOf(u, o) = Path(a)
  <2>1. CASE at(s).type # "endif"
    <3>1. a \in Numbers /\ a > s /\ at(a).descent = s /\ at(a).type # "if"
      BY <1>0, <1>1, <1>2, <2>1, Scanned
    <3>2. at(s).sourcePosition < at(a).sourcePosition
      BY <1>2, <2>1, <3>1, PositionsOrdered, StatementType
    <3>3. a # 0
      BY <1>2, <3>1 DEF Linked
    <3>4. a # SourceEnd
      <4> SUFFICES ASSUME a = SourceEnd
                   PROVE  FALSE
        OBVIOUS
      <4>1. s = 0 /\ at(a).sourcePosition = Highest
        BY <1>2, <3>1
      <4>2. at(s).sourcePosition = Lowest
        BY <1>2, <4>1 DEF Linked
      <4> QED BY <1>1, <1>2, <1>5, <4>1, <4>2 DEF Lowest, Reset
    <3>5. at(a).ascent # -1
      BY <1>1, <3>1, <3>4, Scanned
    <3>6. u = Append(t, a)
      <4>1. at(s).sourcePosition \in Int /\ at(a).sourcePosition \in Int
        BY <1>2, <3>1, StatementType
      <4> QED BY <1>1, <3>2, <4>1
    <3>7. /\ u \in Seq(Numbers) /\ Len(u) = Len(t) + 1 /\ Len(t) \in Nat
          /\ u[Len(t) + 1] = a /\ \A m \in 1 .. Len(t) : u[m] = t[m]
      <4>1. Len(t) \in Nat
        BY <1>3
      <4>2. /\ Append(t, a) \in Seq(Numbers) /\ Len(Append(t, a)) = Len(t) + 1
            /\ Append(t, a)[Len(t) + 1] = a
            /\ \A m \in 1 .. Len(t) : Append(t, a)[m] = t[m]
        BY <1>3, <3>1, AppendProperties
      <4> QED BY <3>6, <4>1, <4>2
    <3>8. ReachedOf(u, o) = Path(a)
      <4>1. Last(u) = a /\ u # <<>>
        BY <3>7 DEF Last
      <4> QED BY <4>1 DEF ReachedOf
    <3>9. ASSUME NEW m \in 1 .. Len(u)
          PROVE  /\ u[m] \in Numbers \ {0, SourceEnd}
                 /\ Path(at(u[m]).descent) = IF m = 1 THEN o ELSE Path(u[m - 1])
                 /\ at(u[m]).type # "if" =>
                      \/ p < at(at(u[m]).descent).sourcePosition
                      \/ p >= at(u[m]).sourcePosition
      <4>1. CASE m \in 1 .. Len(t)
        <5>1. u[m] = t[m] /\ (m # 1 => u[m - 1] = t[m - 1])
          BY <3>7, <4>1
        <5>2. /\ t[m] \in Numbers \ {0, SourceEnd}
              /\ Path(at(t[m]).descent) = IF m = 1 THEN o ELSE Path(t[m - 1])
              /\ at(t[m]).type # "if" =>
                   \/ p < at(at(t[m]).descent).sourcePosition
                   \/ p >= at(t[m]).sourcePosition
          BY <1>3, <4>1 DEF WalkOf
        <5> QED BY <5>1, <5>2
      <4>2. CASE m = Len(t) + 1
        <5>1. u[m] = a
          BY <3>7, <4>2
        <5>2. Path(s) = IF m = 1 THEN o ELSE Path(u[m - 1])
          <6>1. CASE t = <<>>
            BY <1>3, <4>2, <6>1 DEF ReachedOf
          <6>2. CASE t # <<>>
            <7>1. Len(t) # 0 /\ m # 1 /\ m - 1 = Len(t) /\ m - 1 \in 1 .. Len(t)
              BY <1>3, <3>7, <4>2, <6>2
            <7>2. u[m - 1] = Last(t)
              BY <3>7, <7>1 DEF Last
            <7> QED BY <1>3, <6>2, <7>1, <7>2 DEF ReachedOf
          <6> QED BY <6>1, <6>2
        <5> QED BY <1>1, <3>1, <3>3, <3>4, <5>1, <5>2
      <4> QED BY <3>7, <4>1, <4>2
    <3> QED BY <3>1, <3>4, <3>5, <3>7, <3>8, <3>9 DEF WalkOf
  <2>2. CASE at(s).type = "endif"
    <3>1. a \in Numbers /\ a < s /\ at(a).type # "endif" /\ Path(s) = Path(a)
      BY <1>0, <1>1, <1>2, <2>2, Scanned
    <3>2. at(a).ascent # -1 /\ a # SourceEnd
      BY <1>1, <1>2, <3>1, Scanned
    <3>3. at(a).sourcePosition < at(s).sourcePosition
      BY <1>2, <3>1, PositionsOrdered, StatementType
    <3>4. u = t
      <4>1. at(s).sourcePosition \in Int /\ at(a).sourcePosition \in Int
        BY <1>2, <3>1, StatementType
      <4> QED BY <1>1, <3>3, <4>1
    <3> QED BY <1>3, <3>1, <3>2, <3>4
  <2> QED BY <2>1, <2>2
<1>7. TypeOK'
  <2>1. {statement', low', high', target', i'} \subseteq Numbers
    BY <1>1, <1>2, <1>6 DEF TypeOK, search
  <2>2. /\ open' \in Seq(Seq(1 .. Highest)) /\ ascent' \in Seq(Numbers)
        /\ descent' \in Seq(Numbers) /\ position' \in Reset .. Len(source)
    BY <1>0, <1>1, <1>2, <1>6 DEF TypeOK
  <2>3. at(statement').ascent # -1
    BY <1>1, <1>6
  <2> QED BY <1>1, <1>2, <2>1, <2>2, <2>3, TypeSame
<1>8. Walk(ascent)' /\ Reached(ascent)' = Path(statement)'
  <2>1. /\ Walk(ascent)' <=> WalkOf(u, o, p)
        /\ Reached(ascent)' = ReachedOf(u, o) /\ Path(statement)' = Path(a)
    BY <1>0, <1>1, NextOf
  <2> QED BY <1>6, <2>1
<1>9. NavigationInv' /\ SearchAround'
  BY <1>1, <1>3, <1>4, <1>6, <1>8 DEF NavigationInv, SearchAround
<1> QED BY <1>4, <1>7, <1>9 DEF IInv
(* While the text and the place in the tree stay the same, so does what the*)
(* invariant says of them.                                                 *)
LEMMA TextSame ==
  ASSUME IInv, phase \notin {"scan", "close", "idle", "put"},
         UNCHANGED <<tree, statement, position, ascent, open>>
  PROVE  /\ Walk(ascent)' /\ Reached(ascent)' = Path(statement)'
         /\ statement' # SourceEnd' /\ current' = current
         /\ statement' \in Numbers /\ position' \in Reset .. Len(source)
         /\ ascent' \in Seq(Numbers) /\ open' \in Seq(Seq(1 .. Highest))
<1>1. /\ TypeOK /\ statement \in Numbers
  BY Scanned
<1>2. Walk(ascent) /\ Reached(ascent) = Path(statement) /\ statement # SourceEnd
  BY DEF IInv, NavigationInv, TypeOK
<1>3. current' = current /\ SourceEnd' = SourceEnd
  BY DEF current, at, SourceEnd, tree
<1>4. Walk(ascent)' /\ Reached(ascent)' = Path(statement)'
  <2>1. PICK s, p, t, o : s = statement' /\ p = position' /\ t = ascent' /\ o = open'
    OBVIOUS
  <2>2. s = statement /\ p = position /\ t = ascent /\ o = open
    BY <2>1
  <2>3. /\ Walk(ascent)' <=> WalkOf(t, o, p)
        /\ Reached(ascent)' = ReachedOf(t, o) /\ Path(statement)' = Path(s)
    BY <2>1, NextOf
  <2> QED BY <1>2, <2>2, <2>3, NowOf
<1> QED BY <1>1, <1>2, <1>3, <1>4 DEF TypeOK

LEMMA StartSearchStep ==
  ASSUME IInv, StartSearch
  PROVE  IInv'
<1>1. /\ phase = "ascend" /\ phase' = "search" /\ ~Outside
      /\ low' = statement /\ high' = current.ascent
      /\ UNCHANGED <<tree, statement, position, target, i, ascent, descent, open>>
  BY DEF StartSearch, text
<1>2. PICK s, a : s = statement /\ a = at(s).ascent
  OBVIOUS
<1>3. /\ TypeOK /\ Ordered /\ stack = <<>> /\ s \in Numbers /\ s \in Int
      /\ position \in Int /\ s # SourceEnd
  BY <1>1, <1>2, Scanned DEF IInv, NavigationInv
<1>4. current = at(s) /\ a = current.ascent /\ a # -1
  BY <1>1, <1>2, <1>3 DEF current, TypeOK
<1>5. a \in Numbers /\ at(s).sourcePosition \in Int /\ at(a).sourcePosition \in Int
  BY <1>2, <1>3, <1>4, StatementType
<1>6. at(s).sourcePosition <= position /\ position < at(a).sourcePosition
  BY <1>1, <1>3, <1>4, <1>5 DEF Outside
<1>7. at(s).type # "endif" /\ s < a
  <2>1. ASSUME at(s).type = "endif"
        PROVE  FALSE
    <3>1. a < s /\ at(a).type # "endif"
      BY <1>1, <1>2, <1>3, <2>1, Scanned
    <3>2. at(a).sourcePosition < at(s).sourcePosition
      BY <1>3, <1>5, <3>1, PositionsOrdered
    <3> QED BY <1>3, <1>5, <1>6, <3>2
  <2>2. at(s).type # "endif"
    BY <2>1
  <2> QED BY <1>1, <1>2, <1>3, <1>5, <2>2, Scanned, StatementType
<1>8. /\ TreeInv' /\ SourceEnd' = SourceEnd /\ \A x : at(x)' = at(x)
  BY <1>1, <1>3, TreeSame
<1>9. /\ Walk(ascent)' /\ Reached(ascent)' = Path(statement)'
      /\ statement' # SourceEnd' /\ current' = current
      /\ statement' \in Numbers /\ position' \in Reset .. Len(source)
      /\ ascent' \in Seq(Numbers) /\ open' \in Seq(Seq(1 .. Highest))
  BY <1>1, TextSame
<1>10. TypeOK'
  <2>1. {statement', low', high', target', i'} \subseteq Numbers
    BY <1>1, <1>2, <1>3, <1>4, <1>5, <1>9 DEF TypeOK
  <2>2. descent' \in Seq(Numbers)
    BY <1>1, <1>3 DEF TypeOK
  <2> QED BY <1>1, <1>3, <1>9, <2>1, <2>2, TypeSame
<1>11. low' = s /\ high' = a /\ at(low)' = at(s) /\ at(high)' = at(a)
  BY <1>1, <1>2, <1>4 DEF at, tree
<1>12. SearchAround'
  BY <1>1, <1>6, <1>7, <1>11 DEF SearchAround
<1>13. NavigationInv'
  <2>1. descent' = <<>>
    BY <1>1 DEF IInv, NavigationInv
  <2>2. statement' <= low' /\ high' <= current'.ascent
    BY <1>1, <1>2, <1>3, <1>4, <1>5, <1>9, <1>11, StatementType
  <2> QED BY <1>1, <1>4, <1>7, <1>9, <2>1, <2>2 DEF NavigationInv
<1> QED BY <1>8, <1>10, <1>12, <1>13 DEF IInv

LEMMA MiddleBetween ==
  ASSUME NEW l \in Int, NEW h \in Int, l < h
  PROVE  /\ (l + h) \div 2 \in Int /\ l <= (l + h) \div 2 /\ (l + h) \div 2 < h
         /\ (l + h) \div 2 = l => h = l + 1
OBVIOUS

LEMMA HalveStep ==
  ASSUME IInv, Halve
  PROVE  IInv'
<1>1. /\ phase = "search" /\ phase' = "search" /\ Middle > low
      /\ IF position < at(Middle).sourcePosition
         THEN high' = Middle /\ low' = low
         ELSE low' = Middle /\ high' = high
      /\ UNCHANGED <<tree, statement, position, target, i, ascent, descent, open>>
  BY DEF Halve, text
<1>2. PICK l, h, m : l = low /\ h = high /\ m = Middle
  OBVIOUS
<1>3. /\ TypeOK /\ stack = <<>> /\ position \in Int /\ l \in Numbers /\ h \in Numbers
      /\ l \in Int /\ h \in Int
  <2>1. TypeOK /\ stack = <<>> /\ position \in Int
    BY <1>1, Scanned
  <2>2. l \in Numbers /\ h \in Numbers
    BY <1>2, <2>1 DEF TypeOK
  <2>3. l \in Nat /\ h \in Nat
    BY <2>1, <2>2, StatementType
  <2> QED BY <2>1, <2>2, <2>3
<1>4. l < h /\ at(l).sourcePosition <= position /\ position < at(h).sourcePosition
  BY <1>1, <1>2 DEF IInv, SearchAround
<1>5. m \in Int /\ l <= m /\ m < h /\ l < m
  <2>1. m = (l + h) \div 2
    BY <1>2 DEF Middle
  <2> QED BY <1>1, <1>2, <1>3, <1>4, <2>1, MiddleBetween
<1>6. m \in Numbers
  BY <1>3, <1>5 DEF Numbers
<1>7. at(m).sourcePosition \in Int
  BY <1>3, <1>6, StatementType
<1>8. /\ TreeInv' /\ SourceEnd' = SourceEnd
  BY <1>1, <1>3, TreeSame
<1>9. /\ Walk(ascent)' /\ Reached(ascent)' = Path(statement)'
      /\ statement' # SourceEnd' /\ current' = current
      /\ statement' \in Numbers /\ position' \in Reset .. Len(source)
      /\ ascent' \in Seq(Numbers) /\ open' \in Seq(Seq(1 .. Highest))
  BY <1>1, TextSame
<1>10. PICK lo, hi : lo = low' /\ hi = high'
  OBVIOUS
<1>11. /\ lo \in Numbers /\ hi \in Numbers /\ lo < hi /\ l <= lo /\ hi <= h
       /\ at(lo).sourcePosition <= position /\ position < at(hi).sourcePosition
  <2>1. CASE position < at(m).sourcePosition
    <3>1. hi = m /\ lo = l
      BY <1>1, <1>2, <1>10, <2>1
    <3> QED BY <1>3, <1>4, <1>5, <1>6, <2>1, <3>1
  <2>2. CASE ~(position < at(m).sourcePosition)
    <3>1. lo = m /\ hi = h
      BY <1>1, <1>2, <1>10, <2>2
    <3> QED BY <1>3, <1>4, <1>5, <1>6, <1>7, <2>2, <3>1
  <2> QED BY <2>1, <2>2
<1>12. TypeOK'
  <2>1. {statement', low', high', target', i'} \subseteq Numbers
    BY <1>1, <1>3, <1>9, <1>10, <1>11 DEF TypeOK
  <2>2. descent' \in Seq(Numbers)
    BY <1>1, <1>3 DEF TypeOK
  <2> QED BY <1>1, <1>3, <1>9, <2>1, <2>2, TypeSame
<1>13. SearchAround'
  <2>1. at(low)' = at(lo) /\ at(high)' = at(hi)
    BY <1>1, <1>10 DEF at, tree
  <2> QED BY <1>1, <1>10, <1>11, <2>1 DEF SearchAround
<1>14. NavigationInv'
  <2>1. descent' = <<>> /\ current.type # "endif" /\ statement <= low /\ high <= current.ascent
    BY <1>1 DEF IInv, NavigationInv
  <2>2. statement' <= low' /\ high' <= current'.ascent
    <3>1. statement \in Int /\ current.ascent \in Int /\ lo \in Int /\ hi \in Int
      BY <1>1, <1>3, <1>11, Scanned, StatementType DEF current
    <3> QED BY <1>1, <1>2, <1>3, <1>9, <1>10, <1>11, <2>1, <3>1
  <2> QED BY <1>1, <1>9, <2>1, <2>2 DEF NavigationInv
<1> QED BY <1>8, <1>12, <1>13, <1>14 DEF IInv
LEMMA FoundStep ==
  ASSUME IInv, Found
  PROVE  IInv'
<1>1. /\ phase = "search" /\ phase' = "leave" /\ Middle = low /\ target' = Middle
      /\ UNCHANGED <<tree, statement, position, low, high, i, ascent, descent, open>>
  BY DEF Found, text
<1>2. PICK s, l, h, p : s = statement /\ l = low /\ h = high /\ p = position
  OBVIOUS
<1>3. /\ TypeOK /\ PathsLast /\ stack = <<>> /\ p \in Int /\ p \in Reset .. Len(source)
      /\ l \in Numbers /\ h \in Numbers /\ s \in Numbers
  <2>1. TypeOK /\ PathsLast /\ stack = <<>> /\ p \in Int /\ p \in Reset .. Len(source)
    BY <1>1, <1>2, Scanned
  <2> QED BY <1>2, <2>1 DEF TypeOK
<1>4. l \in Nat /\ h \in Nat /\ s \in Nat
  BY <1>3, StatementType
<1>5. /\ l < h /\ at(l).sourcePosition <= p /\ p < at(h).sourcePosition
      /\ s <= l /\ h <= at(s).ascent /\ current.type # "endif" /\ descent = <<>>
  BY <1>1, <1>2 DEF IInv, SearchAround, NavigationInv, current
<1>6. h = l + 1 /\ target' = l
  <2>1. (l + h) \div 2 = l
    BY <1>1, <1>2 DEF Middle
  <2> QED BY <1>1, <1>2, <1>4, <1>5, <2>1, MiddleBetween
<1>7. Path(l) = Conditions(p)
  BY <1>3, <1>5, <1>6 DEF PathsLast
<1>8. AtTargetOf(s, l, p)
  <2>1. at(s).ascent \in Int
    BY <1>3, StatementType
  <2> QED BY <1>4, <1>5, <1>7, <2>1 DEF AtTargetOf
<1>9. /\ TreeInv' /\ SourceEnd' = SourceEnd
  BY <1>1, <1>3, TreeSame
<1>10. /\ Walk(ascent)' /\ Reached(ascent)' = Path(statement)'
       /\ statement' # SourceEnd' /\ current' = current
       /\ statement' \in Numbers /\ position' \in Reset .. Len(source)
       /\ ascent' \in Seq(Numbers) /\ open' \in Seq(Seq(1 .. Highest))
  BY <1>1, TextSame
<1>11. TypeOK'
  <2>1. {statement', low', high', target', i'} \subseteq Numbers
    BY <1>1, <1>3, <1>6, <1>10 DEF TypeOK
  <2>2. descent' \in Seq(Numbers)
    BY <1>1, <1>3 DEF TypeOK
  <2> QED BY <1>1, <1>3, <1>10, <2>1, <2>2, TypeSame
<1>12. AtTarget'
  <2>1. s = statement' /\ p = position' /\ l = target'
    BY <1>1, <1>2, <1>6
  <2>2. PICK t, o, e, j : t = ascent' /\ o = open' /\ e = descent' /\ j = i'
    OBVIOUS
  <2>3. AtTarget' <=> AtTargetOf(s, l, p)
    BY <1>1, <2>1, <2>2, NextOf
  <2> QED BY <1>8, <2>3
<1>13. NavigationInv' /\ SearchAround'
  BY <1>1, <1>5, <1>10, <1>12 DEF NavigationInv, SearchAround
<1> QED BY <1>9, <1>11, <1>13 DEF IInv

(* What is known of the target that the search has found.                  *)
LEMMA TargetFacts ==
  ASSUME IInv, phase \in {"leave", "descend"},
         NEW s, s = statement, NEW g, g = target, NEW p, p = position
  PROVE  /\ TypeOK /\ Ordered /\ Linked /\ Nested /\ stack = <<>>
         /\ s \in Numbers /\ g \in Numbers /\ s \in Nat /\ g \in Nat /\ p \in Int
         /\ at(s).type # "endif" /\ at(s).ascent \in Int
         /\ g >= s /\ g < at(s).ascent
         /\ at(g).sourcePosition <= p /\ Path(g) = Conditions(p)
         /\ p < Highest /\ Highest \in Nat /\ at(g).sourcePosition # Highest
         /\ g # SourceEnd
<1>1. /\ TypeOK /\ Ordered /\ Linked /\ Nested /\ stack = <<>> /\ p \in Int /\ p < Highest
      /\ at(SourceEnd).sourcePosition = Highest
  BY Scanned
<1>2. s \in Numbers /\ g \in Numbers
  BY <1>1 DEF TypeOK
<1>3. s \in Nat /\ g \in Nat /\ at(s).ascent \in Int /\ at(g).sourcePosition \in Int
      /\ Highest \in Nat
  BY <1>1, <1>2, StatementType, SourceType
<1>4. /\ g >= s /\ g < at(s).ascent
      /\ at(g).sourcePosition <= p /\ Path(g) = Conditions(p) /\ at(s).type # "endif"
  BY DEF IInv, NavigationInv, AtTarget, current
<1>5. at(g).sourcePosition # Highest
  BY <1>1, <1>3, <1>4
<1> QED BY <1>1, <1>2, <1>3, <1>4, <1>5

LEMMA LeaveEndedStep ==
  ASSUME IInv, LeaveEnded
  PROVE  IInv'
<1>1. /\ phase = "leave" /\ phase' = "leave"
      /\ at(target).type = "endif" /\ target' = at(target).ascent
      /\ UNCHANGED <<tree, statement, position, low, high, i, ascent, descent, open>>
  BY DEF LeaveEnded, text
<1>2. PICK s, g, p, a : /\ s = statement /\ g = target /\ p = position
                        /\ a = at(g).ascent
  OBVIOUS
<1>3. /\ TypeOK /\ Ordered /\ Linked /\ Nested /\ stack = <<>>
      /\ s \in Numbers /\ g \in Numbers /\ s \in Nat /\ g \in Nat /\ p \in Int
      /\ at(s).type # "endif" /\ at(s).ascent \in Int
      /\ g >= s /\ g < at(s).ascent
      /\ at(g).sourcePosition <= p /\ Path(g) = Conditions(p)
      /\ at(g).sourcePosition # Highest /\ g # SourceEnd
  BY <1>1, <1>2, TargetFacts
<1>4. /\ at(g).type = "endif" /\ target' = a
  BY <1>1, <1>2
<1>5. /\ a \in Numbers /\ a < g /\ at(a).type # "endif" /\ Path(g) = Path(a)
  BY <1>1, <1>2, <1>3, <1>4, Scanned
<1>6. a \in Nat /\ at(a).sourcePosition \in Int /\ at(g).sourcePosition \in Int
  BY <1>3, <1>5, StatementType
<1>7. a >= s
  <2>1. s < g
    BY <1>3, <1>4
  <2> QED BY <1>2, <1>3, <1>4, <2>1 DEF Nested
<1>8. at(a).sourcePosition < at(g).sourcePosition
  BY <1>3, <1>5, PositionsOrdered
<1>9. AtTargetOf(s, a, p)
  BY <1>3, <1>5, <1>6, <1>7, <1>8 DEF AtTargetOf
<1>10. /\ TreeInv' /\ SourceEnd' = SourceEnd
  BY <1>1, <1>3, TreeSame
<1>11. /\ Walk(ascent)' /\ Reached(ascent)' = Path(statement)'
       /\ statement' # SourceEnd' /\ current' = current
       /\ statement' \in Numbers /\ position' \in Reset .. Len(source)
       /\ ascent' \in Seq(Numbers) /\ open' \in Seq(Seq(1 .. Highest))
  BY <1>1, TextSame
<1>12. TypeOK'
  <2>1. {statement', low', high', target', i'} \subseteq Numbers
    BY <1>1, <1>3, <1>4, <1>5, <1>11 DEF TypeOK
  <2>2. descent' \in Seq(Numbers)
    BY <1>1, <1>3 DEF TypeOK
  <2> QED BY <1>1, <1>3, <1>11, <2>1, <2>2, TypeSame
<1>13. AtTarget'
  <2>1. s = statement' /\ p = position' /\ a = target'
    BY <1>1, <1>2
  <2>2. PICK t, o, e, j : t = ascent' /\ o = open' /\ e = descent' /\ j = i'
    OBVIOUS
  <2>3. AtTarget' <=> AtTargetOf(s, a, p)
    BY <1>1, <2>1, <2>2, NextOf
  <2> QED BY <1>9, <2>3
<1>14. NavigationInv' /\ SearchAround'
  <2>1. descent = <<>> /\ current.type # "endif"
    BY <1>1 DEF IInv, NavigationInv
  <2> QED BY <1>1, <1>11, <1>13, <2>1 DEF NavigationInv, SearchAround
<1> QED BY <1>10, <1>12, <1>14 DEF IInv

LEMMA StartDescentStep ==
  ASSUME IInv, StartDescent
  PROVE  IInv'
<1>1. /\ phase = "leave" /\ phase' = "descend"
      /\ at(target).type # "endif" /\ i' = target
      /\ UNCHANGED <<tree, statement, position, low, high, target, ascent, descent, open>>
  BY DEF StartDescent, text
<1>2. PICK s, g, p : s = statement /\ g = target /\ p = position
  OBVIOUS
<1>3. /\ TypeOK /\ stack = <<>>
      /\ s \in Numbers /\ g \in Numbers /\ s \in Nat /\ g \in Nat
      /\ g >= s /\ g < at(s).ascent
      /\ at(g).sourcePosition <= p /\ Path(g) = Conditions(p)
  BY <1>1, <1>2, TargetFacts
<1>4. /\ TreeInv' /\ SourceEnd' = SourceEnd
  BY <1>1, <1>3, TreeSame
<1>5. /\ Walk(ascent)' /\ Reached(ascent)' = Path(statement)'
      /\ statement' # SourceEnd' /\ current' = current
      /\ statement' \in Numbers /\ position' \in Reset .. Len(source)
      /\ ascent' \in Seq(Numbers) /\ open' \in Seq(Seq(1 .. Highest))
  BY <1>1, TextSame
<1>6. TypeOK'
  <2>1. {statement', low', high', target', i'} \subseteq Numbers
    BY <1>1, <1>2, <1>3, <1>5 DEF TypeOK
  <2>2. descent' \in Seq(Numbers)
    BY <1>1, <1>3 DEF TypeOK
  <2> QED BY <1>1, <1>3, <1>5, <2>1, <2>2, TypeSame
<1>7. descent = <<>> /\ current.type # "endif"
  BY <1>1 DEF IInv, NavigationInv
<1>8. AtTarget' /\ Chain' /\ at(target)'.type # "endif" /\ i' \in statement' .. target'
  <2>1. s = statement' /\ p = position' /\ g = target' /\ g = i' /\ <<>> = descent'
    BY <1>1, <1>2, <1>7
  <2>2. PICK t, o : t = ascent' /\ o = open'
    OBVIOUS
  <2>3. /\ AtTarget' <=> AtTargetOf(s, g, p)
        /\ Chain' <=> ChainOf(<<>>, s, g, g)
        /\ at(target)' = at(g)
    BY <1>1, <2>1, <2>2, NextOf
  <2>4. AtTargetOf(s, g, p) /\ ChainOf(<<>>, s, g, g)
    BY <1>3 DEF AtTargetOf, ChainOf
  <2>5. g \in s .. g
    BY <1>3
  <2> QED BY <1>1, <1>2, <2>1, <2>3, <2>4, <2>5
<1>9. NavigationInv' /\ SearchAround'
  BY <1>1, <1>5, <1>7, <1>8 DEF NavigationInv, SearchAround
<1> QED BY <1>4, <1>6, <1>9 DEF IInv
LEMMA ConsFacts ==
  ASSUME NEW S, NEW x \in S, NEW e \in Seq(S)
  PROVE  /\ <<x>> \o e \in Seq(S) /\ Len(<<x>> \o e) = Len(e) + 1
         /\ (<<x>> \o e)[1] = x
         /\ \A m \in 2 .. Len(e) + 1 : (<<x>> \o e)[m] = e[m - 1]
<1>1. <<x>> \in Seq(S) /\ Len(<<x>>) = 1 /\ <<x>>[1] = x /\ Len(e) \in Nat
  OBVIOUS
<1>2. /\ <<x>> \o e \in Seq(S) /\ Len(<<x>> \o e) = Len(<<x>>) + Len(e)
      /\ \A m \in 1 .. Len(<<x>>) + Len(e) :
           (<<x>> \o e)[m] = IF m <= Len(<<x>>) THEN <<x>>[m] ELSE e[m - Len(<<x>>)]
  BY <1>1, ConcatProperties
<1>3. /\ Len(<<x>> \o e) = 1 + Len(e)
      /\ \A m \in 1 .. 1 + Len(e) : (<<x>> \o e)[m] = IF m <= 1 THEN <<x>>[m] ELSE e[m - 1]
  BY <1>1, <1>2
<1>4. (<<x>> \o e)[1] = x
  BY <1>1, <1>3
<1>5. \A m \in 2 .. Len(e) + 1 : (<<x>> \o e)[m] = e[m - 1]
  BY <1>1, <1>3
<1> QED BY <1>1, <1>2, <1>3, <1>4, <1>5

LEMMA DescendStep ==
  ASSUME IInv, Descend
  PROVE  IInv'
<1>0. PICK s, g, p, j, e, f, k : /\ s = statement /\ g = target /\ p = position /\ j = i
                                 /\ e = descent /\ f = descent' /\ k = at(j).descent
  OBVIOUS
<1>1. /\ phase = "descend" /\ phase' = "descend" /\ j # s /\ f = <<j>> \o e /\ i' = k
      /\ UNCHANGED <<tree, statement, position, low, high, target, ascent, open>>
  BY <1>0 DEF Descend
<1>2. /\ TypeOK /\ Linked /\ Nested /\ stack = <<>>
      /\ s \in Numbers /\ g \in Numbers /\ s \in Nat /\ g \in Nat
      /\ at(s).type # "endif" /\ at(s).ascent \in Int
      /\ g >= s /\ g < at(s).ascent
      /\ at(g).sourcePosition <= p /\ Path(g) = Conditions(p)
  BY <1>0, <1>1, TargetFacts
<1>3. /\ at(g).type # "endif" /\ j \in s .. g /\ ChainOf(e, s, g, j)
      /\ AtTargetOf(s, g, p)
  <2>1. at(target).type # "endif" /\ i \in statement .. target /\ Chain /\ AtTarget
    BY <1>1 DEF IInv, NavigationInv
  <2> QED BY <1>0, <2>1, NowOf
<1>4. e \in Seq(Numbers) /\ j \in Numbers
  BY <1>0, <1>2 DEF TypeOK
<1>5. j \in Nat /\ j > s /\ j <= g /\ j # 0
  BY <1>1, <1>2, <1>3
<1>6. k \in Numbers /\ k \in s .. g
  <2>1. k \in 0 .. j - 1
    BY <1>0, <1>2, <1>4, <1>5 DEF Linked
  <2>2. k >= s
    <3>1. s < j /\ j < at(s).ascent
      BY <1>2, <1>5
    <3> QED BY <1>0, <1>2, <1>4, <3>1 DEF Nested
  <2>3. k \in Nat /\ k <= g /\ k < Len(statements) /\ Len(statements) \in Nat
    BY <1>2, <1>4, <1>5, <2>1, StatementType
  <2> QED BY <1>2, <2>2, <2>3 DEF Numbers
<1>7. /\ f \in Seq(Numbers) /\ Len(f) = Len(e) + 1 /\ Len(e) \in Nat /\ f[1] = j
      /\ \A m \in 2 .. Len(e) + 1 : f[m] = e[m - 1]
  BY <1>1, <1>4, ConsFacts
<1>8. ChainOf(f, s, g, k)
  <2>1. ASSUME NEW m \in 1 .. Len(f)
        PROVE  f[m] \in s + 1 .. g /\ at(f[m]).descent = IF m = 1 THEN k ELSE f[m - 1]
    <3>1. CASE m = 1
      BY <1>0, <1>2, <1>5, <1>7, <3>1
    <3>2. CASE m # 1
      <4>1. m \in 2 .. Len(e) + 1 /\ m - 1 \in 1 .. Len(e)
        BY <1>7, <3>2
      <4>2. f[m] = e[m - 1]
        BY <1>7, <4>1
      <4>3. e[m - 1] \in s + 1 .. g /\ at(e[m - 1]).descent = IF m - 1 = 1 THEN j ELSE e[m - 1 - 1]
        BY <1>3, <4>1 DEF ChainOf
      <4>4. f[m - 1] = IF m - 1 = 1 THEN j ELSE e[m - 1 - 1]
        <5>1. CASE m - 1 = 1
          BY <1>7, <5>1
        <5>2. CASE m - 1 # 1
          <6>1. m - 1 \in 2 .. Len(e) + 1
            BY <1>7, <4>1, <5>2
          <6> QED BY <1>7, <5>2, <6>1
        <5> QED BY <5>1, <5>2
      <4> QED BY <3>2, <4>2, <4>3, <4>4
    <3> QED BY <3>1, <3>2
  <2>2. f # <<>> /\ g = Last(f)
    <3>1. Last(f) = f[Len(e) + 1] /\ f # <<>>
      BY <1>7 DEF Last
    <3>2. CASE e = <<>>
      <4>1. Len(e) = 0 /\ g = j
        BY <1>3, <3>2 DEF ChainOf
      <4> QED BY <1>7, <3>1, <4>1
    <3>3. CASE e # <<>>
      <4>1. g = Last(e)
        BY <1>3, <3>3 DEF ChainOf
      <4>2. Len(e) >= 1
        BY <1>4, <3>3
      <4>3. Len(e) + 1 \in 2 .. Len(e) + 1
        BY <1>7, <4>2
      <4>4. f[Len(e) + 1] = e[Len(e) + 1 - 1] /\ Len(e) + 1 - 1 = Len(e)
        BY <1>7, <4>3
      <4> QED BY <3>1, <4>1, <4>4 DEF Last
    <3> QED BY <3>1, <3>2, <3>3
  <2> QED BY <2>1, <2>2 DEF ChainOf
<1>9. /\ TreeInv' /\ SourceEnd' = SourceEnd
  BY <1>1, <1>2, TreeSame
<1>10. /\ Walk(ascent)' /\ Reached(ascent)' = Path(statement)'
       /\ statement' # SourceEnd' /\ current' = current
       /\ statement' \in Numbers /\ position' \in Reset .. Len(source)
       /\ ascent' \in Seq(Numbers) /\ open' \in Seq(Seq(1 .. Highest))
  BY <1>1, TextSame
<1>11. TypeOK'
  <2>1. {statement', low', high', target', i'} \subseteq Numbers
    BY <1>1, <1>2, <1>6, <1>10 DEF TypeOK
  <2>2. descent' \in Seq(Numbers)
    BY <1>0, <1>7
  <2> QED BY <1>1, <1>2, <1>10, <2>1, <2>2, TypeSame
<1>12. AtTarget' /\ Chain' /\ at(target)'.type # "endif" /\ i' \in statement' .. target'
  <2>1. s = statement' /\ p = position' /\ g = target' /\ k = i' /\ f = descent'
    BY <1>0, <1>1
  <2>2. PICK t, o : t = ascent' /\ o = open'
    OBVIOUS
  <2>3. /\ AtTarget' <=> AtTargetOf(s, g, p)
        /\ Chain' <=> ChainOf(f, s, g, k)
        /\ at(target)' = at(g)
    BY <1>1, <2>1, <2>2, NextOf
  <2> QED BY <1>3, <1>6, <1>8, <2>1, <2>3
<1>13. NavigationInv' /\ SearchAround'
  <2>1. current.type # "endif"
    BY <1>1 DEF IInv, NavigationInv
  <2> QED BY <1>1, <1>10, <1>12, <2>1 DEF NavigationInv, SearchAround
<1> QED BY <1>9, <1>11, <1>13 DEF IInv
(* The way down follows the way up.                                        *)
LEMMA WalkBoth ==
  ASSUME NEW S, NEW t \in Seq(S), NEW e \in Seq(S), NEW o, NEW p, NEW s, NEW g,
         WalkOf(t, o, p), ReachedOf(t, o) = Path(s), ChainOf(e, s, g, s),
         \A x \in s + 1 .. g :
           x \in Numbers \ {0, SourceEnd} /\ p >= at(x).sourcePosition
  PROVE  /\ t \o e \in Seq(S) /\ WalkOf(t \o e, o, p)
         /\ ReachedOf(t \o e, o) = Path(g)
<1>0. PICK w, n, k : w = t \o e /\ n = Len(t) /\ k = Len(e)
  OBVIOUS
<1>1. n \in Nat /\ k \in Nat
  BY <1>0
<1>2. /\ w \in Seq(S) /\ Len(w) = n + k
      /\ \A m \in 1 .. n + k : w[m] = IF m <= n THEN t[m] ELSE e[m - n]
  BY <1>0, ConcatProperties
<1>3. \A m \in 1 .. n : w[m] = t[m]
  BY <1>1, <1>2
<1>4. \A m \in 1 .. k : w[n + m] = e[m]
  <2> SUFFICES ASSUME NEW m \in 1 .. k
               PROVE  w[n + m] = e[m]
    OBVIOUS
  <2>1. PICK r : r = n + m
    OBVIOUS
  <2>2. r \in 1 .. n + k /\ ~(r <= n) /\ r - n = m
    BY <1>1, <2>1
  <2>3. w[r] = e[r - n]
    BY <1>2, <2>2
  <2> QED BY <2>1, <2>2, <2>3
<1>5. \A m \in 1 .. k : e[m] \in s + 1 .. g /\ at(e[m]).descent = IF m = 1 THEN s ELSE e[m - 1]
  BY <1>0 DEF ChainOf
<1>6. n # 0 => t # <<>> /\ Path(t[n]) = Path(s)
  <2> SUFFICES ASSUME n # 0
               PROVE  t # <<>> /\ Path(t[n]) = Path(s)
    OBVIOUS
  <2>1. t # <<>> /\ Last(t) = t[n]
    BY <1>0 DEF Last
  <2> QED BY <2>1 DEF ReachedOf
<1>7. n = 0 => t = <<>> /\ o = Path(s)
  <2> SUFFICES ASSUME n = 0
               PROVE  t = <<>> /\ o = Path(s)
    OBVIOUS
  <2>1. t = <<>>
    BY <1>0
  <2> QED BY <2>1 DEF ReachedOf
<1>8. ASSUME NEW m \in 1 .. Len(w)
      PROVE  /\ w[m] \in Numbers \ {0, SourceEnd}
             /\ Path(at(w[m]).descent) = IF m = 1 THEN o ELSE Path(w[m - 1])
             /\ at(w[m]).type # "if" => \/ p < at(at(w[m]).descent).sourcePosition
                                        \/ p >= at(w[m]).sourcePosition
  <2>1. CASE m \in 1 .. n
    <3>1. w[m] = t[m] /\ (m # 1 => w[m - 1] = t[m - 1])
      BY <1>1, <1>3, <2>1
    <3>2. /\ t[m] \in Numbers \ {0, SourceEnd}
          /\ Path(at(t[m]).descent) = IF m = 1 THEN o ELSE Path(t[m - 1])
          /\ at(t[m]).type # "if" => \/ p < at(at(t[m]).descent).sourcePosition
                                     \/ p >= at(t[m]).sourcePosition
      BY <1>0, <2>1 DEF WalkOf
    <3> QED BY <3>1, <3>2
  <2>2. CASE m \notin 1 .. n
    <3>1. PICK r : r = m - n
      OBVIOUS
    <3>2. r \in 1 .. k /\ m = n + r
      BY <1>1, <1>2, <2>2, <3>1
    <3>3. w[m] = e[r] /\ e[r] \in s + 1 .. g
      BY <1>4, <1>5, <3>2
    <3>4. Path(at(e[r]).descent) = IF m = 1 THEN o ELSE Path(w[m - 1])
      <4>1. CASE r = 1
        <5>1. at(e[r]).descent = s
          BY <1>5, <3>2, <4>1
        <5>2. CASE n = 0
          BY <1>7, <3>2, <4>1, <5>1, <5>2
        <5>3. CASE n # 0
          <6>1. m # 1 /\ m - 1 = n /\ n \in 1 .. n
            BY <1>1, <3>2, <4>1, <5>3
          <6>2. w[m - 1] = t[n]
            BY <1>3, <6>1
          <6> QED BY <1>6, <5>1, <5>3, <6>1, <6>2
        <5> QED BY <5>2, <5>3
      <4>2. CASE r # 1
        <5>1. at(e[r]).descent = e[r - 1]
          BY <1>5, <3>2, <4>2
        <5>2. m # 1 /\ m - 1 = n + (r - 1) /\ r - 1 \in 1 .. k
          BY <1>1, <3>2, <4>2
        <5>3. w[m - 1] = e[r - 1]
          BY <1>4, <5>2
        <5> QED BY <5>1, <5>2, <5>3
      <4> QED BY <4>1, <4>2
    <3> QED BY <3>3, <3>4
  <2> QED BY <2>1, <2>2
<1>9. ReachedOf(w, o) = Path(g)
  <2>1. CASE k = 0
    <3>1. e = <<>> /\ g = s
      <4>1. e \in Seq(S) /\ Len(e) = 0
        BY <1>0, <2>1
      <4>2. e = <<>>
        BY ONLY <4>1
      <4> QED BY <4>2 DEF ChainOf
    <3>2. n = 0 => w = <<>>
      BY <1>2, <2>1
    <3>3. n # 0 => w # <<>> /\ Last(w) = t[n]
      <4> SUFFICES ASSUME n # 0
                   PROVE  w # <<>> /\ Last(w) = t[n]
        OBVIOUS
      <4>1. Len(w) = n /\ n \in 1 .. n
        BY <1>1, <1>2, <2>1
      <4>2. w[n] = t[n]
        BY <1>3, <4>1
      <4>3. w # <<>>
        BY <4>1
      <4> QED BY <4>1, <4>2, <4>3 DEF Last
    <3> QED BY <1>6, <1>7, <3>1, <3>2, <3>3 DEF ReachedOf
  <2>2. CASE k # 0
    <3>1. g = e[k]
      <4>1. e # <<>>
        BY <1>0, <2>2
      <4> QED BY <1>0, <4>1 DEF ChainOf, Last
    <3>2. w[n + k] = e[k]
      BY <1>1, <1>4, <2>2
    <3>3. w # <<>> /\ Last(w) = w[n + k]
      <4>1. Len(w) = n + k /\ n + k # 0
        BY <1>1, <1>2, <2>2
      <4>2. w # <<>>
        BY <4>1
      <4> QED BY <4>1, <4>2 DEF Last
    <3> QED BY <3>1, <3>2, <3>3 DEF ReachedOf
  <2> QED BY <2>1, <2>2
<1>10. WalkOf(w, o, p)
  BY <1>8 DEF WalkOf
<1> QED BY <1>0, <1>2, <1>9, <1>10

LEMMA ReturnStep ==
  ASSUME IInv, Return
  PROVE  IInv'
<1>0. PICK s, g, p, t, e, o, w : /\ s = statement /\ g = target /\ p = position /\ t = ascent
                                 /\ e = descent /\ o = open /\ w = ascent'
  OBVIOUS
<1>1. /\ phase = "descend" /\ phase' = "put" /\ i = s /\ w = t \o e /\ statement' = g
      /\ low' = 0 /\ high' = 0 /\ target' = 0 /\ i' = 0
      /\ UNCHANGED <<tree, position, descent, open>>
  BY <1>0 DEF Return
<1>2. /\ TypeOK /\ Ordered /\ Linked /\ stack = <<>>
      /\ s \in Numbers /\ g \in Numbers /\ s \in Nat /\ g \in Nat /\ p \in Int
      /\ g >= s /\ at(g).sourcePosition <= p /\ Path(g) = Conditions(p)
      /\ at(g).sourcePosition # Highest /\ g # SourceEnd
      /\ p < Highest /\ Highest \in Nat
  BY <1>0, <1>1, TargetFacts
<1>3. at(g).type # "endif" /\ ChainOf(e, s, g, s) /\ WalkOf(t, o, p) /\ ReachedOf(t, o) = Path(s)
  <2>1. /\ at(target).type # "endif" /\ Chain /\ Walk(ascent)
        /\ Reached(ascent) = Path(statement)
    BY <1>1 DEF IInv, NavigationInv
  <2> QED BY <1>0, <1>1, <2>1, NowOf
<1>4. t \in Seq(Numbers) /\ e \in Seq(Numbers)
  BY <1>0, <1>2 DEF TypeOK
<1>5. /\ at(SourceEnd).sourcePosition = Highest /\ SourceEnd \in Numbers
  BY <1>1, Scanned
<1>6. ASSUME NEW x \in s + 1 .. g
      PROVE  x \in Numbers \ {0, SourceEnd} /\ p >= at(x).sourcePosition
  <2>1. x \in Numbers /\ x # 0 /\ x \in Nat /\ x <= g
    <3>1. g < Len(statements) /\ Len(statements) \in Nat
      BY <1>2, StatementType
    <3> QED BY <1>2, <3>1 DEF Numbers
  <2>2. at(x).sourcePosition \in Int /\ at(g).sourcePosition \in Int
    BY <1>2, <2>1, StatementType
  <2>3. x # g => at(x).sourcePosition < at(g).sourcePosition
    BY <1>2, <2>1, PositionsOrdered
  <2>4. at(x).sourcePosition <= p
    BY <1>2, <2>2, <2>3
  <2>5. x # SourceEnd
    BY <1>2, <1>5, <2>4
  <2> QED BY <1>2, <2>1, <2>2, <2>4, <2>5
<1>7. w \in Seq(Numbers) /\ WalkOf(w, o, p) /\ ReachedOf(w, o) = Path(g)
  BY <1>1, <1>3, <1>4, <1>6, WalkBoth
<1>8. /\ TreeInv' /\ SourceEnd' = SourceEnd
  BY <1>1, <1>2, TreeSame
<1>9. 0 \in Numbers
  BY <1>2, RootStarts
<1>10. TypeOK'
  <2>1. {statement', low', high', target', i'} \subseteq Numbers
    BY <1>1, <1>2, <1>9
  <2>2. /\ position' \in Reset .. Len(source) /\ ascent' \in Seq(Numbers)
        /\ descent' \in Seq(Numbers) /\ open' \in Seq(Seq(1 .. Highest))
    BY <1>0, <1>1, <1>2, <1>7 DEF TypeOK
  <2> QED BY <1>1, <1>2, <2>1, <2>2, TypeSame
<1>11. NavigationInv' /\ SearchAround'
  <2>1. g = statement' /\ p = position' /\ w = ascent' /\ o = open'
    BY <1>0, <1>1
  <2>2. PICK f, h, j : f = descent' /\ h = target' /\ j = i'
    OBVIOUS
  <2>3. /\ Walk(ascent)' <=> WalkOf(w, o, p)
        /\ Reached(ascent)' = ReachedOf(w, o)
        /\ current' = at(g)
        /\ Path(statement)' = Path(g) /\ Conditions(position)' = Conditions(p)
    BY <1>1, <2>1, <2>2, NextOf
  <2> QED BY <1>1, <1>2, <1>3, <1>7, <1>8, <2>1, <2>3 DEF NavigationInv, SearchAround
<1> QED BY <1>8, <1>10, <1>11 DEF IInv
LEMMA TailFacts ==
  ASSUME NEW S, NEW t \in Seq(S), t # <<>>
  PROVE  /\ Len(t) \in Nat /\ Len(t) >= 1 /\ Head(t) = t[1] /\ t[1] \in S
         /\ Tail(t) \in Seq(S) /\ Len(Tail(t)) = Len(t) - 1
         /\ \A m \in 1 .. Len(t) - 1 : Tail(t)[m] = t[m + 1]
BY HeadTailProperties

(* The first directive put out makes the conditions after it.              *)
LEMMA FirstPut ==
  ASSUME IInv, phase = "put", NEW t, t = ascent, t # <<>>, NEW h, h = t[1],
         NEW o, o = open, NEW p, p = position
  PROVE  /\ TypeOK /\ stack = <<>> /\ t \in Seq(Numbers) /\ Len(t) \in Nat /\ Len(t) >= 1
         /\ h \in Numbers \ {0, SourceEnd} /\ at(h).descent \in Numbers
         /\ o = Path(at(h).descent) /\ Path(h) = After(o, at(h).type, at(h).sourcePosition)
         /\ at(h).type # "if" => \/ p < at(at(h).descent).sourcePosition
                                 \/ p >= at(h).sourcePosition
         /\ WalkOf(t, o, p)
<1>1. TypeOK /\ PathsFollow /\ Linked /\ stack = <<>>
  BY Scanned
<1>2. t \in Seq(Numbers) /\ Len(t) \in Nat /\ Len(t) >= 1
  <2>1. t \in Seq(Numbers)
    BY <1>1 DEF TypeOK
  <2> QED BY <2>1, TailFacts
<1>3. WalkOf(t, o, p)
  <2>1. Walk(ascent)
    BY DEF IInv, NavigationInv
  <2> QED BY <2>1, NowOf
<1>4. 1 \in 1 .. Len(t)
  BY <1>2
<1>5. /\ h \in Numbers \ {0, SourceEnd} /\ Path(at(h).descent) = o
      /\ at(h).type # "if" => \/ p < at(at(h).descent).sourcePosition
                              \/ p >= at(h).sourcePosition
  BY <1>3, <1>4 DEF WalkOf
<1>6. at(h).descent \in Numbers
  <2>1. at(h).descent \in 0 .. h - 1
    BY <1>1, <1>5 DEF Linked
  <2> QED BY <1>1, <1>5, <2>1, StatementType DEF Numbers
<1>7. Path(h) = After(Path(at(h).descent), at(h).type, at(h).sourcePosition)
  BY <1>1, <1>5 DEF PathsFollow
<1> QED BY <1>1, <1>2, <1>3, <1>5, <1>6, <1>7

LEMMA PathType ==
  ASSUME TypeOK, Ordered, Linked, NEW n \in Numbers, n # SourceEnd
  PROVE  Path(n) \in Seq(Seq(1 .. Highest))
<1>1. PICK m \in Numbers : at(m).type # "endif" /\ Path(n) = Conditions(at(m).sourcePosition)
  BY PathOf
<1>2. PICK q : q = at(m).sourcePosition
  OBVIOUS
<1>3. q < 1 \/ q \in 1 .. Len(source)
  BY <1>1, <1>2, PositionKnown
<1>4. Conditions(q) \in Seq(Seq(1 .. Len(source)))
  <2>1. CASE q < 1
    BY <2>1 DEF Conditions
  <2>2. CASE q \in 1 .. Len(source)
    BY <2>2, ConditionsType, SourceType DEF Reset
  <2> QED BY <1>3, <2>1, <2>2
<1>5. Seq(Seq(1 .. Len(source))) \subseteq Seq(Seq(1 .. Highest))
  <2>1. 1 .. Len(source) \subseteq 1 .. Highest
    BY SourceType
  <2>2. Seq(1 .. Len(source)) \subseteq Seq(1 .. Highest)
    BY <2>1, SeqSub
  <2> QED BY <2>2, SeqSub
<1> QED BY <1>1, <1>2, <1>4, <1>5

LEMMA PutStep ==
  ASSUME IInv, Put
  PROVE  IInv'
<1>0. PICK s, p, t, u, o, r, h : /\ s = statement /\ p = position /\ t = ascent /\ u = ascent'
                                 /\ o = open /\ r = open' /\ h = t[1]
  OBVIOUS
<1>1. /\ phase = "put" /\ phase' = "put" /\ t # <<>>
      /\ open' = After(open, at(Head(t)).type, at(Head(t)).sourcePosition)
      /\ u = Tail(t)
      /\ UNCHANGED <<tree, statement, position, low, high, target, i, descent>>
  BY <1>0 DEF Put, search
<1>2. /\ TypeOK /\ stack = <<>> /\ t \in Seq(Numbers)
      /\ h \in Numbers \ {0, SourceEnd}
      /\ Path(h) = After(o, at(h).type, at(h).sourcePosition)
      /\ WalkOf(t, o, p)
  BY <1>0, <1>1, FirstPut
<1>3. Ordered /\ Linked /\ statement \in Numbers
  BY <1>1, Scanned
<1>4. /\ Len(t) \in Nat /\ Len(t) >= 1 /\ Head(t) = h
      /\ u \in Seq(Numbers) /\ Len(u) = Len(t) - 1
      /\ \A m \in 1 .. Len(t) - 1 : u[m] = t[m + 1]
  BY <1>0, <1>1, <1>2, TailFacts
<1>5. r = Path(h)
  BY <1>0, <1>1, <1>2, <1>4
<1>6. r \in Seq(Seq(1 .. Highest))
  BY <1>2, <1>3, <1>5, PathType
<1>7. WalkOf(u, r, p)
  <2> SUFFICES ASSUME NEW m \in 1 .. Len(u)
               PROVE  /\ u[m] \in Numbers \ {0, SourceEnd}
                      /\ Path(at(u[m]).descent) = IF m = 1 THEN r ELSE Path(u[m - 1])
                      /\ at(u[m]).type # "if" =>
                           \/ p < at(at(u[m]).descent).sourcePosition
                           \/ p >= at(u[m]).sourcePosition
    BY DEF WalkOf
  <2>1. m \in 1 .. Len(t) - 1 /\ m + 1 \in 1 .. Len(t) /\ m + 1 # 1 /\ m + 1 - 1 = m
    BY <1>4
  <2>2. u[m] = t[m + 1]
    BY <1>4, <2>1
  <2>3. /\ t[m + 1] \in Numbers \ {0, SourceEnd}
        /\ Path(at(t[m + 1]).descent) = Path(t[m])
        /\ at(t[m + 1]).type # "if" =>
             \/ p < at(at(t[m + 1]).descent).sourcePosition
             \/ p >= at(t[m + 1]).sourcePosition
    <3>1. PICK k : k = m + 1
      OBVIOUS
    <3>2. /\ t[k] \in Numbers \ {0, SourceEnd}
          /\ Path(at(t[k]).descent) = IF k = 1 THEN o ELSE Path(t[k - 1])
          /\ at(t[k]).type # "if" => \/ p < at(at(t[k]).descent).sourcePosition
                                     \/ p >= at(t[k]).sourcePosition
      BY <1>2, <2>1, <3>1 DEF WalkOf
    <3>3. k # 1 /\ k - 1 = m
      BY <2>1, <3>1
    <3> QED BY <3>1, <3>2, <3>3
  <2>4. Path(t[m]) = IF m = 1 THEN r ELSE Path(u[m - 1])
    <3>1. CASE m = 1
      BY <1>0, <1>5, <3>1
    <3>2. CASE m # 1
      <4>1. m - 1 \in 1 .. Len(t) - 1 /\ m - 1 + 1 = m
        BY <1>4, <2>1, <3>2
      <4>2. u[m - 1] = t[m]
        <5>1. PICK k : k = m - 1
          OBVIOUS
        <5>2. u[k] = t[k + 1] /\ k + 1 = m
          BY <1>4, <4>1, <5>1
        <5> QED BY <5>1, <5>2
      <4> QED BY <3>2, <4>2
    <3> QED BY <3>1, <3>2
  <2> QED BY <2>2, <2>3, <2>4
<1>8. ReachedOf(u, r) = ReachedOf(t, o)
  <2>1. ReachedOf(t, o) = Path(t[Len(t)])
    BY <1>1 DEF ReachedOf, Last
  <2>2. CASE Len(t) = 1
    <3>1. u \in Seq(Numbers) /\ Len(u) = 0
      BY <1>4, <2>2
    <3>2. u = <<>>
      BY ONLY <3>1
    <3> QED BY <1>0, <1>5, <2>1, <2>2, <3>2 DEF ReachedOf
  <2>3. CASE Len(t) # 1
    <3>1. Len(u) # 0 /\ Len(u) \in 1 .. Len(t) - 1 /\ Len(u) + 1 = Len(t)
      BY <1>4, <2>3
    <3>2. u # <<>>
      BY <3>1
    <3>3. Last(u) = t[Len(t)]
      <4>1. PICK k : k = Len(u)
        OBVIOUS
      <4>2. u[k] = t[k + 1] /\ k + 1 = Len(t)
        BY <1>4, <3>1, <4>1
      <4> QED BY <4>1, <4>2 DEF Last
    <3> QED BY <2>1, <3>2, <3>3 DEF ReachedOf
  <2> QED BY <2>2, <2>3
<1>9. /\ ReachedOf(t, o) = Conditions(p) /\ Path(s) = Conditions(p)
      /\ current.type # "endif" /\ s # SourceEnd
  <2>1. /\ Reached(ascent) = Conditions(position) /\ Path(statement) = Conditions(position)
        /\ current.type # "endif" /\ statement # SourceEnd
    BY <1>1 DEF IInv, NavigationInv
  <2> QED BY <1>0, <2>1, NowOf
<1>10. /\ TreeInv' /\ SourceEnd' = SourceEnd
  BY <1>1, <1>2, TreeSame
<1>11. TypeOK'
  <2>1. {statement', low', high', target', i'} \subseteq Numbers
    BY <1>1, <1>2 DEF TypeOK
  <2>2. /\ position' \in Reset .. Len(source) /\ ascent' \in Seq(Numbers)
        /\ descent' \in Seq(Numbers) /\ open' \in Seq(Seq(1 .. Highest))
    BY <1>0, <1>1, <1>2, <1>4, <1>6 DEF TypeOK
  <2> QED BY <1>1, <1>2, <2>1, <2>2, TypeSame
<1>12. NavigationInv' /\ SearchAround'
  <2>1. s = statement' /\ p = position' /\ u = ascent' /\ r = open'
    BY <1>0, <1>1
  <2>2. PICK f, g, j : f = descent' /\ g = target' /\ j = i'
    OBVIOUS
  <2>3. /\ Walk(ascent)' <=> WalkOf(u, r, p)
        /\ Reached(ascent)' = ReachedOf(u, r)
        /\ current' = at(s)
        /\ Path(statement)' = Path(s) /\ Conditions(position)' = Conditions(p)
    BY <1>1, <2>1, <2>2, NextOf
  <2>4. current'.type # "endif" /\ statement' # SourceEnd'
    BY <1>0, <1>1, <1>9, <1>10, <2>3 DEF current
  <2> QED BY <1>1, <1>7, <1>8, <1>9, <2>3, <2>4 DEF NavigationInv, SearchAround
<1> QED BY <1>10, <1>11, <1>12 DEF IInv

LEMMA GoOnStep ==
  ASSUME IInv, GoOn
  PROVE  IInv'
<1>0. PICK s, p, o : s = statement /\ p = position /\ o = open
  OBVIOUS
<1>1. /\ phase = "put" /\ phase' = "idle" /\ ascent = <<>>
      /\ UNCHANGED <<tree, statement, position, low, high, target, i, ascent, descent, open>>
  BY DEF GoOn, search, text
<1>2. TypeOK /\ stack = <<>>
  BY <1>1, Scanned
<1>3. /\ TreeInv' /\ SourceEnd' = SourceEnd
  BY <1>1, <1>2, TreeSame
<1>4. /\ o = Conditions(p) /\ Path(s) = Conditions(p)
      /\ current.type # "endif" /\ s # SourceEnd
  <2>1. /\ Reached(ascent) = Conditions(position) /\ Path(statement) = Conditions(position)
        /\ current.type # "endif" /\ statement # SourceEnd
    BY <1>1 DEF IInv, NavigationInv
  <2> QED BY <1>0, <1>1, <2>1 DEF Reached
<1>5. TypeOK'
  <2>1. {statement', low', high', target', i'} \subseteq Numbers
    BY <1>1, <1>2 DEF TypeOK
  <2>2. /\ position' \in Reset .. Len(source) /\ ascent' \in Seq(Numbers)
        /\ descent' \in Seq(Numbers) /\ open' \in Seq(Seq(1 .. Highest))
    BY <1>1, <1>2 DEF TypeOK
  <2>3. at(statement').type # "endif"
    BY <1>1, <1>4 DEF current
  <2> QED BY <1>1, <1>2, <2>1, <2>2, <2>3, TypeSame
<1>6. NavigationInv' /\ SearchAround'
  <2>1. s = statement' /\ p = position' /\ o = open'
    BY <1>0, <1>1
  <2>2. PICK t, f, g, j : t = ascent' /\ f = descent' /\ g = target' /\ j = i'
    OBVIOUS
  <2>3. /\ current' = at(s)
        /\ Path(statement)' = Path(s) /\ Conditions(position)' = Conditions(p)
    BY <1>1, <2>1, <2>2, NextOf
  <2>4. current'.type # "endif" /\ statement' # SourceEnd'
    BY <1>0, <1>1, <1>3, <1>4, <2>3 DEF current
  <2> QED BY <1>1, <1>4, <2>1, <2>3, <2>4 DEF NavigationInv, SearchAround
<1> QED BY <1>3, <1>5, <1>6 DEF IInv
-----------------------------------------------------------------------------
(* Nothing scanned: the root is the only statement, and open.              *)
LEMMA InitIInv ==
  ASSUME Init
  PROVE  IInv
<1>1. /\ phase = "scan" /\ source = <<>> /\ blocks = <<>> /\ conditions = <<>>
      /\ statements = <<Statement("if", Lowest, -1, -1)>> /\ stack = <<0>>
      /\ statement = 0 /\ position = Reset /\ low = 0 /\ high = 0 /\ target = 0 /\ i = 0
      /\ ascent = <<>> /\ descent = <<>> /\ open = <<>>
  BY DEF Init
<1>2. /\ Len(statements) = 1 /\ Numbers = {0} /\ Len(source) = 0 /\ Len(stack) = 1
      /\ Len(blocks) = 0 /\ stack[1] = 0
  BY <1>1 DEF Numbers
<1>3. at(0) = Statement("if", Lowest, -1, -1)
  BY <1>1 DEF at
<1>4. /\ at(0).type = "if" /\ at(0).sourcePosition = Lowest
      /\ at(0).descent = -1 /\ at(0).ascent = -1
  BY <1>3 DEF Statement
<1>5. SourceEnd = -1 /\ Lowest < -1 /\ Highest \in Nat /\ Highest > 0 /\ Lowest \in Int
  BY <1>4, BoundAssumption DEF SourceEnd, Lowest, Highest
<1>6. TypeOK
  <2>1. statements \in Seq([type : Kinds \ {"guard"}, sourcePosition : Lowest .. Highest,
                            descent : Numbers \cup {-1}, ascent : Numbers \cup {-1}])
    <3>1. Statement("if", Lowest, -1, -1) \in
            [type : Kinds \ {"guard"}, sourcePosition : Lowest .. Highest,
             descent : Numbers \cup {-1}, ascent : Numbers \cup {-1}]
      BY <1>5 DEF Statement, Kinds
    <3> QED BY <1>1, <3>1
  <2>2. current.type = "if"
    BY <1>1, <1>4 DEF current
  <2>3. stack \in Seq(Numbers \cup {-1}) /\ 0 \in Numbers
    BY <1>1, <1>2
  <2>4. position \in Reset .. Len(source)
    BY <1>1, <1>2 DEF Reset
  <2> QED BY <1>1, <1>2, <2>1, <2>2, <2>3, <2>4, BoundAssumption DEF TypeOK
<1>7. \A p \in Reset .. Len(source) : Conditions(p) = <<>>
  BY <1>2 DEF Conditions, Reset
<1>8. Path(0) = <<>>
  BY <1>4 DEF Path, Conditions, Lowest
<1>9. \A l, m \in 1 .. Len(stack) : l = 1 /\ m = 1 /\ IsTop(stack, l, m)
  BY <1>2 DEF IsTop
<1>10. Ordered
  BY <1>2, <1>4, <1>5 DEF Ordered
<1>11. Linked
  BY <1>2, <1>4, <1>5 DEF Linked
<1>12. Nested
  BY <1>2 DEF Nested
<1>13. StackedOpen
  BY <1>2, <1>4 DEF StackedOpen
<1>14. StackedInOrder
  <2>1. 1 \in 1 .. Len(stack)
    BY <1>2
  <2>2. \A l, m \in 1 .. Len(stack) : ~(l < m)
    BY <1>9
  <2>3. \A m \in 1 .. Len(stack) : \E l \in 1 .. m : IsTop(stack, l, m)
    <3> SUFFICES ASSUME NEW m \in 1 .. Len(stack)
                 PROVE  \E l \in 1 .. m : IsTop(stack, l, m)
      OBVIOUS
    <3>1. m = 1 /\ 1 \in 1 .. m /\ IsTop(stack, 1, m)
      BY <1>9, <2>1
    <3> QED BY <3>1
  <2> QED BY <1>2, <2>2, <2>3 DEF StackedInOrder, InOrder
<1>15. StackedBlocks
  BY <1>1, <1>2 DEF StackedBlocks
<1>16. PathsFollow /\ PathsOwn
  BY <1>2 DEF PathsFollow, PathsOwn
<1>17. PathsLast
  BY <1>2, <1>7, <1>8 DEF PathsLast
<1>18. PathsNest
  <2>1. \A m \in 2 .. Len(stack) : FALSE
    BY <1>2
  <2> QED BY <2>1 DEF PathsNest
<1>19. PathsOpen
  <2>1. Conditions(Len(source)) = <<>>
    BY <1>2, <1>7 DEF Reset
  <2> QED BY <1>2, <1>8, <1>9, <2>1 DEF PathsOpen
<1>20. BlocksAround
  BY <1>2 DEF BlocksAround
<1>21. NavigationInv /\ SearchAround
  BY <1>1, <1>5 DEF NavigationInv, SearchAround, Reset
<1> QED BY <1>6, <1>10, <1>11, <1>12, <1>13, <1>14, <1>15, <1>16, <1>17, <1>18, <1>19,
           <1>20, <1>21 DEF IInv, TreeInv

LEMMA StutterStep ==
  ASSUME IInv, UNCHANGED vars
  PROVE  IInv'
<1>1. UNCHANGED <<phase, source, blocks, conditions, statements, stack, statement, position,
                  low, high, target, i, ascent, descent, open>>
  BY DEF vars
<1>2. /\ TypeOK /\ SearchAround /\ TreeInv /\ NavigationInv
  BY DEF IInv
<1>3. TypeOK' /\ SearchAround'
  BY <1>1, <1>2 DEF TypeOK, SearchAround, Numbers, current, at
<1>4. Ordered' /\ Linked' /\ Nested'
  BY <1>1, <1>2 DEF TreeInv, Ordered, Linked, Nested, Numbers, at, SourceEnd
<1>5. StackedOpen' /\ StackedInOrder' /\ StackedBlocks'
  BY <1>1, <1>2 DEF TreeInv, StackedOpen, StackedInOrder, InOrder, StackedBlocks, IsTop,
                    Numbers, at
<1>6. PathsFollow' /\ PathsOwn' /\ PathsOpen' /\ PathsNest'
  BY <1>1, <1>2 DEF TreeInv, PathsFollow, PathsOwn, PathsOpen, PathsNest, IsTop, Path,
                    Conditions, Numbers, at, SourceEnd
<1>7. PathsLast' /\ BlocksAround'
  <2>1. PathsLast'
    BY <1>1, <1>2 DEF TreeInv, PathsLast, Path, Conditions, Numbers, at
  <2>2. BlocksAround'
    BY <1>1, <1>2 DEF TreeInv, BlocksAround, Around, Conditions, Numbers, at
  <2> QED BY <2>1, <2>2
<1>8. NavigationInv'
  <2>1. PICK s, p, t, o, e, g, j : /\ s = statement' /\ p = position' /\ t = ascent'
                                   /\ o = open' /\ e = descent' /\ g = target' /\ j = i'
    OBVIOUS
  <2>2. UNCHANGED tree
    BY <1>1 DEF tree
  <2>3. /\ Walk(ascent)' <=> WalkOf(t, o, p)
        /\ Reached(ascent)' = ReachedOf(t, o)
        /\ AtTarget' <=> AtTargetOf(s, g, p)
        /\ Chain' <=> ChainOf(e, s, g, j)
        /\ current' = at(s) /\ at(target)' = at(g)
        /\ Path(statement)' = Path(s) /\ Conditions(position)' = Conditions(p)
    BY <2>1, <2>2, NextOf
  <2>4. /\ s = statement /\ p = position /\ t = ascent /\ o = open /\ e = descent
        /\ g = target /\ j = i
    BY <1>1, <2>1
  <2>5. /\ Walk(ascent)' <=> Walk(ascent)
        /\ Reached(ascent)' = Reached(ascent)
        /\ AtTarget' <=> AtTarget
        /\ Chain' <=> Chain
        /\ current' = current /\ at(target)' = at(target)
        /\ Path(statement)' = Path(statement) /\ Conditions(position)' = Conditions(position)
    BY <2>3, <2>4, NowOf DEF current
  <2>6. SourceEnd' = SourceEnd
    BY <1>1 DEF SourceEnd, at
  <2> QED BY <1>1, <1>2, <2>5, <2>6 DEF NavigationInv, Reset
<1> QED BY <1>3, <1>4, <1>5, <1>6, <1>7, <1>8 DEF IInv, TreeInv

LEMMA NextIInv ==
  ASSUME IInv, [Next]_vars
  PROVE  IInv'
<1>1. CASE ScanIf
  BY <1>1, ScanIfStep
<1>2. CASE ScanGuard
  BY <1>2, ScanGuardStep
<1>3. ASSUME NEW kind \in {"elif", "else", "endif"}, ScanInGuard(kind)
      PROVE  IInv'
  BY <1>3, ScanInGuardStep
<1>4. ASSUME NEW kind \in {"elif", "else"}, ScanBranch(kind)
      PROVE  IInv'
  BY <1>4, ScanBranchStep
<1>5. CASE ScanEndif
  BY <1>5, ScanEndifStep
<1>6. CASE EndOfSource
  BY <1>6, EndOfSourceStep
<1>7. ASSUME NEW p \in Reset .. Len(source), Navigate(p)
      PROVE  IInv'
  BY <1>7, NavigateStep
<1>8. CASE CloseHanging
  BY <1>8, CloseGuardStep, CloseBlockStep
<1>9. CASE Traverse
  BY <1>9, TraverseStep
<1>10. CASE Ascend
  BY <1>10, AscendStep
<1>11. CASE StartSearch
  BY <1>11, StartSearchStep
<1>12. CASE Halve
  BY <1>12, HalveStep
<1>13. CASE Found
  BY <1>13, FoundStep
<1>14. CASE LeaveEnded
  BY <1>14, LeaveEndedStep
<1>15. CASE StartDescent
  BY <1>15, StartDescentStep
<1>16. CASE Descend
  BY <1>16, DescendStep
<1>17. CASE Return
  BY <1>17, ReturnStep
<1>18. CASE Put
  BY <1>18, PutStep
<1>19. CASE GoOn
  BY <1>19, GoOnStep
<1>20. CASE UNCHANGED vars
  BY <1>20, StutterStep
<1> QED BY <1>1, <1>2, <1>3, <1>4, <1>5, <1>6, <1>7, <1>8, <1>9, <1>10, <1>11, <1>12,
           <1>13, <1>14, <1>15, <1>16, <1>17, <1>18, <1>19, <1>20 DEF Next, Step

(* The tree, its links, the conditions along them and the navigation agree *)
(* at all times.                                                           *)
THEOREM Invariant == Spec => []IInv
<1>1. Init => IInv
  BY InitIInv
<1>2. IInv /\ [Next]_vars => IInv'
  BY NextIInv
<1> QED BY <1>1, <1>2, PTL DEF Spec

(* at() is only asked for statements that exist, a traversal never leaves  *)
(* the tree, and it never rests on an #endif.                              *)
THEOREM TypeCorrect == Spec => []TypeOK
<1>1. IInv => TypeOK
  BY DEF IInv
<1> QED BY <1>1, Invariant, PTL

(* The binary search of navigate() keeps the position between its ends.    *)
THEOREM SearchStaysAround == Spec => []SearchAround
<1>1. IInv => SearchAround
  BY DEF IInv
<1> QED BY <1>1, Invariant, PTL

(* After each navigate() the generated text is under the conditions that   *)
(* the place has in vk_mem_alloc.h.                                        *)
THEOREM TextUnderConditions == Spec => []ContextMatches
<1>1. IInv => ContextMatches
  BY DEF IInv, NavigationInv, ContextMatches
<1> QED BY <1>1, Invariant, PTL

(* An #elif, #else or #endif of that text never ends a branch that the     *)
(* place navigated to is in.                                               *)
THEOREM CommonKept == Spec => []KeepsCommon
<1>1. ASSUME IInv, phase = "put", ascent # <<>>, at(Head(ascent)).type # "if",
             IsPrefix(open, Conditions(position))
      PROVE  FALSE
  <2>0. PICK t, h, d, o, p, c : /\ t = ascent /\ h = t[1] /\ d = at(h).descent
                                /\ o = open /\ p = position /\ c = Conditions(p)
    OBVIOUS
  <2>1. /\ TypeOK /\ t \in Seq(Numbers)
        /\ h \in Numbers \ {0, SourceEnd} /\ d \in Numbers /\ o = Path(d)
        /\ at(h).type # "if" => \/ p < at(d).sourcePosition \/ p >= at(h).sourcePosition
    BY <1>1, <2>0, FirstPut
  <2>2. /\ Ordered /\ Linked /\ PathsOwn /\ BlocksAround /\ p \in Int
        /\ p \in Reset .. Len(source)
    BY <1>1, <2>0, Scanned
  <2>3. at(h).type # "if" /\ (p < at(d).sourcePosition \/ p >= at(h).sourcePosition)
    <3>1. Head(t) = h
      BY <1>1, <2>0, <2>1, TailFacts
    <3> QED BY <1>1, <2>0, <2>1, <3>1
  <2>4. at(d).type # "endif" /\ at(d).ascent = h /\ d # 0 /\ h # -1 /\ h \in Nat
    <3>1. at(d).type # "endif" /\ at(d).ascent = h
      BY <2>0, <2>1, <2>2, <2>3 DEF Linked
    <3>2. h \in Nat
      BY <2>1, StatementType
    <3>3. d # 0
      BY <2>1, <3>1 DEF SourceEnd
    <3> QED BY <3>1, <3>2, <3>3
  <2>5. o # <<>> /\ Last(Last(o)) = at(d).sourcePosition
    BY <2>1, <2>2, <2>4 DEF PathsOwn
  <2>6. o \in Seq(Seq(1 .. Highest)) /\ c \in Seq(Seq(1 .. Len(source)))
    BY <1>1, <2>0, <2>1, <2>2, ConditionsType DEF TypeOK
  <2>7. PICK b : b = Len(o)
    OBVIOUS
  <2>8. b \in Nat /\ b >= 1 /\ Len(c) \in Nat
    BY <2>5, <2>6, <2>7
  <2>9. b <= Len(c) /\ SubSeq(o, 1, b) = SubSeq(c, 1, b)
    BY <1>1, <2>0, <2>7 DEF IsPrefix
  <2>10. b \in 1 .. Len(c) /\ c[b] = Last(o)
    <3>1. b \in 1 .. Len(c) /\ b \in 1 .. Len(o) /\ b \in 1 .. b
      BY <2>7, <2>8, <2>9
    <3>2. SubSeq(o, 1, b)[b] = o[b]
      BY <2>6, <2>7, <2>8
    <3>3. SubSeq(c, 1, b)[b] = c[b]
      BY <2>6, <2>8, <2>9
    <3> QED BY <2>7, <2>9, <3>1, <3>2, <3>3 DEF Last
  <2>11. p \in 1 .. Len(source)
    <3>1. p >= 1
      BY <2>0, <2>2, <2>8, <2>10 DEF Conditions
    <3>2. Len(source) \in Nat
      BY <2>1, SourceType
    <3> QED BY <2>2, <3>1, <3>2 DEF Reset
  <2>12. PICK n \in Numbers \ {0} :
           /\ at(n).type # "endif"
           /\ at(n).sourcePosition = Last(c[b]) /\ at(n).sourcePosition <= p
           /\ at(n).ascent = -1 \/ p < at(at(n).ascent).sourcePosition
    BY <2>0, <2>2, <2>10, <2>11 DEF BlocksAround, Around
  <2>13. at(n).sourcePosition = at(d).sourcePosition
    BY <2>5, <2>10, <2>12
  <2>14. n = d
    <3>1. n \in Nat /\ d \in Nat /\ at(n).sourcePosition \in Int
      BY <2>1, <2>12, StatementType
    <3>2. ~(n < d)
      BY <2>1, <2>2, <2>4, <2>12, <2>13, <3>1, PositionsOrdered
    <3>3. ~(d < n)
      BY <2>1, <2>2, <2>4, <2>12, <2>13, <3>1, PositionsOrdered
    <3> QED BY <3>1, <3>2, <3>3
  <2>15. at(d).sourcePosition <= p /\ p < at(h).sourcePosition
    BY <2>4, <2>12, <2>14
  <2>16. at(d).sourcePosition \in Int /\ at(h).sourcePosition \in Int
    BY <2>1, StatementType
  <2> QED BY <2>2, <2>3, <2>15, <2>16
<1>2. IInv => KeepsCommon
  BY <1>1 DEF KeepsCommon
<1> QED BY <1>2, Invariant, PTL

-----------------------------------------------------------------------------
(* Induction over a set of numbers, and what a recursive function over     *)
(* numbers is: its definition has a solution.                              *)
LEMMA Least ==
  ASSUME NEW T \in SUBSET Nat, T # {}
  PROVE  \E x \in T : \A y \in T : x <= y
<1> DEFINE R == OpToRel(<, Nat)
<1>1. IsWellFoundedOn(R, Nat)
  BY NatLessThanWellFounded DEF OpToRel
<1>2. \A x, y \in Nat : <<x, y>> \in R <=> x < y
  BY DEF OpToRel
<1> HIDE DEF R
<1>3. PICK x \in T : \A y \in T : ~ (<<y, x>> \in R)
  BY <1>1, WFMin
<1>4. \A y \in T : ~ (y < x)
  BY <1>2, <1>3
<1> QED BY <1>4

LEMMA SetInduction ==
  ASSUME NEW S, 0 \in S, \A n \in Nat : n \in S => n + 1 \in S
  PROVE  Nat \subseteq S
<1> DEFINE T == Nat \ S
<1> SUFFICES ASSUME T # {} PROVE FALSE
  OBVIOUS
<1>1. PICK x \in T : \A y \in T : x <= y
  BY Least
<1>2. x # 0 /\ x - 1 \in Nat
  OBVIOUS
<1>3. x - 1 \in S
  BY <1>1, <1>2
<1> QED BY <1>2, <1>3

(* A function of the first N numbers that begins with base and goes on by  *)
(* step, which knows the number and the value before.                      *)
Steps(step, N, S) == step \in [(1 .. N) \X S -> S]
Solves(f, N, S, base, step) ==
  f \in [0 .. N -> S] /\ f[0] = base /\ \A m \in 1 .. N : f[m] = step[<<m, f[m - 1]>>]

LEMMA Recursion ==
  ASSUME NEW N \in Nat, NEW S, NEW base \in S, NEW step, Steps(step, N, S)
  PROVE  \E f : Solves(f, N, S, base, step)
<1>0. step \in [(1 .. N) \X S -> S]
  BY DEF Steps
<1> DEFINE Good(n, f) == f[0] = base /\ \A m \in 1 .. n : f[m] = step[<<m, f[m - 1]>>]
           T == {n \in Nat : n <= N => \E f \in [0 .. n -> S] : Good(n, f)}
<1>1. 0 \in T
  <2> DEFINE f == [m \in 0 .. 0 |-> base]
  <2>1. f \in [0 .. 0 -> S] /\ Good(0, f)
    OBVIOUS
  <2> QED BY <2>1
<1>2. ASSUME NEW n \in Nat, n \in T
      PROVE  n + 1 \in T
  <2> SUFFICES ASSUME n + 1 <= N
               PROVE  \E f \in [0 .. n + 1 -> S] : Good(n + 1, f)
    OBVIOUS
  <2>1. PICK g \in [0 .. n -> S] : Good(n, g)
    BY <1>2
  <2> DEFINE e == step[<<n + 1, g[n]>>]
             f == [m \in 0 .. n + 1 |-> IF m = n + 1 THEN e ELSE g[m]]
  <2>2. e \in S
    <3>1. <<n + 1, g[n]>> \in (1 .. N) \X S
      BY <2>1
    <3> QED BY <1>0, <3>1
  <2>3. f \in [0 .. n + 1 -> S]
    BY <2>1, <2>2
  <2>4. f[n + 1] = e /\ f[n] = g[n]
    OBVIOUS
  <2>5. ASSUME NEW m \in 1 .. n
        PROVE  f[m] = step[<<m, f[m - 1]>>]
    <3>1. f[m] = g[m] /\ f[m - 1] = g[m - 1]
      OBVIOUS
    <3> QED BY <2>1, <3>1
  <2>6. f[0] = base
    BY <2>1
  <2> HIDE DEF f
  <2>7. ASSUME NEW m \in 1 .. n + 1
        PROVE  f[m] = step[<<m, f[m - 1]>>]
    <3>1. CASE m = n + 1
      BY <2>4, <3>1
    <3>2. CASE m \in 1 .. n
      BY <2>5, <3>2
    <3> QED BY <3>1, <3>2
  <2>8. Good(n + 1, f)
    BY <2>6, <2>7
  <2> QED BY <2>3, <2>8
<1> HIDE DEF T
<1>3. N \in T
  BY <1>1, <1>2, SetInduction
<1> QED BY <1>3 DEF T, Solves

-----------------------------------------------------------------------------
(* Sequences of nodes, one after the other.                                *)
Cat(s, t) == s \o t

LEMMA JoinType ==
  ASSUME NEW S, NEW s \in Seq(S), NEW t \in Seq(S)
  PROVE  Cat(s, t) \in Seq(S)
BY ConcatProperties DEF Cat

LEMMA JoinLen ==
  ASSUME NEW S, NEW s \in Seq(S), NEW t \in Seq(S)
  PROVE  /\ Len(s) \in Nat /\ Len(t) \in Nat /\ Len(Cat(s, t)) = Len(s) + Len(t)
         /\ DOMAIN s = 1 .. Len(s) /\ DOMAIN t = 1 .. Len(t)
         /\ DOMAIN Cat(s, t) = 1 .. Len(s) + Len(t)
BY ConcatProperties DEF Cat

LEMMA JoinLeft ==
  ASSUME NEW S, NEW s \in Seq(S), NEW t \in Seq(S), NEW n \in 1 .. Len(s)
  PROVE  Cat(s, t)[n] = s[n]
BY ConcatProperties DEF Cat

LEMMA JoinRight ==
  ASSUME NEW S, NEW s \in Seq(S), NEW t \in Seq(S), NEW n \in 1 .. Len(t)
  PROVE  Cat(s, t)[Len(s) + n] = t[n]
BY ConcatProperties DEF Cat

LEMMA JoinRest ==
  ASSUME NEW S, NEW s \in Seq(S), NEW t \in Seq(S),
         NEW n \in Len(s) + 1 .. Len(s) + Len(t)
  PROVE  n - Len(s) \in 1 .. Len(t) /\ Cat(s, t)[n] = t[n - Len(s)]
BY ConcatProperties DEF Cat

Joined(S, s, t) ==
  /\ Cat(s, t) \in Seq(S) /\ Len(Cat(s, t)) = Len(s) + Len(t)
  /\ DOMAIN Cat(s, t) = 1 .. Len(s) + Len(t)
  /\ \A n \in 1 .. Len(s) : Cat(s, t)[n] = s[n]
  /\ \A n \in 1 .. Len(t) : Cat(s, t)[Len(s) + n] = t[n]

LEMMA JoinedFacts ==
  ASSUME NEW S, NEW s \in Seq(S), NEW t \in Seq(S)
  PROVE  Joined(S, s, t)
<1>1. Cat(s, t) \in Seq(S)
  BY JoinType
<1>2. Len(Cat(s, t)) = Len(s) + Len(t) /\ DOMAIN Cat(s, t) = 1 .. Len(s) + Len(t)
  BY JoinLen
<1>3. \A n \in 1 .. Len(s) : Cat(s, t)[n] = s[n]
  BY JoinLeft
<1>4. \A n \in 1 .. Len(t) : Cat(s, t)[Len(s) + n] = t[n]
  BY JoinRight
<1> QED BY <1>1, <1>2, <1>3, <1>4 DEF Joined

LEMMA Regroup ==
  ASSUME NEW s \in Seq(Nodes), NEW t \in Seq(Nodes), NEW u \in Seq(Nodes)
  PROVE  Cat(Cat(s, t), u) = Cat(s, Cat(t, u))
BY ConcatAssociative DEF Cat

LEMMA RegroupTwice ==
  ASSUME NEW s \in Seq(Nodes), NEW t \in Seq(Nodes), NEW u \in Seq(Nodes),
         NEW v \in Seq(Nodes)
  PROVE  Cat(Cat(Cat(s, t), u), v) = Cat(s, Cat(Cat(t, u), v))
<1>1. Cat(t, u) \in Seq(Nodes)
  BY JoinType
<1>2. Cat(Cat(s, Cat(t, u)), v) = Cat(s, Cat(Cat(t, u), v))
  BY <1>1, Regroup
<1>3. Cat(Cat(s, t), u) = Cat(s, Cat(t, u))
  BY Regroup
<1> QED BY <1>2, <1>3

LEMMA Single ==
  ASSUME NEW S, NEW e \in S
  PROVE  \E s \in Seq(S) : s = <<e>> /\ Len(s) = 1 /\ DOMAIN s = 1 .. 1 /\ s[1] = e
<1> DEFINE s == <<e>>
<1>1. s \in Seq(S) /\ Len(s) = 1 /\ DOMAIN s = 1 .. 1 /\ s[1] = e /\ s = <<e>>
  OBVIOUS
<1> HIDE DEF s
<1> QED BY <1>1

(* t may come after s: its first text, if it begins with one, is under the *)
(* conditions of the last node of s.                                       *)
Joins(s, t) ==
  s # <<>> /\ t # <<>> =>
    \/ t[1].node = "place"
    \/ Conditions(t[1].at) = Conditions(s[Len(s)].at)

LEMMA SteadyJoin ==
  ASSUME NEW S, NEW s \in Seq(S), NEW t \in Seq(S), Steady(s), Steady(t), Joins(s, t)
  PROVE  Steady(Cat(s, t))
<1> SUFFICES ASSUME NEW n \in 2 .. Len(Cat(s, t)), Cat(s, t)[n].node # "place"
             PROVE  Conditions(Cat(s, t)[n].at) = Conditions(Cat(s, t)[n - 1].at)
  BY DEF Steady
<1>1. Len(s) \in Nat /\ Len(t) \in Nat /\ n \in 2 .. Len(s) + Len(t)
  BY JoinLen
<1>2. CASE n <= Len(s)
  <2>1. n \in 2 .. Len(s) /\ n \in 1 .. Len(s) /\ n - 1 \in 1 .. Len(s)
    BY <1>1, <1>2
  <2>2. Cat(s, t)[n] = s[n] /\ Cat(s, t)[n - 1] = s[n - 1]
    BY <2>1, JoinLeft
  <2> QED BY <2>1, <2>2 DEF Steady
<1>3. CASE n = Len(s) + 1
  <2>1. /\ 1 \in 1 .. Len(t) /\ Len(s) \in 1 .. Len(s) /\ n - 1 = Len(s) /\ n = Len(s) + 1
        /\ s # <<>> /\ t # <<>>
    BY <1>1, <1>3
  <2>2. Cat(s, t)[n] = t[1] /\ Cat(s, t)[n - 1] = s[Len(s)]
    BY <2>1, JoinLeft, JoinRight
  <2> QED BY <2>1, <2>2 DEF Joins
<1>4. CASE n > Len(s) + 1
  <2>1. /\ n \in Len(s) + 1 .. Len(s) + Len(t) /\ n - 1 \in Len(s) + 1 .. Len(s) + Len(t)
        /\ n - Len(s) \in 2 .. Len(t) /\ (n - 1) - Len(s) = (n - Len(s)) - 1
    BY <1>1, <1>4
  <2>2. Cat(s, t)[n] = t[n - Len(s)] /\ Cat(s, t)[n - 1] = t[(n - Len(s)) - 1]
    BY <2>1, JoinRest
  <2> QED BY <2>1, <2>2 DEF Steady
<1> QED BY <1>1, <1>2, <1>3, <1>4

-----------------------------------------------------------------------------
(* What a configuration leaves of a list: members with separators between  *)
(* them, the last of what there is a kind of node, or nothing.             *)
Run(t, c, list, kind) ==
  /\ \A n \in Left(t, c, list) :
       /\ (\A m \in Left(t, c, list) : m >= n) => t[n].node = "member"
       /\ \A m \in Left(t, c, list) :
            m < n /\ (\A k \in Left(t, c, list) : k <= m \/ k >= n) =>
              (t[m].node = "member") # (t[n].node = "member")
  /\ IF kind = "none" THEN Left(t, c, list) = {}
     ELSE \E n \in Left(t, c, list) :
            t[n].node = kind /\ \A m \in Left(t, c, list) : m <= n

LEMMA RunAlternates ==
  ASSUME NEW S, NEW t \in Seq(S), NEW c, NEW list, NEW kind, Run(t, c, list, kind),
         kind \in {"none", "member"} \/ list = "entries"
  PROVE  Alternate(t, Left(t, c, list), list)
<1>1. \A n \in Left(t, c, list) : n \in Nat
  BY DEF Left
<1>2. ASSUME NEW n \in Left(t, c, list), \A m \in Left(t, c, list) : m <= n, list # "entries"
      PROVE  t[n].node = "member"
  <2>1. PICK k \in Left(t, c, list) :
               t[k].node = kind /\ \A m \in Left(t, c, list) : m <= k
    BY <1>2 DEF Run
  <2>2. k = n
    BY <1>1, <1>2, <2>1
  <2>3. kind # "none"
    BY <1>2 DEF Run
  <2> QED BY <1>2, <2>1, <2>2, <2>3
<1> QED BY <1>2 DEF Run, Alternate

(* What is left of two sequences is what is left of each.                  *)
LEMMA LeftJoin ==
  ASSUME NEW S, NEW s \in Seq(S), NEW t \in Seq(S), NEW c, NEW list
  PROVE  /\ Left(s, c, list) \subseteq 1 .. Len(s)
         /\ Left(t, c, list) \subseteq 1 .. Len(t)
         /\ \A n : n \in Left(Cat(s, t), c, list) <=>
                     \/ n \in Left(s, c, list)
                     \/ \E m \in Left(t, c, list) : n = Len(s) + m
<1>1. Left(s, c, list) \subseteq 1 .. Len(s) /\ Left(t, c, list) \subseteq 1 .. Len(t)
  BY JoinLen DEF Left
<1>2. ASSUME NEW n \in 1 .. Len(s)
      PROVE  n \in Left(Cat(s, t), c, list) <=> n \in Left(s, c, list)
  <2>1. Cat(s, t)[n] = s[n] /\ n \in DOMAIN s /\ n \in DOMAIN Cat(s, t)
    BY JoinLen, JoinLeft
  <2> QED BY <2>1 DEF Left
<1>3. ASSUME NEW m \in 1 .. Len(t)
      PROVE  Len(s) + m \in Left(Cat(s, t), c, list) <=> m \in Left(t, c, list)
  <2>1. Cat(s, t)[Len(s) + m] = t[m] /\ m \in DOMAIN t /\ Len(s) + m \in DOMAIN Cat(s, t)
    BY JoinLen, JoinRight
  <2> QED BY <2>1 DEF Left
<1>4. ASSUME NEW n \in Left(Cat(s, t), c, list)
      PROVE  n \in 1 .. Len(s) \/ \E m \in 1 .. Len(t) : n = Len(s) + m
  <2>1. n \in 1 .. Len(s) + Len(t) /\ Len(s) \in Nat /\ Len(t) \in Nat
    <3>1. n \in DOMAIN Cat(s, t)
      BY DEF Left
    <3> QED BY <3>1, JoinLen
  <2>2. CASE n <= Len(s)
    BY <2>1, <2>2
  <2>3. CASE n > Len(s)
    <3>1. n - Len(s) \in 1 .. Len(t) /\ n = Len(s) + (n - Len(s))
      BY <2>1, <2>3
    <3> QED BY <3>1
  <2> QED BY <2>1, <2>2, <2>3
<1> QED BY <1>1, <1>2, <1>3, <1>4

(* Two sequences of which one has nothing of the list.                     *)
LEMMA RunBefore ==
  ASSUME NEW S, NEW s \in Seq(S), NEW t \in Seq(S), NEW c, NEW list, NEW kind,
         Run(s, c, list, kind), Run(t, c, list, "none")
  PROVE  Run(Cat(s, t), c, list, kind)
<1> DEFINE T == Left(s, c, list)
           U == Left(Cat(s, t), c, list)
           u == Cat(s, t)
<1>1. Left(t, c, list) = {}
  BY DEF Run
<1>2. \A n : n \in U <=> n \in T
  BY <1>1, LeftJoin
<1>3. U = T
  BY <1>2
<1>4. \A n \in T : u[n] = s[n]
  BY LeftJoin, JoinLeft
<1>5. /\ \A n \in T :
           /\ (\A m \in T : m >= n) => s[n].node = "member"
           /\ \A m \in T : m < n /\ (\A k \in T : k <= m \/ k >= n) =>
                (s[m].node = "member") # (s[n].node = "member")
      /\ IF kind = "none" THEN T = {}
         ELSE \E n \in T : s[n].node = kind /\ \A m \in T : m <= n
  BY DEF Run
<1> SUFFICES /\ \A n \in U :
                 /\ (\A m \in U : m >= n) => u[n].node = "member"
                 /\ \A m \in U : m < n /\ (\A k \in U : k <= m \/ k >= n) =>
                      (u[m].node = "member") # (u[n].node = "member")
             /\ IF kind = "none" THEN U = {}
                ELSE \E n \in U : u[n].node = kind /\ \A m \in U : m <= n
  BY DEF Run
<1> HIDE DEF T, U, u
<1> QED BY <1>3, <1>4, <1>5

LEMMA RunAfter ==
  ASSUME NEW S, NEW s \in Seq(S), NEW t \in Seq(S), NEW c, NEW list, NEW kind,
         Run(s, c, list, "none"), Run(t, c, list, kind)
  PROVE  Run(Cat(s, t), c, list, kind)
<1> DEFINE T == Left(t, c, list)
           U == Left(Cat(s, t), c, list)
           d == Len(s)
           u == Cat(s, t)
<1>1. \A n : n \in U <=> \E m \in T : n = d + m
  BY LeftJoin DEF Run
<1>2. d \in Nat /\ T \subseteq Nat /\ \A m \in T : u[d + m] = t[m]
  BY LeftJoin, JoinLen, JoinRight
<1>3. /\ \A n \in T :
           /\ (\A m \in T : m >= n) => t[n].node = "member"
           /\ \A m \in T : m < n /\ (\A k \in T : k <= m \/ k >= n) =>
                (t[m].node = "member") # (t[n].node = "member")
      /\ IF kind = "none" THEN T = {}
         ELSE \E n \in T : t[n].node = kind /\ \A m \in T : m <= n
  BY DEF Run
<1> SUFFICES /\ \A n \in U :
                 /\ (\A m \in U : m >= n) => u[n].node = "member"
                 /\ \A m \in U : m < n /\ (\A k \in U : k <= m \/ k >= n) =>
                      (u[m].node = "member") # (u[n].node = "member")
             /\ IF kind = "none" THEN U = {}
                ELSE \E n \in U : u[n].node = kind /\ \A m \in U : m <= n
  BY DEF Run
<1> HIDE DEF T, U, d, u
<1>4. ASSUME NEW n \in U, \A m \in U : m >= n
      PROVE  u[n].node = "member"
  <2>1. PICK x \in T : n = d + x
    BY <1>1
  <2>2. \A m \in T : m >= x
    BY <1>1, <1>2, <1>4, <2>1
  <2> QED BY <1>2, <1>3, <2>1, <2>2
<1>5. ASSUME NEW n \in U, NEW m \in U, m < n, \A k \in U : k <= m \/ k >= n
      PROVE  (u[m].node = "member") # (u[n].node = "member")
  <2>1. PICK x \in T, y \in T : n = d + x /\ m = d + y
    BY <1>1
  <2>2. y < x /\ \A k \in T : k <= y \/ k >= x
    BY <1>1, <1>2, <1>5, <2>1
  <2>3. (t[y].node = "member") # (t[x].node = "member")
    BY <1>3, <2>2
  <2>4. u[n] = t[x] /\ u[m] = t[y]
    BY <1>2, <2>1
  <2> QED BY <2>3, <2>4
<1>6. CASE kind = "none"
  BY <1>1, <1>3, <1>4, <1>5, <1>6
<1>7. CASE kind # "none"
  <2>1. PICK x \in T : t[x].node = kind /\ \A m \in T : m <= x
    BY <1>3, <1>7
  <2>2. d + x \in U /\ u[d + x].node = kind /\ \A m \in U : m <= d + x
    BY <1>1, <1>2, <2>1
  <2> QED BY <1>4, <1>5, <1>7, <2>2
<1> QED BY <1>6, <1>7

LEMMA LeftNode ==
  ASSUME NEW s, DOMAIN s = {1}, NEW c, NEW list
  PROVE  Left(s, c, list) =
           IF s[1].node # "place" /\ s[1].list = list /\ Shown(c, Conditions(s[1].at))
           THEN {1} ELSE {}
BY DEF Left

(* One more node of the list continues it.                                 *)
LEMMA RunNode ==
  ASSUME NEW S, NEW t \in Seq(S), NEW s \in Seq(S), NEW e, Len(s) = 1, s[1] = e,
         NEW c, NEW list,
         NEW kind \in {"none", "member", "separator"}, Run(t, c, list, kind),
         e.list = list, e.node \in {"member", "separator"}, Shown(c, Conditions(e.at)),
         kind # e.node, kind = "none" => e.node = "member"
  PROVE  Run(Cat(t, s), c, list, e.node)
<1> DEFINE T == Left(t, c, list)
           U == Left(Cat(t, s), c, list)
           d == Len(t) + 1
           u == Cat(t, s)
<1>1. DOMAIN s = {1}
  OBVIOUS
<1>2. \A n : n \in U <=> n \in T \/ n = d
  <2>1. Left(s, c, list) = {1}
    BY <1>1, LeftNode
  <2>2. \A n : n \in Left(Cat(t, s), c, list) <=>
                 n \in Left(t, c, list) \/ \E m \in Left(s, c, list) : n = Len(t) + m
    BY LeftJoin
  <2> HIDE DEF T, U
  <2>3. \A n : (\E m \in {1} : n = Len(t) + m) <=> n = d
    OBVIOUS
  <2> QED BY <2>1, <2>2, <2>3 DEF T, U
<1>3. d \in Nat /\ T \subseteq Nat /\ u[d] = e /\ \A m \in T : u[m] = t[m] /\ m < d
  <2>1. T \subseteq 1 .. Len(t)
    BY LeftJoin
  <2>2. Len(t) \in Nat /\ \A m \in 1 .. Len(t) : u[m] = t[m]
    BY JoinLen, JoinLeft
  <2>3. u[d] = e
    <3>1. Joined(S, t, s)
      BY JoinedFacts
    <3>2. Cat(t, s)[Len(t) + 1] = s[1]
      BY <3>1 DEF Joined
    <3> QED BY <3>2
  <2>4. d \in Nat /\ \A m \in 1 .. Len(t) : m \in Nat /\ m < d
    BY <2>2
  <2> HIDE DEF T, u, d
  <2> QED BY <2>1, <2>2, <2>3, <2>4
<1>4. /\ \A n \in T :
           /\ (\A m \in T : m >= n) => t[n].node = "member"
           /\ \A m \in T : m < n /\ (\A k \in T : k <= m \/ k >= n) =>
                (t[m].node = "member") # (t[n].node = "member")
      /\ IF kind = "none" THEN T = {}
         ELSE \E n \in T : t[n].node = kind /\ \A m \in T : m <= n
  BY DEF Run
<1> SUFFICES /\ \A n \in U :
                 /\ (\A m \in U : m >= n) => u[n].node = "member"
                 /\ \A m \in U : m < n /\ (\A k \in U : k <= m \/ k >= n) =>
                      (u[m].node = "member") # (u[n].node = "member")
             /\ \E n \in U : u[n].node = e.node /\ \A m \in U : m <= n
  BY DEF Run
<1> HIDE DEF T, U, d, u
<1>5. d \in U /\ u[d].node = e.node /\ \A m \in U : m <= d
  <2>1. d \in U
    BY <1>2
  <2>2. ASSUME NEW m \in U
        PROVE  m <= d
    <3>1. CASE m = d
      BY <1>3, <3>1
    <3>2. CASE m \in T
      BY <1>3, <3>2
    <3> QED BY <1>2, <3>1, <3>2
  <2> QED BY <1>3, <2>1, <2>2
<1>6. ASSUME NEW n \in U, \A m \in U : m >= n
      PROVE  u[n].node = "member"
  <2>1. CASE n = d
    <3>1. T = {}
      BY <1>2, <1>3, <1>6, <2>1
    <3>2. kind = "none"
      BY <1>4, <3>1
    <3> QED BY <1>3, <2>1, <3>2
  <2>2. CASE n # d
    BY <1>2, <1>3, <1>4, <1>6, <2>2
  <2> QED BY <2>1, <2>2
<1>7. ASSUME NEW n \in U, NEW m \in U, m < n, \A k \in U : k <= m \/ k >= n
      PROVE  (u[m].node = "member") # (u[n].node = "member")
  <2>1. CASE n = d
    <3>1. m \in T
      BY <1>2, <1>7, <2>1, <1>3
    <3>2. kind # "none"
      BY <1>4, <3>1
    <3>3. PICK x \in T : t[x].node = kind /\ \A k \in T : k <= x
      BY <1>4, <3>2
    <3>4. x = m
      BY <1>2, <1>3, <1>7, <2>1, <3>1, <3>3
    <3>5. u[m].node = kind /\ u[n].node = e.node
      BY <1>3, <2>1, <3>1, <3>3, <3>4
    <3> QED BY <3>2, <3>5
  <2>2. CASE n # d
    <3>0. n \in T
      BY <1>2, <1>7, <2>2
    <3>1. n \in T /\ m \in T /\ \A k \in T : k <= m \/ k >= n
      <4>1. n \in Nat /\ d \in Nat /\ n < d
        BY <1>3, <3>0
      <4>2. m # d
        BY <1>7, <4>1
      <4>3. m \in T
        BY <1>2, <4>2
      <4>4. \A k \in T : k \in U
        BY <1>2
      <4> QED BY <1>7, <3>0, <4>3, <4>4
    <3>2. (t[m].node = "member") # (t[n].node = "member")
      BY <1>4, <1>7, <3>1
    <3> QED BY <1>3, <3>1, <3>2
  <2> QED BY <2>1, <2>2
<1> QED BY <1>5, <1>6, <1>7

LEMMA RunNone ==
  ASSUME NEW t, NEW c, NEW list,
         \A n \in DOMAIN t : \/ t[n].node = "place" \/ t[n].list # list
                             \/ ~Shown(c, Conditions(t[n].at))
  PROVE  Run(t, c, list, "none")
<1>1. Left(t, c, list) = {}
  BY DEF Left
<1> QED BY <1>1 DEF Run

LEMMA RunJoin ==
  ASSUME NEW S, NEW s \in Seq(S), NEW t \in Seq(S), NEW c, NEW list, NEW k, NEW l,
         Run(s, c, list, k), Run(t, c, list, l), k = "none" \/ l = "none"
  PROVE  Run(Cat(s, t), c, list, IF k = "none" THEN l ELSE k)
<1>1. CASE k = "none"
  BY <1>1, RunAfter
<1>2. CASE k # "none"
  BY <1>2, RunBefore
<1> QED BY <1>1, <1>2

-----------------------------------------------------------------------------
(* What Declare gives to the template.                                     *)
Declaration ==
  /\ type \in Types /\ start \in 0 .. Len(source)
  /\ Len(members) \in Nat /\ members \in [1 .. Len(members) -> start .. Len(source)]
  /\ skip \subseteq 1 .. Len(members)
  /\ Declared(type, start, members, skip)

LEMMA NodesType ==
  ASSUME TypeOK, Declaration
  PROVE  /\ Len(source) \in Nat /\ Reset \in Int /\ Reset < 0
         /\ \A m \in 1 .. Len(members) : members[m] \in Reset .. Len(source)
         /\ start \in Reset .. Len(source) /\ Reset \in Reset .. Len(source)
         /\ \A p \in Reset .. Len(source) :
              /\ Place(p) \in Places /\ Place(p) \in Nodes /\ Place(p).node = "place"
              /\ Place(p).at = p
         /\ \A what \in {"body", "separator", "member"}, list \in Lists,
               p \in Reset .. Len(source) :
              /\ Text(what, list, p) \in TextNodes /\ Text(what, list, p) \in Nodes
              /\ Text(what, list, p).node = what /\ Text(what, list, p).list = list
              /\ Text(what, list, p).at = p
<1>1. Len(source) \in Nat
  BY SourceType
<1>2. Reset \in Int /\ Reset < 0
  BY DEF Reset
<1>3. /\ \A m \in 1 .. Len(members) : members[m] \in Reset .. Len(source)
      /\ start \in Reset .. Len(source) /\ Reset \in Reset .. Len(source)
  BY <1>1, <1>2 DEF Declaration
<1>4. ASSUME NEW p \in Reset .. Len(source)
      PROVE  /\ Place(p) \in Places /\ Place(p) \in Nodes /\ Place(p).node = "place"
             /\ Place(p).at = p
  BY DEF Place, Places, Nodes
<1>5. ASSUME NEW what \in {"body", "separator", "member"}, NEW list \in Lists,
             NEW p \in Reset .. Len(source)
      PROVE  /\ Text(what, list, p) \in TextNodes /\ Text(what, list, p) \in Nodes
             /\ Text(what, list, p).node = what /\ Text(what, list, p).list = list
             /\ Text(what, list, p).at = p
  BY DEF Text, TextNodes, Nodes
<1> QED BY <1>1, <1>2, <1>3, <1>4, <1>5

Wanted(m, list) == Separated(list) /\ \E n \in 1 .. m - 1 : InList(n, list)

(* The three forms of a piece.                                             *)
LEMMA PieceForms ==
  ASSUME NEW m, NEW list, NEW some
  PROVE  Piece(m, list, some) =
           IF ~InList(m, list) THEN <<Place(members[m])>>
           ELSE IF some THEN <<Place(members[m])>> \o <<Text("separator", list, members[m])>>
                             \o <<Text("member", list, members[m])>>
           ELSE <<Place(members[m])>> \o <<Text("member", list, members[m])>>
<1>1. PICK p : p = Place(members[m])
  OBVIOUS
<1>2. <<p>> \o <<>> = <<p>>
  OBVIOUS
<1> QED BY <1>1, <1>2 DEF Piece

Parts(m, list, p, x, y) ==
  /\ Len(p) = 1 /\ p[1].node = "place" /\ p[1].at = members[m]
  /\ Len(x) = 1 /\ x[1].node = "separator" /\ x[1].list = list /\ x[1].at = members[m]
  /\ Len(y) = 1 /\ y[1].node = "member" /\ y[1].list = list /\ y[1].at = members[m]
  /\ x = <<Text("separator", list, members[m])>>
  /\ \A some \in BOOLEAN : Piece(m, list, some) =
       IF ~InList(m, list) THEN p ELSE IF some THEN Cat(Cat(p, x), y) ELSE Cat(p, y)

LEMMA PieceParts ==
  ASSUME TypeOK, Declaration, NEW m \in 1 .. Len(members), NEW list \in Lists
  PROVE  \E p, x, y \in Seq(Nodes) : Parts(m, list, p, x, y)
<1>0. members[m] \in Reset .. Len(source)
  BY NodesType
<1>1. PICK p \in Seq(Nodes) :
        /\ p = <<Place(members[m])>> /\ Len(p) = 1
        /\ p[1].node = "place" /\ p[1].at = members[m]
  <2>1. /\ Place(members[m]) \in Nodes /\ Place(members[m]).node = "place"
        /\ Place(members[m]).at = members[m]
    BY <1>0, NodesType
  <2> QED BY <2>1, Single
<1>2. PICK x \in Seq(Nodes) :
        /\ x = <<Text("separator", list, members[m])>> /\ Len(x) = 1
        /\ x[1].node = "separator" /\ x[1].list = list /\ x[1].at = members[m]
  <2> DEFINE e == Text("separator", list, members[m])
  <2>1. e \in Nodes /\ e.node = "separator" /\ e.list = list /\ e.at = members[m]
    BY <1>0, NodesType
  <2> HIDE DEF e
  <2>2. \E s \in Seq(Nodes) : s = <<e>> /\ Len(s) = 1 /\ s[1] = e
    BY <2>1, Single
  <2> QED BY <2>1, <2>2 DEF e
<1>3. PICK y \in Seq(Nodes) :
        /\ y = <<Text("member", list, members[m])>> /\ Len(y) = 1
        /\ y[1].node = "member" /\ y[1].list = list /\ y[1].at = members[m]
  <2> DEFINE e == Text("member", list, members[m])
  <2>1. e \in Nodes /\ e.node = "member" /\ e.list = list /\ e.at = members[m]
    BY <1>0, NodesType
  <2> HIDE DEF e
  <2>2. \E s \in Seq(Nodes) : s = <<e>> /\ Len(s) = 1 /\ s[1] = e
    BY <2>1, Single
  <2> QED BY <2>1, <2>2 DEF e
<1>4. \A some \in BOOLEAN : Piece(m, list, some) =
        IF ~InList(m, list) THEN p ELSE IF some THEN Cat(Cat(p, x), y) ELSE Cat(p, y)
  BY <1>1, <1>2, <1>3, PieceForms DEF Cat
<1> QED BY <1>1, <1>2, <1>3, <1>4 DEF Parts

LEMMA PieceSteady ==
  ASSUME TypeOK, Declaration, NEW m \in 1 .. Len(members), NEW list \in Lists,
         NEW some \in BOOLEAN
  PROVE  /\ Piece(m, list, some) \in Seq(Nodes) /\ Steady(Piece(m, list, some))
         /\ Piece(m, list, some) # <<>> /\ Piece(m, list, some)[1].node = "place"
         /\ \A n \in DOMAIN Piece(m, list, some) :
              /\ Piece(m, list, some)[n].at = members[m]
              /\ Piece(m, list, some)[n].node = "place" \/ Piece(m, list, some)[n].list = list
<1>0. PICK p, x, y \in Seq(Nodes) : Parts(m, list, p, x, y)
  BY PieceParts
<1>1. /\ Len(p) = 1 /\ p[1].node = "place" /\ p[1].at = members[m]
      /\ Len(x) = 1 /\ x[1].list = list /\ x[1].at = members[m]
      /\ Len(y) = 1 /\ y[1].list = list /\ y[1].at = members[m]
  BY <1>0 DEF Parts
<1>4. PICK w : w = Piece(m, list, some)
  OBVIOUS
<1>5. w = IF ~InList(m, list) THEN p ELSE IF some THEN Cat(Cat(p, x), y) ELSE Cat(p, y)
  BY <1>0, <1>4, Zenon DEF Parts
<1>6. /\ w \in Seq(Nodes) /\ w # <<>> /\ w[1].node = "place"
      /\ DOMAIN w = 1 .. Len(w) /\ Len(w) \in 1 .. 3
      /\ \A n \in DOMAIN w : w[n].at = members[m] /\ (w[n].node = "place" \/ w[n].list = list)
  <2>1. CASE w = p
    <3>1. w \in Seq(Nodes) /\ Len(w) = 1 /\ DOMAIN w = 1 .. 1 /\ w[1] = p[1]
      BY <1>1, <2>1
    <3>2. \A n \in 1 .. 1 : n = 1
      OBVIOUS
    <3>3. w # <<>> /\ Len(w) \in 1 .. 3
      <4>1. Len(w) # 0 /\ Len(w) \in 1 .. 3
        BY <3>1
      <4> QED BY <4>1
    <3>4. \A n \in DOMAIN w : w[n].at = members[m] /\ w[n].node = "place"
      BY <1>1, <3>1, <3>2
    <3> QED BY <1>1, <3>1, <3>3, <3>4
  <2>2. CASE w = Cat(p, y)
    <3>1. Joined(Nodes, p, y)
      BY JoinedFacts
    <3>2. w \in Seq(Nodes) /\ Len(w) = 2 /\ DOMAIN w = 1 .. 2 /\ w[1] = p[1] /\ w[2] = y[1]
      BY <1>1, <2>2, <3>1 DEF Joined
    <3>3. \A n \in 1 .. 2 : n = 1 \/ n = 2
      OBVIOUS
    <3>4. w # <<>> /\ Len(w) \in 1 .. 3
      <4>1. Len(w) # 0 /\ Len(w) \in 1 .. 3
        BY <3>2
      <4> QED BY <4>1
    <3>5. \A n \in DOMAIN w : w[n].at = members[m] /\ (w[n].node = "place" \/ w[n].list = list)
      BY <1>1, <3>2, <3>3
    <3> QED BY <1>1, <3>2, <3>4, <3>5
  <2>3. CASE w = Cat(Cat(p, x), y)
    <3>1. PICK v \in Seq(Nodes) : v = Cat(p, x)
      BY JoinType
    <3>2. Joined(Nodes, p, x) /\ Joined(Nodes, v, y)
      BY JoinedFacts
    <3>3. Len(v) = 2 /\ v[1] = p[1] /\ v[2] = x[1]
      BY <1>1, <3>1, <3>2 DEF Joined
    <3>4. /\ w \in Seq(Nodes) /\ Len(w) = 3 /\ DOMAIN w = 1 .. 3
          /\ w[1] = p[1] /\ w[2] = x[1] /\ w[3] = y[1]
      BY <1>1, <2>3, <3>1, <3>2, <3>3 DEF Joined
    <3>5. ASSUME NEW n \in DOMAIN w
          PROVE  w[n].at = members[m] /\ (w[n].node = "place" \/ w[n].list = list)
      <4>1. n = 1 \/ n = 2 \/ n = 3
        BY <3>4
      <4> QED BY <1>1, <3>4, <4>1
    <3>6. w # <<>>
      <4>1. Len(w) # 0
        BY <3>4
      <4> QED BY <4>1
    <3>7. w[1].node = "place"
      BY <1>1, <3>4
    <3> QED BY <3>4, <3>5, <3>6, <3>7
  <2> QED BY <1>5, <2>1, <2>2, <2>3
<1>7. Steady(w)
  <2>1. \A n \in 2 .. Len(w) : n \in DOMAIN w /\ n - 1 \in DOMAIN w
    BY <1>6
  <2> QED BY <1>6, <2>1 DEF Steady
<1> QED BY <1>4, <1>6, <1>7


Added(m, list, t, p, x, y) ==
  /\ ~InList(m, list) => /\ Cat(t, Piece(m, list, TRUE)) = Cat(t, p)
                         /\ Cat(t, Piece(m, list, FALSE)) = Cat(t, p)
  /\ InList(m, list) => /\ Cat(t, Piece(m, list, TRUE)) = Cat(Cat(Cat(t, p), x), y)
                        /\ Cat(t, Piece(m, list, FALSE)) = Cat(Cat(t, p), y)

LEMMA PartsJoin ==
  ASSUME NEW m, NEW list, NEW t \in Seq(Nodes),
         NEW p \in Seq(Nodes), NEW x \in Seq(Nodes), NEW y \in Seq(Nodes),
         Parts(m, list, p, x, y)
  PROVE  Added(m, list, t, p, x, y)
<1>1. \A some \in BOOLEAN : Piece(m, list, some) =
        IF ~InList(m, list) THEN p ELSE IF some THEN Cat(Cat(p, x), y) ELSE Cat(p, y)
  BY Zenon DEF Parts
<1>2. Cat(Cat(Cat(t, p), x), y) = Cat(t, Cat(Cat(p, x), y))
  BY RegroupTwice
<1>3. Cat(Cat(t, p), y) = Cat(t, Cat(p, y))
  BY Regroup
<1> QED BY <1>1, <1>2, <1>3, Zenon DEF Added

(* A piece goes on with what its list has in a configuration.              *)
LEMMA PieceRun ==
  ASSUME TypeOK, Declaration, NEW m \in 1 .. Len(members), NEW list \in Lists,
         NEW some \in BOOLEAN, NEW t \in Seq(Nodes), NEW c,
         NEW kind \in {"none", "member", "separator"}, Run(t, c, list, kind),
         NEW shown, shown = (InList(m, list) /\ Shown(c, Conditions(members[m]))),
         shown /\ some => kind = "member", shown /\ ~some => kind # "member"
  PROVE  Run(Cat(t, Piece(m, list, some)), c, list, IF shown THEN "member" ELSE kind)
<1>0. PICK p, x, y \in Seq(Nodes) : Parts(m, list, p, x, y)
  BY PieceParts
<1>1. /\ Len(p) = 1 /\ p[1].node = "place" /\ p[1].at = members[m]
      /\ Len(x) = 1 /\ x[1].node = "separator" /\ x[1].list = list /\ x[1].at = members[m]
      /\ Len(y) = 1 /\ y[1].node = "member" /\ y[1].list = list /\ y[1].at = members[m]
  BY <1>0 DEF Parts
<1>11. Added(m, list, t, p, x, y)
  BY <1>0, PartsJoin
<1>12. some = TRUE \/ some = FALSE
  OBVIOUS
<1>2. DOMAIN p = {1} /\ \A n \in DOMAIN p : p[n].node = "place"
  BY <1>1
<1>3. PICK v \in Seq(Nodes) : v = Cat(t, p) /\ Run(v, c, list, kind)
  <2>1. Run(p, c, list, "none")
    BY <1>2, RunNone
  <2>2. Run(Cat(t, p), c, list, kind)
    BY <2>1, RunBefore
  <2> QED BY <2>2, JoinType
<1>4. CASE ~InList(m, list)
  <2>1. Cat(t, Piece(m, list, some)) = v
    BY <1>11, <1>12, <1>3, <1>4, Zenon DEF Added
  <2>2. ~shown
    BY <1>4
  <2> QED BY <1>3, <2>1, <2>2
<1>5. CASE InList(m, list) /\ ~shown
  <2>1. PICK w \in Seq(Nodes) : w = Piece(m, list, some)
    BY PieceSteady
  <2>2. \A n \in DOMAIN w : w[n].at = members[m]
    BY <2>1, PieceSteady
  <2>3. \A n \in DOMAIN w : ~Shown(c, Conditions(w[n].at))
    BY <1>5, <2>2
  <2>4. Run(w, c, list, "none")
    BY <2>3, RunNone
  <2>5. Run(Cat(t, w), c, list, kind)
    BY <2>4, RunBefore
  <2> QED BY <1>5, <2>1, <2>5
<1>6. CASE shown /\ some = FALSE
  <2>1. Run(Cat(v, y), c, list, y[1].node)
    BY <1>1, <1>3, <1>6, RunNode
  <2>2. InList(m, list)
    BY <1>6
  <2>3. Cat(t, Piece(m, list, some)) = Cat(v, y)
    BY <1>11, <1>3, <1>6, <2>2, Zenon DEF Added
  <2> QED BY <1>1, <1>6, <2>1, <2>3
<1>7. CASE shown /\ some = TRUE
  <2>1. Run(Cat(v, x), c, list, x[1].node)
    BY <1>1, <1>3, <1>7, RunNode
  <2>2. PICK w \in Seq(Nodes) : w = Cat(v, x) /\ Run(w, c, list, "separator")
    BY <1>1, <2>1, JoinType
  <2>3. Run(Cat(w, y), c, list, y[1].node)
    BY <1>1, <1>7, <2>2, RunNode
  <2>4. InList(m, list)
    BY <1>7
  <2>5. Cat(t, Piece(m, list, some)) = Cat(w, y)
    BY <1>11, <1>3, <1>7, <2>2, <2>4, Zenon DEF Added
  <2> QED BY <1>1, <1>7, <2>3, <2>5
<1> QED BY <1>12, <1>4, <1>5, <1>6, <1>7

-----------------------------------------------------------------------------
(* The first member of a list that wants separators is there whenever      *)
(* another is.                                                             *)
LEMMA ShownPrefix ==
  ASSUME NEW S, NEW a \in Seq(Seq(S)), NEW b \in Seq(Seq(S)), IsPrefix(a, b),
         NEW c, Shown(c, b)
  PROVE  Shown(c, a)
<1>1. /\ Len(a) \in Nat /\ Len(b) \in Nat /\ Len(a) <= Len(b)
      /\ DOMAIN a = 1 .. Len(a) /\ DOMAIN b = 1 .. Len(b)
  BY DEF IsPrefix
<1>2. ASSUME NEW n \in 1 .. Len(a)
      PROVE  a[n] = b[n] /\ n \in DOMAIN b
  <2>1. SubSeq(a, 1, Len(a))[n] = SubSeq(b, 1, Len(a))[n]
    BY DEF IsPrefix
  <2>2. SubSeq(a, 1, Len(a))[n] = a[n]
    BY <1>1
  <2>3. SubSeq(b, 1, Len(a))[n] = b[n]
    BY <1>1
  <2> QED BY <1>1, <2>1, <2>2, <2>3
<1> QED BY <1>1, <1>2 DEF Shown

SeparatedList(list) == list \in ListsOf(type) /\ Separated(list)

LEMMA SeparatedType ==
  ASSUME Declaration, NEW list, SeparatedList(list)
  PROVE  type # "handle" /\ list \in Lists
<1>1. type \in {"struct", "dispatch", "enum", "handle"}
  BY DEF Declaration, Types
<1> QED BY <1>1 DEF SeparatedList, Separated, ListsOf, Lists

LEMMA FirstShown ==
  ASSUME TypeOK, Declaration, NEW list, SeparatedList(list),
         NEW m \in 1 .. Len(members), InList(m, list),
         \E n \in 1 .. m - 1 : InList(n, list),
         NEW c, Shown(c, Conditions(members[m]))
  PROVE  \E n \in 1 .. m - 1 : InList(n, list) /\ Shown(c, Conditions(members[n]))
<1> DEFINE T == {n \in 1 .. Len(members) : InList(n, list)}
           U == {n \in 1 .. m - 1 : InList(n, list)}
<1>1. Len(members) \in Nat /\ DOMAIN members = 1 .. Len(members)
  BY DEF Declaration
<1>2. U \in SUBSET Nat /\ U # {}
  OBVIOUS
<1>3. PICK n \in U : \A k \in U : n <= k
  BY <1>2, Least
<1>4. T \in {DOMAIN members, DOMAIN members \ skip}
  BY <1>1 DEF InList
<1>5. n \in T /\ m \in T /\ \A k \in T : k < n => k \notin T
  <2>1. \A k \in T : k < n => k \in U
    BY <1>1
  <2>2. \A k \in U : k < n => FALSE
    BY <1>3
  <2> QED BY <1>1, <2>1, <2>2
<1>6. IsPrefix(Conditions(members[n]), Conditions(members[m]))
  <2>1. type # "handle"
    BY SeparatedType
  <2>2. \A S \in {DOMAIN members, DOMAIN members \ skip} :
          \A k, l \in S : (\A j \in S : j < k => j \notin S) =>
            IsPrefix(Conditions(members[k]), Conditions(members[l]))
    BY <2>1 DEF Declaration, Declared
  <2> HIDE DEF T, U
  <2> QED BY <1>4, <1>5, <2>2
<1>7. /\ Conditions(members[n]) \in Seq(Seq(1 .. Len(source)))
      /\ Conditions(members[m]) \in Seq(Seq(1 .. Len(source)))
  <2>1. n \in 1 .. Len(members)
    BY <1>1
  <2>2. members[n] \in Reset .. Len(source) /\ members[m] \in Reset .. Len(source)
    BY <2>1, NodesType
  <2> QED BY <2>2, ConditionsType
<1>8. Shown(c, Conditions(members[n]))
  BY <1>6, <1>7, ShownPrefix
<1> QED BY <1>8

-----------------------------------------------------------------------------
(* What a list is after its first m members.                               *)
KindAfter(m, c, list) ==
  IF \E n \in 1 .. m : InList(n, list) /\ Shown(c, Conditions(members[n])) THEN "member"
  ELSE "none"

Opens(t) == t # <<>> => t[1].node = "place"
Within(t, list) == \A n \in DOMAIN t : t[n].node = "place" \/ t[n].list = list
Part(t, list) == t \in Seq(Nodes) /\ Steady(t) /\ Opens(t) /\ Within(t, list)

LEMMA PartJoin ==
  ASSUME NEW list, NEW t, Part(t, list), NEW w \in Seq(Nodes), Steady(w), Within(w, list),
         Opens(w) \/ (t # <<>> /\ Joins(t, w))
  PROVE  Part(Cat(t, w), list)
<1>1. t \in Seq(Nodes) /\ Steady(t) /\ Opens(t) /\ Within(t, list) /\ Joins(t, w)
  BY DEF Part, Joins, Opens
<1>2. Cat(t, w) \in Seq(Nodes) /\ Steady(Cat(t, w))
  BY <1>1, JoinType, SteadyJoin
<1>3. Joined(Nodes, t, w)
  BY <1>1, JoinedFacts
<1>4. Opens(Cat(t, w))
  <2>1. CASE t = <<>>
    <3>1. Cat(t, w) = w
      BY <2>1, ConcatEmptySeq DEF Cat
    <3> QED BY <2>1, <3>1
  <2>2. CASE t # <<>>
    <3>1. 1 \in 1 .. Len(t)
      BY <1>1, <2>2
    <3>2. Cat(t, w)[1] = t[1]
      BY <1>3, <3>1 DEF Joined
    <3> QED BY <1>1, <2>2, <3>2 DEF Opens
  <2> QED BY <2>1, <2>2
<1>5. Within(Cat(t, w), list)
  <2>1. SUFFICES ASSUME NEW n \in 1 .. Len(t) + Len(w)
                 PROVE  Cat(t, w)[n].node = "place" \/ Cat(t, w)[n].list = list
    BY <1>3 DEF Joined, Within
  <2>2. \/ n \in DOMAIN t /\ Cat(t, w)[n] = t[n]
        \/ n - Len(t) \in DOMAIN w /\ Cat(t, w)[n] = w[n - Len(t)]
    <3>1. /\ Len(t) \in Nat /\ Len(w) \in Nat
          /\ DOMAIN t = 1 .. Len(t) /\ DOMAIN w = 1 .. Len(w)
      BY <1>1, JoinLen
    <3>2. CASE n <= Len(t)
      <4>1. n \in 1 .. Len(t)
        BY <3>1, <3>2
      <4> QED BY <1>1, <3>1, <4>1, JoinLeft
    <3>3. CASE n > Len(t)
      <4>1. n \in Len(t) + 1 .. Len(t) + Len(w)
        BY <3>1, <3>3
      <4> QED BY <1>1, <3>1, <4>1, JoinRest
    <3> QED BY <3>1, <3>2, <3>3
  <2> QED BY <1>1, <2>2 DEF Within
<1> QED BY <1>2, <1>4, <1>5 DEF Part

LEMMA PiecePart ==
  ASSUME TypeOK, Declaration, NEW m \in 1 .. Len(members), NEW list \in Lists,
         NEW some \in BOOLEAN
  PROVE  /\ Part(Piece(m, list, some), list) /\ Piece(m, list, some) # <<>>
         /\ \A n \in DOMAIN Piece(m, list, some) : Piece(m, list, some)[n].at = members[m]
BY PieceSteady DEF Part, Opens, Within

Grown(t, m, list) ==
  /\ Part(t, list)
  /\ SeparatedList(list) /\ list # "entries" => \A c : Run(t, c, list, KindAfter(m, c, list))

LEMMA GrownPiece ==
  ASSUME TypeOK, Declaration, NEW list \in Lists, NEW m \in 1 .. Len(members),
         NEW t, Grown(t, m - 1, list)
  PROVE  Grown(Cat(t, Piece(m, list, Wanted(m, list))), m, list)
<1> DEFINE some == Wanted(m, list)
<1>0. some \in BOOLEAN
  BY DEF Wanted, Separated
<1> HIDE DEF some
<1>1. PICK w : w = Piece(m, list, some) /\ Part(w, list)
  BY <1>0, PiecePart
<1>2. Part(t, list) /\ t \in Seq(Nodes)
  BY DEF Grown, Part
<1>3. Part(Cat(t, w), list)
  BY <1>1, <1>2, PartJoin DEF Part
<1>7. ASSUME SeparatedList(list), list # "entries", NEW c
      PROVE  Run(Cat(t, w), c, list, KindAfter(m, c, list))
  <2> DEFINE shown == InList(m, list) /\ Shown(c, Conditions(members[m]))
             kind == KindAfter(m - 1, c, list)
  <2>1. Run(t, c, list, kind) /\ kind \in {"none", "member"}
    BY <1>7 DEF Grown, KindAfter
  <2>2. (shown /\ some => kind = "member") /\ (shown /\ ~some => kind # "member")
    <3>1. CASE shown /\ some
      <4>1. \E n \in 1 .. m - 1 : InList(n, list)
        BY <3>1 DEF some, Wanted
      <4>2. \E n \in 1 .. m - 1 : InList(n, list) /\ Shown(c, Conditions(members[n]))
        BY <1>7, <3>1, <4>1, FirstShown
      <4> QED BY <3>1, <4>2 DEF KindAfter
    <3>2. CASE shown /\ ~some
      <4>1. ~ \E n \in 1 .. m - 1 : InList(n, list)
        BY <1>7, <3>2 DEF some, Wanted, SeparatedList
      <4> QED BY <3>2, <4>1 DEF KindAfter
    <3> QED BY <3>1, <3>2
  <2>3. KindAfter(m, c, list) = IF shown THEN "member" ELSE kind
    <3>1. \A n : n \in 1 .. m <=> n \in 1 .. m - 1 \/ n = m
      BY DEF Declaration
    <3> QED BY <3>1 DEF KindAfter
  <2> HIDE DEF shown, kind
  <2>4. Run(Cat(t, Piece(m, list, some)), c, list, IF shown THEN "member" ELSE kind)
    BY <1>0, <1>2, <2>1, <2>2, PieceRun DEF shown
  <2> QED BY <1>1, <2>3, <2>4
<1>8. Grown(Cat(t, w), m, list)
  BY <1>3, <1>7 DEF Grown
<1> QED BY <1>1, <1>8 DEF some


LEMMA GrownNothing ==
  ASSUME NEW list
  PROVE  Grown(<<>>, 0, list)
<1>1. <<>> \in Seq(Nodes) /\ Len(<<>>) = 0 /\ DOMAIN <<>> = {}
  OBVIOUS
<1>2. Part(<<>>, list)
  BY <1>1 DEF Part, Steady, Opens, Within
<1>3. \A c : KindAfter(0, c, list) = "none"
  BY DEF KindAfter
<1>4. \A c : Run(<<>>, c, list, "none")
  BY <1>1, RunNone
<1> QED BY <1>1, <1>2, <1>3, <1>4 DEF Grown

LEMMA PiecesGrown ==
  ASSUME TypeOK, Declaration, NEW list \in Lists
  PROVE  Grown(Pieces(list), Len(members), list)
<1> DEFINE N == Len(members)
           P(m) == Piece(m, list, Wanted(m, list))
           step == [x \in (1 .. N) \X Seq(Nodes) |-> Cat(x[2], P(x[1]))]
           after[m \in 0 .. N] == IF m = 0 THEN <<>> ELSE after[m - 1] \o P(m)
<1>0. N \in Nat
  BY DEF Declaration
<1>1. step \in [(1 .. N) \X Seq(Nodes) -> Seq(Nodes)]
  <2>1. ASSUME NEW x \in (1 .. N) \X Seq(Nodes)
        PROVE  Cat(x[2], P(x[1])) \in Seq(Nodes)
    <3>1. x[1] \in 1 .. N /\ x[2] \in Seq(Nodes)
      OBVIOUS
    <3>2. Wanted(x[1], list) \in BOOLEAN
      BY DEF Wanted, Separated
    <3>3. P(x[1]) \in Seq(Nodes)
      BY <3>1, <3>2, PieceSteady
    <3> HIDE DEF P
    <3> QED BY <3>1, <3>3, JoinType
  <2> HIDE DEF P
  <2> QED BY <2>1
<1>2. PICK f \in [0 .. N -> Seq(Nodes)] :
        f[0] = <<>> /\ \A m \in 1 .. N : f[m] = step[<<m, f[m - 1]>>]
  <2> HIDE DEF step, N
  <2>1. Steps(step, N, Seq(Nodes)) /\ <<>> \in Seq(Nodes)
    BY <1>1 DEF Steps
  <2>2. \E f : Solves(f, N, Seq(Nodes), <<>>, step)
    BY <1>0, <2>1, Recursion
  <2> QED BY <2>2 DEF Solves
<1>3. ASSUME NEW m \in 1 .. N
      PROVE  f[m] = Cat(f[m - 1], P(m))
  <2>1. m - 1 \in 0 .. N
    BY <1>0
  <2>2. <<m, f[m - 1]>> \in (1 .. N) \X Seq(Nodes)
    BY <1>2, <2>1
  <2> HIDE DEF P
  <2> QED BY <1>2, <2>2
<1> HIDE DEF P, step
<1>4. f = [m \in 0 .. N |-> IF m = 0 THEN <<>> ELSE Cat(f[m - 1], P(m))]
  BY <1>0, <1>2, <1>3
<1>5. after = [m \in 0 .. N |-> IF m = 0 THEN <<>> ELSE Cat(after[m - 1], P(m))]
  BY <1>4 DEF Cat
<1>6. Pieces(list) = after[N]
  BY DEF Pieces, P, Wanted
<1> HIDE DEF after
<1>7. /\ after[0] = <<>>
      /\ \A m \in 1 .. N : after[m] = Cat(after[m - 1], P(m))
  <2> DEFINE g == [m \in 0 .. N |-> IF m = 0 THEN <<>> ELSE Cat(after[m - 1], P(m))]
  <2>1. \A m \in 0 .. N : g[m] = IF m = 0 THEN <<>> ELSE Cat(after[m - 1], P(m))
    OBVIOUS
  <2>2. g = after
    BY <1>5
  <2> HIDE DEF g
  <2>3. \A m \in 0 .. N : after[m] = IF m = 0 THEN <<>> ELSE Cat(after[m - 1], P(m))
    BY <2>1, <2>2
  <2> HIDE DEF after, N
  <2>4. 0 \in 0 .. N /\ \A m \in 1 .. N : m \in 0 .. N /\ m # 0
    BY <1>0
  <2> QED BY <2>3, <2>4
<1> DEFINE T == {m \in Nat : m <= N => Grown(after[m], m, list)}
<1>8. 0 \in T
  BY <1>7, GrownNothing
<1>9. ASSUME NEW m \in Nat, m \in T
      PROVE  m + 1 \in T
  <2>1. SUFFICES ASSUME m + 1 <= N
                 PROVE  Grown(after[m + 1], m + 1, list)
    OBVIOUS
  <2>2. m + 1 \in 1 .. N /\ (m + 1) - 1 = m /\ m <= N
    BY <1>0, <2>1
  <2>3. Grown(after[m], (m + 1) - 1, list)
    BY <1>9, <2>2
  <2>4. after[m + 1] = Cat(after[m], P(m + 1))
    BY <1>7, <2>2
  <2>5. Grown(Cat(after[m], P(m + 1)), m + 1, list)
    BY <2>2, <2>3, GrownPiece DEF P
  <2> QED BY <2>4, <2>5
<1> HIDE DEF T
<1>10. N \in T
  BY <1>0, <1>8, <1>9, SetInduction
<1> QED BY <1>0, <1>6, <1>10 DEF T


-----------------------------------------------------------------------------
(* The entries of an enum: after all but the last there is a comma.        *)
Comma(m) == IF m < Len(members) THEN <<Text("separator", "entries", members[m])>> ELSE <<>>
Entry(m) == Cat(Piece(m, "entries", FALSE), Comma(m))

EntriesGrown(t, m) ==
  /\ Part(t, "entries")
  /\ \A c : \E kind \in {"none", "member", "separator"} :
       Run(t, c, "entries", kind) /\ (m < Len(members) => kind # "member")

LEMMA CommaType ==
  ASSUME TypeOK, Declaration, NEW m \in 1 .. Len(members)
  PROVE  /\ Comma(m) \in Seq(Nodes)
         /\ m < Len(members) =>
              /\ Len(Comma(m)) = 1 /\ Comma(m)[1].node = "separator"
              /\ Comma(m)[1].list = "entries" /\ Comma(m)[1].at = members[m]
         /\ ~(m < Len(members)) => Comma(m) = <<>>
<1> DEFINE e == Text("separator", "entries", members[m])
<1>1. "entries" \in Lists /\ members[m] \in Reset .. Len(source)
  BY NodesType DEF Lists
<1>2. e \in Nodes /\ e.node = "separator" /\ e.list = "entries" /\ e.at = members[m]
  BY <1>1, NodesType
<1>3. Comma(m) = IF m < Len(members) THEN <<e>> ELSE <<>>
  BY DEF Comma
<1> HIDE DEF e
<1>4. PICK s \in Seq(Nodes) : s = <<e>> /\ Len(s) = 1 /\ s[1] = e
  BY <1>2, Single
<1>5. <<>> \in Seq(Nodes)
  OBVIOUS
<1>6. CASE m < Len(members)
  <2>1. Comma(m) = s
    BY <1>3, <1>4, <1>6
  <2> QED BY <2>1, <1>2, <1>4, <1>6
<1>7. CASE ~(m < Len(members))
  <2>1. Comma(m) = <<>>
    BY <1>3, <1>7
  <2> QED BY <2>1, <1>5, <1>7
<1> QED BY <1>6, <1>7

LEMMA EntriesGrownStep ==
  ASSUME TypeOK, Declaration, NEW m \in 1 .. Len(members), NEW t, EntriesGrown(t, m - 1)
  PROVE  EntriesGrown(Cat(t, Entry(m)), m)
<1>0. "entries" \in Lists /\ Len(members) \in Nat
  BY DEF Lists, Declaration
<1>1. PICK w : /\ w = Piece(m, "entries", FALSE) /\ Part(w, "entries") /\ w # <<>>
               /\ \A n \in DOMAIN w : w[n].at = members[m]
  BY <1>0, PiecePart
<1>2. PICK x \in Seq(Nodes) :
        /\ x = Comma(m)
        /\ m < Len(members) => /\ Len(x) = 1 /\ x[1].node = "separator"
                               /\ x[1].list = "entries" /\ x[1].at = members[m]
        /\ ~(m < Len(members)) => x = <<>>
  BY CommaType
<1>3. Part(t, "entries") /\ t \in Seq(Nodes) /\ w \in Seq(Nodes)
  BY <1>1 DEF EntriesGrown, Part
<1>4. PICK u : u = Cat(t, w) /\ Part(u, "entries")
  BY <1>1, <1>3, PartJoin DEF Part
<1>5. u \in Seq(Nodes) /\ u # <<>> /\ u[Len(u)].at = members[m]
  <2>1. u \in Seq(Nodes)
    BY <1>4 DEF Part
  <2>2. /\ Len(u) = Len(t) + Len(w) /\ Len(w) \in 1 .. Len(w) /\ Len(t) \in Nat
        /\ Len(w) \in DOMAIN w
    <3>1. Len(w) \in Nat /\ Len(w) # 0
      BY <1>1, <1>3, EmptySeq
    <3> QED BY <1>3, <1>4, <3>1, JoinLen
  <2>3. u[Len(t) + Len(w)] = w[Len(w)]
    BY <1>3, <1>4, <2>2, JoinRight
  <2>4. Len(u) # 0
    BY <2>2
  <2> QED BY <1>1, <2>1, <2>2, <2>3, <2>4
<1>6. Part(Cat(u, x), "entries")
  <2>1. CASE m < Len(members)
    <3>1. DOMAIN x = {1} /\ x[1].list = "entries" /\ Len(x) = 1
      BY <1>2, <2>1
    <3>2. Steady(x) /\ Within(x, "entries")
      BY <3>1 DEF Steady, Within
    <3>3. Joins(u, x)
      BY <1>2, <1>5, <2>1 DEF Joins
    <3> QED BY <1>4, <1>5, <3>2, <3>3, PartJoin
  <2>2. CASE ~(m < Len(members))
    <3>1. Cat(u, x) = u
      BY <1>2, <1>5, <2>2, ConcatEmptySeq DEF Cat
    <3> QED BY <1>4, <3>1
  <2> QED BY <2>1, <2>2
<1>7. ASSUME NEW c
      PROVE  \E kind \in {"none", "member", "separator"} :
               Run(Cat(u, x), c, "entries", kind) /\ (m < Len(members) => kind # "member")
  <2>1. PICK kind \in {"none", "member", "separator"} :
               Run(t, c, "entries", kind) /\ kind # "member"
    BY <1>0 DEF EntriesGrown
  <2>2. InList(m, "entries")
    BY DEF InList
  <2>3. CASE Shown(c, Conditions(members[m]))
    <3>1. Run(u, c, "entries", "member")
      BY <1>0, <1>1, <1>3, <1>4, <2>1, <2>2, <2>3, PieceRun
    <3>2. CASE m < Len(members)
      <4>1. Run(Cat(u, x), c, "entries", x[1].node)
        BY <1>2, <1>5, <2>3, <3>1, <3>2, RunNode
      <4> QED BY <1>2, <3>2, <4>1
    <3>3. CASE ~(m < Len(members))
      <4>1. Cat(u, x) = u
        BY <1>2, <1>5, <3>3, ConcatEmptySeq DEF Cat
      <4> QED BY <3>1, <3>3, <4>1
    <3> QED BY <3>2, <3>3
  <2>4. CASE ~Shown(c, Conditions(members[m]))
    <3>1. Run(u, c, "entries", kind)
      BY <1>0, <1>1, <1>3, <1>4, <2>1, <2>4, PieceRun
    <3>2. Run(x, c, "entries", "none")
      <4>1. \A n \in DOMAIN x : x[n].at = members[m]
        <5>1. CASE m < Len(members)
          <6>1. \A n \in DOMAIN x : n = 1
            BY <1>2, <5>1
          <6> QED BY <1>2, <5>1, <6>1
        <5>2. CASE ~(m < Len(members))
          BY <1>2, <5>2
        <5> QED BY <5>1, <5>2
      <4> QED BY <2>4, <4>1, RunNone
    <3>3. Run(Cat(u, x), c, "entries", kind)
      BY <1>5, <3>1, <3>2, RunBefore
    <3> QED BY <2>1, <3>3
  <2> QED BY <2>3, <2>4
<1>8. Cat(t, Entry(m)) = Cat(u, x)
  BY <1>1, <1>2, <1>3, <1>4, Regroup DEF Entry
<1> QED BY <1>6, <1>7, <1>8 DEF EntriesGrown


LEMMA EntriesGrownNothing ==
  ASSUME NEW m
  PROVE  EntriesGrown(<<>>, 0)
<1>1. DOMAIN <<>> = {} /\ Part(<<>>, "entries")
  BY GrownNothing DEF Grown
<1>2. \A c : Run(<<>>, c, "entries", "none")
  BY <1>1, RunNone
<1> QED BY <1>1, <1>2 DEF EntriesGrown

LEMMA EntriesParts ==
  ASSUME TypeOK, Declaration
  PROVE  \E t : EntriesGrown(t, Len(members)) /\ Entries = Cat(t, <<Place(start)>>)
<1> DEFINE N == Len(members)
           step == [x \in (1 .. N) \X Seq(Nodes) |-> Cat(x[2], Entry(x[1]))]
           after[m \in 0 .. N] ==
             IF m = 0 THEN <<>>
             ELSE after[m - 1] \o Piece(m, "entries", FALSE)
                  \o (IF m < Len(members) THEN <<Text("separator", "entries", members[m])>>
                      ELSE <<>>)
<1>0. N \in Nat /\ "entries" \in Lists
  BY DEF Declaration, Lists
<1>1. /\ step \in [(1 .. N) \X Seq(Nodes) -> Seq(Nodes)]
      /\ \A m \in 1 .. N : /\ Entry(m) \in Seq(Nodes) /\ Comma(m) \in Seq(Nodes)
                           /\ Piece(m, "entries", FALSE) \in Seq(Nodes)
  <2>1. ASSUME NEW m \in 1 .. N
        PROVE  /\ Entry(m) \in Seq(Nodes) /\ Comma(m) \in Seq(Nodes)
               /\ Piece(m, "entries", FALSE) \in Seq(Nodes)
    <3>1. Piece(m, "entries", FALSE) \in Seq(Nodes)
      BY <1>0, PieceSteady
    <3>2. Comma(m) \in Seq(Nodes)
      BY CommaType
    <3>3. Entry(m) \in Seq(Nodes)
      BY <3>1, <3>2, JoinType DEF Entry
    <3> QED BY <3>1, <3>2, <3>3
  <2>2. ASSUME NEW x \in (1 .. N) \X Seq(Nodes)
        PROVE  Cat(x[2], Entry(x[1])) \in Seq(Nodes)
    <3>1. x[1] \in 1 .. N /\ x[2] \in Seq(Nodes)
      OBVIOUS
    <3>2. Entry(x[1]) \in Seq(Nodes)
      BY <2>1, <3>1
    <3> QED BY <3>1, <3>2, JoinType
  <2> QED BY <2>1, <2>2
<1>2. PICK f \in [0 .. N -> Seq(Nodes)] :
        f[0] = <<>> /\ \A m \in 1 .. N : f[m] = step[<<m, f[m - 1]>>]
  <2> HIDE DEF step, N
  <2>1. Steps(step, N, Seq(Nodes)) /\ <<>> \in Seq(Nodes)
    BY <1>1 DEF Steps
  <2>2. \E f : Solves(f, N, Seq(Nodes), <<>>, step)
    BY <1>0, <2>1, Recursion
  <2> QED BY <2>2 DEF Solves
<1>3. ASSUME NEW m \in 1 .. N
      PROVE  f[m] = Cat(Cat(f[m - 1], Piece(m, "entries", FALSE)), Comma(m))
  <2>1. m - 1 \in 0 .. N
    BY <1>0
  <2>2. <<m, f[m - 1]>> \in (1 .. N) \X Seq(Nodes) /\ f[m - 1] \in Seq(Nodes)
    BY <1>2, <2>1
  <2>3. f[m] = Cat(f[m - 1], Entry(m))
    BY <1>2, <2>2
  <2>4. Cat(f[m - 1], Entry(m)) = Cat(Cat(f[m - 1], Piece(m, "entries", FALSE)), Comma(m))
    BY <1>1, <2>2, Regroup DEF Entry
  <2> QED BY <2>3, <2>4
<1> HIDE DEF step
<1> DEFINE G(g) == [m \in 0 .. N |-> IF m = 0 THEN <<>>
                                     ELSE Cat(Cat(g[m - 1], Piece(m, "entries", FALSE)), Comma(m))]
<1>4. f = G(f)
  <2> DEFINE g == G(f)
  <2>1. g = [m \in 0 .. N |-> g[m]] /\ f = [m \in 0 .. N |-> f[m]]
    BY <1>2
  <2>2. \A m \in 0 .. N : g[m] = IF m = 0 THEN <<>> ELSE
          Cat(Cat(f[m - 1], Piece(m, "entries", FALSE)), Comma(m))
    OBVIOUS
  <2> HIDE DEF g, N
  <2>3. \A m \in 0 .. N : m = 0 \/ m \in 1 .. N
    BY <1>0
  <2>4. \A m \in 0 .. N : f[m] = g[m]
    BY <1>2, <1>3, <2>2, <2>3
  <2>5. f = g
    BY <2>1, <2>4
  <2> QED BY <2>5 DEF g
<1>5. after = G(after)
  BY <1>4 DEF Cat, Comma
<1>6. Entries = Cat(after[N], <<Place(start)>>)
  BY DEF Entries, Cat
<1> HIDE DEF after
<1>7. /\ after[0] = <<>>
      /\ \A m \in 1 .. N :
           after[m] = Cat(Cat(after[m - 1], Piece(m, "entries", FALSE)), Comma(m))
  <2> DEFINE g == G(after)
  <2>1. \A m \in 0 .. N : g[m] = IF m = 0 THEN <<>> ELSE
          Cat(Cat(after[m - 1], Piece(m, "entries", FALSE)), Comma(m))
    OBVIOUS
  <2>2. g = after
    BY <1>5
  <2> HIDE DEF g
  <2>3. \A m \in 0 .. N : after[m] = IF m = 0 THEN <<>> ELSE
          Cat(Cat(after[m - 1], Piece(m, "entries", FALSE)), Comma(m))
    BY <2>1, <2>2
  <2> HIDE DEF N
  <2>4. 0 \in 0 .. N /\ \A m \in 1 .. N : m \in 0 .. N /\ m # 0
    BY <1>0
  <2> QED BY <2>3, <2>4
<1> HIDE DEF G
<1> DEFINE T == {m \in Nat : m <= N => EntriesGrown(after[m], m)}
<1>8. 0 \in T
  BY <1>7, EntriesGrownNothing
<1>9. ASSUME NEW m \in Nat, m \in T
      PROVE  m + 1 \in T
  <2>1. SUFFICES ASSUME m + 1 <= N
                 PROVE  EntriesGrown(after[m + 1], m + 1)
    OBVIOUS
  <2>2. m + 1 \in 1 .. N /\ (m + 1) - 1 = m /\ m <= N
    BY <1>0, <2>1
  <2>3. EntriesGrown(after[m], (m + 1) - 1) /\ after[m] \in Seq(Nodes)
    BY <1>9, <2>2 DEF EntriesGrown, Part
  <2>4. after[m + 1] = Cat(after[m], Entry(m + 1))
    <3> DEFINE w == Piece(m + 1, "entries", FALSE)
               x == Comma(m + 1)
    <3>1. w \in Seq(Nodes) /\ x \in Seq(Nodes)
      BY <1>1, <2>2
    <3>2. after[m + 1] = Cat(Cat(after[m], w), x)
      BY <1>7, <2>2
    <3>3. Entry(m + 1) = Cat(w, x)
      BY DEF Entry
    <3> HIDE DEF w, x
    <3> QED BY <2>3, <3>1, <3>2, <3>3, Regroup
  <2>5. EntriesGrown(Cat(after[m], Entry(m + 1)), m + 1)
    BY <2>2, <2>3, EntriesGrownStep
  <2> QED BY <2>4, <2>5
<1> HIDE DEF T
<1>10. N \in T
  BY <1>0, <1>8, <1>9, SetInduction
<1> QED BY <1>0, <1>6, <1>10 DEF T


-----------------------------------------------------------------------------
(* A stretch of a template that has the lists D, from a place to a node    *)
(* under the conditions of p.                                              *)
Fits(s, p) ==
  /\ s \in Seq(Nodes) /\ s # <<>> /\ s[1].node = "place" /\ Steady(s)
  /\ Conditions(s[Len(s)].at) = Conditions(p)

Ends(list) == IF list = "entries" THEN {"none", "member", "separator"} ELSE {"none", "member"}

Runs(s, D) ==
  \A c, l : l # "" =>
    /\ l \notin D => Run(s, c, l, "none")
    /\ l \in D /\ SeparatedList(l) => \E kind \in Ends(l) : Run(s, c, l, kind)

Stretch(s, p, D) == Fits(s, p) /\ Runs(s, D)

LEMMA LastOfJoin ==
  ASSUME NEW S, NEW s \in Seq(S), NEW t \in Seq(S), t # <<>>
  PROVE  /\ Cat(s, t) # <<>> /\ Cat(s, t)[Len(Cat(s, t))] = t[Len(t)]
         /\ s # <<>> => Cat(s, t)[1] = s[1]
<1>1. Cat(s, t) \in Seq(S)
  BY JoinType
<1>2. Len(t) \in Nat /\ Len(t) # 0 /\ Len(s) \in Nat
  BY EmptySeq
<1>3. Len(Cat(s, t)) = Len(s) + Len(t) /\ Len(t) \in 1 .. Len(t)
  BY <1>2, JoinLen
<1>4. Cat(s, t)[Len(s) + Len(t)] = t[Len(t)]
  BY <1>3, JoinRight
<1>5. Len(Cat(s, t)) # 0
  BY <1>2, <1>3
<1>6. Cat(s, t) # <<>>
  BY <1>5
<1>7. ASSUME s # <<>>
      PROVE  Cat(s, t)[1] = s[1]
  <2>1. Len(s) # 0
    BY <1>7, EmptySeq
  <2>2. 1 \in 1 .. Len(s)
    BY <1>2, <2>1
  <2> QED BY <2>2, JoinLeft
<1> QED BY <1>3, <1>4, <1>6, <1>7

LEMMA RunsJoin ==
  ASSUME NEW s \in Seq(Nodes), NEW t \in Seq(Nodes), NEW D, NEW E, Runs(s, D), Runs(t, E),
         D \cap E = {}
  PROVE  Runs(Cat(s, t), D \cup E)
<1> SUFFICES ASSUME NEW c, NEW l, l # ""
             PROVE  /\ l \notin D \cup E => Run(Cat(s, t), c, l, "none")
                    /\ l \in D \cup E /\ SeparatedList(l) =>
                         \E kind \in Ends(l) : Run(Cat(s, t), c, l, kind)
  BY DEF Runs
<1>1. /\ l \notin D => Run(s, c, l, "none")
      /\ l \notin E => Run(t, c, l, "none")
      /\ l \in D /\ SeparatedList(l) => \E kind \in Ends(l) : Run(s, c, l, kind)
      /\ l \in E /\ SeparatedList(l) => \E kind \in Ends(l) : Run(t, c, l, kind)
  BY DEF Runs
<1>2. CASE l \notin E
  <2>1. \A kind : Run(s, c, l, kind) => Run(Cat(s, t), c, l, kind)
    BY <1>1, <1>2, RunBefore
  <2> QED BY <1>1, <1>2, <2>1
<1>3. CASE l \in E
  <2>1. l \notin D
    BY <1>3
  <2>2. \A kind : Run(t, c, l, kind) => Run(Cat(s, t), c, l, kind)
    BY <1>1, <2>1, RunAfter
  <2> QED BY <1>1, <1>3, <2>2
<1> QED BY <1>2, <1>3

LEMMA StretchJoin ==
  ASSUME NEW s, NEW t, NEW p, NEW q, NEW D, NEW E, Stretch(s, p, D), Stretch(t, q, E),
         D \cap E = {}
  PROVE  Stretch(Cat(s, t), q, D \cup E)
<1>1. /\ s \in Seq(Nodes) /\ s # <<>> /\ s[1].node = "place" /\ Steady(s) /\ Runs(s, D)
      /\ t \in Seq(Nodes) /\ t # <<>> /\ t[1].node = "place" /\ Steady(t) /\ Runs(t, E)
      /\ Conditions(t[Len(t)].at) = Conditions(q)
  BY DEF Stretch, Fits
<1>2. Cat(s, t) \in Seq(Nodes)
  BY <1>1, JoinType
<1>3. Steady(Cat(s, t))
  BY <1>1, SteadyJoin DEF Joins
<1>4. /\ Cat(s, t) # <<>> /\ Cat(s, t)[Len(Cat(s, t))] = t[Len(t)]
      /\ Cat(s, t)[1] = s[1]
  BY <1>1, LastOfJoin
<1>5. Runs(Cat(s, t), D \cup E)
  BY <1>1, RunsJoin
<1> QED BY <1>1, <1>2, <1>3, <1>4, <1>5 DEF Stretch, Fits

LEMMA PlaceStretch ==
  ASSUME TypeOK, Declaration, NEW p \in Reset .. Len(source)
  PROVE  Stretch(<<Place(p)>>, p, {})
<1>1. Place(p) \in Nodes /\ Place(p).node = "place" /\ Place(p).at = p
  BY NodesType
<1>2. PICK s \in Seq(Nodes) : s = <<Place(p)>> /\ Len(s) = 1 /\ DOMAIN s = 1 .. 1 /\ s[1] = Place(p)
  BY <1>1, Single
<1>3. Fits(s, p)
  <2>1. s # <<>>
    BY <1>2
  <2> QED BY <1>1, <1>2, <2>1 DEF Fits, Steady
<1>4. Runs(s, {})
  <2>1. \A n \in DOMAIN s : s[n].node = "place"
    BY <1>1, <1>2
  <2> QED BY <2>1, RunNone DEF Runs
<1> QED BY <1>2, <1>3, <1>4 DEF Stretch

LEMMA BodyStretch ==
  ASSUME TypeOK, Declaration, NEW s, NEW p, NEW D, Stretch(s, p, D),
         Conditions(p) = Conditions(start)
  PROVE  Stretch(Cat(s, Body), start, D)
<1> DEFINE e == Text("body", "", start)
<1>1. "" \in Lists /\ start \in Reset .. Len(source)
  BY NodesType DEF Lists
<1>2. e \in Nodes /\ e.node = "body" /\ e.list = "" /\ e.at = start
  BY <1>1 DEF Text, TextNodes, Nodes
<1>3. Body = <<e>>
  BY DEF Body
<1> HIDE DEF e
<1>4. PICK t \in Seq(Nodes) : t = <<e>> /\ Len(t) = 1 /\ DOMAIN t = 1 .. 1 /\ t[1] = e
  BY <1>2, Single
<1>5. /\ s \in Seq(Nodes) /\ s # <<>> /\ s[1].node = "place" /\ Steady(s) /\ Runs(s, D)
      /\ Conditions(s[Len(s)].at) = Conditions(start)
  BY DEF Stretch, Fits
<1>6. t # <<>> /\ Steady(t) /\ Joins(s, t)
  <2>1. t # <<>>
    BY <1>4
  <2>2. Steady(t)
    BY <1>4 DEF Steady
  <2>3. Conditions(t[1].at) = Conditions(s[Len(s)].at)
    BY <1>2, <1>4, <1>5
  <2> QED BY <2>1, <2>2, <2>3 DEF Joins
<1>7. Cat(s, t) \in Seq(Nodes)
  BY <1>5, JoinType
<1>8. Steady(Cat(s, t))
  BY <1>5, <1>6, SteadyJoin
<1>9. /\ Cat(s, t) # <<>> /\ Cat(s, t)[Len(Cat(s, t))] = t[Len(t)]
      /\ Cat(s, t)[1] = s[1]
  BY <1>5, <1>6, LastOfJoin
<1>10. Runs(t, {})
  <2>1. ASSUME NEW n \in DOMAIN t
        PROVE  t[n].list = ""
    <3>1. n = 1
      BY <1>4
    <3> QED BY <1>2, <1>4, <3>1
  <2> QED BY <2>1, RunNone DEF Runs
<1>11. Runs(Cat(s, t), D \cup {})
  BY <1>5, <1>10, RunsJoin
<1>12. D \cup {} = D
  OBVIOUS
<1>13. Fits(Cat(s, t), start)
  BY <1>2, <1>4, <1>5, <1>7, <1>8, <1>9 DEF Fits
<1>14. Stretch(Cat(s, t), start, D)
  BY <1>11, <1>12, <1>13 DEF Stretch
<1> QED BY <1>3, <1>4, <1>14

(* A list with the place after its last member.                            *)
LEMMA PartStretch ==
  ASSUME TypeOK, Declaration, NEW t, NEW list \in Lists, Part(t, list),
         NEW p \in Reset .. Len(source),
         SeparatedList(list) => \A c : \E kind \in Ends(list) : Run(t, c, list, kind)
  PROVE  Stretch(Cat(t, <<Place(p)>>), p, {list})
<1>1. PICK e : e = <<Place(p)>> /\ Stretch(e, p, {})
  BY PlaceStretch
<1>2. /\ e \in Seq(Nodes) /\ e # <<>> /\ e[1].node = "place" /\ Steady(e) /\ Runs(e, {})
      /\ Conditions(e[Len(e)].at) = Conditions(p)
  BY <1>1 DEF Stretch, Fits
<1>3. t \in Seq(Nodes) /\ Steady(t) /\ Opens(t) /\ Within(t, list)
  BY DEF Part
<1>4. Runs(t, {list})
  <2>1. ASSUME NEW c, NEW l, l # list
        PROVE  Run(t, c, l, "none")
    BY <1>3, <2>1, RunNone DEF Within
  <2> QED BY <2>1 DEF Runs
<1>5. Runs(Cat(t, e), {list} \cup {})
  BY <1>2, <1>3, <1>4, RunsJoin
<1>6. Cat(t, e) \in Seq(Nodes)
  BY <1>2, <1>3, JoinType
<1>7. Steady(Cat(t, e))
  BY <1>2, <1>3, SteadyJoin DEF Joins
<1>8. /\ Cat(t, e) # <<>> /\ Cat(t, e)[Len(Cat(t, e))] = e[Len(e)]
      /\ t # <<>> => Cat(t, e)[1] = t[1]
  BY <1>2, <1>3, LastOfJoin
<1>9. t = <<>> => Cat(t, e) = e
  BY <1>2, ConcatEmptySeq DEF Cat
<1>10. Cat(t, e)[1].node = "place"
  BY <1>2, <1>3, <1>8, <1>9 DEF Opens
<1>11. {list} \cup {} = {list}
  OBVIOUS
<1>12. Fits(Cat(t, e), p)
  BY <1>2, <1>6, <1>7, <1>8, <1>10 DEF Fits
<1> QED BY <1>1, <1>5, <1>11, <1>12 DEF Stretch

LEMMA ListStretch ==
  ASSUME TypeOK, Declaration, NEW list \in Lists, list # "entries",
         NEW p \in Reset .. Len(source)
  PROVE  Stretch(List(list, p), p, {list})
<1>1. Grown(Pieces(list), Len(members), list)
  BY PiecesGrown
<1>2. Part(Pieces(list), list)
  BY <1>1 DEF Grown
<1>3. SeparatedList(list) => \A c : \E kind \in Ends(list) : Run(Pieces(list), c, list, kind)
  BY <1>1 DEF Grown, Ends, KindAfter
<1>4. List(list, p) = Cat(Pieces(list), <<Place(p)>>)
  BY DEF List, Cat
<1> QED BY <1>2, <1>3, <1>4, PartStretch

LEMMA EntriesStretch ==
  ASSUME TypeOK, Declaration
  PROVE  Stretch(Entries, start, {"entries"})
<1>1. PICK t : EntriesGrown(t, Len(members)) /\ Entries = Cat(t, <<Place(start)>>)
  BY EntriesParts
<1>2. "entries" \in Lists /\ start \in Reset .. Len(source)
  BY NodesType DEF Lists
<1>3. /\ Part(t, "entries")
      /\ \A c : \E kind \in Ends("entries") : Run(t, c, "entries", kind)
  BY <1>1 DEF EntriesGrown, Ends
<1> QED BY <1>1, <1>2, <1>3, PartStretch


LEMMA ListAdded ==
  ASSUME TypeOK, Declaration, NEW s, NEW p, NEW D, Stretch(s, p, D),
         NEW list \in Lists, list # "entries", list \notin D, NEW q \in Reset .. Len(source)
  PROVE  Stretch(Cat(s, List(list, q)), q, D \cup {list})
<1>1. Stretch(List(list, q), q, {list})
  BY ListStretch
<1>2. D \cap {list} = {}
  OBVIOUS
<1> QED BY <1>1, <1>2, StretchJoin

LEMMA PlaceAdded ==
  ASSUME TypeOK, Declaration, NEW s, NEW p, NEW D, Stretch(s, p, D), NEW q \in Reset .. Len(source)
  PROVE  Stretch(Cat(s, <<Place(q)>>), q, D)
<1>1. PICK t : t = <<Place(q)>> /\ Stretch(t, q, {})
  BY PlaceStretch
<1>2. D \cap {} = {} /\ D \cup {} = D
  OBVIOUS
<1>3. Stretch(Cat(s, t), q, D \cup {})
  BY <1>1, <1>2, StretchJoin
<1> QED BY <1>1, <1>2, <1>3

LEMMA AroundStart ==
  ASSUME TypeOK, Declaration
  PROVE  /\ start \in Reset .. Len(source) /\ Reset \in Reset .. Len(source)
         /\ type \in {"enum", "dispatch"} => Conditions(Reset) = Conditions(start)
<1>1. Len(source) \in Nat /\ start \in 0 .. Len(source) /\ Reset = -1
  BY SourceType DEF Declaration, Reset
<1>2. Conditions(Reset) = <<>>
  BY <1>1 DEF Conditions
<1>3. type \in {"enum", "dispatch"} => Conditions(start) = <<>>
  BY DEF Declaration, Declared
<1>4. start \in Reset .. Len(source) /\ Reset \in Reset .. Len(source)
  BY <1>1
<1> QED BY <1>2, <1>3, <1>4

LEMMA StructStretch ==
  ASSUME TypeOK, Declaration
  PROVE  Stretch(StructTemplate, Reset, ({} \cup {"all"}) \cup {"enhanced"})
<1>0. /\ start \in Reset .. Len(source) /\ Reset \in Reset .. Len(source)
      /\ "all" \in Lists /\ "enhanced" \in Lists
  BY AroundStart DEF Lists
<1>1. PICK a : a = <<Place(start)>> /\ Stretch(a, start, {})
  BY <1>0, PlaceStretch
<1>2. PICK b : b = Cat(a, Body) /\ Stretch(b, start, {})
  BY <1>1, BodyStretch
<1>3. PICK c : c = Cat(b, List("all", start)) /\ Stretch(c, start, {} \cup {"all"})
  BY <1>0, <1>2, ListAdded
<1>4. PICK d : d = Cat(c, Body) /\ Stretch(d, start, {} \cup {"all"})
  BY <1>3, BodyStretch
<1>5. PICK e : /\ e = Cat(d, List("enhanced", start))
               /\ Stretch(e, start, ({} \cup {"all"}) \cup {"enhanced"})
  BY <1>0, <1>4, ListAdded
<1>6. PICK f : f = Cat(e, Body) /\ Stretch(f, start, ({} \cup {"all"}) \cup {"enhanced"})
  BY <1>5, BodyStretch
<1>7. Stretch(Cat(f, <<Place(Reset)>>), Reset, ({} \cup {"all"}) \cup {"enhanced"})
  BY <1>0, <1>6, PlaceAdded
<1>8. StructTemplate = Cat(f, <<Place(Reset)>>)
  BY <1>1, <1>2, <1>3, <1>4, <1>5, <1>6 DEF StructTemplate, Cat
<1> QED BY <1>7, <1>8

LEMMA DispatchStretch ==
  ASSUME TypeOK, Declaration, type = "dispatch"
  PROVE  Stretch(DispatchTemplate, start, ({} \cup {"functions"}) \cup {"initializers"})
<1>0. /\ start \in Reset .. Len(source) /\ Reset \in Reset .. Len(source)
      /\ Conditions(Reset) = Conditions(start)
      /\ "functions" \in Lists /\ "initializers" \in Lists
  BY AroundStart DEF Lists
<1>1. PICK a : a = <<Place(start)>> /\ Stretch(a, start, {})
  BY <1>0, PlaceStretch
<1>2. PICK b : b = Cat(a, Body) /\ Stretch(b, start, {})
  BY <1>1, BodyStretch
<1>3. PICK c : c = Cat(b, List("functions", Reset)) /\ Stretch(c, Reset, {} \cup {"functions"})
  BY <1>0, <1>2, ListAdded
<1>4. PICK d : d = Cat(c, Body) /\ Stretch(d, start, {} \cup {"functions"})
  BY <1>0, <1>3, BodyStretch
<1>5. PICK e : /\ e = Cat(d, List("initializers", Reset))
               /\ Stretch(e, Reset, ({} \cup {"functions"}) \cup {"initializers"})
  BY <1>0, <1>4, ListAdded
<1>6. Stretch(Cat(e, Body), start, ({} \cup {"functions"}) \cup {"initializers"})
  BY <1>0, <1>5, BodyStretch
<1>7. DispatchTemplate = Cat(e, Body)
  BY <1>1, <1>2, <1>3, <1>4, <1>5 DEF DispatchTemplate, Cat
<1> QED BY <1>6, <1>7

LEMMA EnumStretch ==
  ASSUME TypeOK, Declaration
  PROVE  Stretch(EnumTemplate, start, ({} \cup {"entries"}) \cup {"flags"})
<1>0. /\ start \in Reset .. Len(source) /\ "flags" \in Lists /\ {} \cap {"entries"} = {}
  BY AroundStart DEF Lists
<1>1. PICK a : a = <<Place(start)>> /\ Stretch(a, start, {})
  BY <1>0, PlaceStretch
<1>2. PICK b : b = Cat(a, Body) /\ Stretch(b, start, {})
  BY <1>1, BodyStretch
<1>3. PICK c : c = Cat(b, Entries) /\ Stretch(c, start, {} \cup {"entries"})
  BY <1>0, <1>2, EntriesStretch, StretchJoin
<1>4. PICK d : d = Cat(c, Body) /\ Stretch(d, start, {} \cup {"entries"})
  BY <1>3, BodyStretch
<1>5. PICK e : e = Cat(d, <<Place(start)>>) /\ Stretch(e, start, {} \cup {"entries"})
  BY <1>0, <1>4, PlaceAdded
<1>6. PICK f : f = Cat(e, Body) /\ Stretch(f, start, {} \cup {"entries"})
  BY <1>5, BodyStretch
<1>7. PICK g : /\ g = Cat(f, List("flags", start))
               /\ Stretch(g, start, ({} \cup {"entries"}) \cup {"flags"})
  BY <1>0, <1>6, ListAdded
<1>8. Stretch(Cat(g, Body), start, ({} \cup {"entries"}) \cup {"flags"})
  BY <1>7, BodyStretch
<1>9. EnumTemplate = Cat(g, Body)
  BY <1>1, <1>2, <1>3, <1>4, <1>5, <1>6, <1>7 DEF EnumTemplate, Cat
<1> QED BY <1>8, <1>9

LEMMA HandleStretch ==
  ASSUME TypeOK, Declaration
  PROVE  Stretch(HandleTemplate, Reset, ({} \cup {"declarations"}) \cup {"definitions"})
<1>0. /\ start \in Reset .. Len(source) /\ Reset \in Reset .. Len(source)
      /\ "declarations" \in Lists /\ "definitions" \in Lists
  BY AroundStart DEF Lists
<1>1. PICK a : a = <<Place(start)>> /\ Stretch(a, start, {})
  BY <1>0, PlaceStretch
<1>2. PICK b : b = Cat(a, Body) /\ Stretch(b, start, {})
  BY <1>1, BodyStretch
<1>3. PICK c : /\ c = Cat(b, List("declarations", start))
               /\ Stretch(c, start, {} \cup {"declarations"})
  BY <1>0, <1>2, ListAdded
<1>4. PICK d : d = Cat(c, Body) /\ Stretch(d, start, {} \cup {"declarations"})
  BY <1>3, BodyStretch
<1>5. PICK e : /\ e = Cat(d, List("definitions", start))
               /\ Stretch(e, start, ({} \cup {"declarations"}) \cup {"definitions"})
  BY <1>0, <1>4, ListAdded
<1>6. Stretch(Cat(e, <<Place(Reset)>>), Reset, ({} \cup {"declarations"}) \cup {"definitions"})
  BY <1>0, <1>5, PlaceAdded
<1>7. HandleTemplate = Cat(e, <<Place(Reset)>>)
  BY <1>1, <1>2, <1>3, <1>4, <1>5 DEF HandleTemplate, Cat
<1> QED BY <1>6, <1>7

LEMMA StretchWell ==
  ASSUME NEW t, NEW p, NEW D, Stretch(t, p, D), ListsOf(type) \subseteq D, "" \notin D
  PROVE  WellFormed(t)
<1> SUFFICES ASSUME NEW c \in Configurations, NEW list \in ListsOf(type), Separated(list)
             PROVE  Alternate(t, Left(t, c, list), list)
  BY DEF WellFormed
<1>1. t \in Seq(Nodes) /\ Runs(t, D)
  BY DEF Stretch, Fits
<1>2. PICK kind \in Ends(list) : Run(t, c, list, kind)
  BY <1>1 DEF Runs, SeparatedList
<1>3. kind \in {"none", "member"} \/ list = "entries"
  BY DEF Ends
<1> QED BY <1>1, <1>2, <1>3, RunAlternates

(* The template begins with a place, its texts are under the conditions of *)
(* what comes before them, and its lists are well formed.                  *)
Good(t) ==
  /\ t \in Seq(Nodes) /\ t # <<>> /\ t[1].node = "place"
  /\ Steady(t) /\ WellFormed(t)

LEMMA TemplateGood == TypeOK /\ Declaration => Good(Template)
<1> SUFFICES ASSUME TypeOK, Declaration PROVE Good(Template)
  OBVIOUS
<1>1. type \in Types
  BY DEF Declaration
<1>2. PICK p, D : Stretch(Template, p, D) /\ ListsOf(type) \subseteq D /\ "" \notin D
  <2>1. CASE type = "struct"
    <3>1. Template = StructTemplate
      BY <2>1 DEF Template
    <3>2. ListsOf(type) = {"all", "enhanced"}
      BY <2>1 DEF ListsOf
    <3> QED BY <3>1, <3>2, StructStretch
  <2>2. CASE type = "dispatch"
    <3>1. Template = DispatchTemplate
      BY <2>2 DEF Template
    <3>2. ListsOf(type) = {"functions", "initializers"}
      BY <2>2 DEF ListsOf
    <3> QED BY <2>2, <3>1, <3>2, DispatchStretch
  <2>3. CASE type = "enum"
    <3>1. Template = EnumTemplate
      BY <2>3 DEF Template
    <3>2. ListsOf(type) = {"entries", "flags"}
      BY <2>3 DEF ListsOf
    <3> QED BY <3>1, <3>2, EnumStretch
  <2>4. CASE type = "handle"
    <3>1. Template = HandleTemplate
      BY <2>4 DEF Template
    <3>2. ListsOf(type) = {"declarations", "definitions"}
      BY <2>4 DEF ListsOf
    <3> QED BY <3>1, <3>2, HandleStretch
  <2> QED BY <1>1, <2>1, <2>2, <2>3, <2>4 DEF Types
<1>3. WellFormed(Template)
  BY <1>2, StretchWell
<1> QED BY <1>2, <1>3 DEF Good, Stretch, Fits


-----------------------------------------------------------------------------
(* What goes out and what is left alternate as long as they did.           *)
LEMMA AlternateMap ==
  ASSUME NEW t, NEW u, NEW list, NEW L \in SUBSET Int, NEW M \in SUBSET Int,
         NEW h \in [L -> M],
         \A k \in M : \E n \in L : h[n] = k,
         \A m, n \in L : m < n <=> h[m] < h[n],
         \A n \in L : t[n].node = u[h[n]].node,
         Alternate(u, M, list)
  PROVE  Alternate(t, L, list)
<1>1. \A m, n \in L : m \in Int /\ n \in Int /\ h[m] \in Int /\ h[n] \in Int /\ h[m] \in M
  OBVIOUS
<1>2. \A m, n \in L : m <= n <=> h[m] <= h[n]
  BY <1>1
<1>3. ASSUME NEW n \in L, \A m \in L : m >= n
      PROVE  t[n].node = "member"
  <2>1. \A k \in M : k >= h[n]
    BY <1>1, <1>2, <1>3
  <2> QED BY <1>1, <2>1 DEF Alternate
<1>4. ASSUME NEW n \in L, \A m \in L : m <= n, list # "entries"
      PROVE  t[n].node = "member"
  <2>1. \A k \in M : k <= h[n]
    BY <1>1, <1>2, <1>4
  <2> QED BY <1>1, <1>4, <2>1 DEF Alternate
<1>5. ASSUME NEW n \in L, NEW m \in L, m < n, \A k \in L : k <= m \/ k >= n
      PROVE  (t[m].node = "member") # (t[n].node = "member")
  <2>1. \A k \in M : k <= h[m] \/ k >= h[n]
    BY <1>1, <1>2, <1>5
  <2>2. h[m] \in M /\ h[n] \in M /\ h[m] < h[n]
    BY <1>1, <1>5
  <2>3. (u[h[m]].node = "member") # (u[h[n]].node = "member")
    BY <2>1, <2>2 DEF Alternate
  <2>4. t[m].node = u[h[m]].node /\ t[n].node = u[h[n]].node
    OBVIOUS
  <2> QED BY <2>3, <2>4
<1> QED BY <1>3, <1>4, <1>5 DEF Alternate

(* A place can be left out.                                                *)
LEMMA PlaceLeftOut ==
  ASSUME NEW S, NEW s \in Seq(S), NEW t \in Seq(S), t # <<>>, t[1].node = "place",
         WellFormed(Cat(s, t))
  PROVE  WellFormed(Cat(s, Tail(t)))
<1> SUFFICES ASSUME NEW c \in Configurations, NEW list \in ListsOf(type), Separated(list)
             PROVE  Alternate(Cat(s, Tail(t)), Left(Cat(s, Tail(t)), c, list), list)
  BY DEF WellFormed
<1>0. PICK r \in Seq(S) :
        r = Tail(t) /\ Len(r) = Len(t) - 1 /\ \A n \in 1 .. Len(t) - 1 : r[n] = t[n + 1]
  <2>1. /\ Tail(t) \in Seq(S) /\ Len(Tail(t)) = Len(t) - 1
        /\ \A n \in 1 .. Len(t) - 1 : Tail(t)[n] = t[n + 1]
    BY TailFacts
  <2> QED BY <2>1
<1> DEFINE x == Cat(s, t)
           y == Cat(s, r)
           L == Left(y, c, list)
           M == Left(x, c, list)
           h == [n \in L |-> IF n <= Len(s) THEN n ELSE n + 1]
<1>1. Alternate(x, M, list)
  BY DEF WellFormed
<1>2. Len(s) \in Nat /\ Len(t) \in Nat /\ Len(t) >= 1
  BY EmptySeq
<1>3. DOMAIN x = 1 .. Len(s) + Len(t) /\ DOMAIN y = 1 .. Len(s) + (Len(t) - 1)
  <2>1. DOMAIN x = 1 .. Len(s) + Len(t)
    BY JoinLen
  <2>2. DOMAIN y = 1 .. Len(s) + Len(r)
    BY JoinLen
  <2> QED BY <1>0, <2>1, <2>2
<1>4. \A n \in 1 .. Len(s) : x[n] = s[n] /\ y[n] = s[n]
  BY <1>2, JoinLeft
<1>5. x[Len(s) + 1] = t[1]
  BY <1>2, JoinRight
<1>6. ASSUME NEW n \in Len(s) + 1 .. Len(s) + (Len(t) - 1)
      PROVE  y[n] = x[n + 1]
  <2>1. n - Len(s) \in 1 .. Len(t) - 1 /\ (n - Len(s)) + 1 \in 1 .. Len(t)
        /\ n = Len(s) + (n - Len(s)) /\ n + 1 = Len(s) + ((n - Len(s)) + 1)
    BY <1>2, <1>6
  <2>2. y[Len(s) + (n - Len(s))] = r[n - Len(s)]
    <3>1. n - Len(s) \in 1 .. Len(r)
      BY <1>0, <2>1
    <3> QED BY <3>1, JoinRight
  <2>3. x[Len(s) + ((n - Len(s)) + 1)] = t[(n - Len(s)) + 1]
    BY <2>1, JoinRight
  <2> QED BY <1>0, <2>1, <2>2, <2>3
<1> HIDE DEF x, y
<1>7. \A n \in DOMAIN y :
        LET k == IF n <= Len(s) THEN n ELSE n + 1
        IN k \in DOMAIN x /\ y[n] = x[k]
  BY <1>2, <1>3, <1>4, <1>6
<1>8. \A k \in DOMAIN x :
        \/ k = Len(s) + 1
        \/ \E n \in DOMAIN y : k = IF n <= Len(s) THEN n ELSE n + 1
  <2> TAKE k \in DOMAIN x
  <2>1. CASE k <= Len(s)
    BY <1>2, <1>3, <2>1
  <2>2. CASE k > Len(s) + 1
    <3>1. k - 1 \in DOMAIN y /\ ~(k - 1 <= Len(s)) /\ k = (k - 1) + 1
      BY <1>2, <1>3, <2>2
    <3> QED BY <3>1
  <2> QED BY <1>2, <1>3, <2>1, <2>2
<1>9. L \in SUBSET Int /\ M \in SUBSET Int /\ L \subseteq DOMAIN y
  BY <1>3 DEF Left
<1>10. \A n \in L : h[n] \in M /\ y[n] = x[h[n]]
  BY <1>7, <1>9 DEF Left
<1>11. ASSUME NEW k \in M
       PROVE  \E n \in L : h[n] = k
  <2>1. k \in DOMAIN x /\ x[k].node # "place"
    BY DEF Left
  <2>2. k # Len(s) + 1
    BY <1>5, <2>1
  <2>3. PICK n \in DOMAIN y : k = IF n <= Len(s) THEN n ELSE n + 1
    BY <1>8, <2>1, <2>2
  <2>4. y[n] = x[k]
    BY <1>7, <2>3
  <2>5. n \in L
    BY <2>4 DEF Left
  <2> QED BY <2>3, <2>5
<1>12. \A m, n \in L : m < n <=> h[m] < h[n]
  BY <1>2, <1>9
<1>13. h \in [L -> M]
  BY <1>10
<1>14. \A n \in L : y[n].node = x[h[n]].node
  BY <1>10
<1> HIDE DEF h, L, M
<1>15. Alternate(y, L, list)
  BY <1>1, <1>9, <1>11, <1>12, <1>13, <1>14, AlternateMap
<1> QED BY <1>0, <1>15 DEF y, L

-----------------------------------------------------------------------------
(* What is written, as the nodes it came from.                             *)
LEMMA WrittenType ==
  ASSUME PiecesType
  PROVE  /\ Written \in Seq(Nodes) /\ Len(Written) = Len(out) /\ Len(out) \in Nat
         /\ DOMAIN out = 1 .. Len(out)
         /\ \A n \in 1 .. Len(out) :
              /\ Written[n] = out[n].what /\ out[n].what \in TextNodes
              /\ out[n].what.node # "place" /\ out[n].what.at \in Reset .. Len(source)
<1> DEFINE U == Seq(Seq(1 .. Highest))
           E == [what : TextNodes, under : U]
<1>0. out \in Seq(E)
  BY DEF PiecesType
<1> HIDE DEF U
<1>a. \A e \in E : e.what \in TextNodes
  OBVIOUS
<1> HIDE DEF E
<1>1. /\ Len(out) \in Nat /\ DOMAIN out = 1 .. Len(out)
      /\ \A n \in 1 .. Len(out) : out[n] \in E
  BY <1>0
<1>2. \A n \in 1 .. Len(out) : out[n].what \in TextNodes
  BY <1>1, <1>a
<1>3. \A e \in TextNodes : e.node # "place" /\ e.at \in Reset .. Len(source) /\ e \in Nodes
  BY DEF TextNodes, Nodes
<1>4. Written = [n \in 1 .. Len(out) |-> out[n].what]
  BY <1>1 DEF Written
<1>5. Written \in [1 .. Len(out) -> Nodes]
  BY <1>2, <1>3, <1>4
<1>6. Written \in Seq(Nodes)
  BY <1>1, <1>5, SeqDef
<1>7. Len(Written) = Len(out)
  BY <1>1, <1>5, <1>6, LenProperties
<1> QED BY <1>1, <1>2, <1>3, <1>4, <1>6, <1>7


-----------------------------------------------------------------------------
(* The first of what is left, and the rest.                                *)
LEMMA NodesLeft ==
  ASSUME PiecesType, Steady(nodes), nodes # <<>>
  PROVE  /\ nodes[1] \in Nodes /\ Head(nodes) = nodes[1] /\ nodes[1].at \in Reset .. Len(source)
         /\ Tail(nodes) \in Seq(Nodes) /\ Steady(Tail(nodes))
         /\ Tail(nodes) # <<>> /\ Head(Tail(nodes)).node # "place" =>
              Conditions(Head(Tail(nodes)).at) = Conditions(nodes[1].at)
<1>1. nodes \in Seq(Nodes)
  BY DEF PiecesType
<1>2. /\ Len(nodes) \in Nat /\ Len(nodes) >= 1 /\ Head(nodes) = nodes[1]
      /\ Tail(nodes) \in Seq(Nodes) /\ Len(Tail(nodes)) = Len(nodes) - 1
      /\ \A m \in 1 .. Len(nodes) - 1 : Tail(nodes)[m] = nodes[m + 1]
  BY <1>1, TailFacts
<1>3. nodes[1] \in Nodes
  BY <1>1, <1>2
<1>4. \A e \in Nodes : e.at \in Reset .. Len(source)
  BY DEF Nodes, Places, TextNodes
<1> DEFINE r == Tail(nodes)
<1>5. r \in Seq(Nodes) /\ Len(r) = Len(nodes) - 1
      /\ \A m \in 1 .. Len(nodes) - 1 : r[m] = nodes[m + 1]
  BY <1>2
<1> HIDE DEF r
<1>6. Steady(r)
  <2> SUFFICES ASSUME NEW n \in 2 .. Len(r), r[n].node # "place"
               PROVE  Conditions(r[n].at) = Conditions(r[n - 1].at)
    BY DEF Steady
  <2>1. /\ n + 1 \in 2 .. Len(nodes) /\ r[n] = nodes[n + 1]
        /\ r[n - 1] = nodes[(n - 1) + 1] /\ (n - 1) + 1 = (n + 1) - 1
    BY <1>2, <1>5
  <2> QED BY <2>1 DEF Steady
<1>7. ASSUME r # <<>>, Head(r).node # "place"
      PROVE  Conditions(Head(r).at) = Conditions(nodes[1].at)
  <2>1. Len(r) # 0
    BY <1>5, <1>7, EmptySeq
  <2>2. 2 \in 2 .. Len(nodes) /\ r[1] = nodes[2] /\ 2 - 1 = 1
    BY <1>2, <1>5, <2>1
  <2>3. Head(r) = r[1]
    BY <1>5, <1>7
  <2> QED BY <1>7, <2>2, <2>3 DEF Steady
<1> QED BY <1>2, <1>3, <1>4, <1>5, <1>6, <1>7 DEF r

(* The tree moves on while what is emitted stays.                          *)
Still == UNCHANGED <<source, conditions>> /\ UNCHANGED pieces

LEMMA StillKeeps ==
  ASSUME Still
  PROVE  /\ \A p : Conditions(p)' = Conditions(p)
         /\ TextPlaced => TextPlaced'
         /\ Steady(nodes) => Steady(nodes)'
         /\ NextPlaced /\ position' = position => NextPlaced'
         /\ WellFormed(Written \o nodes) => WellFormed(Written \o nodes)'
<1>1. /\ source' = source /\ conditions' = conditions
      /\ type' = type /\ nodes' = nodes /\ out' = out
  BY DEF Still, pieces
<1>2. \A p : Conditions(p)' = Conditions(p)
  BY <1>1 DEF Conditions
<1>3. TextPlaced => TextPlaced'
  BY <1>1, <1>2 DEF TextPlaced
<1>4. Steady(nodes) => Steady(nodes)'
  BY <1>1, <1>2 DEF Steady
<1>5. NextPlaced /\ position' = position => NextPlaced'
  BY <1>1, <1>2 DEF NextPlaced
<1>6. WellFormed(Written \o nodes) => WellFormed(Written \o nodes)'
  <2>1. WellFormed(Cat(Written, nodes)) => WellFormed(Cat(Written, nodes))'
    BY <1>1 DEF WellFormed, Written, Configurations, Heads, Left, Conditions
  <2> QED BY <2>1 DEF Cat
<1> QED BY <1>2, <1>3, <1>4, <1>5, <1>6

(* A step of the traversal.                                                *)
LEMMA StepKeeps ==
  ASSUME EmissionInv, Step, UNCHANGED pieces, IInv'
  PROVE  EmissionInv'
<1>1. /\ UNCHANGED <<source, conditions, position>>
      /\ phase \notin {"scan", "close"} => phase' \notin {"scan", "close"}
  BY DEF Step, CloseHanging, Traverse, Ascend, StartSearch, Halve, Found, LeaveEnded,
         StartDescent, Descend, Return, Put, GoOn, tree, vars
<1>2. Still
  BY <1>1 DEF Still
<1>3. type' = type /\ nodes' = nodes /\ out' = out
  BY DEF pieces
<1>4. PiecesType'
  BY <1>1, <1>3 DEF EmissionInv, PiecesType, Nodes, Places, TextNodes
<1> QED BY <1>1, <1>2, <1>3, <1>4, StillKeeps DEF EmissionInv

LEMMA StutterKeeps ==
  ASSUME EmissionInv, UNCHANGED allVars
  PROVE  EmissionInv'
<1>1. UNCHANGED vars /\ UNCHANGED pieces
  BY DEF allVars
<1>2. IInv'
  BY <1>1, StutterStep DEF EmissionInv
<1>3. Still /\ position' = position /\ phase' = phase /\ source' = source
  BY <1>1 DEF Still, vars
<1>4. type' = type /\ nodes' = nodes /\ out' = out
  BY <1>1 DEF pieces
<1>5. PiecesType'
  BY <1>3, <1>4 DEF EmissionInv, PiecesType, Nodes, Places, TextNodes
<1> QED BY <1>2, <1>3, <1>4, <1>5, StillKeeps DEF EmissionInv

(* The source is read before there is anything.                            *)
LEMMA ScanKeeps ==
  ASSUME EmissionInv, ScanSource, UNCHANGED pieces, IInv'
  PROVE  EmissionInv'
<1>1. phase = "scan"
  BY DEF ScanSource, ScanIf, ScanGuard, ScanInGuard, ScanBranch, ScanEndif, EndOfSource, Scan
<1>2. type = "none" /\ nodes = <<>> /\ out = <<>>
  BY <1>1 DEF EmissionInv, PiecesType
<1>3. type' = "none" /\ nodes' = <<>> /\ out' = <<>>
  BY <1>2 DEF pieces
<1>4. PiecesType'
  BY <1>3 DEF PiecesType
<1>5. TextPlaced' /\ Steady(nodes)' /\ NextPlaced'
  BY <1>3 DEF TextPlaced, Steady, NextPlaced
<1> QED BY <1>3, <1>4, <1>5 DEF EmissionInv


LEMMA Declares ==
  ASSUME TypeOK, Declare
  PROVE  Declaration'
<1>1. /\ source' = source /\ conditions' = conditions
      /\ \E t \in Types, s \in 0 .. Len(source) :
           \E n \in 1 .. IF t \in {"struct", "enum"} THEN MaxMembers ELSE MaxFunctions :
             \E ms \in [1 .. n -> s .. Len(source)], skipped \in SUBSET (1 .. n) :
               /\ Declared(t, s, ms, skipped)
               /\ type' = t /\ start' = s /\ members' = ms /\ skip' = skipped
  BY DEF Declare, vars
<1>2. PICK t \in Types, s \in 0 .. Len(source) :
        \E n \in 1 .. IF t \in {"struct", "enum"} THEN MaxMembers ELSE MaxFunctions :
          \E ms \in [1 .. n -> s .. Len(source)], skipped \in SUBSET (1 .. n) :
            /\ Declared(t, s, ms, skipped)
            /\ type' = t /\ start' = s /\ members' = ms /\ skip' = skipped
  BY <1>1
<1>3. PICK n \in Nat :
        \E ms \in [1 .. n -> s .. Len(source)], skipped \in SUBSET (1 .. n) :
          /\ Declared(t, s, ms, skipped)
          /\ type' = t /\ start' = s /\ members' = ms /\ skip' = skipped
  BY <1>2, MembersAssumption
<1>4. PICK ms \in [1 .. n -> s .. Len(source)], skipped \in SUBSET (1 .. n) :
        /\ Declared(t, s, ms, skipped)
        /\ type' = t /\ start' = s /\ members' = ms /\ skip' = skipped
  BY <1>3
<1>5. Len(ms) = n
  <2>1. ms \in Seq(s .. Len(source))
    BY <1>4, SeqDef
  <2>2. Len(ms) \in Nat /\ DOMAIN ms = 1 .. Len(ms) /\ DOMAIN ms = 1 .. n
    BY <2>1, LenProperties
  <2> QED BY <2>2
<1>6. Declared(t, s, ms, skipped)'
  BY <1>1, <1>4 DEF Declared, Conditions
<1>7. Declared(type, start, members, skip)'
  BY <1>4, <1>6 DEF Declared
<1> QED BY <1>1, <1>4, <1>5, <1>7 DEF Declaration

LEMMA DeclareKeeps ==
  ASSUME EmissionInv, Declare, IInv'
  PROVE  EmissionInv'
<1>1. /\ UNCHANGED vars /\ out' = out /\ nodes' = Template' /\ phase = "idle" /\ type = "none"
  BY DEF Declare
<1>2. out' = <<>> /\ phase' = "idle"
  BY <1>1 DEF EmissionInv, PiecesType, vars
<1>3. Declaration'
  BY Declares DEF EmissionInv, IInv
<1>4. TypeOK'
  BY DEF IInv
<1>5. Good(Template)'
  BY <1>3, <1>4, TemplateGood, PTL
<1>6. /\ nodes' \in Seq(Nodes') /\ nodes' # <<>> /\ nodes'[1].node = "place"
      /\ Steady(nodes)'
  BY <1>1, <1>5 DEF Good, Steady
<1>7. WellFormed(nodes)'
  BY <1>1, <1>5 DEF Good, WellFormed, Left
<1>8. PiecesType'
  <2>1. type' \in Types /\ "none" \notin Types
    BY <1>3 DEF Declaration, Types
  <2>2. type' \in Types \cup {"none"} /\ type' # "none"
    BY <2>1
  <2> QED BY <1>2, <1>6, <2>2 DEF PiecesType
<1>9. TextPlaced' /\ Written' = <<>>
  BY <1>2 DEF TextPlaced, Written
<1>10. NextPlaced'
  BY <1>6 DEF NextPlaced
<1>11. WellFormed(Written \o nodes)'
  <2>1. Cat(Written, nodes)' = nodes'
    BY <1>6, <1>9, ConcatEmptySeq DEF Cat
  <2>2. WellFormed(Cat(Written, nodes))'
    BY <1>7, <2>1 DEF WellFormed, Left
  <2> QED BY <2>2 DEF Cat
<1> QED BY <1>6, <1>8, <1>9, <1>10, <1>11 DEF EmissionInv


LEMMA PlaceKeeps ==
  ASSUME EmissionInv, ResolvePlace, IInv'
  PROVE  EmissionInv'
<1>1. /\ nodes # <<>> /\ Head(nodes).node = "place" /\ nodes' = Tail(nodes)
      /\ phase = "idle" /\ phase' = "ascend" /\ position' = Head(nodes).at
      /\ source' = source /\ conditions' = conditions /\ type' = type /\ out' = out
  BY DEF ResolvePlace, Navigate, tree
<1>2. /\ PiecesType /\ TextPlaced /\ Steady(nodes)
      /\ type # "none" => WellFormed(Written \o nodes)
  BY DEF EmissionInv
<1>3. type # "none"
  BY <1>1, <1>2 DEF PiecesType
<1>4. /\ Head(nodes) = nodes[1] /\ Tail(nodes) \in Seq(Nodes) /\ Steady(Tail(nodes))
      /\ Tail(nodes) # <<>> /\ Head(Tail(nodes)).node # "place" =>
           Conditions(Head(Tail(nodes)).at) = Conditions(nodes[1].at)
  BY <1>1, <1>2, NodesLeft
<1>5. /\ \A p : Conditions(p)' = Conditions(p)
      /\ Nodes' = Nodes /\ TextNodes' = TextNodes
  BY <1>1 DEF Conditions, Nodes, Places, TextNodes
<1>6. PiecesType'
  <2>1. nodes' \in Seq(Nodes')
    BY <1>1, <1>4, <1>5
  <2> QED BY <1>1, <1>2, <1>3, <1>5, <2>1 DEF PiecesType
<1>7. TextPlaced'
  BY <1>1, <1>2, <1>5 DEF TextPlaced
<1>8. Steady(nodes)'
  BY <1>1, <1>4, <1>5 DEF Steady
<1>9. NextPlaced'
  BY <1>1, <1>4, <1>5 DEF NextPlaced
<1>10. WellFormed(Written \o nodes)'
  <2>1. WellFormed(Cat(Written, nodes))
    BY <1>2, <1>3 DEF Cat
  <2>2. Written \in Seq(Nodes) /\ nodes \in Seq(Nodes)
    BY <1>2, WrittenType DEF PiecesType
  <2>3. WellFormed(Cat(Written, Tail(nodes)))
    BY <1>1, <1>4, <2>1, <2>2, PlaceLeftOut
  <2>4. Cat(Written, nodes)' = Cat(Written, Tail(nodes))
    BY <1>1 DEF Written
  <2>5. Configurations' = Configurations
    BY <1>1 DEF Configurations, Heads
  <2>6. WellFormed(Cat(Written, nodes))'
    BY <1>1, <1>5, <2>3, <2>4, <2>5 DEF WellFormed, Left
  <2> QED BY <2>6 DEF Cat
<1> QED BY <1>6, <1>7, <1>8, <1>9, <1>10 DEF EmissionInv

(* The first of t goes over to s.                                          *)
LEMMA GoesOver ==
  ASSUME NEW s \in Seq(Nodes), NEW t \in Seq(Nodes), t # <<>>
  PROVE  Cat(Append(s, t[1]), Tail(t)) = Cat(s, t)
<1>1. /\ Len(t) \in Nat /\ Len(t) >= 1 /\ t[1] \in Nodes
      /\ Tail(t) \in Seq(Nodes) /\ Len(Tail(t)) = Len(t) - 1
      /\ \A m \in 1 .. Len(t) - 1 : Tail(t)[m] = t[m + 1]
  BY TailFacts
<1>2. PICK q \in Seq(Nodes) : q = <<t[1]>> /\ Len(q) = 1 /\ q[1] = t[1]
  BY <1>1, Single
<1> DEFINE r == Tail(t)
<1>3. /\ r \in Seq(Nodes) /\ Len(r) = Len(t) - 1
      /\ \A m \in 1 .. Len(t) - 1 : r[m] = t[m + 1]
  BY <1>1
<1> HIDE DEF r
<1>4. Append(s, t[1]) = Cat(s, q)
  BY <1>1, <1>2, AppendIsConcat DEF Cat
<1>5. Cat(q, r) = t
  <2>1. Cat(q, r) \in Seq(Nodes)
    BY <1>3, JoinType
  <2>2. Len(Cat(q, r)) = Len(q) + Len(r)
    BY <1>3, JoinLen
  <2>3. Len(Cat(q, r)) = Len(t)
    BY <1>1, <1>2, <1>3, <2>2
  <2>4. ASSUME NEW n \in 1 .. Len(t)
        PROVE  Cat(q, r)[n] = t[n]
    <3>1. CASE n = 1
      <4>1. 1 \in 1 .. Len(q)
        BY <1>2
      <4>2. Cat(q, r)[1] = q[1]
        BY <1>3, <4>1, JoinLeft
      <4> QED BY <1>2, <3>1, <4>2
    <3>2. CASE n # 1
      <4>1. n - 1 \in 1 .. Len(r) /\ n = Len(q) + (n - 1) /\ (n - 1) + 1 = n
        BY <1>1, <1>2, <1>3, <3>2
      <4>2. Cat(q, r)[Len(q) + (n - 1)] = r[n - 1]
        BY <1>3, <4>1, JoinRight
      <4> QED BY <1>1, <1>3, <3>2, <4>1, <4>2
    <3> QED BY <3>1, <3>2
  <2> QED BY <2>1, <2>3, <2>4
<1>6. Cat(Cat(s, q), r) = Cat(s, Cat(q, r))
  BY <1>3, Regroup
<1> QED BY <1>4, <1>5, <1>6 DEF r

LEMMA TextKeeps ==
  ASSUME EmissionInv, ResolveText, IInv'
  PROVE  EmissionInv'
<1> DEFINE e == Head(nodes)
           x == [what |-> e, under |-> open]
           E == [what : TextNodes, under : Seq(Seq(1 .. Highest))]
<1>1. /\ nodes # <<>> /\ e.node # "place" /\ nodes' = Tail(nodes) /\ out' = Append(out, x)
      /\ phase = "idle" /\ phase' = phase /\ position' = position
      /\ source' = source /\ conditions' = conditions /\ type' = type
  BY DEF ResolveText, vars
<1>2. /\ PiecesType /\ TextPlaced /\ Steady(nodes) /\ NextPlaced
      /\ type # "none" => WellFormed(Written \o nodes)
      /\ TypeOK /\ NavigationInv
  BY DEF EmissionInv, IInv
<1>3. type # "none" /\ nodes \in Seq(Nodes) /\ out \in Seq(E)
  BY <1>1, <1>2 DEF PiecesType
<1>4. /\ e = nodes[1] /\ e \in Nodes /\ Tail(nodes) \in Seq(Nodes) /\ Steady(Tail(nodes))
      /\ Tail(nodes) # <<>> /\ Head(Tail(nodes)).node # "place" =>
           Conditions(Head(Tail(nodes)).at) = Conditions(e.at)
  BY <1>1, <1>2, NodesLeft
<1>5. /\ \A p : Conditions(p)' = Conditions(p)
      /\ Nodes' = Nodes /\ TextNodes' = TextNodes
  BY <1>1 DEF Conditions, Nodes, Places, TextNodes
<1>6. e \in TextNodes
  BY <1>1, <1>4 DEF Nodes, Places
<1>7. open = Conditions(position) /\ Conditions(e.at) = Conditions(position)
  BY <1>1, <1>2 DEF NavigationInv, NextPlaced
<1>8. x \in E /\ x.what = e /\ x.under = open
  BY <1>2, <1>6 DEF TypeOK
<1> HIDE DEF e, x, E
<1>9. /\ out' \in Seq(E) /\ Len(out) \in Nat /\ Len(out') = Len(out) + 1
      /\ DOMAIN out = 1 .. Len(out) /\ DOMAIN out' = 1 .. Len(out) + 1
      /\ out'[Len(out) + 1] = x /\ \A n \in 1 .. Len(out) : out'[n] = out[n]
  BY <1>1, <1>3, <1>8
<1>10. PiecesType'
  <2>1. nodes' \in Seq(Nodes')
    BY <1>1, <1>4, <1>5
  <2>2. out' \in Seq([what : TextNodes', under : Seq(Seq(1 .. Highest))])
    BY <1>5, <1>9 DEF E
  <2> QED BY <1>1, <1>2, <1>3, <2>1, <2>2 DEF PiecesType
<1>11. TextPlaced'
  <2> SUFFICES ASSUME NEW n \in DOMAIN out'
               PROVE  out'[n].under = Conditions(out'[n].what.at)
    BY <1>5 DEF TextPlaced
  <2>1. CASE n = Len(out) + 1
    BY <1>7, <1>8, <1>9, <2>1
  <2>2. CASE n # Len(out) + 1
    <3>1. n \in 1 .. Len(out)
      BY <1>9, <2>2
    <3> QED BY <1>2, <1>9, <3>1 DEF TextPlaced
  <2> QED BY <2>1, <2>2
<1>12. Steady(nodes)'
  BY <1>1, <1>4, <1>5 DEF Steady
<1>13. NextPlaced'
  BY <1>1, <1>4, <1>5, <1>7 DEF NextPlaced
<1>14. WellFormed(Written \o nodes)'
  <2>1. WellFormed(Cat(Written, nodes))
    BY <1>2, <1>3 DEF Cat
  <2>2. Cat(Written, nodes)' = Cat(Written, nodes)
    <3>1. Written \in Seq(Nodes) /\ DOMAIN Written = 1 .. Len(out)
          /\ \A n \in 1 .. Len(out) : Written[n] = out[n].what
      BY <1>2, WrittenType DEF Written
    <3>2. Written' = [n \in 1 .. Len(out) + 1 |-> out'[n].what]
      BY <1>9 DEF Written
    <3>3. Append(Written, e) \in Seq(Nodes) /\ DOMAIN Append(Written, e) = 1 .. Len(out) + 1
          /\ Append(Written, e)[Len(out) + 1] = e
          /\ \A n \in 1 .. Len(out) : Append(Written, e)[n] = Written[n]
      BY <1>2, <1>4, <3>1, WrittenType, AppendProperties
    <3>4. Written' = Append(Written, e)
      <4>1. PICK w \in Seq(Nodes) :
              /\ w = Append(Written, e) /\ DOMAIN w = 1 .. Len(out) + 1
              /\ w[Len(out) + 1] = e /\ \A n \in 1 .. Len(out) : w[n] = Written[n]
        BY <3>3
      <4>2. w = [n \in 1 .. Len(out) + 1 |-> w[n]]
        <5>1. PICK k \in Nat : w \in [1 .. k -> Nodes]
          BY SeqDef
        <5> QED BY <4>1, <5>1
      <4>3. \A n \in 1 .. Len(out) + 1 : w[n] = out'[n].what
        BY <1>8, <1>9, <3>1, <4>1
      <4> QED BY <3>2, <4>1, <4>2, <4>3
    <3>5. Cat(Append(Written, nodes[1]), Tail(nodes)) = Cat(Written, nodes)
      BY <1>1, <1>3, <3>1, GoesOver
    <3> QED BY <1>1, <1>4, <3>4, <3>5
  <2>5. Configurations' = Configurations
    BY <1>1 DEF Configurations, Heads
  <2>6. WellFormed(Cat(Written, nodes))'
    BY <1>1, <1>5, <2>1, <2>2, <2>5 DEF WellFormed, Left
  <2> QED BY <2>6 DEF Cat
<1> QED BY <1>10, <1>11, <1>12, <1>13, <1>14 DEF EmissionInv


LEMMA EmissionInitInv == EmissionInit => EmissionInv
<1> SUFFICES ASSUME EmissionInit PROVE EmissionInv
  OBVIOUS
<1>1. Init /\ type = "none" /\ nodes = <<>> /\ out = <<>>
  BY DEF EmissionInit
<1>2. IInv
  BY <1>1, InitIInv
<1>3. PiecesType
  BY <1>1 DEF PiecesType
<1>4. TextPlaced /\ Steady(nodes) /\ NextPlaced
  BY <1>1 DEF TextPlaced, Steady, NextPlaced
<1> QED BY <1>1, <1>2, <1>3, <1>4 DEF EmissionInv

LEMMA EmissionNextInv == EmissionInv /\ [EmissionNext]_allVars => EmissionInv'
<1> SUFFICES ASSUME EmissionInv, [EmissionNext]_allVars PROVE EmissionInv'
  OBVIOUS
<1>0. IInv
  BY DEF EmissionInv
<1>1. CASE ScanSource /\ UNCHANGED pieces
  <2>1. Next
    BY <1>1 DEF ScanSource, Next
  <2>2. IInv'
    BY <1>0, <2>1, NextIInv
  <2> QED BY <1>1, <2>2, ScanKeeps
<1>2. CASE Declare
  <2>1. UNCHANGED vars
    BY <1>2 DEF Declare
  <2>2. IInv'
    BY <1>0, <2>1, NextIInv
  <2> QED BY <1>2, <2>2, DeclareKeeps
<1>3. CASE ResolvePlace
  <2>1. PiecesType /\ Steady(nodes) /\ nodes # <<>> /\ Navigate(Head(nodes).at)
    BY <1>3 DEF EmissionInv, ResolvePlace
  <2>2. Head(nodes).at \in Reset .. Len(source)
    BY <2>1, NodesLeft
  <2>3. Next
    BY <2>1, <2>2 DEF Next
  <2>4. IInv'
    BY <1>0, <2>3, NextIInv
  <2> QED BY <1>3, <2>4, PlaceKeeps
<1>4. CASE ResolveText
  <2>1. UNCHANGED vars
    BY <1>4 DEF ResolveText
  <2>2. IInv'
    BY <1>0, <2>1, NextIInv
  <2> QED BY <1>4, <2>2, TextKeeps
<1>5. CASE Step /\ UNCHANGED pieces
  <2>1. Next
    BY <1>5 DEF Next
  <2>2. IInv'
    BY <1>0, <2>1, NextIInv
  <2> QED BY <1>5, <2>2, StepKeeps
<1>6. CASE UNCHANGED allVars
  BY <1>6, StutterKeeps
<1> QED BY <1>1, <1>2, <1>3, <1>4, <1>5, <1>6 DEF EmissionNext

(* The invariant of the emission: what is out is placed, what is left is   *)
(* placed by what comes before it, and both together are well formed.      *)
THEOREM EmissionInvariant == EmissionSpec => []EmissionInv
BY EmissionInitInv, EmissionNextInv, PTL DEF EmissionSpec

(* Each text that resolve() puts out is under the conditions of what it is *)
(* about: generateStructs(), generateEnums() and generateHandles() put a   *)
(* place wherever the conditions of their text change, for every source    *)
(* and every declaration.                                                  *)
THEOREM TextUnderItsConditions == EmissionSpec => []TextPlaced
<1>1. EmissionInv => TextPlaced
  BY DEF EmissionInv
<1> QED BY <1>1, EmissionInvariant, PTL

LEMMA ListsAreWellFormed ==
  ASSUME EmissionInv
  PROVE  ListsWellFormed
<1> SUFFICES ASSUME nodes = <<>>, type # "none",
                    NEW c \in Configurations, NEW list \in ListsOf(type), Separated(list)
             PROVE  Alternate(Written,
                              {n \in DOMAIN out : out[n].what.list = list
                                                  /\ Shown(c, out[n].under)},
                              list)
  BY DEF ListsWellFormed, Emitted
<1>1. PiecesType /\ TextPlaced /\ WellFormed(Cat(Written, nodes))
  BY DEF EmissionInv, Cat
<1>2. /\ Written \in Seq(Nodes) /\ DOMAIN out = 1 .. Len(out) /\ DOMAIN Written = DOMAIN out
      /\ \A n \in DOMAIN out : Written[n] = out[n].what /\ out[n].what.node # "place"
  BY <1>1, WrittenType DEF Written
<1>3. Cat(Written, nodes) = Written
  BY <1>2, ConcatEmptySeq DEF Cat
<1>4. Alternate(Written, Left(Written, c, list), list)
  BY <1>1, <1>3 DEF WellFormed
<1>5. Left(Written, c, list)
        = {n \in DOMAIN out : out[n].what.list = list /\ Shown(c, out[n].under)}
  BY <1>1, <1>2 DEF Left, TextPlaced
<1> QED BY <1>4, <1>5

(* In every configuration, every emitted list has one separator between    *)
(* each two members and none before the first: what the generated header   *)
(* needs to compile wherever the conditions of its members hold or not.    *)
THEOREM ListsSeparated == EmissionSpec => []ListsWellFormed
BY ListsAreWellFormed, EmissionInvariant, PTL

=============================================================================
