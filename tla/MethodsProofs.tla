---------------------------- MODULE MethodsProofs ----------------------------
(***************************************************************************)
(* Proofs about Methods for every list of parameters: the generator gives  *)
(* default arguments to the optional outputs at the end and to nothing     *)
(* else, and passes each parameter by the type that it declared.           *)
(***************************************************************************)
EXTENDS Methods, SequenceTheorems, FiniteSetTheorems, TLAPS

-----------------------------------------------------------------------------
(* The parameters of a declaration.                                        *)
LEMMA ParamFacts ==
  ASSUME NEW g \in Functions
  PROVE  /\ Len(g.params) \in Nat
         /\ DOMAIN g.params = 1 .. Len(g.params)
         /\ \A j \in 1 .. Len(g.params) : g.params[j] \in Params
         /\ g.first \in BOOLEAN
         /\ g.first => Len(g.params) >= 1
<1>1. g.params \in Seq(Params) /\ g.first \in BOOLEAN /\ (g.first => g.params # <<>>)
  BY MethodsAssumption
<1> QED BY <1>1

(* The C++ method has them all, but for the handle it becomes a method of. *)
LEMMA MethodRange ==
  ASSUME f \in Functions
  PROVE  Range(MethodParams(f)) = First .. Len(f.params)
<1> DEFINE m == IF f.first THEN 1 ELSE 0
           L == Len(f.params)
<1>1. L \in Nat /\ f.first \in BOOLEAN /\ m \in {0, 1} /\ First = m + 1
  BY ParamFacts DEF First
<1>2. MethodParams(f) = [j \in 1 .. L - m |-> j + m]
  BY <1>1 DEF MethodParams
<1>3. Range(MethodParams(f)) = {MethodParams(f)[x] : x \in 1 .. L - m}
  BY <1>2 DEF Range
<1>4. \A x \in 1 .. L - m : MethodParams(f)[x] = x + m
  BY <1>2
<1> HIDE DEF m, L
<1>5. \A y : y \in Range(MethodParams(f)) <=> \E x \in 1 .. L - m : y = x + m
  BY <1>3, <1>4
<1>6. \A y : (\E x \in 1 .. L - m : y = x + m) <=> y \in First .. L
  <2>1. ASSUME NEW y \in First .. L
        PROVE  \E x \in 1 .. L - m : y = x + m
    <3>1. y - m \in 1 .. L - m /\ y = (y - m) + m
      BY <1>1, <2>1
    <3> QED BY <3>1
  <2>2. ASSUME NEW x \in 1 .. L - m
        PROVE  x + m \in First .. L
    BY <1>1
  <2> QED BY <2>1, <2>2
<1> QED BY <1>5, <1>6 DEF L

-----------------------------------------------------------------------------
(* Sequences of parameters in their order.                                 *)
LEMMA AppendGreater ==
  ASSUME NEW s \in Seq(Nat), Ascends(s), NEW x \in Nat, \A y \in Range(s) : y < x
  PROVE  /\ Append(s, x) \in Seq(Nat) /\ Ascends(Append(s, x))
         /\ Range(Append(s, x)) = Range(s) \cup {x}
         /\ Len(Append(s, x)) = Len(s) + 1
<1> DEFINE n == Len(s)
<1>1. PICK t \in Seq(Nat) :
        /\ t = Append(s, x) /\ Len(t) = n + 1 /\ DOMAIN t = 1 .. n + 1 /\ t[n + 1] = x
        /\ \A a \in 1 .. n : t[a] = s[a]
  <2>1. /\ Append(s, x) \in Seq(Nat) /\ Len(Append(s, x)) = n + 1
        /\ Append(s, x)[n + 1] = x
        /\ \A a \in 1 .. n : Append(s, x)[a] = s[a]
    BY AppendProperties
  <2>2. DOMAIN Append(s, x) = 1 .. n + 1
    BY <2>1
  <2> QED BY <2>1, <2>2
<1>2. /\ n \in Nat /\ DOMAIN s = 1 .. n /\ \A a \in 1 .. n : s[a] \in Nat
      /\ \A a : a \in 1 .. n + 1 <=> a \in 1 .. n \/ a = n + 1
  OBVIOUS
<1> HIDE DEF n
<1>3. \A y : y \in Range(s) <=> \E a \in 1 .. n : s[a] = y
  BY <1>2 DEF Range
<1>4. \A y : y \in Range(t) <=> \E a \in 1 .. n + 1 : t[a] = y
  BY <1>1 DEF Range
<1>5. \A y : y \in Range(t) <=> y \in Range(s) \/ y = x
  BY <1>1, <1>2, <1>3, <1>4
<1>6. Range(t) = Range(s) \cup {x}
  BY <1>5
<1>7. ASSUME NEW a \in DOMAIN t, NEW b \in DOMAIN t, a < b
      PROVE  t[a] < t[b]
  <2>1. a \in 1 .. n /\ (b \in 1 .. n \/ b = n + 1)
    BY <1>1, <1>2, <1>7
  <2>2. CASE b \in 1 .. n
    BY <1>1, <1>2, <1>7, <2>1, <2>2 DEF Ascends
  <2>3. CASE b = n + 1
    BY <1>1, <1>3, <2>1, <2>3
  <2> QED BY <2>1, <2>2, <2>3
<1>8. Ascends(t)
  BY <1>7 DEF Ascends
<1> QED BY <1>1, <1>6, <1>8 DEF n

-----------------------------------------------------------------------------
(* The loop that finds the outputs.                                        *)
LEMMA LoopFacts ==
  ASSUME Classified
  PROVE  /\ Len(f.params) \in Nat /\ First \in {1, 2} /\ i \in Nat
         /\ First <= i /\ i <= Len(f.params) + 1
         /\ End = Len(f.params) + 1
BY ParamFacts DEF Classified, First, End

LEMMA InitLoop == Init => LoopInv
<1> SUFFICES ASSUME Init PROVE LoopInv
  OBVIOUS
<1>1. /\ f \in Functions /\ i = First /\ default = 0 /\ phase = "outputs"
      /\ paramType = [j \in 1 .. Len(f.params) |-> "INPUT"]
      /\ outputs = <<>> /\ second = SecondHandle(f)
  BY DEF Init, First
<1>2. Len(f.params) \in Nat /\ First \in {1, 2} /\ First <= Len(f.params) + 1
  BY <1>1, ParamFacts DEF First
<1>3. \A j : j \notin First .. i - 1
  BY <1>1, <1>2
<1>4. Classified
  BY <1>1, <1>2, <1>3 DEF Classified, End
<1>5. DefaultsSoFar
  BY <1>1, <1>2, <1>3 DEF DefaultsSoFar
<1>6. OutputsSoFar
  <2>1. Range(outputs) = {}
    BY <1>1 DEF Range
  <2>2. outputs \in Seq(Nat) /\ Ascends(outputs)
    BY <1>1 DEF Ascends
  <2>3. {j \in First .. i - 1 : paramType[j] = "OUTPUT"} = {}
    BY <1>3
  <2> QED BY <2>1, <2>2, <2>3 DEF OutputsSoFar
<1>7. SecondSoFar
  BY <1>1, <1>3 DEF SecondSoFar
<1> QED BY <1>4, <1>5, <1>6, <1>7 DEF LoopInv

(* Each parameter gets the type that its declaration tells.                *)
LEMMA ClassifyTypes ==
  ASSUME LoopInv, Classify
  PROVE  /\ Classified'
         /\ paramType'[i] = TypeOf(P(i))
         /\ \A k \in First .. i - 1 : paramType'[k] = paramType[k]
<1>1. /\ phase = "outputs" /\ i <= Len(f.params) /\ i' = i + 1 /\ f' = f /\ phase' = phase
      /\ Input \/ Output \/ OptionalOutput
  BY DEF Classify
<1>2. /\ Len(f.params) \in Nat /\ First \in {1, 2} /\ i \in Nat /\ First <= i
      /\ End = Len(f.params) + 1 /\ Classified
  BY LoopFacts DEF LoopInv
<1>3. First' = First /\ End' = End /\ i \in 1 .. Len(f.params)
  BY <1>1, <1>2 DEF First, End
<1>4. /\ DOMAIN paramType = 1 .. Len(f.params)
      /\ \A j \in 1 .. Len(f.params) :
           paramType[j] = IF j \in First .. i - 1 THEN TypeOf(P(j)) ELSE "INPUT"
  BY <1>2 DEF Classified
<1>5. paramType' = [paramType EXCEPT ![i] = TypeOf(P(i))]
  <2>1. paramType[i] = "INPUT"
    BY <1>2, <1>3, <1>4
  <2>2. paramType \in [1 .. Len(f.params) -> {paramType[j] : j \in 1 .. Len(f.params)}]
    BY <1>2, <1>4 DEF Classified
  <2>3. CASE Input
    <3>1. paramType' = paramType /\ TypeOf(P(i)) = "INPUT"
      BY <2>3 DEF Input, TypeOf
    <3> QED BY <2>1, <2>2, <3>1
  <2>4. CASE Output
    BY <2>4 DEF Output, TypeOf
  <2>5. CASE OptionalOutput
    BY <2>5 DEF OptionalOutput, TypeOf
  <2> QED BY <1>1, <2>3, <2>4, <2>5
<1>6. \A j \in 1 .. Len(f.params) :
        paramType'[j] = IF j \in First .. i THEN TypeOf(P(j)) ELSE "INPUT"
  BY <1>2, <1>3, <1>4, <1>5
<1>7. DOMAIN paramType' = 1 .. Len(f.params)
  BY <1>4, <1>5
<1>8. paramType' = [j \in 1 .. Len(f.params) |->
                      IF j \in First .. i THEN TypeOf(P(j)) ELSE "INPUT"]
  <2>1. paramType' = [j \in 1 .. Len(f.params) |-> paramType'[j]]
    BY <1>4, <1>5
  <2> QED BY <1>6, <2>1
<1>9. Classified'
  <2>1. \A j : TypeOf(P(j))' = TypeOf(P(j))
    BY <1>1 DEF P, TypeOf, IsOutput
  <2>2. i' - 1 = i /\ i' \in First .. End
    BY <1>1, <1>2
  <2> QED BY <1>1, <1>2, <1>3, <1>8, <2>1, <2>2 DEF Classified
<1> QED BY <1>2, <1>3, <1>4, <1>5, <1>9

LEMMA ClassifyDefaults ==
  ASSUME LoopInv, Classify
  PROVE  DefaultsSoFar'
<1>1. /\ i <= Len(f.params) /\ i' = i + 1 /\ f' = f
      /\ Input \/ Output \/ OptionalOutput
  BY DEF Classify
<1>2. /\ Len(f.params) \in Nat /\ First \in {1, 2} /\ i \in Nat /\ First <= i
      /\ End = Len(f.params) + 1
  BY LoopFacts DEF LoopInv
<1>3. First' = First /\ End' = End
  BY <1>1 DEF First, End
<1>4. /\ Classified'
      /\ paramType'[i] = TypeOf(P(i))
      /\ \A k \in First .. i - 1 : paramType'[k] = paramType[k]
  BY ClassifyTypes
<1>5. /\ default \in 0 .. i - 1 \/ default = End
      /\ \A j \in First .. i - 1 :
           j >= default <=> \A k \in j .. i - 1 : paramType[k] = "OPTIONAL_OUTPUT"
  BY DEF LoopInv, DefaultsSoFar
<1>6. CASE Input \/ Output
  <2>1. default' = End /\ paramType'[i] # "OPTIONAL_OUTPUT"
    BY <1>4, <1>6 DEF Input, Output, TypeOf
  <2>2. \A j \in First .. i : ~(j >= End) /\ i \in j .. i
    BY <1>1, <1>2
  <2> QED BY <1>1, <1>2, <1>3, <2>1, <2>2 DEF DefaultsSoFar
<1>7. CASE OptionalOutput
  <2>1. /\ default' = IF default > i THEN i ELSE default
        /\ paramType'[i] = "OPTIONAL_OUTPUT"
    BY <1>4, <1>7 DEF OptionalOutput, TypeOf
  <2>2. default' \in 0 .. i
    BY <1>1, <1>2, <1>5, <2>1
  <2>3. ASSUME NEW j \in First .. i
        PROVE  j >= default' <=> \A k \in j .. i : paramType'[k] = "OPTIONAL_OUTPUT"
    <3>1. CASE j = i
      BY <1>2, <2>1, <2>2, <1>5, <3>1
    <3>2. CASE j # i
      <4>1. j \in First .. i - 1
        BY <1>2, <3>2
      <4>2. (\A k \in j .. i : paramType'[k] = "OPTIONAL_OUTPUT")
              <=> (\A k \in j .. i - 1 : paramType[k] = "OPTIONAL_OUTPUT")
        <5>1. \A k \in j .. i - 1 : k \in First .. i - 1 /\ k \in j .. i
          BY <1>2, <4>1
        <5>2. \A k \in j .. i : k = i \/ k \in j .. i - 1
          BY <1>2, <4>1
        <5> QED BY <1>4, <2>1, <5>1, <5>2
      <4>3. j >= default' <=> j >= default
        BY <1>1, <1>2, <1>5, <2>1, <4>1
      <4> QED BY <1>5, <4>1, <4>2, <4>3
    <3> QED BY <3>1, <3>2
  <2> QED BY <1>1, <1>2, <1>3, <2>2, <2>3 DEF DefaultsSoFar
<1> QED BY <1>1, <1>6, <1>7

(* One more output goes to the end of them.                                *)
LEMMA ClassifyOutputs ==
  ASSUME LoopInv, Classify
  PROVE  OutputsSoFar'
<1>1. /\ i' = i + 1 /\ f' = f
      /\ Input \/ Output \/ OptionalOutput
  BY DEF Classify
<1>2. First \in {1, 2} /\ i \in Nat /\ First <= i
  BY LoopFacts DEF LoopInv
<1>3. First' = First /\ i' - 1 = i
  BY <1>1, <1>2 DEF First
<1>4. /\ paramType'[i] = TypeOf(P(i))
      /\ \A k \in First .. i - 1 : paramType'[k] = paramType[k]
  BY ClassifyTypes
<1>5. /\ outputs \in Seq(Nat) /\ Ascends(outputs)
      /\ \A y : y \in Range(outputs) <=> y \in First .. i - 1 /\ paramType[y] = "OUTPUT"
  BY DEF LoopInv, OutputsSoFar
<1>6. \A y : y \in First .. i <=> y \in First .. i - 1 \/ y = i
  BY <1>2
<1>7. CASE Input \/ OptionalOutput
  <2>1. outputs' = outputs /\ paramType'[i] # "OUTPUT"
    BY <1>4, <1>7 DEF Input, OptionalOutput, TypeOf
  <2>2. \A y : y \in Range(outputs) <=> y \in First .. i /\ paramType'[y] = "OUTPUT"
    BY <1>4, <1>5, <1>6, <2>1
  <2>3. Range(outputs) = {y \in First .. i : paramType'[y] = "OUTPUT"}
    BY <2>2
  <2> QED BY <1>3, <1>5, <2>1, <2>3 DEF OutputsSoFar
<1>8. CASE Output
  <2>1. outputs' = Append(outputs, i) /\ paramType'[i] = "OUTPUT"
    BY <1>4, <1>8 DEF Output, TypeOf
  <2>2. \A y \in Range(outputs) : y < i
    BY <1>2, <1>5
  <2>3. PICK o \in Seq(Nat) :
          o = outputs' /\ Ascends(o) /\ Range(o) = Range(outputs) \cup {i}
    BY <1>2, <1>5, <2>1, <2>2, AppendGreater
  <2>4. \A y : y \in Range(o) <=> y \in First .. i /\ paramType'[y] = "OUTPUT"
    BY <1>2, <1>4, <1>5, <1>6, <2>1, <2>3
  <2>5. Range(o) = {y \in First .. i : paramType'[y] = "OUTPUT"}
    BY <2>4
  <2> QED BY <1>3, <2>3, <2>5 DEF OutputsSoFar
<1> QED BY <1>1, <1>7, <1>8

LEMMA ClassifySecond ==
  ASSUME LoopInv, Classify
  PROVE  SecondSoFar'
<1> DEFINE Made(j) == P(j).handle /\ P(j).kind = "VK"
<1>1. /\ i' = i + 1 /\ f' = f
      /\ Input \/ Output \/ OptionalOutput
  BY DEF Classify
<1>2. First \in {1, 2} /\ i \in Nat /\ First <= i
  BY LoopFacts DEF LoopInv
<1>3. First' = First /\ i' - 1 = i
  BY <1>1, <1>2 DEF First
<1>a. SecondHandle(f)' = SecondHandle(f) /\ \A j : P(j)' = P(j)
  BY <1>1 DEF P
<1>4. /\ paramType'[i] = TypeOf(P(i))
      /\ \A k \in First .. i - 1 : paramType'[k] = paramType[k]
  BY ClassifyTypes
<1>5. \A y : y \in First .. i <=> y \in First .. i - 1 \/ y = i
  BY <1>2
<1>6. second = IF \E j \in First .. i - 1 : paramType[j] = "OUTPUT" /\ Made(j)
               THEN 0 ELSE SecondHandle(f)
  BY DEF LoopInv, SecondSoFar
<1>7. second' = IF paramType'[i] = "OUTPUT" /\ Made(i) THEN 0 ELSE second
  BY <1>1, <1>4 DEF Input, Output, OptionalOutput, TypeOf
<1>8. (\E j \in First .. i : paramType'[j] = "OUTPUT" /\ Made(j))
        <=> \/ \E j \in First .. i - 1 : paramType[j] = "OUTPUT" /\ Made(j)
            \/ paramType'[i] = "OUTPUT" /\ Made(i)
  BY <1>4, <1>5
<1>9. second' = IF \E j \in First .. i : paramType'[j] = "OUTPUT" /\ Made(j)
                THEN 0 ELSE SecondHandle(f)
  BY <1>6, <1>7, <1>8
<1> QED BY <1>3, <1>a, <1>9 DEF SecondSoFar

LEMMA ClassifyLoop ==
  ASSUME LoopInv, Classify
  PROVE  LoopInv'
BY ClassifyTypes, ClassifyDefaults, ClassifyOutputs, ClassifySecond DEF LoopInv

LEMMA RestLoop ==
  ASSUME LoopInv, Convert \/ UNCHANGED vars
  PROVE  LoopInv'
<1>1. /\ UNCHANGED <<f, i, paramType, default, outputs, second>>
      /\ \/ i = End /\ phase' \in {"done", "error"}
         \/ phase' = phase
  BY DEF Convert, vars
<1>2. First' = First /\ End' = End /\ \A j : TypeOf(P(j))' = TypeOf(P(j))
  BY <1>1 DEF First, End, P, TypeOf, IsOutput
<1>3. Classified'
  BY <1>1, <1>2 DEF LoopInv, Classified
<1>4. DefaultsSoFar'
  BY <1>1, <1>2 DEF LoopInv, DefaultsSoFar
<1>5. OutputsSoFar' /\ SecondSoFar'
  BY <1>1, <1>2 DEF LoopInv, OutputsSoFar, SecondSoFar, P, SecondHandle
<1> QED BY <1>3, <1>4, <1>5 DEF LoopInv

(* The loop over the parameters keeps its invariant, for every declaration *)
(* the generator is given.                                                 *)
THEOREM Invariant == Spec => []LoopInv
<1>1. LoopInv /\ [Next]_vars => LoopInv'
  BY ClassifyLoop, RestLoop DEF Next
<1> QED BY <1>1, InitLoop, PTL DEF Spec

(* Exactly the parameters behind which all are optional outputs get a      *)
(* default argument, so C++ accepts the list and no input gets one.        *)
THEOREM DefaultsLast == Spec => []DefaultsExact
<1>1. LoopInv => DefaultsExact
  <2> SUFFICES ASSUME LoopInv, Done, NEW j \in Range(MethodParams(f))
               PROVE  j >= default <=>
                        \A k \in j .. Len(f.params) : paramType[k] = "OPTIONAL_OUTPUT"
    BY DEF DefaultsExact
  <2>1. i = End /\ Len(f.params) \in Nat /\ End - 1 = Len(f.params)
    BY LoopFacts DEF LoopInv, Classified, Done
  <2>2. j \in First .. Len(f.params)
    BY MethodRange DEF LoopInv, Classified
  <2> QED BY <2>1, <2>2 DEF LoopInv, DefaultsSoFar
<1> QED BY <1>1, Invariant, PTL

(* The chain of conditions that passes a parameter to the C function       *)
(* agrees with the one that chose its C++ type.                            *)
THEOREM CallMatchesTypes == Spec => []CallAgrees
<1>1. LoopInv => CallAgrees
  <2> SUFFICES ASSUME LoopInv, Done, NEW j \in Range(MethodParams(f))
               PROVE  Pass(P(j)) = Expected(j)
    BY DEF CallAgrees
  <2>1. j \in First .. Len(f.params) /\ j \in 1 .. Len(f.params) /\ f \in Functions
    BY MethodRange, LoopFacts DEF LoopInv, Classified
  <2>2. paramType[j] = TypeOf(P(j))
    BY <2>1, LoopFacts DEF LoopInv, Classified, Done
  <2>3. /\ P(j).size => P(j).pointers = 0
        /\ P(j).kind = "VOID" /\ P(j).pointers = 2 => P(j).notNull /\ ~P(j).len
        /\ P(j) \in Params
    BY <2>1, DeclarationsAssumption, ParamFacts DEF P
  <2> DEFINE p == P(j)
  <2>4. /\ p.pointers \in 0 .. 2 /\ p.kind \in Kinds /\ p.constant \in BOOLEAN
        /\ p.notNull \in BOOLEAN /\ p.len \in BOOLEAN /\ p.size \in BOOLEAN
    BY <2>3 DEF Params
  <2> HIDE DEF p
  <2>5. CASE p.size
    BY <2>3, <2>5 DEF Pass, Expected, p
  <2>6. CASE ~p.size /\ TypeOf(p) = "OUTPUT"
    BY <2>2, <2>3, <2>4, <2>6 DEF Pass, Expected, TypeOf, IsOutput, p
  <2>7. CASE ~p.size /\ TypeOf(p) # "OUTPUT"
    <3>1. Expected(j) =
            IF Form(p) \in {"ArrayProxy", "ArrayProxyNoTemporaries"} THEN "data()"
            ELSE IF Form(p) = "reference" THEN "&"
            ELSE IF Form(p) = "Optional" THEN "static_cast"
            ELSE "name"
      BY <2>2, <2>7 DEF Expected, Form, p
    <3> QED BY <2>3, <2>4, <2>7, <3>1 DEF Pass, Form, TypeOf, IsOutput, Kinds, p
  <2> QED BY <2>5, <2>6, <2>7
<1> QED BY <1>1, Invariant, PTL


-----------------------------------------------------------------------------
(* Induction over the natural numbers, for a set of them.                  *)
LEMMA SetInduction ==
  ASSUME NEW S, 0 \in S, \A n \in Nat : n \in S => n + 1 \in S
  PROVE  Nat \subseteq S
<1> DEFINE R == OpToRel(<, Nat)
           T == Nat \ S
<1>1. IsWellFoundedOn(R, Nat)
  BY NatLessThanWellFounded DEF OpToRel
<1>2. \A x, y \in Nat : <<x, y>> \in R <=> x < y
  BY DEF OpToRel
<1> HIDE DEF R
<1> SUFFICES ASSUME T # {} PROVE FALSE
  OBVIOUS
<1>3. PICK x \in T : \A y \in T : ~ (<<y, x>> \in R)
  BY <1>1, WFMin
<1>4. x # 0 /\ x - 1 \in Nat /\ x - 1 < x
  OBVIOUS
<1>5. x - 1 \in S
  BY <1>2, <1>3, <1>4
<1> QED BY <1>4, <1>5

(* What the loop of InOrder does with parameter j.                         *)
Pick(S, j, s) == IF j \in S THEN Append(s, j) ELSE s

LEMMA PickType ==
  ASSUME NEW S, NEW j \in Nat, NEW s \in Seq(Nat)
  PROVE  Pick(S, j, s) \in Seq(Nat)
BY DEF Pick

Picks(S, n, g) == g[0] = <<>> /\ \A j \in 1 .. n : g[j] = Pick(S, j, g[j - 1])

LEMMA PicksExist ==
  ASSUME NEW S, NEW N \in Nat
  PROVE  \E g \in [0 .. N -> Seq(Nat)] : Picks(S, N, g)
<1> DEFINE T == {n \in Nat : \E g \in [0 .. n -> Seq(Nat)] : Picks(S, n, g)}
<1>1. 0 \in T
  <2> DEFINE g == [j \in 0 .. 0 |-> <<>>]
  <2>1. g \in [0 .. 0 -> Seq(Nat)] /\ Picks(S, 0, g)
    BY DEF Picks
  <2> QED BY <2>1
<1>2. ASSUME NEW n \in Nat, n \in T
      PROVE  n + 1 \in T
  <2>1. PICK h \in [0 .. n -> Seq(Nat)] : Picks(S, n, h)
    BY <1>2
  <2> DEFINE e == Pick(S, n + 1, h[n])
             g == [j \in 0 .. n + 1 |-> IF j = n + 1 THEN e ELSE h[j]]
  <2>2. e \in Seq(Nat)
    BY <2>1, PickType
  <2> HIDE DEF e
  <2>3. g \in [0 .. n + 1 -> Seq(Nat)]
    BY <2>1, <2>2
  <2>4. g[n + 1] = e /\ \A j \in 0 .. n : g[j] = h[j]
    OBVIOUS
  <2> HIDE DEF g
  <2>5. ASSUME NEW j \in 1 .. n + 1
        PROVE  g[j] = Pick(S, j, g[j - 1])
    <3>1. CASE j = n + 1
      <4>1. j - 1 \in 0 .. n /\ j - 1 = n
        BY <3>1
      <4> QED BY <2>4, <3>1, <4>1 DEF e
    <3>2. CASE j # n + 1
      <4>1. j \in 1 .. n /\ j \in 0 .. n /\ j - 1 \in 0 .. n
        BY <3>2
      <4> QED BY <2>1, <2>4, <4>1 DEF Picks
    <3> QED BY <3>1, <3>2
  <2>6. Picks(S, n + 1, g)
    BY <2>1, <2>4, <2>5 DEF Picks
  <2> QED BY <2>3, <2>6
<1> HIDE DEF T
<1>3. N \in T
  BY <1>1, <1>2, SetInduction
<1> QED BY <1>3 DEF T

LEMMA InOrderPicks ==
  ASSUME NEW S, Len(f.params) \in Nat
  PROVE  \E g : Picks(S, Len(f.params), g) /\ InOrder(S) = g[Len(f.params)]
<1> DEFINE N == Len(f.params)
           upto[j \in 0 .. N] == IF j = 0 THEN <<>>
                                 ELSE IF j \in S THEN Append(upto[j - 1], j)
                                 ELSE upto[j - 1]
<1>1. PICK g \in [0 .. N -> Seq(Nat)] : Picks(S, N, g)
  <2> HIDE DEF N
  <2>1. N \in Nat
    BY DEF N
  <2> QED BY <2>1, PicksExist
<1>2. g = [j \in 0 .. N |-> IF j = 0 THEN <<>>
                            ELSE IF j \in S THEN Append(g[j - 1], j)
                            ELSE g[j - 1]]
  <2> HIDE DEF N
  <2>1. /\ N \in Nat /\ g = [j \in 0 .. N |-> g[j]]
        /\ g[0] = <<>> /\ \A j \in 1 .. N : g[j] = Pick(S, j, g[j - 1])
    BY <1>1 DEF N, Picks
  <2>2. \A j \in 0 .. N : j # 0 => j \in 1 .. N
    BY <2>1
  <2>3. \A j \in 0 .. N : g[j] = IF j = 0 THEN <<>>
                                 ELSE IF j \in S THEN Append(g[j - 1], j)
                                 ELSE g[j - 1]
    BY <2>1, <2>2 DEF Pick
  <2> QED BY <2>1, <2>3
<1>3. upto = [j \in 0 .. N |-> IF j = 0 THEN <<>>
                               ELSE IF j \in S THEN Append(upto[j - 1], j)
                               ELSE upto[j - 1]]
  BY <1>2
<1>4. InOrder(S) = upto[N]
  BY DEF InOrder
<1> HIDE DEF upto
<1>5. Picks(S, N, upto)
  <2> HIDE DEF N
  <2>1. N \in Nat
    BY DEF N
  <2> DEFINE h == [j \in 0 .. N |-> IF j = 0 THEN <<>> ELSE Pick(S, j, upto[j - 1])]
  <2>2. \A j \in 0 .. N : h[j] = IF j = 0 THEN <<>> ELSE Pick(S, j, upto[j - 1])
    OBVIOUS
  <2>3. h = upto
    BY <1>3 DEF Pick
  <2> HIDE DEF h
  <2>4. 0 \in 0 .. N /\ \A j \in 1 .. N : j \in 0 .. N /\ j # 0
    BY <2>1
  <2> QED BY <2>2, <2>3, <2>4 DEF Picks
<1> QED BY <1>4, <1>5

(* The parameters of S up to n, in their order.                            *)
Picked(s, n, S) ==
  /\ s \in Seq(Nat) /\ Ascends(s) /\ Range(s) = S \cap (1 .. n)
  /\ IsFiniteSet(S \cap (1 .. n)) /\ Len(s) = Cardinality(S \cap (1 .. n))

LEMMA PickedNext ==
  ASSUME NEW S, NEW n \in Nat, NEW s, Picked(s, n, S)
  PROVE  Picked(Pick(S, n + 1, s), n + 1, S)
<1>1. /\ s \in Seq(Nat) /\ Ascends(s) /\ Range(s) = S \cap (1 .. n)
      /\ IsFiniteSet(S \cap (1 .. n)) /\ Len(s) = Cardinality(S \cap (1 .. n))
  BY DEF Picked
<1>2. CASE n + 1 \in S
  <2>1. \A y \in Range(s) : y < n + 1
    BY <1>1
  <2> DEFINE A == S \cap (1 .. n)
  <2>2. S \cap (1 .. n + 1) = A \cup {n + 1} /\ n + 1 \notin A /\ IsFiniteSet(A)
    BY <1>1, <1>2
  <2> HIDE DEF A
  <2>6. IsFiniteSet(A \cup {n + 1}) /\ Cardinality(A \cup {n + 1}) = Cardinality(A) + 1
    BY <2>2, FS_AddElement
  <2>3. /\ IsFiniteSet(S \cap (1 .. n + 1))
        /\ Cardinality(S \cap (1 .. n + 1)) = Cardinality(S \cap (1 .. n)) + 1
    BY <2>2, <2>6 DEF A
  <2>4. /\ Append(s, n + 1) \in Seq(Nat) /\ Ascends(Append(s, n + 1))
        /\ Range(Append(s, n + 1)) = Range(s) \cup {n + 1}
        /\ Len(Append(s, n + 1)) = Len(s) + 1
    BY <1>1, <2>1, AppendGreater
  <2>5. Pick(S, n + 1, s) = Append(s, n + 1)
    BY <1>2 DEF Pick
  <2> QED BY <1>1, <2>2, <2>3, <2>4, <2>5 DEF Picked, A
<1>3. CASE n + 1 \notin S
  <2>1. S \cap (1 .. n + 1) = S \cap (1 .. n) /\ Pick(S, n + 1, s) = s
    BY <1>3 DEF Pick
  <2> QED BY <1>1, <2>1 DEF Picked
<1> QED BY <1>2, <1>3

(* InOrder gives each of S once, in the order of the declaration.          *)
LEMMA InOrderFacts ==
  ASSUME Len(f.params) \in Nat, NEW S \in SUBSET (1 .. Len(f.params))
  PROVE  /\ InOrder(S) \in Seq(Nat) /\ Ascends(InOrder(S)) /\ Range(InOrder(S)) = S
         /\ IsFiniteSet(S) /\ Len(InOrder(S)) = Cardinality(S)
<1> DEFINE N == Len(f.params)
<1>1. PICK g : Picks(S, N, g) /\ InOrder(S) = g[N]
  BY InOrderPicks
<1> HIDE DEF N
<1>2. N \in Nat /\ S \cap (1 .. N) = S
  BY DEF N
<1> DEFINE T == {n \in Nat : n <= N => Picked(g[n], n, S)}
<1>3. 0 \in T
  <2>1. S \cap (1 .. 0) = {} /\ g[0] = <<>>
    BY <1>1 DEF Picks
  <2>2. <<>> \in Seq(Nat) /\ Ascends(<<>>) /\ Range(<<>>) = {} /\ Len(<<>>) = 0
    BY DEF Ascends, Range
  <2> QED BY <2>1, <2>2, FS_EmptySet DEF Picked
<1>4. ASSUME NEW n \in Nat, n \in T
      PROVE  n + 1 \in T
  <2> SUFFICES ASSUME n + 1 <= N
               PROVE  Picked(g[n + 1], n + 1, S)
    OBVIOUS
  <2>1. n <= N /\ n + 1 \in 1 .. N /\ (n + 1) - 1 = n
    BY <1>2
  <2>2. Picked(g[n], n, S)
    BY <1>4, <2>1
  <2>3. g[n + 1] = Pick(S, n + 1, g[n])
    BY <1>1, <2>1 DEF Picks
  <2> QED BY <2>2, <2>3, PickedNext
<1> HIDE DEF T
<1>5. N \in T
  BY <1>2, <1>3, <1>4, SetInduction
<1>6. Picked(g[N], N, S)
  BY <1>2, <1>5 DEF T
<1> QED BY <1>1, <1>2, <1>6 DEF Picked

-----------------------------------------------------------------------------
(* The overloads of a method.                                              *)

(* What an enhanced method takes: the parameters that it does not skip.    *)
Kept == {j \in First .. Len(f.params) : ~Skipped(j)}

LEMMA TakenFacts ==
  ASSUME LoopInv
  PROVE  /\ Taken \in Seq(Nat) /\ Ascends(Taken) /\ Range(Taken) = Kept
         /\ IsFiniteSet(Kept) /\ Len(Taken) = Cardinality(Kept)
<1>1. f \in Functions /\ Len(f.params) \in Nat /\ First \in {1, 2}
  BY LoopFacts DEF LoopInv, Classified
<1>2. {j \in Range(MethodParams(f)) : ~Skipped(j)} = Kept
  BY <1>1, MethodRange DEF Kept
<1>3. Kept \in SUBSET (1 .. Len(f.params))
  BY <1>1 DEF Kept
<1> QED BY <1>1, <1>2, <1>3, InOrderFacts DEF Taken

(* The simple method has a parameter of the C type for each.               *)
LEMMA SimpleTypes ==
  ASSUME LoopInv
  PROVE  LET m == Len(f.params) + 1 - First
         IN /\ m \in Nat
            /\ Simple.types = [k \in 1 .. m |-> Type(k + First - 1, "same")]
            /\ \A k \in 1 .. m : Type(k + First - 1, "same").kind \in Kinds
<1> DEFINE m == Len(f.params) + 1 - First
<1>1. /\ f \in Functions /\ Len(f.params) \in Nat /\ First \in {1, 2}
      /\ First <= Len(f.params) + 1
  BY LoopFacts DEF LoopInv, Classified
<1>2. DOMAIN MethodParams(f) = 1 .. m /\ \A k \in 1 .. m : MethodParams(f)[k] = k + First - 1
  <2>1. CASE f.first
    <3>1. First = 2 /\ m = Len(f.params) - 1
      BY <1>1, <2>1 DEF First
    <3>2. MethodParams(f) = [j \in 1 .. m |-> j + 1]
      BY <2>1, <3>1 DEF MethodParams
    <3> QED BY <1>1, <3>1, <3>2
  <2>2. CASE ~f.first
    <3>1. First = 1 /\ m = Len(f.params) - 0
      BY <1>1, <2>2 DEF First
    <3>2. MethodParams(f) = [j \in 1 .. m |-> j]
      BY <2>2, <3>1 DEF MethodParams
    <3> QED BY <1>1, <3>1, <3>2
  <2> QED BY <2>1, <2>2
<1>3. Len(MethodParams(f)) = m
  BY <1>1, <1>2
<1>4. Simple.types = [k \in 1 .. m |-> Type(MethodParams(f)[k], "same")]
  BY <1>3 DEF Simple
<1>5. \A k \in 1 .. m : P(k + First - 1) \in Params
  <2>1. \A k \in 1 .. m : k + First - 1 \in 1 .. Len(f.params)
    BY <1>1
  <2> QED BY <1>1, <2>1, ParamFacts DEF P
<1>6. \A k \in 1 .. m : Type(k + First - 1, "same").kind \in Kinds
  BY <1>5 DEF Type, Params
<1> QED BY <1>1, <1>2, <1>4, <1>6

(* An enhanced method whose signature is transformed is no copy of the     *)
(* simple one, whether it takes an allocator or not.                       *)
LEMMA AllocatorDiffers ==
  ASSUME LoopInv
  PROVE  Simple.types # Overload(FALSE, TRUE).types
<1> DEFINE n == Len(Taken)
           m == Len(f.params) + 1 - First
           s == Simple.types
           o == Overload(FALSE, TRUE).types
<1>1. /\ m \in Nat /\ DOMAIN s = 1 .. m /\ \A k \in 1 .. m : s[k].kind \in Kinds
  BY SimpleTypes
<1>2. n \in Nat
  BY TakenFacts
<1>3. DOMAIN o = 1 .. n + 1 /\ o[n + 1].kind = "Allocator"
  <2>1. o = [k \in 1 .. n + 1 |->
               IF k > n THEN AllocatorType ELSE Type(Taken[k], Form(P(Taken[k])))]
    BY DEF Overload
  <2> HIDE DEF n, o
  <2>2. n + 1 \in 1 .. n + 1 /\ n + 1 > n
    BY <1>2
  <2>3. o[n + 1] = AllocatorType
    BY <2>1, <2>2
  <2> QED BY <2>1, <2>3 DEF AllocatorType
<1> HIDE DEF n, m, s, o
<1>4. s # o
  <2> SUFFICES ASSUME s = o PROVE FALSE
    OBVIOUS
  <2>1. n + 1 \in 1 .. m
    BY <1>1, <1>2, <1>3
  <2> QED BY <1>1, <1>3, <2>1 DEF Kinds
<1> QED BY <1>4 DEF s, o

LEMMA TransformedDiffers ==
  ASSUME LoopInv, SignatureTransformed
  PROVE  Simple.types # Overload(FALSE, FALSE).types
<1> DEFINE n == Len(Taken)
           m == Len(f.params) + 1 - First
           s == Simple.types
           o == Overload(FALSE, FALSE).types
           A == First .. Len(f.params)
<1>1. m \in Nat /\ DOMAIN s = 1 .. m /\ \A k \in 1 .. m : s[k].form = "same"
  BY SimpleTypes DEF Type
<1>2. /\ Taken \in Seq(Nat) /\ Range(Taken) = Kept
      /\ IsFiniteSet(Kept) /\ n = Cardinality(Kept) /\ n \in Nat
  BY TakenFacts
<1>3. DOMAIN o = 1 .. n /\ \A k \in 1 .. n : o[k].form = Form(P(Taken[k]))
  <2>1. o = [k \in 1 .. n + 0 |->
               IF k > n THEN AllocatorType ELSE Type(Taken[k], Form(P(Taken[k])))]
    BY DEF Overload
  <2>2. \A k : Type(Taken[k], Form(P(Taken[k]))).form = Form(P(Taken[k]))
    BY DEF Type
  <2> HIDE DEF n, o
  <2>3. n + 0 = n /\ \A k \in 1 .. n : ~(k > n)
    BY <1>2
  <2>4. \A k \in 1 .. n : o[k] = Type(Taken[k], Form(P(Taken[k])))
    BY <2>1, <2>3
  <2> QED BY <2>1, <2>2, <2>3, <2>4
<1>4. IsFiniteSet(A) /\ Cardinality(A) = m /\ Kept \subseteq A
  <2>1. Len(f.params) \in Nat /\ First \in Nat /\ First <= Len(f.params) + 1
    BY LoopFacts DEF LoopInv
  <2>2. IsFiniteSet(A) /\ Cardinality(A) = m
    <3>2. First \in Int /\ Len(f.params) \in Int
      BY <2>1
    <3>1. IsFiniteSet(A)
          /\ Cardinality(A) = IF First > Len(f.params) THEN 0
                              ELSE Len(f.params) - First + 1
      BY <3>2, FS_Interval
    <3> HIDE DEF A
    <3> QED BY <2>1, <3>1
  <2> QED BY <2>2 DEF Kept
<1>5. PICK j \in A : Skipped(j) \/ Form(P(j)) # "same"
  BY MethodRange DEF SignatureTransformed, LoopInv, Classified
<1>6. \A y \in Range(Taken) : \E k \in 1 .. n : Taken[k] = y
  BY <1>2 DEF Range
<1> HIDE DEF n, m, s, o, A
<1>7. s # o
  <2> SUFFICES ASSUME s = o PROVE FALSE
    OBVIOUS
  <2>1. n = m
    BY <1>1, <1>2, <1>3
  <2>2. Kept = A
    BY <1>2, <1>4, <2>1, FS_Subset
  <2>3. PICK k \in 1 .. n : Taken[k] = j
    BY <1>2, <1>5, <1>6, <2>2
  <2>4. Form(P(j)) = "same"
    BY <1>1, <1>3, <2>1, <2>3
  <2>5. ~Skipped(j)
    BY <1>5, <2>2 DEF Kept
  <2> QED BY <1>5, <2>4, <2>5
<1> QED BY <1>7 DEF s, o

(* The references to an allocator tell two enhanced methods apart.         *)
LEMMA AllocatorsDiffer ==
  ASSUME LoopInv, NEW unique
  PROVE  Overload(unique, FALSE).types # Overload(unique, TRUE).types
<1> DEFINE n == Len(Taken)
<1>1. n \in Nat
  BY TakenFacts
<1>2. /\ DOMAIN Overload(unique, FALSE).types = 1 .. n
      /\ DOMAIN Overload(unique, TRUE).types = 1 .. n + 1
  BY <1>1 DEF Overload
<1> HIDE DEF n
<1>3. n + 1 \in 1 .. n + 1 /\ n + 1 \notin 1 .. n
  BY <1>1
<1> QED BY <1>2, <1>3

LEMMA VectorType ==
  ASSUME LoopInv
  PROVE  Vector \in BOOLEAN
<1> SUFFICES ASSUME Len(outputs) = 1 PROVE P(outputs[1]).len \in BOOLEAN
  BY DEF Vector
<1>1. outputs[1] \in Range(outputs)
  BY DEF LoopInv, OutputsSoFar, Range
<1>2. outputs[1] \in First .. i - 1 /\ f \in Functions
  BY <1>1 DEF LoopInv, OutputsSoFar, Classified
<1>3. outputs[1] \in 1 .. Len(f.params)
  BY <1>2, LoopFacts DEF LoopInv
<1> QED BY <1>2, <1>3, ParamFacts DEF P, Params

LEMMA Triple ==
  ASSUME NEW A, NEW B, NEW C, NEW v \in A \X B \X C
  PROVE  v = <<v[1], v[2], v[3]>> /\ v[1] \in A /\ v[2] \in B /\ v[3] \in C
OBVIOUS

LEMMA OneOfTwo ==
  ASSUME NEW A, NEW B, NEW x \in {A, B}, NEW y \in {A, B}, x # y
  PROVE  (x = A /\ y = B) \/ (x = B /\ y = A)
OBVIOUS

LEMMA OverloadsDiffer ==
  ASSUME LoopInv, NEW a \in DOMAIN Overloads, NEW b \in DOMAIN Overloads, a # b,
         Overloads[a].unique = Overloads[b].unique,
         ~({"ENHANCED", "SIMPLE"} \subseteq Overloads[a].guard \cup Overloads[b].guard)
  PROVE  Overloads[a].types # Overloads[b].types
<1> DEFINE E == {"enhanced"} \X {FALSE, HasUnique} \X {FALSE, Vector}
           s == <<"simple", FALSE, FALSE>>
<1>1. DOMAIN Overloads = {s} \cup E
  BY DEF Overloads
<1>2. Overloads[s] = Simple
  BY DEF Overloads
<1>3. \A v \in E : Overloads[v] = Overload(v[2], v[3])
  BY DEF Overloads
<1>4. \A v \in E : /\ v = <<"enhanced", v[2], v[3]>>
                   /\ v[2] \in BOOLEAN /\ v[3] \in {FALSE, Vector} /\ v[3] \in BOOLEAN
  <2>1. HasUnique \in BOOLEAN
    BY DEF HasUnique
  <2> DEFINE A == {"enhanced"}
             B == {FALSE, HasUnique}
             C == {FALSE, Vector}
  <2>2. B \subseteq BOOLEAN /\ C \subseteq BOOLEAN /\ E = A \X B \X C
    BY <2>1, VectorType
  <2> HIDE DEF A, B, C, E
  <2>3. ASSUME NEW v \in E
        PROVE  v = <<v[1], v[2], v[3]>> /\ v[1] \in A /\ v[2] \in B /\ v[3] \in C
    BY <2>2, Triple
  <2>4. \A v \in E : v = <<"enhanced", v[2], v[3]>>
    BY <2>3 DEF A
  <2> QED BY <2>2, <2>3, <2>4 DEF C
<1>5. ASSUME NEW v \in E, Simple.unique = Overloads[v].unique,
             ~({"ENHANCED", "SIMPLE"} \subseteq Simple.guard \cup Overloads[v].guard)
      PROVE  Simple.types # Overloads[v].types
  <2>1. Overloads[v] = Overload(v[2], v[3]) /\ v[2] \in BOOLEAN /\ v[3] \in BOOLEAN
    BY <1>3, <1>4
  <2>4. Overload(v[2], v[3]).unique = v[2] /\ Simple.unique = FALSE
    BY DEF Simple, Overload
  <2>2. v[2] = FALSE
    BY <1>5, <2>1, <2>4
  <2>3. SignatureTransformed
    <3>1. "ENHANCED" \in Overload(v[2], v[3]).guard
      BY DEF Overload
    <3>2. ~SignatureTransformed => "SIMPLE" \in Simple.guard
      BY DEF Simple
    <3> QED BY <1>5, <2>1, <3>1, <3>2
  <2>5. CASE v[3] = TRUE
    BY <2>1, <2>2, <2>5, AllocatorDiffers
  <2>6. CASE v[3] = FALSE
    BY <2>1, <2>2, <2>3, <2>6, TransformedDiffers
  <2> QED BY <2>1, <2>5, <2>6
<1> HIDE DEF E, s
<1>6. CASE a = s /\ b \in E
  BY <1>2, <1>5, <1>6
<1>7. CASE a \in E /\ b = s
  <2>1. Simple.types # Overloads[a].types
    BY <1>2, <1>5, <1>7
  <2> QED BY <1>2, <1>7, <2>1
<1>8. CASE a \in E /\ b \in E
  <2>1. Overloads[a] = Overload(a[2], a[3]) /\ Overloads[b] = Overload(b[2], b[3])
    BY <1>3, <1>8
  <2>7. \A u, w : Overload(u, w).unique = u
    BY DEF Overload
  <2>2. a[2] = b[2]
    BY <2>1, <2>7
  <2>8. a = <<"enhanced", a[2], a[3]>> /\ b = <<"enhanced", b[2], b[3]>>
    BY <1>4, <1>8
  <2>3. a[3] # b[3] /\ a[3] \in BOOLEAN /\ b[3] \in BOOLEAN
    BY <1>4, <1>8, <2>2, <2>8
  <2>4. Overload(a[2], FALSE).types # Overload(a[2], TRUE).types
    BY AllocatorsDiffer
  <2>5. Vector = TRUE \/ Vector = FALSE
    BY VectorType, Zenon
  <2>6. (a[3] = FALSE /\ b[3] = Vector) \/ (a[3] = Vector /\ b[3] = FALSE)
    <3> DEFINE A == FALSE
               B == Vector
    <3>1. a[3] \in {A, B} /\ b[3] \in {A, B} /\ a[3] # b[3]
      BY <1>4, <1>8, <2>3
    <3> HIDE DEF A, B
    <3>2. (a[3] = A /\ b[3] = B) \/ (a[3] = B /\ b[3] = A)
      BY <3>1, OneOfTwo
    <3> QED BY <3>2 DEF A, B
  <2>9. CASE Vector = FALSE
    BY <2>3, <2>6, <2>9
  <2>10. CASE Vector = TRUE
    BY <2>1, <2>2, <2>4, <2>6, <2>10
  <2> QED BY <2>5, <2>9, <2>10
<1> QED BY <1>1, <1>6, <1>7, <1>8

-----------------------------------------------------------------------------
(* The handles among the parameters, and the variants that combine them.   *)
Handles == {j \in First .. Len(f.params) : P(j).handle}
Resources == {j \in Handles : P(j).kind = "VK"}

LEMMA DoneTypes ==
  ASSUME LoopInv, Done
  PROVE  /\ f \in Functions /\ Len(f.params) \in Nat /\ First \in {1, 2}
         /\ \A j \in First .. Len(f.params) :
              /\ j \in 1 .. Len(f.params) /\ j \in Nat /\ P(j) \in Params
              /\ paramType[j] = TypeOf(P(j))
         /\ Range(outputs) = {j \in First .. Len(f.params) : paramType[j] = "OUTPUT"}
<1>1. /\ f \in Functions /\ Len(f.params) \in Nat /\ First \in {1, 2}
      /\ i = End /\ i - 1 = Len(f.params) /\ i = Len(f.params) + 1
  BY LoopFacts DEF LoopInv, Classified, Done
<1>2. \A j \in First .. Len(f.params) : j \in 1 .. Len(f.params) /\ j \in Nat
  BY <1>1
<1>3. \A j \in 1 .. Len(f.params) : P(j) \in Params
  BY <1>1, ParamFacts DEF P
<1>4. \A j \in First .. Len(f.params) : paramType[j] = TypeOf(P(j))
  BY <1>1, <1>2 DEF LoopInv, Classified
<1>5. Range(outputs) = {j \in First .. Len(f.params) : paramType[j] = "OUTPUT"}
  BY <1>1 DEF LoopInv, OutputsSoFar
<1> QED BY <1>1, <1>2, <1>3, <1>4, <1>5

(* What the declarations have, of the one that is converted.               *)
LEMMA HandleFacts ==
  ASSUME LoopInv, Done
  PROVE  LET memories == Handles \ Resources
         IN /\ \A j \in Handles : ~P(j).size
            /\ Resources # {} /\ memories # {} =>
                 /\ \A j, k \in Resources : j = k
                 /\ \A j, k \in memories : j = k
                 /\ \A j \in Handles : paramType[j] # "OPTIONAL_OUTPUT"
                 /\ ~f.first => \A j \in Handles : paramType[j] = "OUTPUT"
            /\ \A j, k \in Range(outputs) :
                 j < k /\ P(k).handle /\ P(k).kind = "VK" => P(j).kind = "VK"
<1> DEFINE rest == First .. Len(f.params)
           made == {j \in rest : IsOutput(f.params[j]) /\ f.params[j].notNull}
           memories == Handles \ Resources
<1>1. f \in Functions /\ rest = (IF f.first THEN 2 ELSE 1) .. Len(f.params)
  BY DoneTypes DEF First
<1>2. /\ Handles = {j \in rest : f.params[j].handle}
      /\ Resources = {j \in Handles : f.params[j].kind = "VK"}
  BY DEF Handles, Resources, P
<1>3. /\ \A j \in Handles : ~f.params[j].size
      /\ Resources # {} /\ memories # {} =>
           /\ \A j, k \in Resources : j = k
           /\ \A j, k \in memories : j = k
           /\ \A j \in Handles : IsOutput(f.params[j]) => j \in made
           /\ ~f.first => Handles \subseteq made
      /\ \A j \in made, k \in made \cap Resources : j < k => f.params[j].kind = "VK"
  <2> DEFINE r == (IF f.first THEN 2 ELSE 1) .. Len(f.params)
             m == {j \in r : IsOutput(f.params[j]) /\ f.params[j].notNull}
             h == {j \in r : f.params[j].handle}
             v == {j \in h : f.params[j].kind = "VK"}
  <2>1. /\ \A j \in h : ~f.params[j].size
        /\ v # {} /\ h \ v # {} =>
             /\ \A j, k \in v : j = k
             /\ \A j, k \in h \ v : j = k
             /\ \A j \in h : IsOutput(f.params[j]) => j \in m
             /\ ~f.first => h \subseteq m
        /\ \A j \in m, k \in m \cap v : j < k => f.params[j].kind = "VK"
    <3> HIDE DEF r
    <3> QED BY <1>1, HandlesAssumption DEF r
  <2>2. m = made /\ h = Handles /\ v = Resources
    BY <1>1, <1>2
  <2> HIDE DEF r, m, h, v, made
  <2> QED BY <2>1, <2>2
<1>4. \A j \in rest : paramType[j] = TypeOf(P(j)) /\ P(j) = f.params[j]
  BY DoneTypes DEF P
<1>5. /\ \A j \in rest : paramType[j] = "OUTPUT" <=> j \in made
      /\ \A j \in rest : paramType[j] = "OPTIONAL_OUTPUT" => IsOutput(f.params[j]) /\ j \notin made
  BY <1>4 DEF TypeOf
<1>6. \A j \in Handles : j \in rest
  BY <1>2
<1>7. \A j : j \in Range(outputs) => j \in made
  BY <1>5, DoneTypes
<1>8. \A j \in rest : P(j).handle /\ P(j).kind = "VK" => j \in Resources
  BY DEF Resources, Handles
<1>9. made \subseteq rest
  OBVIOUS
<1> HIDE DEF made, rest, memories
<1>10. \A j \in Handles : ~P(j).size
  BY <1>3, <1>4, <1>6
<1>11. Resources # {} /\ memories # {} =>
         /\ \A j \in Handles : paramType[j] # "OPTIONAL_OUTPUT"
         /\ ~f.first => \A j \in Handles : paramType[j] = "OUTPUT"
  BY <1>3, <1>5, <1>6
<1>12. \A j, k \in Range(outputs) :
         j < k /\ P(k).handle /\ P(k).kind = "VK" => P(j).kind = "VK"
  BY <1>3, <1>4, <1>7, <1>8, <1>9
<1> QED BY <1>3, <1>10, <1>11, <1>12 DEF memories

(* A combining variant has one resource and one memory and is given one.   *)
LEMMA CombinedHandles ==
  ASSUME LoopInv, Done, Combined # 0
  PROVE  /\ \E r \in Resources, m \in Handles \ Resources :
              /\ \A j \in Resources : j = r
              /\ \A j \in Handles \ Resources : j = m
         /\ \A j \in Handles : ~P(j).size /\ paramType[j] # "OPTIONAL_OUTPUT"
         /\ \E j \in Handles : paramType[j] = "INPUT"
         /\ f.first
<1>1. Range(MethodParams(f)) = First .. Len(f.params)
  BY DoneTypes, MethodRange
<1>2. /\ Handles \ Resources # {} /\ Resources # {}
      /\ \E j \in Handles : paramType[j] = "INPUT"
  BY <1>1 DEF Combined, Handles, Resources
<1>3. PICK r \in Resources, m \in Handles \ Resources : TRUE
  BY <1>2
<1>4. f.first
  BY <1>2, HandleFacts
<1> QED BY <1>2, <1>3, <1>4, HandleFacts

LEMMA Greatest ==
  ASSUME NEW n \in Nat, NEW S \in SUBSET (1 .. n), S # {}
  PROVE  \E j \in S : \A k \in S : k <= j
<1> DEFINE Has(A) == \E j \in A : \A k \in A : k <= j
           T == {x \in Nat : \A A \in SUBSET (1 .. x) : A # {} => Has(A)}
<1>1. 0 \in T
  <2>1. 1 .. 0 = {}
    OBVIOUS
  <2> HIDE DEF Has
  <2> QED BY <2>1
<1>2. ASSUME NEW x \in Nat, x \in T
      PROVE  x + 1 \in T
  <2> SUFFICES ASSUME NEW A \in SUBSET (1 .. x + 1), A # {}
               PROVE  Has(A)
    OBVIOUS
  <2>1. CASE x + 1 \in A
    BY <2>1
  <2>2. CASE x + 1 \notin A
    <3>1. A \in SUBSET (1 .. x)
      BY <2>2
    <3> QED BY <1>2, <3>1
  <2> QED BY <2>1, <2>2
<1> HIDE DEF T
<1>3. n \in T
  BY <1>1, <1>2, SetInduction
<1> QED BY <1>3 DEF T

(* A method of another class is of a memory that is given, and then all    *)
(* resources are.                                                          *)
LEMMA SecondFacts ==
  ASSUME LoopInv, Done, second # 0
  PROVE  /\ second \in Handles \ Resources /\ paramType[second] = "INPUT"
         /\ \A j \in Resources : paramType[j] # "OUTPUT"
<1>1. /\ f \in Functions /\ Len(f.params) \in Nat /\ i - 1 = Len(f.params)
      /\ \A j \in First .. Len(f.params) : paramType[j] = TypeOf(P(j))
  BY DoneTypes, LoopFacts DEF LoopInv, Classified, Done
<1>2. /\ second = SecondHandle(f)
      /\ \A j \in First .. Len(f.params) :
           ~(paramType[j] = "OUTPUT" /\ P(j).handle /\ P(j).kind = "VK")
  BY <1>1 DEF LoopInv, SecondSoFar
<1> DEFINE S == {j \in 2 .. Len(f.params) : /\ f.params[j].handle
                                            /\ f.params[j].pointers = 0
                                            /\ f.params[j].kind = "VMA"}
<1>3. f.first /\ S # {} /\ second = CHOOSE j \in S : \A k \in S : k <= j
  BY <1>2 DEF SecondHandle
<1>4. second \in S
  <2>1. S \in SUBSET (1 .. Len(f.params))
    BY <1>1
  <2> HIDE DEF S
  <2>2. \E j \in S : \A k \in S : k <= j
    BY <1>1, <1>3, <2>1, Greatest
  <2> QED BY <1>3, <2>2
<1>5. /\ second \in First .. Len(f.params)
      /\ P(second).handle /\ P(second).pointers = 0 /\ P(second).kind = "VMA"
  BY <1>3, <1>4 DEF First, P
<1>6. paramType[second] = "INPUT"
  BY <1>1, <1>5 DEF TypeOf, IsOutput
<1> QED BY <1>2, <1>5, <1>6 DEF Handles, Resources

(* A combining variant takes a handle, so that it is no copy of the other. *)
LEMMA CombinedTakes ==
  ASSUME LoopInv, Done, Combined # 0
  PROVE  \E j \in Range(RaiiParams) : P(j).handle
<1>1. Range(RaiiParams) = Kept \ {second}
  <2>1. Range(Taken) = Kept /\ Len(f.params) \in Nat
    BY TakenFacts, DoneTypes
  <2>2. Kept \ {second} \in SUBSET (1 .. Len(f.params))
    BY DoneTypes DEF Kept
  <2> QED BY <2>1, <2>2, InOrderFacts DEF RaiiParams
<1>2. PICK r \in Resources, m \in Handles \ Resources :
        /\ \A j \in Resources : j = r
        /\ \A j \in Handles \ Resources : j = m
  BY CombinedHandles
<1>3. PICK h \in Handles : paramType[h] = "INPUT"
  BY CombinedHandles
<1>4. \A j \in Handles : paramType[j] # "OUTPUT" => j \in Kept /\ P(j).handle
  BY CombinedHandles DEF Kept, Skipped, Handles
<1>5. CASE h # second
  BY <1>1, <1>3, <1>4, <1>5
<1>6. CASE h = second
  <2>1. h # 0
    BY <1>3, DoneTypes DEF Handles
  <2>2. second \in Handles \ Resources /\ paramType[r] # "OUTPUT"
    BY <1>6, <2>1, SecondFacts
  <2>3. r # second /\ r \in Handles
    BY <2>2 DEF Resources
  <2> QED BY <1>1, <1>4, <2>2, <2>3
<1> QED BY <1>5, <1>6

(* For every declaration, no two overloads that are seen together take the *)
(* same parameters: a skipped, proxied or added one tells them apart.      *)
THEOREM OverloadsTellApart == Spec => []OverloadsDistinct
<1>1. LoopInv => OverloadsDistinct
  <2> SUFFICES ASSUME LoopInv, Done PROVE OverloadsDistinct
    BY DEF OverloadsDistinct
  <2> QED BY OverloadsDiffer, CombinedTakes DEF OverloadsDistinct
<1> QED BY <1>1, Invariant, PTL

-----------------------------------------------------------------------------
(* The operands of detail::wrap.                                           *)

(* Each handle is one operand, behind the owner *this where there is one.  *)
LEMMA Operands ==
  ASSUME LoopInv, Done, Combined # 0
  PROVE  \E hs \in Seq(Nat), n \in {0, 1} :
           /\ n = IF second = 0 THEN 1 ELSE 0
           /\ Range(hs) = Handles /\ Ascends(hs) /\ Len(hs) \in Nat
           /\ DOMAIN CombiningWrap = 1 .. n + Len(hs)
           /\ \A k \in 1 .. n + Len(hs) :
                CombiningWrap[k] =
                  IF k <= n THEN [what |-> "owner", made |-> FALSE]
                  ELSE [what |-> IF P(hs[k - n]).kind = "VK" THEN "resource" ELSE "memory",
                        made |-> paramType[hs[k - n]] = "OUTPUT"]
<1> DEFINE hs == InOrder({j \in Range(MethodParams(f)) :
                            P(j).handle /\ paramType[j] # "OPTIONAL_OUTPUT"})
           n == IF f.first /\ second = 0 THEN 1 ELSE 0
           wrap(k) == IF k <= n THEN [what |-> "owner", made |-> FALSE]
                      ELSE [what |-> IF P(hs[k - n]).kind = "VK" THEN "resource" ELSE "memory",
                            made |-> paramType[hs[k - n]] = "OUTPUT"]
<1>1. {j \in Range(MethodParams(f)) : P(j).handle /\ paramType[j] # "OPTIONAL_OUTPUT"} = Handles
  BY DoneTypes, MethodRange, CombinedHandles DEF Handles
<1>2. Handles \in SUBSET (1 .. Len(f.params)) /\ Len(f.params) \in Nat
  BY DoneTypes DEF Handles
<1>3. hs \in Seq(Nat) /\ Range(hs) = Handles /\ Ascends(hs) /\ Len(hs) \in Nat
  <2>1. LET h == InOrder(Handles)
        IN  h \in Seq(Nat) /\ Range(h) = Handles /\ Ascends(h) /\ Len(h) \in Nat
    BY <1>2, InOrderFacts
  <2>2. hs = InOrder(Handles)
    BY <1>1
  <2> QED BY <2>1, <2>2
<1>4. n \in {0, 1} /\ n = IF second = 0 THEN 1 ELSE 0
  BY CombinedHandles
<1>5. CombiningWrap = [k \in 1 .. n + Len(hs) |-> wrap(k)]
  BY DEF CombiningWrap
<1> HIDE DEF hs, n
<1>6. /\ DOMAIN CombiningWrap = 1 .. n + Len(hs)
      /\ \A k \in 1 .. n + Len(hs) : CombiningWrap[k] = wrap(k)
  <2> HIDE DEF wrap
  <2> QED BY <1>5
<1> QED BY <1>3, <1>4, <1>6

(* One value of an increasing sequence is at one place.                    *)
LEMMA OnePlace ==
  ASSUME NEW s \in Seq(Nat), Ascends(s), NEW y \in Range(s)
  PROVE  \E k \in 1 .. Len(s) : \A l \in 1 .. Len(s) : s[l] = y <=> l = k
<1>1. PICK k \in 1 .. Len(s) : s[k] = y
  BY DEF Range
<1>2. ASSUME NEW l \in 1 .. Len(s), s[l] = y
      PROVE  l = k
  <2>1. DOMAIN s = 1 .. Len(s) /\ s[k] \in Nat /\ Len(s) \in Nat
    OBVIOUS
  <2>2. ~(l < k) /\ ~(k < l)
    BY <1>1, <1>2, <2>1 DEF Ascends
  <2> QED BY <2>1, <2>2
<1> QED BY <1>1, <1>2

LEMMA WrapFits ==
  ASSUME LoopInv, Done, Combined # 0
  PROVE  /\ \A what \in {"resource", "memory"} :
              Cardinality({k \in DOMAIN CombiningWrap : CombiningWrap[k].what = what}) = 1
         /\ \E o \in Range(CombiningWrap) : ~o.made /\ o.what \in {"owner", "memory"}
<1> DEFINE W == CombiningWrap
           At(what) == {k \in DOMAIN W : W[k].what = what}
<1>1. PICK hs \in Seq(Nat), n \in {0, 1} :
        /\ n = IF second = 0 THEN 1 ELSE 0
        /\ Range(hs) = Handles /\ Ascends(hs) /\ Len(hs) \in Nat
        /\ DOMAIN W = 1 .. n + Len(hs)
        /\ \A k \in 1 .. n + Len(hs) :
             W[k] = IF k <= n THEN [what |-> "owner", made |-> FALSE]
                    ELSE [what |-> IF P(hs[k - n]).kind = "VK" THEN "resource" ELSE "memory",
                          made |-> paramType[hs[k - n]] = "OUTPUT"]
  BY Operands
<1> HIDE DEF W
<1>2. PICK r \in Resources, m \in Handles \ Resources :
        /\ \A j \in Resources : j = r
        /\ \A j \in Handles \ Resources : j = m
  BY CombinedHandles
<1> DEFINE c == Len(hs)
<1>3. \A l \in 1 .. c : hs[l] \in Handles
  BY <1>1 DEF Range
<1>4. \A l \in 1 .. c : /\ P(hs[l]).kind = "VK" <=> hs[l] = r
                        /\ P(hs[l]).kind # "VK" <=> hs[l] = m
  <2>1. \A j \in Handles : /\ P(j).kind = "VK" <=> j = r
                           /\ P(j).kind # "VK" <=> j = m
    BY <1>2 DEF Resources
  <2> QED BY <1>3, <2>1
<1>5. PICK x \in 1 .. c : \A l \in 1 .. c : hs[l] = r <=> l = x
  <2>1. r \in Range(hs)
    BY <1>1, <1>2 DEF Resources
  <2> QED BY <1>1, <2>1, OnePlace
<1>6. PICK y \in 1 .. c : \A l \in 1 .. c : hs[l] = m <=> l = y
  <2>1. m \in Range(hs)
    BY <1>1, <1>2
  <2> QED BY <1>1, <2>1, OnePlace
<1> HIDE DEF c
<1>7. c \in Nat /\ DOMAIN W = 1 .. n + c /\ n \in {0, 1}
  BY <1>1 DEF c
<1>8. /\ \A k \in 1 .. n + c : k <= n => W[k].what = "owner" /\ W[k].made = FALSE
      /\ \A k \in 1 .. n + c : ~(k <= n) =>
           /\ W[k].what = IF P(hs[k - n]).kind = "VK" THEN "resource" ELSE "memory"
           /\ W[k].made = (paramType[hs[k - n]] = "OUTPUT")
  <2>1. ASSUME NEW k \in 1 .. n + c, k <= n
        PROVE  W[k].what = "owner" /\ W[k].made = FALSE
    <3>1. W[k] = [what |-> "owner", made |-> FALSE]
      BY <1>1, <2>1 DEF c
    <3> QED BY <3>1
  <2>2. ASSUME NEW k \in 1 .. n + c, ~(k <= n)
        PROVE  /\ W[k].what = IF P(hs[k - n]).kind = "VK" THEN "resource" ELSE "memory"
               /\ W[k].made = (paramType[hs[k - n]] = "OUTPUT")
    <3>1. W[k] = [what |-> IF P(hs[k - n]).kind = "VK" THEN "resource" ELSE "memory",
                  made |-> paramType[hs[k - n]] = "OUTPUT"]
      BY <1>1, <2>2 DEF c
    <3> QED BY <3>1
  <2> QED BY <2>1, <2>2
<1>9. ASSUME NEW k \in 1 .. n + c
      PROVE  /\ W[k].what = "resource" <=> k = n + x
             /\ W[k].what = "memory" <=> k = n + y
  <2>1. CASE k <= n
    BY <1>7, <1>8, <2>1
  <2>2. CASE ~(k <= n)
    <3>1. /\ k - n \in 1 .. c /\ (k - n = x <=> k = n + x) /\ (k - n = y <=> k = n + y)
      BY <1>7, <2>2
    <3>2. /\ W[k].what = "resource" <=> P(hs[k - n]).kind = "VK"
          /\ W[k].what = "memory" <=> P(hs[k - n]).kind # "VK"
      BY <1>8, <2>2
    <3> QED BY <1>4, <1>5, <1>6, <3>1, <3>2 DEF c
  <2> QED BY <2>1, <2>2
<1>10. At("resource") = {n + x} /\ At("memory") = {n + y}
  <2>1. n + x \in 1 .. n + c /\ n + y \in 1 .. n + c
    BY <1>7
  <2> QED BY <1>7, <1>9, <2>1
<1>11. Cardinality(At("resource")) = 1 /\ Cardinality(At("memory")) = 1
  <2> HIDE DEF At
  <2> QED BY <1>10, FS_Singleton
<1>12. \E o \in Range(W) : ~o.made /\ o.what \in {"owner", "memory"}
  <2>1. CASE second = 0
    <3>1. n = 1 /\ 1 \in DOMAIN W
      BY <1>1, <1>7, <2>1
    <3>2. W[1].what = "owner" /\ W[1].made = FALSE
      BY <1>7, <1>8, <3>1
    <3>3. W[1] \in Range(W)
      BY <3>1 DEF Range
    <3> QED BY <3>2, <3>3
  <2>2. CASE second # 0
    <3>1. second = m /\ paramType[m] = "INPUT"
      BY <1>2, <2>2, SecondFacts
    <3>2. n = 0 /\ y \in 1 .. n + c /\ ~(y <= n) /\ y - n = y /\ n + y = y
      BY <1>1, <1>7, <2>2
    <3>3. hs[y] = m
      BY <1>6
    <3>4. W[y].what = "memory"
      BY <1>9, <3>2
    <3>5. ~W[y].made
      BY <1>8, <3>1, <3>2, <3>3
    <3>6. W[y] \in Range(W)
      BY <1>7, <3>2 DEF Range
    <3> QED BY <3>4, <3>5, <3>6
  <2> QED BY <2>1, <2>2
<1> QED BY <1>11, <1>12 DEF W

(* The second part of a pair is its resource, if it has one.               *)
LEMMA PairFits ==
  ASSUME LoopInv, Done, Pair, \E j \in Range(outputs) : P(j).kind = "VK" /\ P(j).handle
  PROVE  P(PairOrder[2]).kind = "VK"
<1>1. outputs \in Seq(Nat) /\ Ascends(outputs) /\ Len(outputs) = 2
  BY DEF LoopInv, OutputsSoFar, Pair
<1>2. PairOrder[2] = outputs[1]
  BY <1>1 DEF PairOrder, Reverse
<1>3. DOMAIN outputs = {1, 2} /\ outputs[1] < outputs[2]
  BY <1>1 DEF Ascends
<1>4. /\ outputs[1] \in Range(outputs) /\ outputs[2] \in Range(outputs)
      /\ \A j \in Range(outputs) : j = outputs[1] \/ j = outputs[2]
  BY <1>3 DEF Range
<1>5. P(outputs[1]).kind = "VK"
  BY <1>3, <1>4, HandleFacts
<1> QED BY <1>2, <1>5

(* For every declaration, detail::wrap gets one resource, one memory and   *)
(* an owner that the call did not make, and a pair has its resource last.  *)
THEOREM CombiningFits == Spec => []CombinedFits
<1>1. LoopInv => CombinedFits
  <2> SUFFICES ASSUME LoopInv, Done PROVE CombinedFits
    BY DEF CombinedFits
  <2> QED BY WrapFits, PairFits DEF CombinedFits
<1> QED BY <1>1, Invariant, PTL

=============================================================================
