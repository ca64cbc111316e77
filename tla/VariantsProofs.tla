--------------------------- MODULE VariantsProofs ---------------------------
(***************************************************************************)
(* The two words of a specialization tell all there is to know of the      *)
(* literals it was built from, for any set of bits.                        *)
(***************************************************************************)
EXTENDS Variants, TLAPS

(* A literal is a specialization with that literal alone.                  *)
LEMMA LiteralWords ==
  ASSUME NEW l \in Literals
  PROVE  Literal(l) = Words({l})
<1>. PICK b \in Bits, sign \in BOOLEAN : l = <<b, sign>>
  BY DEF Literals
<1>1. CASE sign = TRUE
  <2>1. Words({l}).mask = {b} /\ Words({l}).condition = {b}
    BY <1>1 DEF Words
  <2>. QED
    BY <1>1, <2>1 DEF Words, Literal, Named
<1>2. CASE sign = FALSE
  <2>1. Words({l}).mask = {b} /\ Words({l}).condition = {}
    BY <1>2 DEF Words
  <2>2. Literal(l) = [mask |-> {b}, condition |-> {}]
    BY <1>2 DEF Literal, Named, Not, Xor
  <2>. QED
    BY <2>1, <2>2 DEF Words
<1>. QED
  BY <1>1, <1>2

(* operator& conjoins: the result has the literals of both operands.       *)
LEMMA AndWords ==
  ASSUME NEW L, NEW K, L \subseteq Literals, K \subseteq Literals
  PROVE  And(Words(L), Words(K)) = Words(L \cup K)
<1>1. Words(K).condition \cup Words(L).condition = Words(L \cup K).condition
  BY DEF Words
<1>2. Xor(Xor(Words(K).mask \cup Words(L).mask, Words(K).mask \cap Words(L).condition),
          Words(L).mask \cap Words(K).condition) = Words(L \cup K).mask
  BY DEF Words, Xor
<1>. QED
  BY <1>1, <1>2 DEF And, Words

(* operator bool finds contradictions.                                     *)
LEMMA TruthWords ==
  ASSUME NEW L, L \subseteq Literals
  PROVE  Truth(Words(L)) <=> Consistent(L)
BY DEF Truth, Words, Consistent

(* Inv is inductive: each step adds a literal to one specialization.       *)
THEOREM VariantsInv == Spec => []Inv
<1>1. Init => Inv
  <2>. SUFFICES ASSUME NEW l \in Literals, NEW k \in Literals,
                       variant = Literal(l), chosen = {l}, guard = Literal(k), asked = {k}
                PROVE  Inv
    BY DEF Init
  <2>. QED
    BY LiteralWords DEF Inv, TypeOK, WordsMatch
<1>2. Inv /\ [Next]_vars => Inv'
  <2>. SUFFICES ASSUME Inv, [Next]_vars
                PROVE  Inv'
    OBVIOUS
  <2>1. ASSUME NEW l \in Literals, Narrow(l)
        PROVE  Inv'
    <3>1. variant' = And(Words(chosen), Words({l}))
      BY <2>1, LiteralWords DEF Inv, WordsMatch, Narrow
    <3>2. variant' = Words(chosen \cup {l})
      BY <3>1, AndWords DEF Inv, TypeOK
    <3>. QED
      BY <2>1, <3>2 DEF Inv, TypeOK, WordsMatch, Narrow
  <2>2. ASSUME NEW l \in Literals, Guard(l)
        PROVE  Inv'
    <3>1. guard' = And(Words(asked), Words({l}))
      BY <2>2, LiteralWords DEF Inv, WordsMatch, Guard
    <3>2. guard' = Words(asked \cup {l})
      BY <3>1, AndWords DEF Inv, TypeOK
    <3>. QED
      BY <2>2, <3>2 DEF Inv, TypeOK, WordsMatch, Guard
  <2>3. CASE UNCHANGED vars
    BY <2>3 DEF Inv, TypeOK, WordsMatch, vars
  <2>. QED
    BY <2>1, <2>2, <2>3 DEF Next
<1>. QED
  BY <1>1, <1>2, PTL DEF Spec

(* A guarded piece of text is kept exactly if it agrees with the variant.  *)
THEOREM TextKept == Spec => []KeepsWhatAgrees
<1>1. Inv => KeepsWhatAgrees
  <2>. SUFFICES ASSUME Inv
                PROVE  KeepsWhatAgrees
    OBVIOUS
  <2>1. And(variant, guard) = Words(chosen \cup asked)
    BY AndWords DEF Inv, TypeOK, WordsMatch
  <2>2. chosen \cup asked \subseteq Literals
    BY DEF Inv, TypeOK
  <2>. QED
    BY <2>1, <2>2, TruthWords DEF KeepsWhatAgrees
<1>. QED
  BY <1>1, VariantsInv, PTL

(* The generator's question answers whether a variant names a guard.       *)
THEOREM VariantAsked == Spec => []AsksForAll
<1>1. Inv => AsksForAll
  <2>. SUFFICES ASSUME Inv, Truth(variant)
                PROVE  variant = And(variant, guard) <=> asked \subseteq chosen
    BY DEF AsksForAll
  <2>1. And(variant, guard) = Words(chosen \cup asked) /\ variant = Words(chosen)
    BY AndWords DEF Inv, TypeOK, WordsMatch
  <2>2. asked \subseteq chosen => variant = And(variant, guard)
    <3>1. asked \subseteq chosen => chosen \cup asked = chosen
      OBVIOUS
    <3>. QED
      BY <2>1, <3>1
  <2>3. ASSUME variant = And(variant, guard), NEW l \in asked
        PROVE  l \in chosen
    <3>1. PICK b \in Bits, sign \in BOOLEAN : l = <<b, sign>>
      BY DEF Inv, TypeOK, Literals
    <3>2. Words(chosen).mask = Words(chosen \cup asked).mask
      BY <2>1, <2>3
    <3>3. Words(chosen).condition = Words(chosen \cup asked).condition
      BY <2>1, <2>3
    <3>4. b \in Words(chosen).condition <=> b \in Words(chosen \cup asked).condition
      BY <3>3
    <3>5. b \in Words(chosen).mask <=> b \in Words(chosen \cup asked).mask
      BY <3>2
    <3>6. <<b, TRUE>> \in chosen <=> <<b, TRUE>> \in chosen \cup asked
      BY <3>4 DEF Words
    <3>7. ~(<<b, TRUE>> \in chosen /\ <<b, FALSE>> \in chosen)
      <4>1. chosen \subseteq Literals
        BY DEF Inv, TypeOK
      <4>2. Truth(Words(chosen))
        BY <2>1
      <4>3. Consistent(chosen)
        BY <4>1, <4>2, TruthWords
      <4>. QED
        BY <4>3 DEF Consistent
    <3>. QED
      BY <3>1, <3>5, <3>6, <3>7 DEF Words
  <2>. QED
    BY <2>2, <2>3
<1>. QED
  BY <1>1, VariantsInv, PTL
=============================================================================
