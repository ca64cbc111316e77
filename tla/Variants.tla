------------------------------ MODULE Variants ------------------------------
(***************************************************************************)
(* A variant of a method and the guard of a piece of text, each built      *)
(* literal by literal, and the questions that the generator asks of them.  *)
(***************************************************************************)
EXTENDS Specialization

CONSTANT Bits   \* declaration, unique, vectorAllocator, constructor, combining

VARIABLES
  variant, guard,   \* two specializations
  chosen, asked     \* the literals they were built from, <<bit, sign>>

vars == <<variant, guard, chosen, asked>>

Literals == Bits \X BOOLEAN
Literal(l) == IF l[2] THEN Named(l[1]) ELSE Not(Named(l[1]))

Init ==
  \E l, k \in Literals :
    /\ variant = Literal(l) /\ chosen = {l}
    /\ guard = Literal(k) /\ asked = {k}

(* variant & unique, variant & !unique and so on.                          *)
Narrow(l) ==
  /\ variant' = And(variant, Literal(l))
  /\ chosen' = chosen \cup {l}
  /\ UNCHANGED <<guard, asked>>

(* (declaration & !vectorAllocator)[text]                                  *)
Guard(l) ==
  /\ guard' = And(guard, Literal(l))
  /\ asked' = asked \cup {l}
  /\ UNCHANGED <<variant, chosen>>

Next == \E l \in Literals : Narrow(l) \/ Guard(l)

Spec == Init /\ [][Next]_vars

-----------------------------------------------------------------------------
(* No bit together with its negation.                                      *)
Consistent(L) == \A b \in Bits : ~({<<b, TRUE>>, <<b, FALSE>>} \subseteq L)

(* A piece of text is kept for a variant if no bit tells them apart, and a *)
(* contradiction, once in, stays: no later literal makes it vanish.        *)
KeepsWhatAgrees == Truth(And(variant, guard)) <=> Consistent(chosen \cup asked)

(* variant == (variant & guard), by which the generator asks what it       *)
(* builds, is true if the variant names every literal of the guard.        *)
AsksForAll == Truth(variant) => (variant = And(variant, guard) <=> asked \subseteq chosen)

(* The two words say which literals went into a specialization, in any     *)
(* order and however often.                                                *)
Words(L) ==
  [mask |-> {b \in Bits : <<b, TRUE>> \in L <=> <<b, FALSE>> \notin L},
   condition |-> {b \in Bits : <<b, TRUE>> \in L}]

TypeOK == chosen \subseteq Literals /\ asked \subseteq Literals

(* Both specializations are what their literals make them, contradictions  *)
(* included: the induction behind the other properties.                    *)
WordsMatch == variant = Words(chosen) /\ guard = Words(asked)

(* The types, and the words that go with the literals.                     *)
Inv == TypeOK /\ WordsMatch
=============================================================================
