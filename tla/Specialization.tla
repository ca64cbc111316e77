--------------------------- MODULE Specialization ---------------------------
(***************************************************************************)
(* The generator writes all variants of a method from one template.  A     *)
(* Segment::Specialization is a conjunction of named bits and their        *)
(* negations, such as declaration & !unique, kept in two machine words; a  *)
(* variant is one, and so is the guard of each conditional piece of text.  *)
(* Here a word is the set of its bits.                                     *)
(***************************************************************************)
Xor(A, B) == (A \ B) \cup (B \ A)

Named(b) == [mask |-> {b}, condition |-> {b}]

Not(s) == [mask |-> s.mask, condition |-> Xor(s.mask, s.condition)]

(* Faulty: a bit and its negation leave a bit that does not matter.        *)
AndForgets(s, t) ==
  [mask |-> Xor(Xor(t.mask \cup s.mask, t.mask \cap s.condition), s.mask \cap t.condition),
   condition |-> Xor(t.condition \ s.mask, s.condition)]

(* Faulty: it does not tell bits that differ.                              *)
AndUnites(s, t) ==
  [mask |-> t.mask \cup s.mask, condition |-> t.condition \cup s.condition]

And(s, t) ==
  [mask |-> Xor(Xor(t.mask \cup s.mask, t.mask \cap s.condition), s.mask \cap t.condition),
   condition |-> t.condition \cup s.condition]

(* operator bool: no bit is in the condition without being in the mask.    *)
Truth(s) == s.condition \subseteq s.mask
=============================================================================
