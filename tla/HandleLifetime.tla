--------------------------- MODULE HandleLifetime ---------------------------
(***************************************************************************)
(* What ownership by wrappers promises, whatever the wrappers do to each   *)
(* other: a native object is born wrapped, may be handed to the client     *)
(* once, and is destroyed once, when nothing in use needs it any more.     *)
(***************************************************************************)
CONSTANT Handles

VARIABLES
  state,   \* where each native object is in its life
  needs    \* the native objects that have to outlive it

vars == <<state, needs>>

InUse == {h \in Handles : state[h] \in {"wrapped", "plain"}}

Become(S, s) == state' = [h \in Handles |-> IF h \in S THEN s ELSE state[h]]

Init ==
  /\ state = [h \in Handles |-> "unborn"]
  /\ needs = [h \in Handles |-> {}]

(* One native call may make several objects; what they need is in use.     *)
Create(S) ==
  /\ \A h \in S : state[h] = "unborn"
  /\ Become(S, "wrapped")
  /\ \A h \in S : needs'[h] \subseteq InUse \cup S
  /\ needs' = [h \in Handles |-> IF h \in S THEN needs'[h] ELSE needs[h]]

(* A resource that needs nothing yet is bound to memory.                   *)
Bind(r) ==
  /\ r \in InUse
  /\ needs[r] = {}
  /\ needs' = [needs EXCEPT ![r] = needs'[r]]
  /\ needs'[r] \subseteq InUse \ {r}
  /\ UNCHANGED state

(* The client takes over the duty to destroy.                              *)
HandOver(S) ==
  /\ \A h \in S : state[h] = "wrapped"
  /\ Become(S, "plain")
  /\ UNCHANGED needs

Destroy(S) ==
  /\ S \subseteq InUse
  /\ \A h \in InUse \ S : needs[h] \cap S = {}
  /\ Become(S, "gone")
  /\ UNCHANGED needs

Next ==
  \/ \E S \in SUBSET Handles : Create(S) \/ HandOver(S) \/ Destroy(S)
  \/ \E r \in Handles : Bind(r)

Spec == Init /\ [][Next]_vars
=============================================================================
