--------------------------- MODULE AtomicCreation ---------------------------
(***************************************************************************)
(* What a call that creates native objects promises: it succeeds in one    *)
(* step, and its inputs become part of its result, or it changes nothing.  *)
(* The one exception is a vector of results that cannot be allocated.      *)
(***************************************************************************)
CONSTANTS Memories, Resources   \* native handles: allocations, buffers and images

VARIABLES
  objects,   \* per object that owns something, the set of its handles
  client,    \* plain handles that the client owns
  dead,      \* destroyed handles
  lost       \* live handles that nobody knows

vars == <<objects, client, dead, lost>>

Handles == Memories \cup Resources
Unborn == Handles \ ((UNION objects) \cup client \cup dead \cup lost)

Init == objects = {} /\ client = {} /\ dead = {} /\ lost = {}

GivePlain(S) ==
  /\ S \subseteq Unborn
  /\ client' = client \cup S
  /\ UNCHANGED <<objects, dead, lost>>

GiveObjects(S) ==
  /\ S \subseteq Unborn
  /\ objects' = objects \cup {{h} : h \in S}
  /\ UNCHANGED <<client, dead, lost>>

(* Objects and new handles become one object, of a memory and a resource.  *)
Combine(A, S) ==
  /\ A \subseteq objects
  /\ S \subseteq Unborn
  /\ \E m \in Memories, r \in Resources :
       /\ (UNION A) \cup S = {m, r}
       /\ objects' = (objects \ A) \cup {{m, r}}
  /\ UNCHANGED <<client, dead, lost>>

Lose(S) ==
  /\ S \subseteq Unborn \cap Memories
  /\ lost' = lost \cup S
  /\ UNCHANGED <<objects, client, dead>>

DestroyObject(o) ==
  /\ objects' = objects \ {o}
  /\ dead' = dead \cup o
  /\ UNCHANGED <<client, lost>>

FreePlain(h) ==
  /\ client' = client \ {h}
  /\ dead' = dead \cup {h}
  /\ UNCHANGED <<objects, lost>>

Next ==
  \/ \E S \in SUBSET Handles :
       \/ GivePlain(S)
       \/ GiveObjects(S)
       \/ Lose(S)
       \/ \E A \in SUBSET objects : Combine(A, S)
  \/ \E o \in objects : DestroyObject(o)
  \/ \E h \in client : FreePlain(h)

Spec == Init /\ [][Next]_vars
=============================================================================
