-------------------------- MODULE HandleDiscovery --------------------------
(***************************************************************************)
(* How the generator learns, from the functions of vk_mem_alloc.h in the   *)
(* order of the file, which handle owns which and what destroys it.  A     *)
(* handle that follows another one by value is owned by it: an Allocation  *)
(* by the Allocator of vmaFreeMemory(allocator, allocation).  A function   *)
(* "Destroy" or "Free" of nothing but a handle, with its owner if it has   *)
(* one, is its destructor.  Buffer and Image of Vulkan are handles too,    *)
(* with destructors of their own, that no other handle owns.               *)
(***************************************************************************)
EXTENDS Integers, Sequences

CONSTANTS
  Handles,   \* the names of handleVector
  VkHandles, \* Buffer and Image, whose destructors are named there
  Other,     \* a parameter that is no handle; no owner, no destructor
  Sources    \* sequences of functions [name, release, params]; a parameter
             \* is [handle, pointer]

(* A header declares each function once.                                   *)
ASSUME SourcesAssumption ==
  /\ Other \notin Handles /\ VkHandles \subseteq Handles
  /\ \A s \in Sources :
       /\ DOMAIN s = 1 .. Len(s) /\ Len(s) \in Nat
       /\ \A m \in 1 .. Len(s) :
            /\ s[m].params \in Seq([handle : Handles \cup {Other}, pointer : BOOLEAN])
            /\ s[m].release \in BOOLEAN
            /\ s[m].name \notin Handles \cup {Other}
            /\ \A n \in 1 .. Len(s) : s[m].name = s[n].name => m = n

VARIABLES
  source,       \* the functions
  k,            \* the one that the generator is at
  at,           \* its parameter that the loop is at, 0 before the loop
  handle,       \* Function::handle
  owner,        \* Handle::owner
  destructor,   \* Handle::destructor
  short,        \* functions whose method is just "destroy" or "free"
  error         \* std::runtime_error

vars == <<source, k, at, handle, owner, destructor, short, error>>

HasHandle(f) == f.params # <<>> /\ f.params[1].handle # Other

(* A VMA handle by value: a second-order handle wherever it is.            *)
Value(param) == param.handle \notin VkHandles \cup {Other} /\ ~param.pointer

(* The destructor that is there from the start has its handle's name here. *)
Preset(h) == {h} \cap VkHandles

-----------------------------------------------------------------------------
Init ==
  /\ source \in Sources
  /\ k = 1
  /\ at = 0 /\ handle = Other
  /\ owner = [h \in Handles |-> Other]
  /\ destructor = [h \in Handles |-> IF h \in VkHandles THEN h ELSE Other]
  /\ short = {}
  /\ error = FALSE

Reading == k <= Len(source) /\ ~error
Function == source[k]
Parameter == Function.params[at]

PassFunction ==
  /\ Reading /\ at = 0
  /\ ~HasHandle(Function)
  /\ k' = k + 1
  /\ UNCHANGED <<source, at, handle, owner, destructor, short, error>>

(* The first-order handle.                                                 *)
EnterFunction ==
  /\ Reading /\ at = 0
  /\ HasHandle(Function)
  /\ ~Function.params[1].pointer
  /\ handle' = Function.params[1].handle
  /\ at' = 2
  /\ UNCHANGED <<source, k, owner, destructor, short, error>>

AtParameter == Reading /\ at > 0 /\ at <= Len(Function.params)

PassParameter ==
  /\ AtParameter
  /\ ~Value(Parameter)
  /\ at' = at + 1
  /\ UNCHANGED <<source, k, handle, owner, destructor, short, error>>

(* Faulty: the last function to show an owner wins.                        *)
OwnerOverwrites == TRUE

(* Faulty: an owner that is known already is a conflict.                   *)
OwnerOnce == owner[Parameter.handle] = Other

OwnerAgrees == owner[Parameter.handle] \in {Other, handle}

(* The second-order handle, owned by the one before.                       *)
ReadParameter ==
  /\ AtParameter
  /\ Value(Parameter)
  /\ OwnerAgrees
  /\ owner' = [owner EXCEPT ![Parameter.handle] = handle]
  /\ handle' = Parameter.handle
  /\ at' = at + 1
  /\ UNCHANGED <<source, k, destructor, short, error>>

AtEnd == Reading /\ at > Len(Function.params)

(* Faulty: whether the first-order handle has an owner.                    *)
FirstIsOwned == owner[Function.params[1].handle] # Other

IsOwned == owner[handle] # Other

Destroys == Function.release /\ Len(Function.params) = IF IsOwned THEN 2 ELSE 1

(* Faulty: the destructor is named like its handle.                        *)
LeaveWithHandleName ==
  /\ AtEnd
  /\ destructor' = [destructor EXCEPT ![handle] = handle]
  /\ k' = k + 1 /\ at' = 0 /\ handle' = Other
  /\ UNCHANGED <<source, owner, short, error>>

(* The names of a function, and the handle that it destroys.               *)
LeaveFunction ==
  /\ AtEnd
  /\ Destroys => destructor[handle] = Other
  /\ destructor' = IF Destroys THEN [destructor EXCEPT ![handle] = Function.name] ELSE destructor
  /\ short' = IF Function.release /\ ~IsOwned /\ Len(Function.params) = 1
              THEN short \cup {Function.name} ELSE short
  /\ k' = k + 1 /\ at' = 0 /\ handle' = Other
  /\ UNCHANGED <<source, owner, error>>

(* An unexpected pointer, conflicting owners or conflicting destructors.   *)
Reject ==
  /\ Reading
  /\ \/ at = 0 /\ HasHandle(Function) /\ Function.params[1].pointer
     \/ AtParameter /\ Value(Parameter) /\ ~OwnerAgrees
     \/ AtEnd /\ Destroys /\ destructor[handle] # Other
  /\ error' = TRUE
  /\ UNCHANGED <<source, k, at, handle, owner, destructor, short>>

Next ==
  \/ PassFunction
  \/ EnterFunction
  \/ PassParameter
  \/ ReadParameter
  \/ LeaveFunction
  \/ Reject

Spec == Init /\ [][Next]_vars

-----------------------------------------------------------------------------
(* What a set of functions says, in whatever order they come.              *)
Names == {source[m].name : m \in 1 .. Len(source)}

(* Parameter a of f is a handle that f takes: the first one may be Buffer. *)
Takes(f, a) ==
  \/ Value(f.params[a])
  \/ a = 1 /\ f.params[a].handle \in VkHandles /\ ~f.params[a].pointer

(* Parameter a of f is such a handle, and b the next one.                  *)
Follows(f, a, b) ==
  /\ a < b /\ Takes(f, a) /\ Value(f.params[b])
  /\ \A c \in a + 1 .. b - 1 : ~Value(f.params[c])

(* The first n parameters of f show that o owns h.                         *)
Shows(f, n, o, h) ==
  \E a, b \in 1 .. n :
    Follows(f, a, b) /\ f.params[a].handle = o /\ f.params[b].handle = h

(* The owners that the whole source shows.                                 *)
Shown(h) ==
  {o \in Handles : \E m \in 1 .. Len(source) :
     /\ HasHandle(source[m])
     /\ Shows(source[m], Len(source[m].params), o, h)}

(* The last handle that f takes.                                           *)
Targets(f, h) ==
  \E a \in 1 .. Len(f.params) :
    /\ Takes(f, a) /\ f.params[a].handle = h
    /\ \A c \in a + 1 .. Len(f.params) : ~Value(f.params[c])

(* Those of the first n functions that destroy h.                          *)
Destructors(n, h) ==
  {m \in 1 .. n :
     /\ HasHandle(source[m]) /\ source[m].release /\ Targets(source[m], h)
     /\ Len(source[m].params) = IF Shown(h) = {} THEN 1 ELSE 2}

(* The convention of vk_mem_alloc.h: what releases an owned handle takes   *)
(* its owner as well.                                                      *)
Conventional ==
  \A m \in 1 .. Len(source) :
    LET f == source[m]
    IN /\ HasHandle(f) /\ f.release
       /\ \A b \in 2 .. Len(f.params) : ~Value(f.params[b])
       => Shown(f.params[1].handle) = {}

Done == k > Len(source)

Contradictory ==
  \/ \E m \in 1 .. Len(source) : HasHandle(source[m]) /\ source[m].params[1].pointer
  \/ \E h \in Handles : \E o, p \in Shown(h) : o # p
  \/ \E h \in Handles : \E m, n \in Destructors(Len(source), h) : m # n
  \/ \E h \in VkHandles : Destructors(Len(source), h) # {}

(* Owners are handles, destructors functions of the source or preset.      *)
TypeOK ==
  /\ source \in Sources
  /\ k \in 1 .. Len(source) + 1
  /\ at \in Nat
  /\ handle \in Handles \cup {Other}
  /\ owner \in [Handles -> Handles \cup {Other}]
  /\ destructor \in [Handles -> Names \cup {Other} \cup VkHandles]
  /\ short \subseteq Names
  /\ error \in BOOLEAN

(* The owners that the part of the source read so far shows.               *)
ShownSoFar(h) ==
  {o \in Handles :
     \/ \E m \in 1 .. k - 1 :
          HasHandle(source[m]) /\ Shows(source[m], Len(source[m].params), o, h)
     \/ at > 0 /\ Shows(Function, at - 1, o, h)}

(* At any time the owners are those that the functions so far show,        *)
(* whatever their order, and no handle has been shown with two.            *)
OwnersFound == \A h \in Handles : ShownSoFar(h) = {owner[h]} \ {Other}

(* In a source that follows the convention each handle has the one         *)
(* destructor that the whole source gives it, even if it came before       *)
(* everything else that shows the owner, or keeps its preset one.          *)
DestructorsFound ==
  Done /\ Conventional =>
    \A h \in Handles :
      /\ {source[m].name : m \in Destructors(Len(source), h)} \cup Preset(h)
            = {destructor[h]} \ {Other}
      /\ destructor[h] \in short => owner[h] = Other

(* A source that follows the convention is rejected if and only if it      *)
(* contradicts itself, in every order of its functions.                    *)
RejectsContradictions ==
  Conventional =>
    /\ error => Contradictory
    /\ Done => ~Contradictory
-----------------------------------------------------------------------------
(* The inductive invariant behind them.  Inside a function, handle is the  *)
(* last one that was read by value, and but for the first one it is owned. *)
AtHandle ==
  at > 0 =>
    /\ k <= Len(source) /\ HasHandle(Function) /\ ~Function.params[1].pointer
    /\ at \in 2 .. Len(Function.params) + 1
    /\ \E a \in 1 .. at - 1 :
         /\ Takes(Function, a) /\ Function.params[a].handle = handle
         /\ \A c \in a + 1 .. at - 1 : ~Value(Function.params[c])
         /\ a = 1 \/ owner[handle] # Other

NoPointers ==
  \A m \in 1 .. k - 1 : HasHandle(source[m]) => ~source[m].params[1].pointer

(* What the whole source says of the functions so far is what was saved.   *)
DestructorsSoFar ==
  Conventional =>
    \A h \in Handles :
      {source[m].name : m \in Destructors(k - 1, h)} \cup Preset(h)
        = {destructor[h]} \ {Other}

ShortAlone ==
  \A n \in short : \E m \in 1 .. k - 1 :
    /\ n = source[m].name /\ HasHandle(source[m])
    /\ source[m].release /\ Len(source[m].params) = 1

ErrorsReal == error /\ Conventional => Contradictory

IInv ==
  /\ TypeOK
  /\ AtHandle
  /\ NoPointers
  /\ OwnersFound
  /\ DestructorsSoFar
  /\ ShortAlone
  /\ ErrorsReal

=============================================================================
