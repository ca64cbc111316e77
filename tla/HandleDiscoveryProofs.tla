------------------------ MODULE HandleDiscoveryProofs ------------------------
(***************************************************************************)
(* Proofs about HandleDiscovery for every source: in whatever order the    *)
(* functions come, the generator ends with the owners and destructors that *)
(* all of them together show, or rejects a source that contradicts itself. *)
(***************************************************************************)
EXTENDS HandleDiscovery, TLAPS

-----------------------------------------------------------------------------
(* Sources, and what they show.                                            *)
Param == [handle : Handles \cup {Other}, pointer : BOOLEAN]

LEMMA SourceFacts ==
  ASSUME source \in Sources
  PROVE  /\ Len(source) \in Nat
         /\ \A m \in 1 .. Len(source) :
              /\ Len(source[m].params) \in Nat
              /\ \A a \in 1 .. Len(source[m].params) : source[m].params[a] \in Param
              /\ HasHandle(source[m]) => Len(source[m].params) >= 1
              /\ source[m].release \in BOOLEAN
              /\ source[m].name # Other /\ source[m].name \notin Handles
              /\ source[m].name \in Names
              /\ \A n \in 1 .. Len(source) : source[m].name = source[n].name => m = n
<1>1. Len(source) \in Nat
  BY SourcesAssumption
<1>2. ASSUME NEW m \in 1 .. Len(source)
      PROVE  /\ Len(source[m].params) \in Nat
             /\ \A a \in 1 .. Len(source[m].params) : source[m].params[a] \in Param
             /\ HasHandle(source[m]) => Len(source[m].params) >= 1
  <2>1. source[m].params \in Seq(Param)
    BY SourcesAssumption DEF Param
  <2> QED BY <2>1 DEF HasHandle
<1> QED BY <1>1, <1>2, SourcesAssumption DEF Names

(* A longer part of a function shows no less.                              *)
LEMMA ShowsMore ==
  ASSUME NEW F, NEW m \in Nat, NEW n \in Nat, m <= n, NEW o, NEW h, Shows(F, m, o, h)
  PROVE  Shows(F, n, o, h)
BY DEF Shows

(* What it shows with one parameter more.                                  *)
LEMMA ShowsNext ==
  ASSUME NEW F, NEW n \in Nat, NEW o, NEW h
  PROVE  Shows(F, n + 1, o, h) <=>
           \/ Shows(F, n, o, h)
           \/ \E a \in 1 .. n : /\ Follows(F, a, n + 1)
                                /\ F.params[a].handle = o /\ F.params[n + 1].handle = h
<1>1. ASSUME Shows(F, n + 1, o, h), ~Shows(F, n, o, h)
      PROVE  \E a \in 1 .. n : /\ Follows(F, a, n + 1)
                               /\ F.params[a].handle = o /\ F.params[n + 1].handle = h
  <2>1. PICK a \in 1 .. n + 1, b \in 1 .. n + 1 :
          Follows(F, a, b) /\ F.params[a].handle = o /\ F.params[b].handle = h
    BY <1>1 DEF Shows
  <2>2. a < b
    BY <2>1 DEF Follows
  <2>3. b = n + 1
    BY <1>1, <2>1, <2>2 DEF Shows
  <2> QED BY <2>1, <2>2, <2>3
<1>2. ASSUME NEW a \in 1 .. n, Follows(F, a, n + 1),
             F.params[a].handle = o, F.params[n + 1].handle = h
      PROVE  Shows(F, n + 1, o, h)
  BY <1>2 DEF Shows
<1>3. Shows(F, n, o, h) => Shows(F, n + 1, o, h)
  BY ShowsMore
<1> QED BY <1>1, <1>2, <1>3

LEMMA ShownFirst ==
  ASSUME NEW F, NEW o, NEW h
  PROVE  ~Shows(F, 1, o, h)
BY DEF Shows, Follows

(* A handle that a function takes is one; the first may be Vulkan's.       *)
LEMMA TakenHandle ==
  ASSUME NEW F, NEW a, F.params[a] \in Param, Takes(F, a)
  PROVE  F.params[a].handle \in Handles
BY SourcesAssumption DEF Takes, Value, Param

LEMMA TakesLater ==
  ASSUME NEW F, NEW a, a # 1
  PROVE  Takes(F, a) <=> Value(F.params[a])
BY DEF Takes

(* What the whole source says does not change while it is read.            *)
LEMMA SameSource ==
  ASSUME source' = source
  PROVE  /\ Conventional' = Conventional
         /\ Contradictory' = Contradictory
         /\ Names' = Names
         /\ \A h : Shown(h)' = Shown(h)
         /\ \A n, h : Destructors(n, h)' = Destructors(n, h)
<1>1. \A h : Shown(h)' = Shown(h)
  BY DEF Shown
<1>2. \A n, h : Destructors(n, h)' = Destructors(n, h)
  BY <1>1 DEF Destructors
<1>3. Conventional' = Conventional
  BY <1>1 DEF Conventional
<1>4. Contradictory' = Contradictory
  BY <1>1, <1>2 DEF Contradictory
<1> QED BY <1>1, <1>2, <1>3, <1>4 DEF Names

(* While the destructors of the functions so far do not change, the names  *)
(* of those functions do not either.                                       *)
LEMMA SameDestructors ==
  ASSUME DestructorsSoFar, UNCHANGED <<source, destructor>>,
         \A h \in Handles : Destructors(k - 1, h)' = Destructors(k - 1, h)
  PROVE  DestructorsSoFar'
<1> SUFFICES ASSUME Conventional', NEW h \in Handles
             PROVE  {source[m].name : m \in Destructors(k - 1, h)}' \cup Preset(h)
                      = {destructor[h]}' \ {Other}
  BY DEF DestructorsSoFar, Preset
<1>1. Conventional
  BY SameSource
<1>2. {source[m].name : m \in Destructors(k - 1, h)} \cup Preset(h) = {destructor[h]} \ {Other}
  BY <1>1 DEF DestructorsSoFar
<1>3. Destructors(k - 1, h)' = Destructors(k - 1, h)
  OBVIOUS
<1> QED BY <1>2, <1>3

(* The part that was read shows no more than the whole.                    *)
LEMMA SoFarShown ==
  ASSUME TypeOK, AtHandle, NEW h
  PROVE  ShownSoFar(h) \subseteq Shown(h)
<1> SUFFICES ASSUME NEW o \in ShownSoFar(h) PROVE o \in Shown(h)
  OBVIOUS
<1>1. o \in Handles /\ Len(source) \in Nat /\ k \in 1 .. Len(source) + 1 /\ at \in Nat
  BY SourceFacts DEF ShownSoFar, TypeOK
<1>2. ASSUME NEW m \in 1 .. k - 1, HasHandle(source[m]),
             Shows(source[m], Len(source[m].params), o, h)
      PROVE  o \in Shown(h)
  BY <1>1, <1>2 DEF Shown
<1>3. CASE at > 0 /\ Shows(Function, at - 1, o, h)
  <2>1. k \in 1 .. Len(source) /\ HasHandle(source[k]) /\ at - 1 <= Len(source[k].params)
    BY <1>1, <1>3 DEF AtHandle, Function
  <2>2. Len(source[k].params) \in Nat /\ at - 1 \in Nat
    BY <1>1, <1>3, <2>1, SourceFacts DEF TypeOK
  <2>3. Shows(source[k], Len(source[k].params), o, h)
    BY <1>3, <2>1, <2>2, ShowsMore DEF Function
  <2> QED BY <1>1, <2>1, <2>3 DEF Shown
<1> QED BY <1>2, <1>3 DEF ShownSoFar

-----------------------------------------------------------------------------
(* Where the loop is.                                                      *)
LEMMA PlaceFacts ==
  ASSUME TypeOK, Reading
  PROVE  /\ Len(source) \in Nat /\ k \in 1 .. Len(source) /\ at \in Nat
         /\ Len(Function.params) \in Nat
         /\ \A a \in 1 .. Len(Function.params) : Function.params[a] \in Param
         /\ HasHandle(Function) => Len(Function.params) >= 1
         /\ Function.release \in BOOLEAN
         /\ Function.name # Other /\ Function.name \in Names
<1>1. Len(source) \in Nat /\ k \in 1 .. Len(source) /\ at \in Nat
  BY SourceFacts DEF TypeOK, Reading
<1> QED BY <1>1, SourceFacts DEF TypeOK, Function

(* At the end of a function, handle is the last one that it takes.         *)
LEMMA LastRead ==
  ASSUME TypeOK, AtHandle, AtEnd
  PROVE  /\ at = Len(Function.params) + 1 /\ at > 0
         /\ HasHandle(Function)
         /\ handle \in Handles
         /\ \A h : Targets(Function, h) <=> h = handle
<1>1. Reading
  BY DEF AtEnd
<1> DEFINE n == Len(Function.params)
<1>2. n \in Nat /\ at \in Nat /\ at > 0
  BY <1>1, PlaceFacts DEF AtEnd
<1> HIDE DEF n
<1>3. at \in 2 .. n + 1 /\ at > n
  BY <1>2 DEF AtHandle, AtEnd, n
<1>4. at = n + 1 /\ at - 1 = n
  BY <1>2, <1>3
<1>5. PICK a \in 1 .. at - 1 :
        /\ Takes(Function, a) /\ Function.params[a].handle = handle
        /\ \A c \in a + 1 .. at - 1 : ~Value(Function.params[c])
  BY <1>2 DEF AtHandle
<1>6. a \in 1 .. n /\ \A c \in a + 1 .. n : ~Value(Function.params[c])
  BY <1>4, <1>5
<1>7. handle \in Handles
  BY <1>1, <1>2, <1>5, <1>6, PlaceFacts, TakenHandle DEF n
<1>8. Targets(Function, handle)
  BY <1>5, <1>6 DEF Targets, n
<1>9. ASSUME NEW h, Targets(Function, h)
      PROVE  h = handle
  <2>1. PICK b \in 1 .. n :
          /\ Takes(Function, b) /\ Function.params[b].handle = h
          /\ \A c \in b + 1 .. n : ~Value(Function.params[c])
    BY <1>9 DEF Targets, n
  <2>2. ~(a < b) /\ ~(b < a)
    BY <1>2, <1>5, <1>6, <2>1, TakesLater
  <2>3. a = b
    BY <1>2, <1>6, <2>1, <2>2
  <2> QED BY <1>5, <2>1, <2>3
<1>10. HasHandle(Function)
  BY <1>2 DEF AtHandle
<1> QED BY <1>2, <1>4, <1>7, <1>8, <1>9, <1>10 DEF n

(* A source that follows the convention shows an owner of what the         *)
(* function releases no later than here, if it ever does.                  *)
LEMMA OwnedShown ==
  ASSUME TypeOK, AtHandle, OwnersFound, Conventional, AtEnd, Function.release
  PROVE  IsOwned <=> Shown(handle) # {}
<1>1. /\ at = Len(Function.params) + 1 /\ at > 0
      /\ HasHandle(Function) /\ handle \in Handles
  BY LastRead
<1>2. k \in 1 .. Len(source) /\ Len(Function.params) \in Nat /\ at \in Nat
  BY PlaceFacts DEF AtEnd
<1>3. ASSUME IsOwned PROVE Shown(handle) # {}
  <2>1. owner[handle] \in ShownSoFar(handle)
    BY <1>1, <1>3 DEF OwnersFound, IsOwned
  <2> QED BY <2>1, SoFarShown
<1>4. ASSUME ~IsOwned PROVE Shown(handle) = {}
  <2>1. PICK a \in 1 .. at - 1 :
          /\ Function.params[a].handle = handle
          /\ \A c \in a + 1 .. at - 1 : ~Value(Function.params[c])
          /\ a = 1 \/ owner[handle] # Other
    BY <1>1 DEF AtHandle
  <2>2. a = 1
    BY <1>4, <2>1 DEF IsOwned
  <2>3. \A c \in 2 .. Len(Function.params) : ~Value(Function.params[c])
    BY <1>1, <1>2, <2>1, <2>2
  <2> QED BY <1>1, <1>2, <2>1, <2>2, <2>3 DEF Conventional, Function
<1> QED BY <1>3, <1>4

LEMMA DestroysShown ==
  ASSUME TypeOK, AtHandle, OwnersFound, Conventional, AtEnd, NEW h
  PROVE  k \in Destructors(k, h) <=> Destroys /\ h = handle
<1>1. HasHandle(Function) /\ (Targets(Function, h) <=> h = handle)
  BY LastRead
<1>2. k \in 1 .. k
  BY PlaceFacts DEF AtEnd
<1>3. k \in Destructors(k, h) <=>
        /\ Function.release /\ h = handle
        /\ Len(Function.params) = IF Shown(h) = {} THEN 1 ELSE 2
  BY <1>1, <1>2 DEF Destructors, Function
<1>4. Function.release => (IsOwned <=> Shown(handle) # {})
  BY OwnedShown
<1> QED BY <1>3, <1>4 DEF Destroys

(* The destructors of one function more.                                   *)
LEMMA DestructorsNext ==
  ASSUME TypeOK, Reading, NEW h
  PROVE  Destructors(k, h) =
           Destructors(k - 1, h) \cup {m \in {k} : k \in Destructors(k, h)}
<1>1. k \in Nat /\ k >= 1
  BY PlaceFacts
<1>2. 1 .. k = (1 .. k - 1) \cup {k}
  BY <1>1
<1> QED BY <1>2 DEF Destructors

LEMMA DestructorsPart ==
  ASSUME TypeOK, NEW h, NEW n \in Nat, n <= Len(source)
  PROVE  Destructors(n, h) \subseteq Destructors(Len(source), h)
<1>1. Len(source) \in Nat
  BY SourceFacts DEF TypeOK
<1> QED BY <1>1 DEF Destructors

-----------------------------------------------------------------------------
LEMMA InitIInv == Init => IInv
<1> SUFFICES ASSUME Init PROVE IInv
  OBVIOUS
<1> USE DEF Init
<1>1. TypeOK
  <2>1. Len(source) \in Nat
    BY SourceFacts
  <2>2. k \in 1 .. Len(source) + 1
    BY <2>1
  <2> QED BY <2>2 DEF TypeOK
<1>2. ASSUME NEW h \in Handles
      PROVE  ShownSoFar(h) = {} /\ Destructors(k - 1, h) = {}
  BY DEF ShownSoFar, Destructors
<1>3. OwnersFound
  BY <1>2 DEF OwnersFound
<1>4. DestructorsSoFar
  <2> SUFFICES ASSUME NEW h \in Handles
               PROVE  {source[m].name : m \in Destructors(k - 1, h)} \cup Preset(h)
                        = {destructor[h]} \ {Other}
    BY DEF DestructorsSoFar
  <2>1. {source[m].name : m \in Destructors(k - 1, h)} = {}
    BY <1>2
  <2> QED BY <2>1, SourcesAssumption DEF Preset
<1>5. AtHandle /\ NoPointers /\ ShortAlone /\ ErrorsReal
  BY DEF AtHandle, NoPointers, ShortAlone, ErrorsReal
<1> QED BY <1>1, <1>3, <1>4, <1>5 DEF IInv

(* Within a function that has been read up to a parameter, what does not   *)
(* touch the function table leaves the names alone.                        *)
LEMMA PassFunctionStep ==
  ASSUME IInv, PassFunction PROVE IInv'
<1>1. TypeOK /\ Reading /\ at = 0 /\ ~HasHandle(Function) /\ k' = k + 1
  BY DEF IInv, PassFunction
<1>2. UNCHANGED <<source, at, handle, owner, destructor, short, error>>
  BY DEF PassFunction
<1>3. /\ Len(source) \in Nat /\ k \in 1 .. Len(source)
  BY <1>1, PlaceFacts
<1>4. 1 .. k = (1 .. k - 1) \cup {k} /\ k' - 1 = k
  BY <1>1, <1>3
<1>5. TypeOK'
  <2>1. k' \in 1 .. Len(source)' + 1
    BY <1>1, <1>2, <1>3
  <2> QED BY <1>1, <1>2, <2>1, SameSource DEF TypeOK
<1>6. AtHandle'
  BY <1>1, <1>2 DEF AtHandle
<1>7. NoPointers'
  BY <1>1, <1>2, <1>4 DEF NoPointers, IInv, Function
<1>8. OwnersFound'
  <2>1. ASSUME NEW h \in Handles PROVE ShownSoFar(h)' = ShownSoFar(h)
    BY <1>1, <1>2, <1>4 DEF ShownSoFar, Function
  <2> QED BY <1>2, <2>1 DEF OwnersFound, IInv
<1>9. DestructorsSoFar'
  <2>1. ASSUME NEW h \in Handles PROVE Destructors(k - 1, h)' = Destructors(k - 1, h)
    <3>1. k \notin Destructors(k, h)
      BY <1>1 DEF Destructors, Function
    <3>2. Destructors(k, h) = Destructors(k - 1, h)
      BY <1>1, <3>1, DestructorsNext
    <3> QED BY <1>2, <1>4, <3>2, SameSource
  <2> QED BY <1>2, <2>1, SameDestructors DEF IInv
<1>10. ShortAlone'
  BY <1>2, <1>4 DEF ShortAlone, IInv
<1>11. ErrorsReal'
  BY <1>2, SameSource DEF ErrorsReal, IInv
<1> QED BY <1>5, <1>6, <1>7, <1>8, <1>9, <1>10, <1>11 DEF IInv

(* While the generator is inside one function, only the handle and its     *)
(* owner move.                                                             *)
LEMMA Inside ==
  ASSUME IInv, UNCHANGED <<source, k, destructor, short, error>>
  PROVE  NoPointers' /\ DestructorsSoFar' /\ ShortAlone' /\ ErrorsReal'
<1>1. NoPointers'
  BY DEF NoPointers, IInv
<1>2. DestructorsSoFar'
  <2>1. ASSUME NEW h \in Handles PROVE Destructors(k - 1, h)' = Destructors(k - 1, h)
    BY SameSource
  <2> QED BY <2>1, SameDestructors DEF IInv
<1>3. ShortAlone'
  BY DEF ShortAlone, IInv
<1>4. ErrorsReal'
  BY SameSource DEF ErrorsReal, IInv
<1> QED BY <1>1, <1>2, <1>3, <1>4

LEMMA EnterFunctionStep ==
  ASSUME IInv, EnterFunction PROVE IInv'
<1>1. /\ TypeOK /\ Reading /\ at = 0 /\ HasHandle(Function)
      /\ ~Function.params[1].pointer
      /\ handle' = Function.params[1].handle /\ at' = 2
  BY DEF IInv, EnterFunction
<1>2. UNCHANGED <<source, k, owner, destructor, short, error>>
  BY DEF EnterFunction
<1>3. /\ Len(source) \in Nat /\ k \in 1 .. Len(source)
      /\ Len(Function.params) \in Nat /\ Len(Function.params) >= 1
      /\ Function.params[1] \in Param
  BY <1>1, PlaceFacts
<1>4. handle' \in Handles
  BY <1>1, <1>3 DEF Param, HasHandle
<1>5. TypeOK'
  BY <1>1, <1>2, <1>4, SameSource DEF TypeOK
<1>6. AtHandle'
  <2>1. Takes(Function, 1)
    BY <1>1 DEF Takes, Value, HasHandle
  <2>2. Function' = Function
    BY <1>2 DEF Function
  <2>3. at' \in 2 .. Len(Function.params) + 1
    BY <1>1, <1>3
  <2>4. 1 \in 1 .. at' - 1 /\ \A c \in 1 + 1 .. at' - 1 : ~Value(Function.params[c])
    BY <1>1
  <2> QED BY <1>1, <1>2, <1>3, <2>1, <2>2, <2>3, <2>4 DEF AtHandle
<1>7. OwnersFound'
  <2>1. ASSUME NEW h \in Handles PROVE ShownSoFar(h)' = ShownSoFar(h)
    <3>1. \A o : ~Shows(Function, 1, o, h)
      BY ShownFirst
    <3>2. Function' = Function /\ at' - 1 = 1
      BY <1>1, <1>2 DEF Function
    <3> QED BY <1>1, <1>2, <3>1, <3>2 DEF ShownSoFar
  <2> QED BY <1>2, <2>1 DEF OwnersFound, IInv
<1> QED BY <1>2, <1>5, <1>6, <1>7, Inside DEF IInv

(* One more parameter adds an owner only if it is a handle by value, and   *)
(* then the handle read last is that owner.                                *)
LEMMA ParameterShows ==
  ASSUME TypeOK, AtHandle, AtParameter, NEW o, NEW h
  PROVE  Shows(Function, at, o, h) <=>
           \/ Shows(Function, at - 1, o, h)
           \/ Value(Parameter) /\ h = Parameter.handle /\ o = handle
<1>1. at \in Nat /\ at > 0 /\ at - 1 \in Nat /\ (at - 1) + 1 = at
  BY DEF TypeOK, AtParameter
<1> DEFINE n == at - 1
           Ends(a) == /\ Follows(Function, a, at)
                      /\ Function.params[a].handle = o /\ Function.params[at].handle = h
<1>2. Shows(Function, n + 1, o, h) <=>
        \/ Shows(Function, n, o, h)
        \/ \E a \in 1 .. n : /\ Follows(Function, a, n + 1)
                             /\ Function.params[a].handle = o
                             /\ Function.params[n + 1].handle = h
  BY <1>1, ShowsNext
<1>3. Shows(Function, at, o, h) <=>
        Shows(Function, at - 1, o, h) \/ \E a \in 1 .. at - 1 : Ends(a)
  BY <1>1, <1>2
<1>4. PICK a \in 1 .. at - 1 :
        /\ Takes(Function, a) /\ Function.params[a].handle = handle
        /\ \A c \in a + 1 .. at - 1 : ~Value(Function.params[c])
  BY <1>1 DEF AtHandle
<1>5. ASSUME NEW b \in 1 .. at - 1, Ends(b)
      PROVE  Value(Parameter) /\ h = Parameter.handle /\ o = handle
  <2>1. /\ Takes(Function, b) /\ Value(Function.params[at])
        /\ \A c \in b + 1 .. at - 1 : ~Value(Function.params[c])
    BY <1>5 DEF Follows
  <2>2. ~(a < b) /\ ~(b < a)
    BY <1>1, <1>4, <2>1, TakesLater
  <2>3. a = b
    BY <1>1, <2>2
  <2> QED BY <1>4, <1>5, <2>1, <2>3 DEF Parameter
<1>6. ASSUME Value(Parameter), h = Parameter.handle, o = handle
      PROVE  Ends(a)
  BY <1>1, <1>4, <1>6 DEF Follows, Parameter
<1> QED BY <1>3, <1>4, <1>5, <1>6

(* Parameter is one of the function's.                                     *)
LEMMA ParameterFacts ==
  ASSUME TypeOK, AtHandle, AtParameter
  PROVE  /\ Reading /\ at \in Nat /\ Len(Function.params) \in Nat
         /\ at \in 2 .. Len(Function.params)
         /\ Parameter \in Param
         /\ Value(Parameter) => Parameter.handle \in Handles
<1>1. Reading /\ at > 0 /\ at <= Len(Function.params)
  BY DEF AtParameter
<1>2. at \in Nat /\ Len(Function.params) \in Nat
  BY <1>1, PlaceFacts
<1>3. at \in 2 .. Len(Function.params)
  BY <1>1, <1>2 DEF AtHandle
<1>4. Parameter \in Param
  BY <1>1, <1>2, <1>3, PlaceFacts DEF Parameter
<1> QED BY <1>1, <1>2, <1>3, <1>4 DEF Param, Value

(* Inside a function a handle has been read.                               *)
LEMMA HandleRead ==
  ASSUME TypeOK, AtHandle, Reading, at > 0
  PROVE  handle \in Handles
<1>1. at \in Nat /\ Len(Function.params) \in Nat /\ at \in 2 .. Len(Function.params) + 1
  BY PlaceFacts DEF AtHandle
<1>2. PICK a \in 1 .. at - 1 : Takes(Function, a) /\ Function.params[a].handle = handle
  BY DEF AtHandle
<1>3. a \in 1 .. Len(Function.params)
  BY <1>1
<1>4. Function.params[a] \in Param
  BY <1>3, PlaceFacts
<1> QED BY <1>2, <1>4, TakenHandle

LEMMA PassParameterStep ==
  ASSUME IInv, PassParameter PROVE IInv'
<1>1. TypeOK /\ AtHandle /\ AtParameter /\ ~Value(Parameter) /\ at' = at + 1
  BY DEF IInv, PassParameter
<1>2. UNCHANGED <<source, k, handle, owner, destructor, short, error>>
  BY DEF PassParameter
<1>3. at \in Nat /\ Len(Function.params) \in Nat /\ at \in 2 .. Len(Function.params)
  BY <1>1, ParameterFacts
<1>4. Function' = Function
  BY <1>2 DEF Function
<1>5. TypeOK'
  BY <1>1, <1>2, <1>3, SameSource DEF TypeOK
<1>6. AtHandle'
  <2>1. PICK a \in 1 .. at - 1 :
          /\ Takes(Function, a) /\ Function.params[a].handle = handle
          /\ \A c \in a + 1 .. at - 1 : ~Value(Function.params[c])
          /\ a = 1 \/ owner[handle] # Other
    BY <1>1, <1>3 DEF AtHandle
  <2>2. a \in 1 .. at' - 1 /\ \A c \in a + 1 .. at' - 1 : ~Value(Function.params[c])
    BY <1>1, <1>3, <2>1 DEF Parameter
  <2>3. at' \in 2 .. Len(Function.params) + 1
    BY <1>1, <1>3
  <2>4. k <= Len(source) /\ HasHandle(Function) /\ ~Function.params[1].pointer
    BY <1>1, <1>3 DEF AtHandle
  <2> QED BY <1>2, <1>4, <2>1, <2>2, <2>3, <2>4 DEF AtHandle
<1>7. OwnersFound'
  <2>1. ASSUME NEW h \in Handles PROVE ShownSoFar(h)' = ShownSoFar(h)
    <3>1. \A o : Shows(Function, at, o, h) <=> Shows(Function, at - 1, o, h)
      BY <1>1, ParameterShows
    <3>2. at' - 1 = at /\ at' > 0 /\ at > 0
      BY <1>1, <1>3
    <3> QED BY <1>2, <1>4, <3>1, <3>2 DEF ShownSoFar
  <2> QED BY <1>2, <2>1 DEF OwnersFound, IInv
<1> QED BY <1>2, <1>5, <1>6, <1>7, Inside DEF IInv

LEMMA ReadParameterStep ==
  ASSUME IInv, ReadParameter PROVE IInv'
<1>1. /\ TypeOK /\ AtHandle /\ AtParameter /\ Value(Parameter) /\ at' = at + 1
      /\ owner[Parameter.handle] \in {Other, handle}
      /\ owner' = [owner EXCEPT ![Parameter.handle] = handle]
      /\ handle' = Parameter.handle
  BY DEF IInv, ReadParameter, OwnerAgrees
<1>2. UNCHANGED <<source, k, destructor, short, error>>
  BY DEF ReadParameter
<1>3. /\ at \in Nat /\ Len(Function.params) \in Nat /\ at \in 2 .. Len(Function.params)
      /\ Parameter.handle \in Handles
  BY <1>1, ParameterFacts
<1>4. Function' = Function
  BY <1>2 DEF Function
<1>5. handle \in Handles /\ handle # Other
  <2>1. Reading /\ at > 0
    BY <1>1 DEF AtParameter
  <2> QED BY <1>1, <2>1, HandleRead, SourcesAssumption
<1>6. TypeOK'
  BY <1>1, <1>2, <1>3, <1>5, SameSource DEF TypeOK
<1>7. AtHandle'
  <2>1. at \in 1 .. at' - 1 /\ \A c \in at + 1 .. at' - 1 : ~Value(Function.params[c])
    BY <1>1, <1>3
  <2>2. at' \in 2 .. Len(Function.params) + 1
    BY <1>1, <1>3
  <2>3. Takes(Function, at) /\ Function.params[at].handle = handle'
    BY <1>1 DEF Parameter, Takes
  <2>4. owner'[handle'] # Other
    BY <1>1, <1>3, <1>5 DEF TypeOK
  <2>5. k <= Len(source) /\ HasHandle(Function) /\ ~Function.params[1].pointer
    BY <1>1, <1>3 DEF AtHandle
  <2> QED BY <1>2, <1>4, <2>1, <2>2, <2>3, <2>4, <2>5 DEF AtHandle
<1>8. OwnersFound'
  <2> SUFFICES ASSUME NEW h \in Handles
               PROVE  ShownSoFar(h)' = {owner'[h]} \ {Other}
    BY DEF OwnersFound
  <2>1. \A o : Shows(Function, at, o, h) <=>
                 Shows(Function, at - 1, o, h) \/ (h = Parameter.handle /\ o = handle)
    BY <1>1, ParameterShows
  <2>2. at' - 1 = at /\ at' > 0 /\ at > 0
    BY <1>1, <1>3
  <2>3. ShownSoFar(h)' =
          ShownSoFar(h) \cup {o \in {handle} : h = Parameter.handle}
    BY <1>2, <1>4, <1>5, <2>1, <2>2 DEF ShownSoFar
  <2>4. ShownSoFar(h) = {owner[h]} \ {Other}
    BY DEF OwnersFound, IInv
  <2>5. CASE h = Parameter.handle
    <3>1. owner'[h] = handle
      BY <1>1, <1>3, <2>5 DEF TypeOK
    <3> QED BY <1>1, <1>5, <2>3, <2>4, <2>5, <3>1
  <2>6. CASE h # Parameter.handle
    <3>1. owner'[h] = owner[h]
      BY <1>1, <1>3, <2>6 DEF TypeOK
    <3> QED BY <2>3, <2>4, <2>6, <3>1
  <2> QED BY <2>5, <2>6
<1> QED BY <1>2, <1>6, <1>7, <1>8, Inside DEF IInv

LEMMA LeaveFunctionStep ==
  ASSUME IInv, LeaveFunction PROVE IInv'
<1>1. /\ TypeOK /\ AtHandle /\ AtEnd /\ Reading
      /\ Destroys => destructor[handle] = Other
      /\ destructor' = IF Destroys THEN [destructor EXCEPT ![handle] = Function.name]
                                   ELSE destructor
      /\ short' = IF Function.release /\ ~IsOwned /\ Len(Function.params) = 1
                  THEN short \cup {Function.name} ELSE short
      /\ k' = k + 1 /\ at' = 0 /\ handle' = Other
  BY DEF IInv, LeaveFunction, AtEnd
<1>2. UNCHANGED <<source, owner, error>>
  BY DEF LeaveFunction
<1>3. /\ Len(source) \in Nat /\ k \in 1 .. Len(source)
      /\ Len(Function.params) \in Nat
      /\ Function.name # Other /\ Function.name \in Names
  BY <1>1, PlaceFacts
<1>4. 1 .. k = (1 .. k - 1) \cup {k} /\ k' - 1 = k
  BY <1>1, <1>3
<1>5. /\ at = Len(Function.params) + 1 /\ at > 0
      /\ HasHandle(Function) /\ handle \in Handles
  BY <1>1, LastRead
<1>6. TypeOK'
  <2>1. k' \in 1 .. Len(source)' + 1
    BY <1>1, <1>2, <1>3
  <2>2. Names' = Names
    BY <1>2, SameSource
  <2>3. destructor' \in [Handles -> Names \cup {Other} \cup VkHandles] /\ short' \subseteq Names
    BY <1>1, <1>3, <1>5 DEF TypeOK
  <2> QED BY <1>1, <1>2, <2>1, <2>2, <2>3 DEF TypeOK
<1>7. AtHandle'
  BY <1>1 DEF AtHandle
<1>8. NoPointers'
  <2>1. ~Function.params[1].pointer
    BY <1>1, <1>5 DEF AtHandle
  <2> QED BY <1>2, <1>4, <2>1 DEF NoPointers, IInv, Function
<1>9. OwnersFound'
  <2>1. ASSUME NEW h \in Handles PROVE ShownSoFar(h)' = ShownSoFar(h)
    <3>1. at - 1 = Len(Function.params)
      BY <1>3, <1>5
    <3> QED BY <1>1, <1>2, <1>4, <1>5, <3>1 DEF ShownSoFar, Function
  <2> QED BY <1>2, <2>1 DEF OwnersFound, IInv
<1>10. DestructorsSoFar'
  <2> SUFFICES ASSUME Conventional', NEW h \in Handles
               PROVE  {source[m].name : m \in Destructors(k - 1, h)}' \cup Preset(h)
                        = {destructor[h]}' \ {Other}
    BY DEF DestructorsSoFar, Preset
  <2>1. Conventional
    BY <1>2, SameSource
  <2>2. {source[m].name : m \in Destructors(k - 1, h)} \cup Preset(h)
          = {destructor[h]} \ {Other}
    BY <2>1 DEF DestructorsSoFar, IInv
  <2>3. Destructors(k - 1, h)' = Destructors(k, h)
    BY <1>2, <1>4, SameSource
  <2>4. Destructors(k, h) = Destructors(k - 1, h) \cup {m \in {k} : k \in Destructors(k, h)}
    BY <1>1, DestructorsNext
  <2>5. k \in Destructors(k, h) <=> Destroys /\ h = handle
    BY <1>1, <2>1, DestroysShown DEF IInv
  <2>6. {source[m].name : m \in Destructors(k - 1, h)}' =
          {source[m].name : m \in Destructors(k, h)}
    BY <1>2, <2>3
  <2>7. CASE Destroys /\ h = handle
    <3>1. destructor'[h] = Function.name /\ destructor[h] = Other
      BY <1>1, <1>5, <2>7 DEF TypeOK
    <3>2. Destructors(k, h) = Destructors(k - 1, h) \cup {k}
      BY <2>4, <2>5, <2>7
    <3>3. {source[m].name : m \in Destructors(k, h)} =
            {source[m].name : m \in Destructors(k - 1, h)} \cup {source[k].name}
      BY <3>2
    <3> QED BY <1>3, <2>2, <2>6, <3>1, <3>3 DEF Function
  <2>8. CASE ~(Destroys /\ h = handle)
    <3>1. destructor'[h] = destructor[h]
      BY <1>1, <1>5, <2>8 DEF TypeOK
    <3>2. Destructors(k, h) = Destructors(k - 1, h)
      BY <2>4, <2>5, <2>8
    <3> QED BY <2>2, <2>6, <3>1, <3>2
  <2> QED BY <2>7, <2>8
<1>11. ShortAlone'
  <2> SUFFICES ASSUME NEW n \in short'
               PROVE  \E m \in 1 .. k :
                        /\ n = source[m].name /\ HasHandle(source[m])
                        /\ source[m].release /\ Len(source[m].params) = 1
    BY <1>2, <1>4 DEF ShortAlone
  <2>1. CASE n \in short
    BY <1>4, <2>1 DEF ShortAlone, IInv
  <2>2. CASE n \notin short
    BY <1>1, <1>4, <1>5, <2>2 DEF Function
  <2> QED BY <2>1, <2>2
<1>12. ErrorsReal'
  BY <1>2, SameSource DEF ErrorsReal, IInv
<1> QED BY <1>6, <1>7, <1>8, <1>9, <1>10, <1>11, <1>12 DEF IInv

(* Each of the three ways out shows a contradiction.                       *)
LEMMA RejectStep ==
  ASSUME IInv, Reject PROVE IInv'
<1>1. TypeOK /\ AtHandle /\ Reading
  BY DEF IInv, Reject
<1>2. UNCHANGED <<source, k, at, handle, owner, destructor, short>> /\ error' = TRUE
  BY DEF Reject
<1>3. /\ Len(source) \in Nat /\ k \in 1 .. Len(source)
      /\ Len(Function.params) \in Nat /\ at \in Nat
  BY <1>1, PlaceFacts
<1>4. TypeOK'
  BY <1>1, <1>2, SameSource DEF TypeOK
<1>5. AtHandle' /\ NoPointers' /\ ShortAlone'
  BY <1>2 DEF AtHandle, NoPointers, ShortAlone, IInv, Function
<1>6. OwnersFound'
  <2>1. ASSUME NEW h \in Handles PROVE ShownSoFar(h)' = ShownSoFar(h)
    BY <1>2 DEF ShownSoFar, Function
  <2> QED BY <1>2, <2>1 DEF OwnersFound, IInv
<1>7. DestructorsSoFar'
  <2>1. ASSUME NEW h \in Handles PROVE Destructors(k - 1, h)' = Destructors(k - 1, h)
    BY <1>2, SameSource
  <2> QED BY <1>2, <2>1, SameDestructors DEF IInv
<1>8. ASSUME Conventional PROVE Contradictory
  <2>1. CASE at = 0 /\ HasHandle(Function) /\ Function.params[1].pointer
    BY <1>3, <2>1 DEF Contradictory, Function
  <2>2. CASE AtParameter /\ Value(Parameter) /\ ~OwnerAgrees
    <3> DEFINE h == Parameter.handle
    <3>1. /\ at \in 2 .. Len(Function.params) /\ h \in Handles
      BY <1>1, <2>2, ParameterFacts
    <3>2. owner[h] \in ShownSoFar(h)
      BY <3>1, <2>2 DEF OwnersFound, IInv, OwnerAgrees
    <3>3. owner[h] \in Shown(h)
      BY <1>1, <3>2, SoFarShown
    <3>4. Shows(Function, at, handle, h)
      BY <1>1, <2>2, ParameterShows
    <3>5. Shows(Function, Len(Function.params), handle, h)
      BY <1>3, <3>1, <3>4, ShowsMore
    <3>6. handle \in Handles /\ HasHandle(Function)
      BY <1>1, <1>3, <3>1, HandleRead DEF AtHandle
    <3>7. handle \in Shown(h)
      BY <1>3, <3>5, <3>6 DEF Shown, Function
    <3>8. owner[h] # handle
      BY <2>2 DEF OwnerAgrees
    <3> QED BY <3>1, <3>3, <3>7, <3>8 DEF Contradictory
  <2>3. CASE AtEnd /\ Destroys /\ destructor[handle] # Other
    <3>1. handle \in Handles
      BY <1>1, <2>3, LastRead
    <3>2. k \in Destructors(k, handle)
      BY <1>1, <1>8, <2>3, DestroysShown DEF IInv
    <3>3. k - 1 \in Nat /\ k - 1 <= Len(source) /\ k \in Nat /\ k <= Len(source)
      BY <1>3
    <3>4. k \in Destructors(Len(source), handle)
      BY <1>1, <3>2, <3>3, DestructorsPart
    <3>5. CASE handle \in VkHandles
      BY <3>4, <3>5 DEF Contradictory
    <3>6. CASE handle \notin VkHandles
      <4>1. {source[m].name : m \in Destructors(k - 1, handle)} \cup Preset(handle)
              = {destructor[handle]} \ {Other}
        BY <1>8, <3>1 DEF DestructorsSoFar, IInv
      <4>2. destructor[handle] \in {source[m].name : m \in Destructors(k - 1, handle)}
        BY <2>3, <3>6, <4>1 DEF Preset
      <4>3. PICK m \in Destructors(k - 1, handle) : TRUE
        BY <4>2
      <4>4. m # k
        BY <1>3, <4>3 DEF Destructors
      <4>5. m \in Destructors(Len(source), handle)
        BY <1>1, <3>3, <4>3, DestructorsPart
      <4> QED BY <3>1, <3>4, <4>4, <4>5 DEF Contradictory
    <3> QED BY <3>5, <3>6
  <2> QED BY <2>1, <2>2, <2>3 DEF Reject
<1>9. ErrorsReal'
  BY <1>2, <1>8, SameSource DEF ErrorsReal
<1> QED BY <1>4, <1>5, <1>6, <1>7, <1>9 DEF IInv

LEMMA StutterStep ==
  ASSUME IInv, UNCHANGED vars PROVE IInv'
<1>1. UNCHANGED <<source, k, at, handle, owner, destructor, short, error>>
  BY DEF vars
<1>2. TypeOK'
  BY <1>1, SameSource DEF TypeOK, IInv
<1>3. AtHandle'
  BY <1>1 DEF AtHandle, IInv, Function
<1>4. OwnersFound'
  <2>1. ASSUME NEW h \in Handles PROVE ShownSoFar(h)' = ShownSoFar(h)
    BY <1>1 DEF ShownSoFar, Function
  <2> QED BY <1>1, <2>1 DEF OwnersFound, IInv
<1> QED BY <1>1, <1>2, <1>3, <1>4, Inside DEF IInv

(* The owners and destructors saved so far are the ones that the functions *)
(* so far show.                                                            *)
THEOREM Invariant == Spec => []IInv
<1>1. Init => IInv
  BY InitIInv
<1>2. IInv /\ [Next]_vars => IInv'
  BY PassFunctionStep, EnterFunctionStep, PassParameterStep, ReadParameterStep,
     LeaveFunctionStep, RejectStep, StutterStep DEF Next
<1> QED BY <1>1, <1>2, PTL DEF Spec

-----------------------------------------------------------------------------
(* Handles, owners and destructors are what they are meant to be: an owner *)
(* is a handle, a destructor a function of the header or preset.           *)
THEOREM TypeCorrect == Spec => []TypeOK
BY Invariant, PTL DEF IInv

(* After any number of parameters the saved owners are those that the      *)
(* functions so far show, one for each handle, whatever their order.       *)
THEOREM OwnersShown == Spec => []OwnersFound
BY Invariant, PTL DEF IInv

LEMMA DoneFacts ==
  ASSUME IInv, Done
  PROVE  /\ Len(source) \in Nat /\ k - 1 = Len(source) /\ at = 0
         /\ \A h \in Handles : Shown(h) = {owner[h]} \ {Other}
<1>1. Len(source) \in Nat /\ k = Len(source) + 1 /\ TypeOK
  BY SourceFacts DEF IInv, TypeOK, Done
<1>2. at = 0
  BY <1>1 DEF IInv, TypeOK, AtHandle
<1>3. ASSUME NEW h \in Handles PROVE Shown(h) = ShownSoFar(h)
  BY <1>1, <1>2 DEF Shown, ShownSoFar
<1> QED BY <1>1, <1>2, <1>3 DEF OwnersFound, IInv

LEMMA InvariantDestructors == IInv => DestructorsFound
<1> SUFFICES ASSUME IInv, Done, Conventional, NEW h \in Handles
             PROVE  /\ {source[m].name : m \in Destructors(Len(source), h)} \cup Preset(h)
                         = {destructor[h]} \ {Other}
                    /\ destructor[h] \in short => owner[h] = Other
  BY DEF DestructorsFound
<1>1. /\ Len(source) \in Nat /\ k - 1 = Len(source)
      /\ Shown(h) = {owner[h]} \ {Other}
  BY DoneFacts
<1>2. {source[m].name : m \in Destructors(Len(source), h)} \cup Preset(h)
        = {destructor[h]} \ {Other}
  BY <1>1 DEF DestructorsSoFar, IInv
<1>3. ASSUME destructor[h] \in short PROVE owner[h] = Other
  <2>1. PICK m \in 1 .. Len(source) :
          destructor[h] = source[m].name /\ Len(source[m].params) = 1
    BY <1>1, <1>3 DEF ShortAlone, IInv
  <2>2. destructor[h] # Other
    BY <2>1, SourceFacts DEF IInv, TypeOK
  <2>3. PICK n \in Destructors(Len(source), h) : source[n].name = destructor[h]
    <3>1. destructor[h] # h
      BY <2>1, SourceFacts DEF IInv, TypeOK
    <3> QED BY <1>2, <2>2, <3>1 DEF Preset
  <2>4. n \in 1 .. Len(source) /\ Len(source[n].params) = IF Shown(h) = {} THEN 1 ELSE 2
    BY <2>3 DEF Destructors
  <2>5. m = n
    BY <2>1, <2>3, <2>4, SourceFacts DEF IInv, TypeOK
  <2>6. ASSUME Shown(h) # {} PROVE FALSE
    <3>1. Len(source[n].params) = 2
      BY <2>4, <2>6
    <3>2. Len(source[n].params) = 1
      <4>1. Len(source[m].params) = 1
        BY <2>1
      <4> QED BY <2>5, <4>1
    <3>3. 1 # 2
      OBVIOUS
    <3> QED BY <3>1, <3>2, <3>3
  <2> QED BY <1>1, <2>6
<1> QED BY <1>2, <1>3

(* Once every function was read, each handle has the one destructor that   *)
(* the whole header gives it, even if the owner was shown only afterwards. *)
THEOREM DestructorsShown == Spec => []DestructorsFound
BY Invariant, InvariantDestructors, PTL

LEMMA InvariantRejects == IInv => RejectsContradictions
<1> SUFFICES ASSUME IInv, Conventional
             PROVE  (error => Contradictory) /\ (Done => ~Contradictory)
  BY DEF RejectsContradictions
<1>1. error => Contradictory
  BY DEF IInv, ErrorsReal
<1>2. ASSUME Done PROVE ~Contradictory
  <2>1. /\ Len(source) \in Nat /\ k - 1 = Len(source)
        /\ \A h \in Handles : Shown(h) = {owner[h]} \ {Other}
    BY <1>2, DoneFacts
  <2>2. ~\E m \in 1 .. Len(source) : HasHandle(source[m]) /\ source[m].params[1].pointer
    BY <2>1 DEF NoPointers, IInv
  <2>3. ~\E h \in Handles : \E o, p \in Shown(h) : o # p
    BY <2>1
  <2>4. ASSUME NEW h \in Handles, NEW m \in Destructors(Len(source), h),
               NEW n \in Destructors(Len(source), h)
        PROVE  m = n
    <3>1. {source[i].name : i \in Destructors(Len(source), h)} \cup Preset(h)
            = {destructor[h]} \ {Other}
      BY <2>1 DEF DestructorsSoFar, IInv
    <3>2. source[m].name \in {destructor[h]} /\ source[n].name \in {destructor[h]}
      BY <3>1
    <3>3. m \in 1 .. Len(source) /\ n \in 1 .. Len(source)
      BY DEF Destructors
    <3> QED BY <3>2, <3>3, SourceFacts DEF IInv, TypeOK
  <2>5. ASSUME NEW h \in VkHandles, NEW n \in Destructors(Len(source), h)
        PROVE  FALSE
    <3>1. h \in Handles /\ Preset(h) = {h}
      BY SourcesAssumption DEF Preset
    <3>2. {source[i].name : i \in Destructors(Len(source), h)} \cup Preset(h)
            = {destructor[h]} \ {Other}
      BY <2>1, <3>1 DEF DestructorsSoFar, IInv
    <3>3. source[n].name = h
      BY <3>1, <3>2
    <3>4. n \in 1 .. Len(source)
      BY DEF Destructors
    <3> QED BY <3>1, <3>3, <3>4, SourceFacts DEF IInv, TypeOK
  <2> QED BY <2>2, <2>3, <2>4, <2>5 DEF Contradictory
<1> QED BY <1>1, <1>2

(* A header that follows the convention is rejected exactly if it          *)
(* contradicts itself, in every order of its functions.                    *)
THEOREM RejectsExactly == Spec => []RejectsContradictions
BY Invariant, InvariantRejects, PTL

=============================================================================
