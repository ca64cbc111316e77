--------------------------- MODULE VmaRaiiProofs ---------------------------
(***************************************************************************)
(* Proofs about VmaRaii for every value of its constants: IInv is          *)
(* inductive for a careful client, so no destroy call is ever bad, every   *)
(* live handle has one owner, and users are destroyed first.  From it, the *)
(* wrappers implement the life of native objects of HandleLifetime.        *)
(***************************************************************************)
EXTENDS VmaRaii, TLAPS

-----------------------------------------------------------------------------
(* What the helpers of the module return.                                  *)

LEMMA HoldsType ==
  ASSUME TypeOK, NEW o \in Slots
  PROVE  Holds(o) \subseteq Handles /\ Null \notin Holds(o)
BY RaiiAssumption DEF TypeOK, Holds, CellType, VmaHandles, VkHandles

LEMMA HeldIff ==
  ASSUME NEW h
  PROVE  h \in Held <=> \E o \in Slots : h \in Holds(o)
BY DEF Held

(* The slot a constructor builds on is free, and so are those above it.    *)
LEMMA PushFacts ==
  ASSUME IInv, NEW c \in Classes, Push(c)
  PROVE  /\ ~closing
         /\ top \in Nat
         /\ top + 1 \in Slots
         /\ Alive \subseteq Slots
         /\ top + 1 \notin Alive
         /\ top' = top + 1
         /\ top' \in 0 .. N
         /\ cls' \in [Slots -> Classes \cup {"none"}]
         /\ \A o \in Slots : cls'[o] = IF o = top + 1 THEN c ELSE cls[o]
         /\ \A o \in Slots : o > top => /\ vma[o].hnd = Null
                                        /\ vk[o].hnd = Null
                                        /\ Holds(o) = {}
<1>1. /\ ~closing /\ top \in 0 .. N /\ top < N /\ top' = top + 1
      /\ cls' = [cls EXCEPT ![top + 1] = c]
      /\ cls \in [Slots -> Classes \cup {"none"}]
  BY DEF IInv, TypeOK, Push
<1>2. \A o \in Slots : o > top => vma[o].hnd = Null /\ vk[o].hnd = Null
  BY DEF IInv, ObjectShape
<1>3. \A o \in Slots : o > top => Holds(o) = {}
  BY <1>2 DEF Holds
<1> QED BY <1>1, <1>2, <1>3, RaiiAssumption DEF Slots, Alive

(* What OwnersKnown says of one cell, member by member.                    *)
LEMMA OwnedCell ==
  ASSUME IInv, NEW p \in Slots, vma[p].hnd # Null
  PROVE  /\ vma[p] = Cell(parent[vma[p].hnd], vma[p].hnd)
         /\ vma[p].own = parent[vma[p].hnd]
         /\ vma[p].destructor = DestructorOf(parent[vma[p].hnd], vma[p].hnd)
<1>1. vma[p] = Cell(parent[vma[p].hnd], vma[p].hnd)
  BY DEF IInv, OwnersKnown
<1>2. \A a, h : Cell(a, h).own = a /\ Cell(a, h).destructor = DestructorOf(a, h)
  BY DEF Cell
<1> QED BY <1>1, <1>2

(* What a wrapper holds: a live handle of its own class.                   *)
LEMMA WrapperFacts ==
  ASSUME IInv, NEW p \in Slots, vma[p].hnd # Null, cls[p] \in VmaClasses,
         cls[p] # "DefragmentationContext"
  PROVE  /\ vma[p].hnd \in live
         /\ vma[p].hnd \in Handles
         /\ ClassOf[vma[p].hnd] = cls[p]
         /\ vma[p].own = parent[vma[p].hnd]
         /\ cls[p] = "Allocator" => vma[p].own = Dev
<1>1. vma[p].hnd \in Holds(p)
  BY DEF Holds
<1>2. vma[p].hnd \in live /\ vma[p].hnd \in Handles /\ vma[p].hnd \in born
  BY <1>1 DEF IInv, HeldIsLive, TypeOK
<1>3. vma[p].own = parent[vma[p].hnd]
  BY <1>2, OwnedCell
<1> QED BY <1>2, <1>3 DEF IInv, ObjectShape, NeedsRecorded

LEMMA PoolFacts ==
  ASSUME IInv, NEW a \in live, ClassOf[a] \in {"Allocator", "VirtualBlock"},
         NEW q \in PoolsOf(a), a # Null
  PROVE  /\ {a, q} \ {Null} \subseteq live
         /\ a \in {a, q} \ {Null}
         /\ \A g \in {a, q} \ {Null} : ClassOf[g] \in {"Allocator", "Pool", "VirtualBlock"}
BY DEF PoolsOf

LEMMA EmptyFacts ==
  ASSUME NEW H
  PROVE  Empty \in CellType(H) /\ Empty.hnd = Null
BY RaiiAssumption DEF Empty, Cell, DestructorOf, CellType

LEMMA CellFacts ==
  ASSUME NEW p \in Handles \cup {Dev, Null}, NEW H, NEW h \in H
  PROVE  /\ Cell(p, h) \in CellType(H)
         /\ Cell(p, h).own = p /\ Cell(p, h).hnd = h
         /\ Cell(p, h).destructor = DestructorOf(p, h)
<1>1. DestructorOf(p, h) \in VmaClasses \cup VkClasses \cup {"none"}
  BY RaiiAssumption DEF DestructorOf
<1> QED BY <1>1 DEF Cell, CellType

-----------------------------------------------------------------------------
(* The native side by itself.                                              *)

NativeType ==
  /\ born \in SUBSET Handles
  /\ live \in SUBSET born
  /\ parent \in [Handles -> Handles \cup {Dev, Null}]
  /\ needs \in [Handles -> SUBSET born]

LEMMA BearKeeps ==
  ASSUME NativeType, NeedsRecorded, UsersFirst,
         NEW h \in Handles, h \notin born,
         NEW S \in SUBSET live, NEW p \in S \cup {Dev, Null},
         ClassOf[h] = "Allocator" => p = Dev,
         \A g \in S : ClassOf[g] \in {"Allocator", "Pool", "Allocation", "VirtualBlock"},
         Bear(h, p, S)
  PROVE  /\ NativeType' /\ NeedsRecorded' /\ UsersFirst'
         /\ born' = born \cup {h} /\ live' = live \cup {h}
         /\ parent'[h] = p
         /\ \A g \in born : needs'[g] = needs[g] /\ parent'[g] = parent[g]
<1>1. NativeType'
  BY DEF NativeType, Bear
<1>2. /\ \A g \in Handles : needs'[g] = IF g = h THEN S ELSE needs[g]
      /\ \A g \in Handles : parent'[g] = IF g = h THEN p ELSE parent[g]
      /\ born' = born \cup {h} /\ live' = live \cup {h}
  BY DEF NativeType, Bear
<1>3. NeedsRecorded'
  BY <1>2 DEF NativeType, NeedsRecorded
<1>4. UsersFirst'
  BY <1>2 DEF NativeType, UsersFirst
<1> QED BY <1>1, <1>2, <1>3, <1>4 DEF NativeType

LEMMA KillKeeps ==
  ASSUME NativeType, NeedsRecorded, UsersFirst, NEW S, Unneeded(S), Kill(S)
  PROVE  NativeType' /\ NeedsRecorded' /\ UsersFirst'
BY DEF NativeType, NeedsRecorded, UsersFirst, Unneeded, Kill

LEMMA BindKeeps ==
  ASSUME NativeType, NeedsRecorded, UsersFirst,
         NEW m \in live, ClassOf[m] = "Allocation",
         NEW r \in live, ClassOf[r] \in VkClasses, needs[r] = {},
         UNCHANGED <<born, live, parent>>,
         needs' = [needs EXCEPT ![r] = needs[m] \cup {m}]
  PROVE  NativeType' /\ NeedsRecorded' /\ UsersFirst'
<1>1. NativeType'
  BY DEF NativeType
<1>2. \A g \in Handles : needs'[g] = IF g = r THEN needs[m] \cup {m} ELSE needs[g]
  BY DEF NativeType
<1>3. r \notin needs[m] \cup {m}
  BY DEF NeedsRecorded, NativeType, VkClasses
<1>4. NeedsRecorded'
  BY <1>2, <1>3 DEF NativeType, NeedsRecorded, VkClasses
<1>5. UsersFirst'
  BY <1>2 DEF NativeType, UsersFirst
<1> QED BY <1>1, <1>4, <1>5

-----------------------------------------------------------------------------
(* A new object on slot t gets the newborn handles of B and takes those of *)
(* T away from other objects.                                              *)
LEMMA ConstructKeeps ==
  ASSUME TypeOK, HeldIsLive, OneOwner, Outlives,
         NEW t \in Slots,
         NEW B \in SUBSET Handles, B \cap born = {},
         NEW T, T \subseteq Held,
         \A o \in Slots : o >= t => Holds(o) = {},
         born' = born \cup B, live' = live \cup B, raw' = raw,
         \A o \in Slots : Holds(o)' = IF o = t THEN B \cup T ELSE Holds(o) \ T,
         \A o \in Slots : \A h \in Holds(o) \ T :
           needs'[h] = needs[h] /\ needs[h] \cap T = {},
         \A o \in Slots \ {t} : cls'[o] = cls[o],
         T \subseteq live \/ cls'[t] = "DefragmentationContext"
  PROVE  HeldIsLive' /\ OneOwner' /\ Outlives'
<1>1. HeldIsLive'
  BY HeldIff DEF HeldIsLive
<1>2. \A h : h \in Held' <=> \E o \in Slots : h \in Holds(o)'
  BY DEF Held
<1>3. \A h \in Held : \E o \in Slots : h \in Holds(o)
  BY HeldIff
<1>4. OneOwner'
  <2>1. live' \subseteq Held' \cup raw'
    <3> SUFFICES ASSUME NEW h \in live', h \notin raw'
                 PROVE  \E o \in Slots : h \in Holds(o)'
      BY <1>2
    <3>1. CASE h \in B \cup T
      BY <3>1
    <3>2. CASE h \notin B \cup T
      <4>1. h \in Held
        BY <3>2 DEF OneOwner
      <4>2. PICK o \in Slots : h \in Holds(o)
        BY <4>1, <1>3
      <4>3. o # t
        BY <4>2 DEF Slots
      <4>4. Holds(o)' = Holds(o) \ T
        BY <4>3
      <4>5. h \in Holds(o)'
        BY <4>2, <4>4, <3>2
      <4> QED BY <4>5
    <3> QED BY <3>1, <3>2
  <2>2. Held' \cap raw' = {}
    BY <1>2, HeldIff DEF OneOwner, TypeOK
  <2>3. ASSUME NEW o \in Slots, NEW p \in Slots, o # p
        PROVE  Holds(o)' \cap Holds(p)' = {}
    BY <2>3 DEF OneOwner, HeldIsLive
  <2> QED BY <2>1, <2>2, <2>3 DEF OneOwner
<1>5. Outlives'
  <2> SUFFICES ASSUME NEW o \in Slots, NEW p \in Slots, NEW h \in Holds(o)', NEW g,
                      g \in needs'[h], g \in Holds(p)'
               PROVE  p <= o
    BY DEF Outlives
  <2>1. CASE o = t
    BY <2>1 DEF Slots
  <2>2. CASE o # t
    <3>1. h \in Holds(o) /\ h \notin T /\ needs'[h] = needs[h] /\ g \notin T
      BY <2>2
    <3>2. g \notin B
      BY <3>1, HoldsType DEF TypeOK
    <3>3. p # t /\ g \in Holds(p)
      BY <3>1, <3>2
    <3> QED BY <3>1, <3>3 DEF Outlives
  <2> QED BY <2>1, <2>2
<1> QED BY <1>1, <1>4, <1>5

-----------------------------------------------------------------------------
(* Constructors.  The new object gets the cells u and w; the objects of SV *)
(* lose their VMA subobject to it and those of SK their Vulkan subobject.  *)

Taken(SV, SK) == ({vma[o].hnd : o \in SV} \cup {vk[o].hnd : o \in SK}) \ {Null}

(* A new object of class c may hold the handles of u and w.                *)
Shaped(c, u, w) ==
  /\ c \in VmaClasses => /\ u.hnd # Null => ClassOf[u.hnd] = c
                         /\ w.hnd = Null
  /\ c \in VkClasses => /\ w.hnd # Null => ClassOf[w.hnd] = c
                        /\ u.hnd = Null
  /\ c \in CombinedClasses => /\ u.hnd # Null => ClassOf[u.hnd] = "Allocation"
                              /\ w.hnd # Null => ClassOf[w.hnd] = BaseOf[c]

LEMMA ClassesApart ==
  /\ VmaClasses \cap VkClasses = {} /\ VmaClasses \cap CombinedClasses = {}
  /\ VkClasses \cap CombinedClasses = {} /\ "none" \notin Classes
  /\ VmaHandles \cap VkHandles = {}
  /\ \A c \in CombinedClasses : BaseOf[c] \in VkClasses
BY DEF VmaClasses, VkClasses, CombinedClasses, Classes, VmaHandles, VkHandles, BaseOf

(* No two subobjects hold the same handle.                                 *)
LEMMA HeldApart ==
  ASSUME IInv
  PROVE  \A o, q \in Slots : /\ vma[o].hnd # Null /\ vma[o].hnd = vma[q].hnd => o = q
                             /\ vk[o].hnd # Null /\ vk[o].hnd = vk[q].hnd => o = q
                             /\ vma[o].hnd # Null => vma[o].hnd # vk[q].hnd
<1>1. \A o \in Slots : /\ vma[o].hnd \in VmaHandles \cup {Null}
                       /\ vk[o].hnd \in VkHandles \cup {Null}
  BY DEF IInv, TypeOK, CellType
<1> QED BY <1>1, ClassesApart DEF IInv, OneOwner, Holds

(* Taking cells from objects takes their handles from exactly these.       *)
LEMMA TakenFacts ==
  ASSUME IInv, NEW SV \in SUBSET Slots, NEW SK \in SUBSET Slots
  PROVE  /\ Taken(SV, SK) \subseteq Held
         /\ \A o \in Slots :
              Holds(o) \ Taken(SV, SK) =
                ((IF o \in SV THEN {} ELSE {vma[o].hnd}) \cup
                 (IF o \in SK THEN {} ELSE {vk[o].hnd})) \ {Null}
<1>1. Taken(SV, SK) \subseteq Held
  BY DEF Taken, Held, Holds
<1>3. \A o, q \in Slots : /\ vma[o].hnd # Null /\ vma[o].hnd = vma[q].hnd => o = q
                          /\ vk[o].hnd # Null /\ vk[o].hnd = vk[q].hnd => o = q
                          /\ vma[o].hnd # Null => vma[o].hnd # vk[q].hnd
  BY HeldApart
<1>4. ASSUME NEW o \in Slots
      PROVE  Holds(o) \ Taken(SV, SK) =
               ((IF o \in SV THEN {} ELSE {vma[o].hnd}) \cup
                (IF o \in SK THEN {} ELSE {vk[o].hnd})) \ {Null}
  <2>1. ~(o \in SV) => vma[o].hnd \notin Taken(SV, SK)
    BY <1>3 DEF Taken
  <2>2. ~(o \in SK) => vk[o].hnd \notin Taken(SV, SK)
    BY <1>3 DEF Taken
  <2>3. o \in SV /\ vma[o].hnd # Null => vma[o].hnd \in Taken(SV, SK)
    BY DEF Taken
  <2>4. o \in SK /\ vk[o].hnd # Null => vk[o].hnd \in Taken(SV, SK)
    BY DEF Taken
  <2>5. Null \notin Taken(SV, SK)
    BY DEF Taken
  <2> QED BY <2>1, <2>2, <2>3, <2>4, <2>5 DEF Holds
<1> QED BY <1>1, <1>4

(* A step that builds an object of class c, native handles B being new.    *)
Builds(c, u, w, SV, SK, B) ==
  /\ c \in Classes /\ Push(c)
  /\ u \in CellType(VmaHandles) /\ w \in CellType(VkHandles) /\ Shaped(c, u, w)
  /\ SV \in SUBSET Alive /\ SK \in SUBSET Alive
  /\ vma' \in [Slots -> CellType(VmaHandles)] /\ vk' \in [Slots -> CellType(VkHandles)]
  /\ \A o \in Slots : vma'[o] = IF o = top + 1 THEN u
                                ELSE IF o \in SV THEN Empty ELSE vma[o]
  /\ \A o \in Slots : vk'[o] = IF o = top + 1 THEN w
                               ELSE IF o \in SK THEN Empty ELSE vk[o]
  /\ NativeType' /\ NeedsRecorded' /\ UsersFirst'
  /\ B \in SUBSET Handles /\ B \cap born = {}
  /\ born' = born \cup B /\ live' = live \cup B
  /\ \A h \in born : parent'[h] = parent[h]
  /\ u.hnd # Null => u = Cell(parent'[u.hnd], u.hnd)
  /\ w.hnd # Null => w.own = Dev
  /\ {u.hnd, w.hnd} \ {Null} = B \cup Taken(SV, SK)
  /\ \A o \in Slots : \A h \in Holds(o) \ Taken(SV, SK) :
       needs'[h] = needs[h] /\ needs[h] \cap Taken(SV, SK) = {}
  /\ Taken(SV, SK) \subseteq live \/ c = "DefragmentationContext"
  /\ raw' = raw /\ fault' = fault /\ closing' = closing

LEMMA BuildKeeps ==
  ASSUME IInv, NEW c, NEW u, NEW w, NEW SV, NEW SK, NEW B, Builds(c, u, w, SV, SK, B)
  PROVE  IInv'
<1> USE DEF Builds
<1> DEFINE t == top + 1
           T == Taken(SV, SK)
<1>1. /\ t \in Slots /\ top' = t /\ top' \in 0 .. N /\ top \in Nat
      /\ SV \subseteq Slots /\ SK \subseteq Slots /\ t \notin SV /\ t \notin SK
      /\ \A o \in SV \cup SK : o <= top
      /\ cls' \in [Slots -> Classes \cup {"none"}]
      /\ \A o \in Slots : cls'[o] = IF o = t THEN c ELSE cls[o]
      /\ \A o \in Slots : o >= t => vma[o].hnd = Null /\ vk[o].hnd = Null /\ Holds(o) = {}
  BY PushFacts DEF Slots, Alive
<1>2. TypeOK'
  <2>1. raw' \in SUBSET live' /\ fault' \in BOOLEAN /\ closing' \in BOOLEAN
    BY DEF IInv, TypeOK
  <2> QED BY <1>1, <2>1 DEF TypeOK, NativeType
<1>3. Empty.hnd = Null
  BY EmptyFacts
<1>4. ObjectShape'
  <2> SUFFICES ASSUME NEW o \in Slots
               PROVE  /\ cls'[o] = "none" <=> o > top'
                      /\ cls'[o] = "none" => vma'[o].hnd = Null /\ vk'[o].hnd = Null
                      /\ Shaped(cls'[o], vma'[o], vk'[o])
    BY DEF ObjectShape, Shaped
  <2>1. CASE o = t
    BY <2>1, <1>1, ClassesApart DEF Slots
  <2>2. CASE o # t
    <3>1. /\ cls[o] = "none" <=> o > top
          /\ cls[o] = "none" => vma[o].hnd = Null /\ vk[o].hnd = Null
          /\ Shaped(cls[o], vma[o], vk[o])
      BY DEF IInv, ObjectShape, Shaped
    <3>2. /\ cls'[o] = cls[o]
          /\ vma'[o].hnd \in {vma[o].hnd, Null}
          /\ vk'[o].hnd \in {vk[o].hnd, Null}
      BY <2>2, <1>1, <1>3
    <3>3. o > top <=> o > top'
      BY <2>2, <1>1 DEF Slots
    <3> QED BY <3>1, <3>2, <3>3 DEF Shaped
  <2> QED BY <2>1, <2>2
<1>5. OwnersKnown'
  <2>1. \A o \in Slots : vma[o].hnd # Null => vma[o].hnd \in born
    BY DEF IInv, HeldIsLive, Holds
  <2> QED BY <1>1, <1>3, <2>1 DEF IInv, OwnersKnown
<1>6. \A o \in Slots : Holds(o)' = IF o = t THEN B \cup T ELSE Holds(o) \ T
  <2>1. \A o \in Slots :
          Holds(o) \ T = ((IF o \in SV THEN {} ELSE {vma[o].hnd}) \cup
                          (IF o \in SK THEN {} ELSE {vk[o].hnd})) \ {Null}
    BY <1>1, TakenFacts
  <2>2. ASSUME NEW o \in Slots, o # t
        PROVE  Holds(o)' = Holds(o) \ T
    <3> HIDE DEF T, t
    <3> QED BY <1>3, <2>1, <2>2 DEF Holds, t
  <2>3. ASSUME NEW o \in Slots, o = t
        PROVE  Holds(o)' = B \cup T
    <3>1. vma'[o] = u /\ vk'[o] = w
      BY <2>3
    <3>2. {u.hnd, w.hnd} \ {Null} = B \cup T
      OBVIOUS
    <3> HIDE DEF t, T
    <3> QED BY <3>1, <3>2 DEF Holds
  <2> HIDE DEF t, T
  <2> QED BY <2>2, <2>3
<1>7. HeldIsLive' /\ OneOwner' /\ Outlives'
  <2>1. TypeOK /\ HeldIsLive /\ OneOwner /\ Outlives
    BY DEF IInv
  <2>2. T \subseteq Held
    BY <1>1, TakenFacts
  <2>3. /\ \A o \in Slots : o >= t => Holds(o) = {}
        /\ \A o \in Slots \ {t} : cls'[o] = cls[o]
        /\ T \subseteq live \/ cls'[t] = "DefragmentationContext"
        /\ t \in Slots
    BY <1>1
  <2>4. \A o \in Slots : \A h \in Holds(o) \ T : needs'[h] = needs[h] /\ needs[h] \cap T = {}
    OBVIOUS
  <2> HIDE DEF t, T
  <2> QED BY <1>6, <2>1, <2>2, <2>3, <2>4, ConstructKeeps
<1>8. NoFault'
  BY DEF IInv, NoFault
<1> QED BY <1>2, <1>4, <1>5, <1>7, <1>8 DEF IInv

LEMMA NativeFacts ==
  ASSUME IInv
  PROVE  /\ NativeType /\ NeedsRecorded /\ UsersFirst
         /\ vma \in [Slots -> CellType(VmaHandles)]
         /\ vk \in [Slots -> CellType(VkHandles)]
BY DEF IInv, TypeOK, NativeType

LEMMA NoneTaken == Taken({}, {}) = {}
BY DEF Taken

LEMMA NativeKept ==
  ASSUME IInv, UNCHANGED native
  PROVE  /\ NativeType' /\ NeedsRecorded' /\ UsersFirst'
         /\ born' = born \cup {} /\ live' = live \cup {}
         /\ needs' = needs /\ parent' = parent
BY NativeFacts DEF NativeType, NeedsRecorded, UsersFirst, native


LEMMA ConstructNullStep ==
  ASSUME IInv, NEW c \in Classes, ConstructNull(c)
  PROVE  IInv'
<1> DEFINE t == top + 1
<1>1. Push(c) /\ vma' = vma /\ vk' = vk /\ UNCHANGED native
      /\ UNCHANGED <<raw, fault, closing>>
  BY DEF ConstructNull
<1>2. t \in Slots /\ vma[t].hnd = Null /\ vk[t].hnd = Null
  BY <1>1, PushFacts
<1>3. /\ vma[t] \in CellType(VmaHandles) /\ vk[t] \in CellType(VkHandles)
      /\ Shaped(c, vma[t], vk[t])
      /\ vma' \in [Slots -> CellType(VmaHandles)] /\ vk' \in [Slots -> CellType(VkHandles)]
  BY <1>1, <1>2, NativeFacts DEF Shaped
<1>4. /\ \A o \in Slots : vma'[o] = IF o = t THEN vma[t] ELSE IF o \in {} THEN Empty ELSE vma[o]
      /\ \A o \in Slots : vk'[o] = IF o = t THEN vk[t] ELSE IF o \in {} THEN Empty ELSE vk[o]
  BY <1>1
<1>5. /\ {} \in SUBSET Alive /\ {} \in SUBSET Handles /\ {} \cap born = {}
      /\ {vma[t].hnd, vk[t].hnd} \ {Null} = {} \cup Taken({}, {})
      /\ \A o \in Slots : \A h \in Holds(o) \ Taken({}, {}) :
           needs'[h] = needs[h] /\ needs[h] \cap Taken({}, {}) = {}
      /\ Taken({}, {}) \subseteq live
  BY <1>1, <1>2, NoneTaken, NativeKept
<1>6. Builds(c, vma[t], vk[t], {}, {}, {})
  BY <1>1, <1>2, <1>3, <1>4, <1>5, NativeKept DEF Builds
<1> QED BY <1>6, BuildKeeps

LEMMA WrapKeeps ==
  ASSUME IInv, NEW c \in VmaClasses, Push(c),
         NEW h \in Fresh(c), NEW S \in SUBSET live, NEW p \in S \cup {Dev, Null},
         c = "Allocator" => p = Dev,
         \A g \in S : ClassOf[g] \in {"Allocator", "Pool", "Allocation", "VirtualBlock"},
         Bear(h, p, S),
         vma' = [vma EXCEPT ![top + 1] = Cell(p, h)],
         UNCHANGED <<vk, raw, fault, closing>>
  PROVE  IInv'
<1> DEFINE t == top + 1
           u == Cell(p, h)
<1>1. c \in Classes /\ h \in VmaHandles /\ h \in Handles /\ h \notin born /\ ClassOf[h] = c
  BY DEF Classes, Fresh, VmaHandles
<1>2. t \in Slots /\ vma[t].hnd = Null /\ vk[t].hnd = Null
  BY <1>1, PushFacts
<1>3. /\ NativeType' /\ NeedsRecorded' /\ UsersFirst'
      /\ born' = born \cup {h} /\ live' = live \cup {h}
      /\ parent'[h] = p
      /\ \A g \in born : needs'[g] = needs[g] /\ parent'[g] = parent[g]
  BY <1>1, NativeFacts, BearKeeps
<1>4. /\ u \in CellType(VmaHandles) /\ u.own = p /\ u.hnd = h
      /\ vk[t] \in CellType(VkHandles)
      /\ h # Null
  BY <1>1, <1>2, CellFacts, NativeFacts, RaiiAssumption DEF NativeType
<1>5. /\ Shaped(c, u, vk[t])
      /\ vma' \in [Slots -> CellType(VmaHandles)] /\ vk' \in [Slots -> CellType(VkHandles)]
      /\ \A o \in Slots : vma'[o] = IF o = t THEN u ELSE IF o \in {} THEN Empty ELSE vma[o]
      /\ \A o \in Slots : vk'[o] = IF o = t THEN vk[t] ELSE IF o \in {} THEN Empty ELSE vk[o]
  <2> HIDE DEF u, t
  <2> QED BY <1>1, <1>2, <1>4, NativeFacts, ClassesApart DEF Shaped, u, t
<1>6. /\ {} \in SUBSET Alive /\ {h} \in SUBSET Handles /\ {h} \cap born = {}
      /\ {u.hnd, vk[t].hnd} \ {Null} = {h} \cup Taken({}, {})
      /\ Taken({}, {}) \subseteq live
  BY <1>1, <1>2, <1>4, NoneTaken
<1>7. \A o \in Slots : \A g \in Holds(o) \ Taken({}, {}) :
        needs'[g] = needs[g] /\ needs[g] \cap Taken({}, {}) = {}
  BY <1>1, <1>3, NoneTaken, HoldsType DEF IInv, HeldIsLive
<1>8. /\ \A g \in born : parent'[g] = parent[g]
      /\ u.hnd # Null => u = Cell(parent'[u.hnd], u.hnd)
      /\ vk[t].hnd # Null => vk[t].own = Dev
  BY <1>1, <1>2, <1>3, <1>4, NativeFacts DEF NativeType
<1>9. Builds(c, u, vk[t], {}, {}, {h})
  <2> HIDE DEF u
  <2> QED BY <1>1, <1>3, <1>4, <1>5, <1>6, <1>7, <1>8 DEF Builds
<1> QED BY <1>9, BuildKeeps

LEMMA CreateRootStep ==
  ASSUME IInv, NEW c \in {"Allocator", "VirtualBlock"}, CreateRoot(c)
  PROVE  IInv'
<1> DEFINE p == IF c = "Allocator" THEN Dev ELSE Null
<1>1. PICK h \in Fresh(c) :
        /\ vma' = [vma EXCEPT ![top + 1] = Cell(p, h)]
        /\ Bear(h, p, {})
  BY DEF CreateRoot
<1>2. /\ c \in VmaClasses /\ Push(c) /\ UNCHANGED <<vk, raw, fault, closing>>
      /\ {} \in SUBSET live /\ p \in {} \cup {Dev, Null}
      /\ c = "Allocator" => p = Dev
  BY DEF CreateRoot, VmaClasses
<1> HIDE DEF p
<1> QED BY <1>1, <1>2, WrapKeeps

LEMMA CreateOwnedStep ==
  ASSUME IInv, NEW o \in Slots, cls[o] \in {"Allocator", "VirtualBlock"},
         NEW c \in VmaClasses \ {"Allocator"}, CreateOwned(c, o)
  PROVE  IInv'
<1> DEFINE a == vma[o].hnd
<1>1. PICK h \in Fresh(c), q \in PoolsOf(a) :
        /\ vma' = [vma EXCEPT ![top + 1] = Cell(a, h)]
        /\ Bear(h, a, {a, q} \ {Null})
  BY DEF CreateOwned
<1>2. Push(c) /\ UNCHANGED <<vk, raw, fault, closing>> /\ a # Null
  BY DEF CreateOwned
<1>3. a \in live /\ ClassOf[a] \in {"Allocator", "VirtualBlock"}
  BY <1>2, WrapperFacts DEF VmaClasses
<1> DEFINE S == {a, q} \ {Null}
<1>4. /\ S \in SUBSET live /\ a \in S \cup {Dev, Null}
      /\ \A g \in S : ClassOf[g] \in {"Allocator", "Pool", "Allocation", "VirtualBlock"}
  <2> HIDE DEF a
  <2> QED BY <1>2, <1>3, PoolFacts
<1> HIDE DEF a, S
<1>5. Bear(h, a, S)
  BY <1>1 DEF S
<1> QED BY <1>1, <1>2, <1>4, <1>5, WrapKeeps

(* One native call makes memory m and resource r bound to it.              *)
BearBoth(m, r, a, S) ==
  /\ m \in Fresh("Allocation") /\ r \in Handles \ born /\ ClassOf[r] \in VkClasses
  /\ S \in SUBSET live /\ a \in S
  /\ \A g \in S : ClassOf[g] \in {"Allocator", "Pool", "Allocation", "VirtualBlock"}
  /\ born' = born \cup {m, r} /\ live' = live \cup {m, r}
  /\ parent' = [parent EXCEPT ![m] = a, ![r] = Dev]
  /\ needs' = [needs EXCEPT ![m] = S, ![r] = S \cup {m}]

LEMMA BearBothKeeps ==
  ASSUME NativeType, NeedsRecorded, UsersFirst,
         NEW m, NEW r, NEW a, NEW S, BearBoth(m, r, a, S)
  PROVE  /\ NativeType' /\ NeedsRecorded' /\ UsersFirst'
         /\ m # r /\ parent'[m] = a
         /\ \A g \in born : needs'[g] = needs[g] /\ parent'[g] = parent[g]
<1> USE DEF BearBoth
<1>1. /\ m \in Handles /\ r \in Handles /\ m \notin born /\ r \notin born
      /\ ClassOf[m] = "Allocation" /\ m # r /\ ClassOf[r] # "Allocator"
  BY DEF Fresh, VkClasses
<1>2. \A g \in Handles :
        /\ needs'[g] = IF g = r THEN S \cup {m} ELSE IF g = m THEN S ELSE needs[g]
        /\ parent'[g] = IF g = r THEN Dev ELSE IF g = m THEN a ELSE parent[g]
  BY <1>1 DEF NativeType
<1>3. NativeType'
  BY <1>1 DEF NativeType
<1>4. NeedsRecorded'
  BY <1>1, <1>2 DEF NativeType, NeedsRecorded
<1>5. UsersFirst'
  BY <1>1, <1>2 DEF NativeType, UsersFirst
<1> QED BY <1>1, <1>2, <1>3, <1>4, <1>5 DEF NativeType

LEMMA CreateCombinedStep ==
  ASSUME IInv, NEW o \in Slots, cls[o] = "Allocator",
         NEW c \in CombinedClasses, CreateCombined(c, o)
  PROVE  IInv'
<1> DEFINE a == vma[o].hnd
           t == top + 1
<1>1. PICK m \in Fresh("Allocation"), r \in Fresh(BaseOf[c]), q \in PoolsOf(a) :
        LET S == {a, q} \ {Null}
        IN /\ vma' = [vma EXCEPT ![t] = Cell(a, m)]
           /\ vk' = [vk EXCEPT ![t] = Cell(vma[o].own, r)]
           /\ born' = born \cup {m, r}
           /\ live' = live \cup {m, r}
           /\ parent' = [parent EXCEPT ![m] = a, ![r] = Dev]
           /\ needs' = [needs EXCEPT ![m] = S, ![r] = S \cup {m}]
  BY DEF CreateCombined
<1> DEFINE S == {a, q} \ {Null}
           u == Cell(a, m)
           w == Cell(vma[o].own, r)
<1>2. /\ c \in Classes /\ BaseOf[c] \in VkClasses /\ Push(c)
      /\ a # Null /\ raw' = raw /\ fault' = fault /\ closing' = closing
  BY ClassesApart DEF CreateCombined, Classes
<1>3. a \in live /\ ClassOf[a] = "Allocator" /\ vma[o].own = Dev /\ a \in Handles
  BY <1>2, WrapperFacts DEF VmaClasses
<1>4. /\ S \in SUBSET live /\ a \in S
      /\ \A g \in S : ClassOf[g] \in {"Allocator", "Pool", "Allocation", "VirtualBlock"}
  <2> HIDE DEF a
  <2> QED BY <1>2, <1>3, PoolFacts
<1>5. /\ t \in Slots /\ vma[t].hnd = Null /\ vk[t].hnd = Null
      /\ m \in VmaHandles /\ m \in Handles /\ m \notin born /\ ClassOf[m] = "Allocation"
      /\ r \in VkHandles /\ r \in Handles /\ r \notin born /\ ClassOf[r] = BaseOf[c]
      /\ m # Null /\ r # Null
  BY <1>2, PushFacts, RaiiAssumption DEF Fresh, VmaHandles, VkHandles, VmaClasses
<1>6. /\ born' = born \cup {m, r} /\ live' = live \cup {m, r}
      /\ NativeType' /\ NeedsRecorded' /\ UsersFirst'
      /\ m # r /\ parent'[m] = a
      /\ \A g \in born : needs'[g] = needs[g] /\ parent'[g] = parent[g]
  <2>1. /\ born' = born \cup {m, r} /\ live' = live \cup {m, r}
        /\ parent' = [parent EXCEPT ![m] = a, ![r] = Dev]
        /\ needs' = [needs EXCEPT ![m] = S, ![r] = S \cup {m}]
    BY <1>1
  <2> HIDE DEF S, a
  <2>2. BearBoth(m, r, a, S)
    BY <1>2, <1>4, <1>5, <2>1 DEF BearBoth
  <2> QED BY <2>1, <2>2, NativeFacts, BearBothKeeps
<1>7. /\ u \in CellType(VmaHandles) /\ u.own = a /\ u.hnd = m
      /\ w \in CellType(VkHandles) /\ w.own = Dev /\ w.hnd = r
  BY <1>3, <1>5, CellFacts
<1>8. /\ vma' = [vma EXCEPT ![t] = u] /\ vk' = [vk EXCEPT ![t] = w]
  BY <1>1
<1> HIDE DEF a, S, u, w
<1>9. /\ Shaped(c, u, w)
      /\ vma' \in [Slots -> CellType(VmaHandles)] /\ vk' \in [Slots -> CellType(VkHandles)]
      /\ \A s \in Slots : vma'[s] = IF s = t THEN u ELSE IF s \in {} THEN Empty ELSE vma[s]
      /\ \A s \in Slots : vk'[s] = IF s = t THEN w ELSE IF s \in {} THEN Empty ELSE vk[s]
  BY <1>5, <1>7, <1>8, NativeFacts, ClassesApart DEF Shaped
<1>10. /\ {} \in SUBSET Alive /\ {m, r} \in SUBSET Handles /\ {m, r} \cap born = {}
       /\ {u.hnd, w.hnd} \ {Null} = {m, r} \cup Taken({}, {})
       /\ Taken({}, {}) \subseteq live
  BY <1>5, <1>7, NoneTaken
<1>11. \A s \in Slots : \A g \in Holds(s) \ Taken({}, {}) :
         needs'[g] = needs[g] /\ needs[g] \cap Taken({}, {}) = {}
  BY <1>5, <1>6, NoneTaken, HoldsType DEF IInv, HeldIsLive
<1>12. /\ \A g \in born : parent'[g] = parent[g]
       /\ u.hnd # Null => u = Cell(parent'[u.hnd], u.hnd)
  BY <1>5, <1>6, <1>7, NativeFacts DEF NativeType, u
<1>13. Builds(c, u, w, {}, {}, {m, r})
  BY <1>2, <1>6, <1>7, <1>9, <1>10, <1>11, <1>12 DEF Builds
<1> QED BY <1>13, BuildKeeps

(* What the objects hold, and that no one needs a buffer or an image.      *)
LEMMA HolderFacts ==
  ASSUME IInv, NEW s \in Slots
  PROVE  /\ vk[s].hnd # Null => /\ cls[s] # "DefragmentationContext"
                                /\ vk[s].hnd \in live /\ vk[s].hnd \in VkHandles
                                /\ ClassOf[vk[s].hnd] \in VkClasses
                                /\ vk[s].own = Dev
         /\ vma[s].hnd # Null => /\ vma[s].hnd \in born /\ vma[s].hnd \in VmaHandles
                                 /\ ClassOf[vma[s].hnd] \in VmaClasses
                                 /\ vma[s] = Cell(parent[vma[s].hnd], vma[s].hnd)
                                 /\ vma[s].own = parent[vma[s].hnd]
                                 /\ cls[s] # "DefragmentationContext" => vma[s].hnd \in live
                                 /\ cls[s] = "Allocation" => ClassOf[vma[s].hnd] = "Allocation"
         /\ s \in Alive => cls[s] \in Classes /\ Shaped(cls[s], vma[s], vk[s])
         /\ cls[s] \in VkClasses => vma[s].hnd = Null
         /\ cls[s] \in VmaClasses => vk[s].hnd = Null
<1>1. /\ cls[s] \in Classes \cup {"none"}
      /\ vma[s] \in CellType(VmaHandles) /\ vk[s] \in CellType(VkHandles)
  BY NativeFacts DEF IInv, TypeOK
<1>2. vma[s].hnd \in VmaHandles \cup {Null} /\ vk[s].hnd \in VkHandles \cup {Null}
  BY <1>1 DEF CellType
<1>3. vk[s].hnd # Null => cls[s] # "DefragmentationContext"
  BY DEF IInv, ObjectShape, VmaClasses
<1>4. s \in Alive => cls[s] \in Classes /\ Shaped(cls[s], vma[s], vk[s])
  BY <1>1 DEF IInv, TypeOK, ObjectShape, Shaped, Alive, Slots
<1>5. vma[s].hnd # Null => /\ vma[s] = Cell(parent[vma[s].hnd], vma[s].hnd)
                           /\ vma[s].own = parent[vma[s].hnd]
  BY OwnedCell
<1> QED BY <1>1, <1>2, <1>3, <1>4, <1>5
        DEF IInv, ObjectShape, HeldIsLive, OwnersKnown, Holds, VmaHandles, VkHandles, VmaClasses

LEMMA VkUnneeded ==
  ASSUME IInv, NEW h \in born, NEW g \in needs[h]
  PROVE  ClassOf[g] \notin VkClasses
BY DEF IInv, NeedsRecorded, VkClasses

LEMMA MoveConstructStep ==
  ASSUME IInv, NEW s \in Alive, MoveConstruct(s)
  PROVE  IInv'
<1> DEFINE c == cls[s]
           t == top + 1
<1>1. /\ Push(c) /\ Undepended(s) /\ UNCHANGED native
      /\ vma' = [vma EXCEPT ![s] = Empty, ![t] = vma[s]]
      /\ vk' = [vk EXCEPT ![s] = Empty, ![t] = vk[s]]
      /\ raw' = raw /\ fault' = fault /\ closing' = closing
  BY DEF MoveConstruct
<1>2. /\ s \in Slots /\ t \in Slots /\ s # t
  BY <1>1, RaiiAssumption DEF IInv, TypeOK, Alive, Slots, Push
<1>3. /\ c \in Classes /\ Shaped(c, vma[s], vk[s])
      /\ vma[s] \in CellType(VmaHandles) /\ vk[s] \in CellType(VkHandles)
  BY <1>2, HolderFacts, NativeFacts
<1>4. Empty \in CellType(VmaHandles) /\ Empty \in CellType(VkHandles)
  BY EmptyFacts
<1>5. /\ vma' \in [Slots -> CellType(VmaHandles)] /\ vk' \in [Slots -> CellType(VkHandles)]
      /\ \A o \in Slots : vma'[o] = IF o = t THEN vma[s] ELSE IF o \in {s} THEN Empty ELSE vma[o]
      /\ \A o \in Slots : vk'[o] = IF o = t THEN vk[s] ELSE IF o \in {s} THEN Empty ELSE vk[o]
  BY <1>1, <1>2, <1>3, <1>4, NativeFacts
<1>6. Taken({s}, {s}) = Holds(s)
  BY DEF Taken, Holds
<1>7. \A o \in Slots : \A h \in Holds(o) \ Holds(s) :
        needs'[h] = needs[h] /\ needs[h] \cap Holds(s) = {}
  BY <1>1, NativeKept DEF Undepended
<1>8. /\ {vma[s].hnd, vk[s].hnd} \ {Null} = {} \cup Holds(s)
      /\ Holds(s) \subseteq live \/ c = "DefragmentationContext"
      /\ {s} \in SUBSET Alive
  BY <1>2 DEF IInv, HeldIsLive, Holds
<1>9. Builds(c, vma[s], vk[s], {s}, {s}, {})
  <2> HIDE DEF c
  <2>1. /\ vma[s].hnd # Null => vma[s] = Cell(parent'[vma[s].hnd], vma[s].hnd)
        /\ vk[s].hnd # Null => vk[s].own = Dev
    BY <1>1, <1>2, NativeKept, HolderFacts
  <2> QED BY <1>1, <1>3, <1>5, <1>6, <1>7, <1>8, <2>1, NativeKept DEF Builds
<1> QED BY <1>9, BuildKeeps

LEMMA SliceStep ==
  ASSUME IInv, NEW s \in Alive, cls[s] \in CombinedClasses, Slice(s)
  PROVE  IInv'
<1> DEFINE c == BaseOf[cls[s]]
           t == top + 1
<1>1. /\ Push(c) /\ UNCHANGED native /\ vma' = vma
      /\ vk' = [vk EXCEPT ![s] = Empty, ![t] = vk[s]]
      /\ raw' = raw /\ fault' = fault /\ closing' = closing
      /\ c \in Classes /\ c \in VkClasses
  BY ClassesApart DEF Slice, Classes
<1>2. /\ s \in Slots /\ t \in Slots /\ s # t /\ vma[t].hnd = Null
  BY <1>1, PushFacts DEF Alive, Slots
<1>3. /\ Shaped(c, vma[t], vk[s])
      /\ vma[t] \in CellType(VmaHandles) /\ vk[s] \in CellType(VkHandles)
      /\ Empty \in CellType(VkHandles)
  BY <1>1, <1>2, HolderFacts, NativeFacts, ClassesApart, EmptyFacts DEF Shaped
<1>4. /\ vma' \in [Slots -> CellType(VmaHandles)] /\ vk' \in [Slots -> CellType(VkHandles)]
      /\ \A o \in Slots : vma'[o] = IF o = t THEN vma[t] ELSE IF o \in {} THEN Empty ELSE vma[o]
      /\ \A o \in Slots : vk'[o] = IF o = t THEN vk[s] ELSE IF o \in {s} THEN Empty ELSE vk[o]
  <2> HIDE DEF c
  <2> QED BY <1>1, <1>2, <1>3, NativeFacts
<1>5. Taken({}, {s}) = {vk[s].hnd} \ {Null}
  BY DEF Taken
<1>6. \A o \in Slots : \A h \in Holds(o) \ Taken({}, {s}) :
        needs'[h] = needs[h] /\ needs[h] \cap Taken({}, {s}) = {}
  <2>1. ASSUME NEW o \in Slots, NEW h \in Holds(o)
        PROVE  needs[h] \cap Taken({}, {s}) = {}
    <3>1. h \in born
      BY DEF IInv, HeldIsLive
    <3>2. \A g \in Taken({}, {s}) : ClassOf[g] \in VkClasses
      BY <1>2, <1>5, HolderFacts
    <3> QED BY <3>1, <3>2, VkUnneeded
  <2> QED BY <1>1, <2>1, NativeKept
<1>7. /\ {vma[t].hnd, vk[s].hnd} \ {Null} = {} \cup Taken({}, {s})
      /\ Taken({}, {s}) \subseteq live
      /\ {s} \in SUBSET Alive
      /\ vk[s].hnd # Null => vk[s].own = Dev
  BY <1>2, <1>5, HolderFacts
<1>8. Builds(c, vma[t], vk[s], {}, {s}, {})
  <2> HIDE DEF c
  <2> QED BY <1>1, <1>2, <1>3, <1>4, <1>6, <1>7, NativeKept DEF Builds
<1> QED BY <1>8, BuildKeeps

(* A resource bound to memory m needs what the memory needs, and it.       *)
LEMMA MemoryNeeds ==
  ASSUME IInv, NEW m \in live, ClassOf[m] = "Allocation"
  PROVE  /\ needs[m] \cup {m} \in SUBSET live
         /\ \A g \in needs[m] \cup {m} :
              ClassOf[g] \in {"Allocator", "Pool", "Allocation", "VirtualBlock"}
<1>1. m \in born
  BY DEF IInv, TypeOK
<1> QED BY <1>1 DEF IInv, UsersFirst, NeedsRecorded

LEMMA WrapVkKeeps ==
  ASSUME IInv, NEW c \in VkClasses, Push(c),
         NEW r \in Fresh(c), NEW S \in SUBSET live,
         \A g \in S : ClassOf[g] \in {"Allocator", "Pool", "Allocation", "VirtualBlock"},
         Bear(r, Dev, S),
         vk' = [vk EXCEPT ![top + 1] = Cell(Dev, r)],
         UNCHANGED <<vma, raw, fault, closing>>
  PROVE  IInv'
<1> DEFINE t == top + 1
           w == Cell(Dev, r)
<1>1. /\ c \in Classes /\ r \in VkHandles /\ r \in Handles /\ r \notin born
      /\ ClassOf[r] = c /\ ClassOf[r] # "Allocator" /\ r # Null
  BY RaiiAssumption DEF Classes, Fresh, VkHandles, VkClasses
<1>2. t \in Slots /\ vma[t].hnd = Null /\ vma[t] \in CellType(VmaHandles)
  BY <1>1, PushFacts, NativeFacts
<1>3. /\ NativeType' /\ NeedsRecorded' /\ UsersFirst'
      /\ born' = born \cup {r} /\ live' = live \cup {r}
      /\ parent'[r] = Dev
      /\ \A g \in born : needs'[g] = needs[g] /\ parent'[g] = parent[g]
  BY <1>1, NativeFacts, BearKeeps
<1>4. w \in CellType(VkHandles) /\ w.own = Dev /\ w.hnd = r
  BY <1>1, CellFacts
<1>5. /\ Shaped(c, vma[t], w)
      /\ vma' \in [Slots -> CellType(VmaHandles)] /\ vk' \in [Slots -> CellType(VkHandles)]
      /\ \A o \in Slots : vma'[o] = IF o = t THEN vma[t] ELSE IF o \in {} THEN Empty ELSE vma[o]
      /\ \A o \in Slots : vk'[o] = IF o = t THEN w ELSE IF o \in {} THEN Empty ELSE vk[o]
  <2> HIDE DEF w, t
  <2> QED BY <1>1, <1>2, <1>4, NativeFacts, ClassesApart DEF Shaped, w, t
<1>6. /\ {} \in SUBSET Alive /\ {r} \in SUBSET Handles /\ {r} \cap born = {}
      /\ {vma[t].hnd, w.hnd} \ {Null} = {r} \cup Taken({}, {})
      /\ Taken({}, {}) \subseteq live
  BY <1>1, <1>2, <1>4, NoneTaken
<1>7. \A o \in Slots : \A g \in Holds(o) \ Taken({}, {}) :
        needs'[g] = needs[g] /\ needs[g] \cap Taken({}, {}) = {}
  BY <1>1, <1>3, NoneTaken, HoldsType DEF IInv, HeldIsLive
<1>8. \A g \in born : parent'[g] = parent[g]
  BY <1>1, <1>3, NativeFacts DEF NativeType
<1>9. Builds(c, vma[t], w, {}, {}, {r})
  <2> HIDE DEF w
  <2> QED BY <1>1, <1>2, <1>3, <1>4, <1>5, <1>6, <1>7, <1>8 DEF Builds
<1> QED BY <1>9, BuildKeeps

LEMMA CreateVkStep ==
  ASSUME IInv, NEW c \in VkClasses, CreateVk(c)
  PROVE  IInv'
<1>1. PICK r \in Fresh(c) : vk' = [vk EXCEPT ![top + 1] = Cell(Dev, r)] /\ Bear(r, Dev, {})
  BY DEF CreateVk
<1>2. Push(c) /\ UNCHANGED <<vma, raw, fault, closing>> /\ {} \in SUBSET live
  BY DEF CreateVk
<1> QED BY <1>1, <1>2, WrapVkKeeps

LEMMA CreateAliasingStep ==
  ASSUME IInv, NEW o \in Slots, cls[o] = "Allocator",
         NEW c \in VkClasses, CreateAliasing(c, o)
  PROVE  IInv'
<1>1. PICK r \in Fresh(c), m \in live :
        /\ ClassOf[m] = "Allocation"
        /\ vk' = [vk EXCEPT ![top + 1] = Cell(vma[o].own, r)]
        /\ Bear(r, Dev, needs[m] \cup {m})
  BY DEF CreateAliasing
<1>2. Push(c) /\ UNCHANGED <<vma, raw, fault, closing>> /\ vma[o].hnd # Null
  BY DEF CreateAliasing
<1>3. vma[o].own = Dev
  BY <1>2, WrapperFacts DEF VmaClasses
<1> DEFINE S == needs[m] \cup {m}
<1>4. /\ S \in SUBSET live
      /\ \A g \in S : ClassOf[g] \in {"Allocator", "Pool", "Allocation", "VirtualBlock"}
  BY <1>1, MemoryNeeds
<1>5. Bear(r, Dev, S)
  BY <1>1
<1> HIDE DEF S
<1> QED BY <1>1, <1>2, <1>3, <1>4, <1>5, WrapVkKeeps

(* Combining constructors keep the cells they take, or build a new one.    *)
LEMMA CombineAliasingStep ==
  ASSUME IInv, NEW o \in Slots, cls[o] = "Allocator", NEW s \in Alive,
         NEW c \in CombinedClasses, CombineAliasing(c, o, s)
  PROVE  IInv'
<1> DEFINE m == vma[s].hnd
           t == top + 1
           S == needs[m] \cup {m}
<1>1. /\ Push(c) /\ vma[o].hnd # Null /\ cls[s] = "Allocation" /\ m # Null
      /\ Undepended(s)
      /\ raw' = raw /\ fault' = fault /\ closing' = closing
  BY DEF CombineAliasing
<1>2. PICK r \in Fresh(BaseOf[c]) :
        /\ vma' = [vma EXCEPT ![s] = Empty, ![t] = vma[s]]
        /\ vk' = [vk EXCEPT ![t] = Cell(vma[o].own, r)]
        /\ Bear(r, Dev, S)
  BY DEF CombineAliasing
<1> DEFINE w == Cell(Dev, r)
<1>3. /\ c \in Classes /\ BaseOf[c] \in VkClasses
      /\ s \in Slots /\ t \in Slots /\ s # t /\ vk[t].hnd = Null
      /\ r \in VkHandles /\ r \in Handles /\ r \notin born /\ r # Null
      /\ ClassOf[r] = BaseOf[c] /\ ClassOf[r] # "Allocator"
  BY <1>1, ClassesApart, PushFacts, RaiiAssumption
     DEF Classes, Fresh, VkHandles, VkClasses, Alive, Slots
<1>4. m \in live /\ m \in born /\ ClassOf[m] = "Allocation" /\ vma[s] = Cell(parent[m], m)
      /\ vk[s].hnd = Null /\ vma[o].own = Dev
  BY <1>1, <1>3, HolderFacts, WrapperFacts DEF VmaClasses
<1>5. /\ S \in SUBSET live
      /\ \A g \in S : ClassOf[g] \in {"Allocator", "Pool", "Allocation", "VirtualBlock"}
  <2> HIDE DEF m
  <2> QED BY <1>4, MemoryNeeds
<1> HIDE DEF m, S
<1>6. /\ NativeType' /\ NeedsRecorded' /\ UsersFirst'
      /\ born' = born \cup {r} /\ live' = live \cup {r}
      /\ parent'[r] = Dev
      /\ \A g \in born : needs'[g] = needs[g] /\ parent'[g] = parent[g]
  BY <1>2, <1>3, <1>5, NativeFacts, BearKeeps
<1>7. /\ w \in CellType(VkHandles) /\ w.own = Dev /\ w.hnd = r
      /\ Empty \in CellType(VmaHandles) /\ vma[s] \in CellType(VmaHandles)
  BY <1>3, CellFacts, NativeFacts, EmptyFacts
<1>8. vk' = [vk EXCEPT ![t] = w]
  BY <1>2, <1>4
<1> HIDE DEF w
<1>9. /\ Shaped(c, vma[s], w)
      /\ vma' \in [Slots -> CellType(VmaHandles)] /\ vk' \in [Slots -> CellType(VkHandles)]
      /\ \A p \in Slots : vma'[p] = IF p = t THEN vma[s] ELSE IF p \in {s} THEN Empty ELSE vma[p]
      /\ \A p \in Slots : vk'[p] = IF p = t THEN w ELSE IF p \in {} THEN Empty ELSE vk[p]
  <2>1. Shaped(c, vma[s], w)
    BY <1>3, <1>4, <1>7, ClassesApart DEF Shaped, m
  <2> HIDE DEF t
  <2> QED BY <1>2, <1>3, <1>7, <1>8, <2>1, NativeFacts DEF t
<1>10. Taken({s}, {}) = {m} /\ Holds(s) = {m}
  BY <1>1, <1>4 DEF Taken, Holds, m
<1>11. \A p \in Slots : \A h \in Holds(p) \ Taken({s}, {}) :
         needs'[h] = needs[h] /\ needs[h] \cap Taken({s}, {}) = {}
  <2>1. ASSUME NEW p \in Slots, NEW h \in Holds(p), h # m
        PROVE  needs'[h] = needs[h] /\ needs[h] \cap {m} = {}
    <3>1. p # s
      BY <1>10, <2>1
    <3>2. h \in born /\ h \in Handles
      BY NativeFacts DEF IInv, HeldIsLive, NativeType
    <3> QED BY <1>1, <1>3, <1>6, <1>10, <3>1, <3>2 DEF Undepended
  <2> QED BY <1>10, <2>1
<1>12. /\ {s} \in SUBSET Alive /\ {} \in SUBSET Alive
       /\ {r} \in SUBSET Handles /\ {r} \cap born = {}
       /\ {vma[s].hnd, w.hnd} \ {Null} = {r} \cup Taken({s}, {})
       /\ Taken({s}, {}) \subseteq live
       /\ \A g \in born : parent'[g] = parent[g]
       /\ vma[s].hnd # Null => vma[s] = Cell(parent'[vma[s].hnd], vma[s].hnd)
  BY <1>1, <1>3, <1>4, <1>6, <1>7, <1>10 DEF m
<1>13. Builds(c, vma[s], w, {s}, {}, {r})
  BY <1>1, <1>3, <1>6, <1>7, <1>9, <1>11, <1>12 DEF Builds
<1> QED BY <1>13, BuildKeeps

LEMMA CombineAllocateStep ==
  ASSUME IInv, NEW o \in Slots, cls[o] = "Allocator", NEW s \in Alive,
         NEW c \in CombinedClasses, CombineAllocate(c, o, s)
  PROVE  IInv'
<1> DEFINE a == vma[o].hnd
           t == top + 1
<1>1. /\ Push(c) /\ a # Null /\ cls[s] = BaseOf[c] /\ vk[s].hnd # Null
      /\ raw' = raw /\ fault' = fault /\ closing' = closing
  BY DEF CombineAllocate
<1>2. PICK m \in Fresh("Allocation"), q \in PoolsOf(a) :
        /\ vma' = [vma EXCEPT ![t] = Cell(a, m)]
        /\ vk' = [vk EXCEPT ![s] = Empty, ![t] = vk[s]]
        /\ Bear(m, a, {a, q} \ {Null})
  BY DEF CombineAllocate
<1> DEFINE S == {a, q} \ {Null}
           u == Cell(a, m)
<1>3. /\ c \in Classes /\ BaseOf[c] \in VkClasses
      /\ s \in Slots /\ t \in Slots /\ s # t /\ vma[t].hnd = Null
      /\ m \in VmaHandles /\ m \in Handles /\ m \notin born /\ m # Null
      /\ ClassOf[m] = "Allocation"
  <2>1. c \in Classes /\ BaseOf[c] \in VkClasses
    BY ClassesApart DEF Classes
  <2>2. s \in Slots /\ t \in Slots /\ s # t /\ vma[t].hnd = Null
    BY <1>1, <2>1, PushFacts DEF Alive, Slots
  <2>3. /\ m \in VmaHandles /\ m \in Handles /\ m \notin born /\ m # Null
        /\ ClassOf[m] = "Allocation"
    <3> HIDE DEF a, t
    <3> QED BY <1>1, RaiiAssumption DEF Fresh, VmaHandles, VmaClasses
  <2> QED BY <2>1, <2>2, <2>3
<1>4. a \in live /\ ClassOf[a] = "Allocator" /\ a \in Handles
  BY <1>1, WrapperFacts DEF VmaClasses
<1>5. /\ S \in SUBSET live /\ a \in S \cup {Dev, Null}
      /\ \A g \in S : ClassOf[g] \in {"Allocator", "Pool", "Allocation", "VirtualBlock"}
  <2> HIDE DEF a
  <2> QED BY <1>1, <1>4, PoolFacts
<1>6. /\ u \in CellType(VmaHandles) /\ u.own = a /\ u.hnd = m
      /\ Empty \in CellType(VkHandles) /\ vk[s] \in CellType(VkHandles)
  BY <1>3, <1>4, CellFacts, NativeFacts, EmptyFacts
<1>7. vma' = [vma EXCEPT ![t] = u] /\ Bear(m, a, S)
  BY <1>2
<1> HIDE DEF a, S, u
<1>8. /\ NativeType' /\ NeedsRecorded' /\ UsersFirst'
      /\ born' = born \cup {m} /\ live' = live \cup {m}
      /\ parent'[m] = a
      /\ \A g \in born : needs'[g] = needs[g] /\ parent'[g] = parent[g]
  BY <1>3, <1>5, <1>7, NativeFacts, BearKeeps
<1>9. /\ vk[s].hnd \in live /\ ClassOf[vk[s].hnd] = BaseOf[c] /\ vk[s].own = Dev
      /\ Shaped(c, u, vk[s])
  <2>1. /\ vk[s].hnd \in live /\ vk[s].own = Dev
        /\ Shaped(cls[s], vma[s], vk[s])
    BY <1>1, <1>3, HolderFacts
  <2> QED BY <1>1, <1>3, <1>6, <2>1, ClassesApart DEF Shaped
<1>10. /\ vma' \in [Slots -> CellType(VmaHandles)] /\ vk' \in [Slots -> CellType(VkHandles)]
       /\ \A p \in Slots : vma'[p] = IF p = t THEN u ELSE IF p \in {} THEN Empty ELSE vma[p]
       /\ \A p \in Slots : vk'[p] = IF p = t THEN vk[s] ELSE IF p \in {s} THEN Empty ELSE vk[p]
  <2> HIDE DEF t
  <2> QED BY <1>2, <1>3, <1>6, <1>7, NativeFacts DEF t
<1>11. Taken({}, {s}) = {vk[s].hnd}
  BY <1>1 DEF Taken
<1>12. \A p \in Slots : \A h \in Holds(p) \ Taken({}, {s}) :
         needs'[h] = needs[h] /\ needs[h] \cap Taken({}, {s}) = {}
  <2>1. ASSUME NEW p \in Slots, NEW h \in Holds(p)
        PROVE  needs'[h] = needs[h] /\ vk[s].hnd \notin needs[h]
    <3>1. h \in born /\ h \in Handles
      BY NativeFacts DEF IInv, HeldIsLive, NativeType
    <3> QED BY <1>3, <1>8, <1>9, <3>1, VkUnneeded
  <2> QED BY <1>11, <2>1
<1>13. /\ {s} \in SUBSET Alive /\ {} \in SUBSET Alive
       /\ {m} \in SUBSET Handles /\ {m} \cap born = {}
       /\ {u.hnd, vk[s].hnd} \ {Null} = {m} \cup Taken({}, {s})
       /\ Taken({}, {s}) \subseteq live
       /\ \A g \in born : parent'[g] = parent[g]
       /\ u.hnd # Null => u = Cell(parent'[u.hnd], u.hnd)
  BY <1>1, <1>3, <1>6, <1>8, <1>9, <1>11 DEF u
<1>14. Builds(c, u, vk[s], {}, {s}, {m})
  BY <1>1, <1>3, <1>6, <1>8, <1>9, <1>10, <1>12, <1>13 DEF Builds
<1> QED BY <1>14, BuildKeeps

LEMMA CombineBindStep ==
  ASSUME IInv, NEW a \in Alive, cls[a] = "Allocation", NEW s \in Alive,
         NEW c \in CombinedClasses, CombineBind(c, a, s)
  PROVE  IInv'
<1> DEFINE m == vma[a].hnd
           r == vk[s].hnd
           t == top + 1
<1>1. /\ Push(c) /\ m # Null /\ cls[s] = BaseOf[c] /\ r # Null /\ needs[r] = {}
      /\ Undepended(a)
      /\ vma' = [vma EXCEPT ![a] = Empty, ![t] = vma[a]]
      /\ vk' = [vk EXCEPT ![s] = Empty, ![t] = vk[s]]
      /\ needs' = [needs EXCEPT ![r] = needs[m] \cup {m}]
      /\ UNCHANGED <<born, live, parent>>
      /\ raw' = raw /\ fault' = fault /\ closing' = closing
  BY DEF CombineBind
<1>2. /\ c \in Classes /\ BaseOf[c] \in VkClasses
      /\ a \in Slots /\ s \in Slots /\ t \in Slots /\ a # t /\ s # t
  BY <1>1, ClassesApart, PushFacts DEF Classes, Alive, Slots
<1>3. /\ m \in live /\ ClassOf[m] = "Allocation" /\ vma[a] = Cell(parent[m], m)
      /\ vk[a].hnd = Null
      /\ r \in live /\ ClassOf[r] \in VkClasses /\ vk[s].own = Dev
      /\ Shaped(c, vma[a], vk[s])
  <2>1. /\ m \in live /\ ClassOf[m] = "Allocation" /\ vma[a] = Cell(parent[m], m)
        /\ vk[a].hnd = Null
    BY <1>1, <1>2, HolderFacts DEF VmaClasses
  <2>2. /\ r \in live /\ ClassOf[r] \in VkClasses /\ vk[s].own = Dev
        /\ Shaped(cls[s], vma[s], vk[s])
    BY <1>1, <1>2, HolderFacts
  <2> QED BY <1>1, <1>2, <2>1, <2>2, ClassesApart DEF Shaped
<1>4. /\ NativeType' /\ NeedsRecorded' /\ UsersFirst'
      /\ \A g \in born : g # r => needs'[g] = needs[g]
  <2> HIDE DEF m, r
  <2> QED BY <1>1, <1>3, NativeFacts, BindKeeps DEF NativeType
<1>5. /\ vma' \in [Slots -> CellType(VmaHandles)] /\ vk' \in [Slots -> CellType(VkHandles)]
      /\ \A p \in Slots : vma'[p] = IF p = t THEN vma[a] ELSE IF p \in {a} THEN Empty ELSE vma[p]
      /\ \A p \in Slots : vk'[p] = IF p = t THEN vk[s] ELSE IF p \in {s} THEN Empty ELSE vk[p]
      /\ vma[a] \in CellType(VmaHandles) /\ vk[s] \in CellType(VkHandles)
  <2>1. Empty \in CellType(VmaHandles) /\ Empty \in CellType(VkHandles)
    BY EmptyFacts
  <2> HIDE DEF t, m, r
  <2> QED BY <1>1, <1>2, <2>1, NativeFacts DEF t
<1>6. Taken({a}, {s}) = {m, r} /\ Holds(a) = {m}
  BY <1>1, <1>3 DEF Taken, Holds
<1> HIDE DEF m, r
<1>7. \A p \in Slots : \A h \in Holds(p) \ Taken({a}, {s}) :
        needs'[h] = needs[h] /\ needs[h] \cap Taken({a}, {s}) = {}
  <2>1. ASSUME NEW p \in Slots, NEW h \in Holds(p), h # m, h # r
        PROVE  needs'[h] = needs[h] /\ needs[h] \cap {m, r} = {}
    <3>1. p # a
      BY <1>6, <2>1
    <3>2. h \in born
      BY DEF IInv, HeldIsLive
    <3>3. m \notin needs[h]
      BY <1>1, <1>2, <1>6, <3>1 DEF Undepended
    <3>4. r \notin needs[h]
      BY <1>3, <3>2, VkUnneeded
    <3> QED BY <1>4, <2>1, <3>2, <3>3, <3>4
  <2> QED BY <1>6, <2>1
<1>8. /\ {a} \in SUBSET Alive /\ {s} \in SUBSET Alive
      /\ {vma[a].hnd, vk[s].hnd} \ {Null} = {} \cup Taken({a}, {s})
      /\ Taken({a}, {s}) \subseteq live
      /\ vma[a].hnd # Null => vma[a] = Cell(parent'[vma[a].hnd], vma[a].hnd)
  BY <1>1, <1>3, <1>6 DEF m, r
<1>9. Builds(c, vma[a], vk[s], {a}, {s}, {})
  BY <1>1, <1>2, <1>3, <1>4, <1>5, <1>7, <1>8 DEF Builds
<1> QED BY <1>9, BuildKeeps

-----------------------------------------------------------------------------
(* Members that empty an object: what it held is dead, or the client's.    *)

Empties(o) ==
  /\ vma' = [vma EXCEPT ![o] = Empty] /\ vk' = [vk EXCEPT ![o] = Empty]
  /\ closing' = closing /\ fault' = fault
  /\ born' = born /\ parent' = parent /\ needs' = needs
  /\ live' \ raw' = (live \ raw) \ Holds(o)
  /\ raw' \subseteq (raw \cup Holds(o)) \cap live'
  /\ live' \subseteq live /\ live \ Holds(o) \subseteq live'

LEMMA EmptyKeeps ==
  ASSUME IInv, NEW o \in Slots, Empties(o), UsersFirst',
         \/ UNCHANGED <<top, cls>>
         \/ o = top /\ top' = top - 1 /\ cls' = [cls EXCEPT ![o] = "none"]
  PROVE  IInv'
<1> USE DEF Empties
<1>1. /\ top' \in 0 .. N /\ cls' \in [Slots -> Classes \cup {"none"}]
      /\ \A p \in Slots : p # o => cls'[p] = cls[p]
      /\ cls'[o] \in {cls[o], "none"}
  BY RaiiAssumption DEF IInv, TypeOK, Slots
<1>2. Empty \in CellType(VmaHandles) /\ Empty \in CellType(VkHandles) /\ Empty.hnd = Null
  BY EmptyFacts
<1>3. /\ vma' \in [Slots -> CellType(VmaHandles)] /\ vk' \in [Slots -> CellType(VkHandles)]
      /\ \A p \in Slots : vma'[p] = IF p = o THEN Empty ELSE vma[p]
      /\ \A p \in Slots : vk'[p] = IF p = o THEN Empty ELSE vk[p]
  BY <1>2, NativeFacts
<1>4. TypeOK'
  BY <1>1, <1>3 DEF IInv, TypeOK
<1>5. ObjectShape'
  <2> SUFFICES ASSUME NEW p \in Slots
               PROVE  /\ cls'[p] = "none" <=> p > top'
                      /\ cls'[p] = "none" => vma'[p].hnd = Null /\ vk'[p].hnd = Null
                      /\ Shaped(cls'[p], vma'[p], vk'[p])
    BY DEF ObjectShape, Shaped
  <2>1. /\ cls[p] = "none" <=> p > top
        /\ cls[p] = "none" => vma[p].hnd = Null /\ vk[p].hnd = Null
        /\ Shaped(cls[p], vma[p], vk[p])
    BY DEF IInv, ObjectShape, Shaped
  <2>2. cls'[p] = "none" <=> p > top'
    BY <2>1, RaiiAssumption DEF IInv, TypeOK, Slots
  <2> QED BY <1>1, <1>2, <1>3, <2>1, <2>2, ClassesApart DEF Shaped
<1>6. OwnersKnown'
  BY <1>2, <1>3 DEF IInv, OwnersKnown
<1>7. \A p \in Slots : Holds(p)' = IF p = o THEN {} ELSE Holds(p)
  BY <1>2, <1>3 DEF Holds
<1>8. NeedsRecorded'
  BY DEF IInv, NeedsRecorded
<1>9. HeldIsLive'
  BY <1>1, <1>7 DEF IInv, HeldIsLive, OneOwner
<1>10. OneOwner'
  <2>1. \A h : h \in Held' <=> \E p \in Slots : h \in Holds(p)'
    BY DEF Held
  <2>2. live' \subseteq Held' \cup raw'
    BY <1>7, <2>1, HeldIff DEF IInv, OneOwner
  <2>3. Held' \cap raw' = {}
    BY <1>7, <2>1, HeldIff DEF IInv, OneOwner
  <2>4. \A p, q \in Slots : p # q => Holds(p)' \cap Holds(q)' = {}
    BY <1>7 DEF IInv, OneOwner
  <2> QED BY <2>2, <2>3, <2>4 DEF OneOwner
<1>11. Outlives'
  BY <1>7 DEF IInv, Outlives
<1> QED BY <1>4, <1>5, <1>6, <1>8, <1>9, <1>10, <1>11 DEF IInv, NoFault

LEMMA ReleaseStep ==
  ASSUME IInv, NEW o \in Slots, Release(o)
  PROVE  IInv'
<1>1. Empties(o)
  BY DEF Empties, Release, native, IInv, TypeOK
<1>2. UsersFirst' /\ UNCHANGED <<top, cls>>
  BY DEF Release, native, IInv, UsersFirst
<1> QED BY <1>1, <1>2, EmptyKeeps

(* The destroy call for what an object holds is never a bad one.           *)
LEMMA DestroyIsGood ==
  ASSUME IInv, NEW o \in Slots, Holds(o) \subseteq live
  PROVE  ~BadDestroy(o) /\ ~BadVmaCall(o)
<1>1. /\ vma[o].hnd # Null => vma[o].hnd \in live
      /\ vk[o].hnd # Null => vk[o].hnd \in live
  BY DEF Holds
<1>2. ~BadVmaCall(o)
  <2> SUFFICES ASSUME vma[o].hnd # Null
               PROVE  parent[vma[o].hnd] \in live \cup {Dev, Null}
    BY <1>1, OwnedCell DEF BadVmaCall
  <2>1. vma[o].hnd \in live /\ vma[o].hnd \in born
    BY <1>1, HolderFacts
  <2> QED BY <2>1 DEF IInv, NeedsRecorded, UsersFirst
<1>3. ~BadVkCall(o) /\ vk[o].hnd \in live \cup {Null}
  BY <1>1, HolderFacts DEF BadVkCall
<1> QED BY <1>2, <1>3 DEF BadDestroy, BadCombinedCall

LEMMA DestroyKeeps ==
  ASSUME IInv, NEW o \in Slots, CarefulClient, Careful(o), DestroyHeld(o), Unneeded(Holds(o))
  PROVE  /\ Holds(o) \subseteq live
         /\ fault' = fault /\ live' = live \ Holds(o)
         /\ born' = born /\ parent' = parent /\ needs' = needs
         /\ UsersFirst'
<1>1. Holds(o) \subseteq live
  BY DEF IInv, HeldIsLive, Careful
<1>2. fault' = fault
  BY <1>1, DestroyIsGood DEF DestroyHeld, IInv, TypeOK
<1> QED BY <1>1, <1>2 DEF DestroyHeld, Kill, Unneeded, IInv, UsersFirst

LEMMA ClearStep ==
  ASSUME IInv, CarefulClient, NEW o \in Slots, Clear(o)
  PROVE  IInv'
<1>1. Careful(o) /\ DestroyHeld(o) /\ Unneeded(Holds(o))
  BY DEF Clear
<1>2. Holds(o) \cap raw = {}
  BY HeldIff DEF IInv, OneOwner
<1>3. Empties(o)
  BY <1>1, <1>2, DestroyKeeps DEF Empties, Clear, IInv, TypeOK
<1>4. UsersFirst' /\ UNCHANGED <<top, cls>>
  BY <1>1, DestroyKeeps DEF Clear
<1> QED BY <1>3, <1>4, EmptyKeeps

(* The stack order of destructors: no older object needs the youngest.     *)
LEMMA TopUnneeded ==
  ASSUME IInv, NEW o \in Slots, o = top, NoRawUserOf(Holds(o))
  PROVE  Unneeded(Holds(o))
<1> SUFFICES ASSUME NEW h \in live \ Holds(o), needs[h] \cap Holds(o) # {}
             PROVE  FALSE
  BY DEF Unneeded
<1>1. CASE h \in raw
  BY <1>1 DEF NoRawUserOf
<1>2. CASE h \notin raw
  <2>1. h \in Held
    BY <1>2 DEF IInv, OneOwner
  <2>2. PICK p \in Slots : h \in Holds(p)
    BY <2>1, HeldIff
  <2>3. o <= p /\ p # o
    BY <2>2 DEF IInv, Outlives
  <2>4. cls[p] = "none"
    BY <2>3 DEF IInv, ObjectShape, Slots, TypeOK
  <2>5. Holds(p) = {}
    BY <2>4 DEF IInv, ObjectShape, Holds
  <2> QED BY <2>2, <2>5
<1> QED BY <1>1, <1>2

LEMMA DestructStep ==
  ASSUME IInv, CarefulClient, NEW o \in Slots, Destruct(o)
  PROVE  IInv'
<1>1. Careful(o) /\ DestroyHeld(o) /\ Unneeded(Holds(o))
  BY TopUnneeded DEF Destruct
<1>2. Holds(o) \cap raw = {}
  BY HeldIff DEF IInv, OneOwner
<1>3. Empties(o)
  BY <1>1, <1>2, DestroyKeeps DEF Empties, Destruct, IInv, TypeOK
<1>4. UsersFirst' /\ o = top /\ top' = top - 1 /\ cls' = [cls EXCEPT ![o] = "none"]
  BY <1>1, DestroyKeeps DEF Destruct
<1> QED BY <1>3, <1>4, EmptyKeeps

-----------------------------------------------------------------------------
(* Members that leave every object what it holds, or exchange it.          *)

LEMMA SwapStep ==
  ASSUME IInv, NEW d \in Alive, NEW s \in Alive, Swap(d, s)
  PROVE  IInv'
<1>1. /\ d # s /\ cls[d] = cls[s]
      /\ vma' = [vma EXCEPT ![d] = vma[s], ![s] = vma[d]]
      /\ vk' = [vk EXCEPT ![d] = vk[s], ![s] = vk[d]]
      /\ top' = top /\ cls' = cls /\ raw' = raw /\ fault' = fault /\ closing' = closing
      /\ UNCHANGED native /\ Outlives'
  BY DEF Swap
<1>2. d \in Slots /\ s \in Slots
  BY RaiiAssumption DEF IInv, TypeOK, Alive, Slots
<1> DEFINE x(p) == IF p = d THEN s ELSE IF p = s THEN d ELSE p
<1>3. \A p \in Slots : /\ vma'[p] = vma[x(p)] /\ vk'[p] = vk[x(p)]
                       /\ x(p) \in Slots /\ x(x(p)) = p /\ cls[p] = cls[x(p)]
  BY <1>1, <1>2, NativeFacts
<1>4. /\ NativeType' /\ NeedsRecorded' /\ UsersFirst'
      /\ born' = born /\ live' = live /\ needs' = needs /\ parent' = parent
  BY <1>1, NativeKept
<1>5. TypeOK'
  <2>1. vma' \in [Slots -> CellType(VmaHandles)] /\ vk' \in [Slots -> CellType(VkHandles)]
    BY <1>1, <1>2, NativeFacts
  <2> QED BY <1>1, <1>4, <2>1 DEF IInv, TypeOK
<1> HIDE DEF x
<1>6. ObjectShape'
  <2> SUFFICES ASSUME NEW p \in Slots
               PROVE  /\ cls'[p] = "none" <=> p > top'
                      /\ cls'[p] = "none" => vma'[p].hnd = Null /\ vk'[p].hnd = Null
                      /\ Shaped(cls'[p], vma'[p], vk'[p])
    BY DEF ObjectShape, Shaped
  <2>1. \A q \in Slots : /\ cls[q] = "none" <=> q > top
                         /\ cls[q] = "none" => vma[q].hnd = Null /\ vk[q].hnd = Null
                         /\ Shaped(cls[q], vma[q], vk[q])
    BY DEF IInv, ObjectShape, Shaped
  <2> QED BY <1>1, <1>3, <2>1
<1>7. OwnersKnown'
  BY <1>3, <1>4 DEF IInv, OwnersKnown
<1>8. \A p \in Slots : Holds(p)' = Holds(x(p))
  BY <1>3 DEF Holds
<1>9. HeldIsLive'
  BY <1>1, <1>3, <1>4, <1>8 DEF IInv, HeldIsLive
<1>10. OneOwner'
  <2>1. \A h : h \in Held' <=> \E p \in Slots : h \in Holds(p)'
    BY DEF Held
  <2>2. Held' = Held
    BY <1>3, <1>8, <2>1, HeldIff
  <2>3. \A p, q \in Slots : p # q => Holds(p)' \cap Holds(q)' = {}
    BY <1>3, <1>8 DEF IInv, OneOwner
  <2> QED BY <1>1, <1>4, <2>2, <2>3 DEF IInv, OneOwner
<1> QED BY <1>1, <1>4, <1>5, <1>6, <1>7, <1>9, <1>10 DEF IInv, NoFault

(* Only the Vulkan subobjects of a combined object and of another object   *)
(* that has one of the same class change places.                           *)
LEMMA SwapBaseStep ==
  ASSUME IInv, NEW d \in Alive, NEW s \in Alive, SwapBase(d, s)
  PROVE  IInv'
<1>1. /\ d # s /\ cls[d] \in CombinedClasses /\ cls[s] \in {cls[d], BaseOf[cls[d]]}
      /\ vma' = vma /\ vk' = [vk EXCEPT ![d] = vk[s], ![s] = vk[d]]
      /\ top' = top /\ cls' = cls /\ raw' = raw /\ fault' = fault /\ closing' = closing
      /\ UNCHANGED native /\ Outlives'
  BY DEF SwapBase
<1>2. d \in Slots /\ s \in Slots
  BY RaiiAssumption DEF IInv, TypeOK, Alive, Slots
<1> DEFINE x(p) == IF p = d THEN s ELSE IF p = s THEN d ELSE p
<1>3. \A p \in Slots : vk'[p] = vk[x(p)] /\ x(p) \in Slots /\ x(x(p)) = p
  BY <1>1, <1>2, NativeFacts
<1>4. /\ NativeType' /\ NeedsRecorded' /\ UsersFirst'
      /\ born' = born /\ live' = live /\ needs' = needs /\ parent' = parent
  BY <1>1, NativeKept
<1>5. TypeOK'
  <2>1. vk' \in [Slots -> CellType(VkHandles)]
    BY <1>1, <1>2, NativeFacts
  <2> QED BY <1>1, <1>4, <2>1 DEF IInv, TypeOK
<1>6. \A q \in Slots : /\ cls[q] = "none" <=> q > top
                       /\ cls[q] = "none" => vma[q].hnd = Null /\ vk[q].hnd = Null
                       /\ Shaped(cls[q], vma[q], vk[q])
  BY DEF IInv, ObjectShape, Shaped
<1>7. /\ Shaped(cls[d], vma[d], vk[s]) /\ Shaped(cls[s], vma[s], vk[d])
      /\ cls[d] # "none" /\ cls[s] # "none"
      /\ cls[d] # "DefragmentationContext" /\ cls[s] # "DefragmentationContext"
  <2>1. CASE cls[s] = cls[d]
    BY <1>1, <1>2, <1>6, <2>1, ClassesApart DEF Shaped, CombinedClasses
  <2>2. CASE cls[s] = BaseOf[cls[d]]
    <3>1. cls[s] \in VkClasses
      BY <1>1, <2>2, ClassesApart
    <3> QED BY <1>1, <1>2, <1>6, <2>2, <3>1, ClassesApart DEF Shaped, CombinedClasses, VkClasses
  <2> QED BY <1>1, <2>1, <2>2
<1>8. ObjectShape'
  <2> SUFFICES ASSUME NEW p \in Slots
               PROVE  /\ cls'[p] = "none" <=> p > top'
                      /\ cls'[p] = "none" => vma'[p].hnd = Null /\ vk'[p].hnd = Null
                      /\ Shaped(cls'[p], vma'[p], vk'[p])
    BY DEF ObjectShape, Shaped
  <2> HIDE DEF x
  <2>1. CASE p = d
    BY <1>1, <1>3, <1>6, <1>7, <2>1 DEF x
  <2>2. CASE p = s
    BY <1>1, <1>3, <1>6, <1>7, <2>2 DEF x
  <2>3. CASE p # d /\ p # s
    BY <1>1, <1>3, <1>6, <2>3 DEF x
  <2> QED BY <2>1, <2>2, <2>3
<1> HIDE DEF x
<1>9. OwnersKnown'
  BY <1>1, <1>3, <1>4 DEF IInv, OwnersKnown
<1>10. \A p \in Slots : Holds(p)' = {vma[p].hnd, vk[x(p)].hnd} \ {Null}
  BY <1>1, <1>3 DEF Holds
<1>11. \A o, q \in Slots : /\ vma[o].hnd # Null /\ vma[o].hnd = vma[q].hnd => o = q
                           /\ vk[o].hnd # Null /\ vk[o].hnd = vk[q].hnd => o = q
                           /\ vma[o].hnd # Null => vma[o].hnd # vk[q].hnd
  BY HeldApart
<1>12. HeldIsLive'
  <2>1. \A p \in Slots : /\ vk[p].hnd # Null => vk[p].hnd \in live
                         /\ vma[p].hnd # Null => vma[p].hnd \in born
                         /\ cls[p] # "DefragmentationContext" /\ vma[p].hnd # Null =>
                              vma[p].hnd \in live
    BY HolderFacts
  <2>2. live \subseteq born
    BY DEF IInv, TypeOK
  <2> QED BY <1>1, <1>3, <1>4, <1>10, <2>1, <2>2 DEF HeldIsLive
<1>13. OneOwner'
  <2>1. \A h : h \in Held' <=> \E p \in Slots : h \in Holds(p)'
    BY DEF Held
  <2>2. \A h : h \in Held <=> \E p \in Slots : h \in {vma[p].hnd, vk[p].hnd} \ {Null}
    BY HeldIff DEF Holds
  <2>3. Held' = Held
    <3>1. ASSUME NEW h \in Held'
          PROVE  h \in Held
      BY <1>3, <1>10, <2>1, <2>2, <3>1
    <3>2. ASSUME NEW h \in Held
          PROVE  h \in Held'
      <4>1. PICK p \in Slots : h \in {vma[p].hnd, vk[p].hnd} \ {Null}
        BY <2>2
      <4>2. x(p) \in Slots /\ vk[x(x(p))] = vk[p]
        BY <1>3
      <4>3. h \in Holds(p)' \/ h \in Holds(x(p))'
        BY <1>10, <4>1, <4>2
      <4> QED BY <2>1, <4>2, <4>3
    <3> QED BY <3>1, <3>2
  <2>4. \A p, q \in Slots : p # q => Holds(p)' \cap Holds(q)' = {}
    <3> SUFFICES ASSUME NEW p \in Slots, NEW q \in Slots, p # q, NEW h,
                        h \in Holds(p)', h \in Holds(q)'
                 PROVE  FALSE
      OBVIOUS
    <3>1. x(p) \in Slots /\ x(q) \in Slots /\ x(p) # x(q)
      BY <1>3
    <3>2. h # Null /\ h \in {vma[p].hnd, vk[x(p)].hnd} /\ h \in {vma[q].hnd, vk[x(q)].hnd}
      BY <1>10
    <3> QED BY <1>11, <3>1, <3>2
  <2> QED BY <1>1, <1>4, <2>3, <2>4 DEF IInv, OneOwner
<1> QED BY <1>1, <1>4, <1>5, <1>8, <1>9, <1>12, <1>13 DEF IInv, NoFault

LEMMA BindStep ==
  ASSUME IInv, NEW a \in Alive, NEW s \in Alive, Bind(a, s),
         cls[a] # "DefragmentationContext"
  PROVE  IInv'
<1> DEFINE m == vma[a].hnd
           r == vk[s].hnd
<1>1. /\ m # Null /\ ClassOf[m] = "Allocation" /\ r # Null /\ needs[r] = {}
      /\ needs' = [needs EXCEPT ![r] = needs[m] \cup {m}]
      /\ UNCHANGED <<top, cls, vma, vk, born, live, parent, raw, fault, closing>>
      /\ Outlives'
  BY DEF Bind, objects
<1>2. a \in Slots /\ s \in Slots
  BY RaiiAssumption DEF IInv, TypeOK, Alive, Slots
<1>3. m \in live /\ r \in live /\ ClassOf[r] \in VkClasses
  BY <1>1, <1>2, HolderFacts
<1> HIDE DEF m, r
<1>4. NativeType' /\ NeedsRecorded' /\ UsersFirst'
  BY <1>1, <1>3, NativeFacts, BindKeeps
<1>5. TypeOK' /\ NoFault'
  BY <1>1, <1>4 DEF IInv, TypeOK, NativeType, NoFault
<1>6. ObjectShape' /\ OwnersKnown'
  BY <1>1 DEF IInv, ObjectShape, OwnersKnown
<1>7. HeldIsLive' /\ OneOwner'
  BY <1>1 DEF IInv, HeldIsLive, OneOwner, Held, Holds
<1> QED BY <1>1, <1>4, <1>5, <1>6, <1>7 DEF IInv

(* Destroying what no object holds, or an ended context: objects unchanged.*)
LEMMA ObjectsKept ==
  ASSUME IInv, UNCHANGED <<objects, fault, closing>>, NEW S, Kill(S), Unneeded(S),
         raw' = raw \ S,
         \A o \in Slots : cls[o] # "DefragmentationContext" => Holds(o) \cap S = {}
  PROVE  IInv'
<1>1. NativeType' /\ NeedsRecorded' /\ UsersFirst'
  BY NativeFacts, KillKeeps
<1>2. /\ top' = top /\ cls' = cls /\ vma' = vma /\ vk' = vk
      /\ born' = born /\ parent' = parent /\ needs' = needs /\ live' = live \ S
  BY DEF objects, Kill
<1>3. TypeOK' /\ NoFault'
  BY <1>1, <1>2 DEF IInv, TypeOK, NativeType, NoFault
<1>4. ObjectShape' /\ OwnersKnown'
  BY <1>2 DEF IInv, ObjectShape, OwnersKnown
<1>5. \A o \in Slots : Holds(o)' = Holds(o)
  BY <1>2 DEF Holds
<1>6. Held' = Held
  BY <1>2 DEF Held, Holds
<1>7. HeldIsLive' /\ OneOwner' /\ Outlives'
  BY <1>2, <1>5, <1>6 DEF IInv, HeldIsLive, OneOwner, Outlives
<1> QED BY <1>1, <1>3, <1>4, <1>7 DEF IInv

LEMMA EndDefragmentationStep ==
  ASSUME IInv, CarefulClient, NEW o \in Slots, cls[o] = "DefragmentationContext",
         EndDefragmentation(o)
  PROVE  IInv'
<1> DEFINE S == {vma[o].hnd}
<1>1. /\ UNCHANGED <<objects, closing>> /\ raw' = raw /\ Kill(S)
      /\ vma[o].hnd # Null /\ Careful(o)
      /\ fault' = (fault \/ BadVmaCall(o))
  BY DEF EndDefragmentation
<1>2. Holds(o) \subseteq live
  BY <1>1 DEF Careful
<1>3. fault' = fault
  BY <1>1, <1>2, DestroyIsGood DEF IInv, TypeOK
<1>4. ClassOf[vma[o].hnd] = "DefragmentationContext" /\ vma[o].hnd \in Holds(o)
  BY <1>1 DEF IInv, ObjectShape, VmaClasses, Holds
<1>5. Unneeded(S)
  BY <1>4 DEF Unneeded, IInv, NeedsRecorded, TypeOK
<1>6. vma[o].hnd \notin raw
  BY <1>4, HeldIff DEF IInv, OneOwner
<1>7. \A p \in Slots : cls[p] # "DefragmentationContext" => Holds(p) \cap S = {}
  BY <1>4 DEF IInv, OneOwner
<1> HIDE DEF S
<1>8. raw' = raw \ S
  BY <1>1, <1>6 DEF S
<1> QED BY <1>1, <1>3, <1>5, <1>7, <1>8, ObjectsKept

LEMMA ClearBlockStep ==
  ASSUME IInv, CarefulClient, NEW o \in Slots, ClearBlock(o)
  PROVE  IInv'
<1> DEFINE S == {h \in live : ClassOf[h] = "VirtualAllocation" /\ parent[h] = vma[o].hnd}
<1>1. UNCHANGED <<objects, fault, closing>> /\ raw' = raw \ S /\ Kill(S) /\ S \cap Held = {}
  BY DEF ClearBlock
<1>2. Unneeded(S)
  BY DEF Unneeded, IInv, NeedsRecorded, TypeOK
<1>3. \A p \in Slots : Holds(p) \cap S = {}
  BY <1>1, HeldIff
<1> HIDE DEF S
<1> QED BY <1>1, <1>2, <1>3, ObjectsKept

LEMMA FreeRawStep ==
  ASSUME IInv, NEW h \in Handles, FreeRaw(h)
  PROVE  IInv'
<1>1. \A p \in Slots : Holds(p) \cap {h} = {}
  BY HeldIff DEF FreeRaw, IInv, OneOwner
<1> QED BY <1>1, ObjectsKept DEF FreeRaw

LEMMA ExitStep ==
  ASSUME IInv, Exit
  PROVE  IInv'
<1>1. UNCHANGED <<top, cls, vma, vk, born, live, parent, needs, raw, fault>> /\ closing' = TRUE
  BY DEF Exit, objects, native
<1>2. TypeOK' /\ NoFault'
  BY <1>1 DEF IInv, TypeOK, NoFault
<1>3. ObjectShape' /\ OwnersKnown' /\ NeedsRecorded' /\ UsersFirst'
  BY <1>1 DEF IInv, ObjectShape, OwnersKnown, NeedsRecorded, UsersFirst
<1>4. HeldIsLive' /\ OneOwner' /\ Outlives'
  BY <1>1 DEF IInv, HeldIsLive, OneOwner, Outlives, Held, Holds
<1> QED BY <1>2, <1>3, <1>4 DEF IInv

(* split() builds two objects: memory first, the resource on top of it.    *)
LEMMA SplitStep ==
  ASSUME IInv, NEW s \in Alive, cls[s] \in CombinedClasses, Split(s)
  PROVE  IInv'
<1> DEFINE t == top + 1
           v == top + 2
           m == vma[s].hnd
           r == vk[s].hnd
           b == BaseOf[cls[s]]
<1>1. /\ Undepended(s) /\ UNCHANGED native
      /\ top' = v /\ cls' = [cls EXCEPT ![t] = "Allocation", ![v] = b]
      /\ vma' = [vma EXCEPT ![s] = Empty, ![t] = vma[s]]
      /\ vk' = [vk EXCEPT ![s] = Empty, ![v] = vk[s]]
      /\ raw' = raw /\ fault' = fault /\ closing' = closing
  BY DEF Split
<1>2. /\ top \in Nat /\ top' \in 0 .. N
      /\ s \in Slots /\ t \in Slots /\ v \in Slots /\ s # t /\ s # v /\ t # v
      /\ s <= top /\ b \in VkClasses /\ b \in Classes
      /\ \A o \in Slots : o > top => o >= t /\ (o # t => o >= v)
  BY RaiiAssumption, ClassesApart DEF Split, IInv, TypeOK, Alive, Slots, Classes
<1>3. \A o \in Slots : /\ cls[o] = "none" <=> o > top
                       /\ cls[o] = "none" => vma[o].hnd = Null /\ vk[o].hnd = Null
                       /\ Shaped(cls[o], vma[o], vk[o])
  BY DEF IInv, ObjectShape, Shaped
<1>4. /\ Empty \in CellType(VmaHandles) /\ Empty \in CellType(VkHandles) /\ Empty.hnd = Null
      /\ vma \in [Slots -> CellType(VmaHandles)] /\ vk \in [Slots -> CellType(VkHandles)]
      /\ cls \in [Slots -> Classes \cup {"none"}] /\ "Allocation" \in Classes
  BY NativeFacts, EmptyFacts DEF IInv, TypeOK, Classes, VmaClasses
<1>5. /\ NativeType' /\ NeedsRecorded' /\ UsersFirst'
      /\ born' = born /\ live' = live /\ needs' = needs /\ parent' = parent
  BY <1>1, NativeKept
<1> HIDE DEF t, v, m, r, b
<1>6. /\ vma' \in [Slots -> CellType(VmaHandles)] /\ vk' \in [Slots -> CellType(VkHandles)]
      /\ cls' \in [Slots -> Classes \cup {"none"}]
      /\ \A o \in Slots : /\ vma'[o] = IF o = t THEN vma[s] ELSE IF o = s THEN Empty ELSE vma[o]
                          /\ vk'[o] = IF o = v THEN vk[s] ELSE IF o = s THEN Empty ELSE vk[o]
                          /\ cls'[o] = IF o = t THEN "Allocation" ELSE IF o = v THEN b ELSE cls[o]
  BY <1>1, <1>2, <1>4
<1>7. TypeOK'
  BY <1>1, <1>2, <1>5, <1>6 DEF IInv, TypeOK, NativeType
<1>8. vma[t].hnd = Null /\ vk[t].hnd = Null /\ vma[v].hnd = Null /\ vk[v].hnd = Null
  BY <1>2, <1>3 DEF t, v
<1>9. ObjectShape'
  <2> SUFFICES ASSUME NEW o \in Slots
               PROVE  /\ cls'[o] = "none" <=> o > top'
                      /\ cls'[o] = "none" => vma'[o].hnd = Null /\ vk'[o].hnd = Null
                      /\ Shaped(cls'[o], vma'[o], vk'[o])
    BY DEF ObjectShape, Shaped
  <2>1. CASE o = t
    BY <1>1, <1>2, <1>3, <1>4, <1>6, <1>8, <2>1, ClassesApart
       DEF Shaped, VmaClasses, CombinedClasses, VkClasses, t, v
  <2>2. CASE o = v
    <3>1. vk[s].hnd # Null => ClassOf[vk[s].hnd] = b
      BY <1>2, <1>3 DEF Shaped, b
    <3> QED BY <1>1, <1>2, <1>4, <1>6, <1>8, <2>2, <3>1, ClassesApart DEF Shaped, v, Slots
  <2>3. CASE o # t /\ o # v
    <3>1. cls'[o] = cls[o] /\ vma'[o].hnd \in {vma[o].hnd, Null} /\ vk'[o].hnd \in {vk[o].hnd, Null}
      BY <1>4, <1>6, <2>3
    <3>2. o > top <=> o > top'
      BY <1>1, <1>2, <2>3 DEF t, v, Slots
    <3> QED BY <1>3, <3>1, <3>2 DEF Shaped
  <2> QED BY <2>1, <2>2, <2>3
<1>10. OwnersKnown'
  BY <1>2, <1>4, <1>5, <1>6, <1>8 DEF IInv, OwnersKnown
<1>11. /\ Holds(s) = {m, r} \ {Null} /\ Holds(t) = {} /\ Holds(v) = {}
       /\ \A o \in Slots : Holds(o)' = IF o = t THEN {m} \ {Null}
                                       ELSE IF o = v THEN {r} \ {Null}
                                       ELSE IF o = s THEN {} ELSE Holds(o)
  <2>1. Holds(s) = {m, r} \ {Null} /\ Holds(t) = {} /\ Holds(v) = {}
    BY <1>8 DEF Holds, m, r
  <2>2. ASSUME NEW o \in Slots
        PROVE  Holds(o)' = IF o = t THEN {m} \ {Null}
                           ELSE IF o = v THEN {r} \ {Null}
                           ELSE IF o = s THEN {} ELSE Holds(o)
    <3>1. CASE o = t \/ o = v
      BY <1>2, <1>4, <1>6, <1>8, <3>1 DEF Holds, m, r
    <3>2. CASE o # t /\ o # v
      BY <1>2, <1>4, <1>6, <3>2 DEF Holds
    <3> QED BY <3>1, <3>2
  <2> QED BY <2>1, <2>2
<1>12. /\ Holds(s) \subseteq live
       /\ r # Null => ClassOf[r] \in VkClasses
  <2>1. cls[s] # "DefragmentationContext"
    BY DEF CombinedClasses
  <2> QED BY <1>2, <2>1, HolderFacts DEF IInv, HeldIsLive, r
<1>13. m # Null => m # r
  BY <1>2, HolderFacts DEF m, r, VmaHandles, VkHandles, VmaClasses, VkClasses
<1>14. HeldIsLive'
  BY <1>2, <1>5, <1>6, <1>11, <1>12 DEF IInv, HeldIsLive, TypeOK
<1>15. OneOwner'
  <2>1. \A h : h \in Held' <=> \E o \in Slots : h \in Holds(o)'
    BY DEF Held
  <2>2. Held' = Held
    <3>1. ASSUME NEW h \in Held PROVE h \in Held'
      BY <1>2, <1>11, <2>1, HeldIff
    <3>2. ASSUME NEW h \in Held' PROVE h \in Held
      BY <1>2, <1>11, <2>1, HeldIff
    <3> QED BY <3>1, <3>2
  <2>3. ASSUME NEW o \in Slots, NEW p \in Slots, o # p
        PROVE  Holds(o)' \cap Holds(p)' = {}
    BY <1>2, <1>11, <1>13, <2>3 DEF IInv, OneOwner
  <2> QED BY <1>1, <1>5, <2>2, <2>3 DEF IInv, OneOwner
<1>16. Outlives'
  <2> SUFFICES ASSUME NEW o \in Slots, NEW p \in Slots, NEW h \in Holds(o)', NEW g,
                      g \in needs[h], g \in Holds(p)'
               PROVE  p <= o
    BY <1>5 DEF Outlives
  <2>1. h \in born
    BY <1>5, <1>14 DEF HeldIsLive
  <2>2. p <= v
    BY <1>2, <1>3, <1>11 DEF Holds, v, Slots
  <2>3. CASE o = v
    BY <2>2, <2>3
  <2>4. CASE o = t
    <3>1. p # v
      BY <1>2, <1>11, <1>12, <2>1, <2>4, VkUnneeded
    <3> QED BY <1>2, <2>2, <2>4, <3>1 DEF t, v, Slots
  <2>5. CASE o # t /\ o # v
    <3>1. o # s /\ h \in Holds(o)
      BY <1>11, <2>5
    <3>2. needs[h] \cap Holds(s) = {}
      BY <1>1, <1>2, <3>1 DEF Undepended
    <3>3. p # t /\ p # v /\ p # s
      BY <1>11, <3>2
    <3> QED BY <1>11, <3>1, <3>3 DEF IInv, Outlives
  <2> QED BY <2>3, <2>4, <2>5
<1> QED BY <1>1, <1>5, <1>7, <1>9, <1>10, <1>14, <1>15, <1>16 DEF IInv, NoFault

-----------------------------------------------------------------------------
(* The inductive invariant.                                                *)

LEMMA InitIInv == Init => IInv
<1> SUFFICES ASSUME Init PROVE IInv
  OBVIOUS
<1>1. /\ Empty.hnd = Null
      /\ Empty \in CellType(VmaHandles) /\ Empty \in CellType(VkHandles)
  BY EmptyFacts
<1>2. TypeOK
  <2>1. top \in 0 .. N
    BY RaiiAssumption DEF Init
  <2>2. /\ cls \in [Slots -> Classes \cup {"none"}]
        /\ vma \in [Slots -> CellType(VmaHandles)]
        /\ vk \in [Slots -> CellType(VkHandles)]
    BY <1>1 DEF Init
  <2>3. /\ born \in SUBSET Handles /\ live \in SUBSET born /\ raw \in SUBSET live
        /\ parent \in [Handles -> Handles \cup {Dev, Null}]
        /\ needs \in [Handles -> SUBSET born]
        /\ fault \in BOOLEAN /\ closing \in BOOLEAN
    BY DEF Init
  <2> QED BY <2>1, <2>2, <2>3 DEF TypeOK
<1>3. \A o \in Slots : /\ cls[o] = "none" /\ o > top
                       /\ vma[o].hnd = Null /\ vk[o].hnd = Null /\ Holds(o) = {}
  BY <1>1 DEF Init, Slots, Holds
<1>4. ObjectShape /\ OwnersKnown /\ HeldIsLive /\ Outlives
  BY <1>3, ClassesApart DEF ObjectShape, OwnersKnown, HeldIsLive, Outlives, Classes
<1>5. NeedsRecorded /\ UsersFirst /\ NoFault
  BY DEF Init, NeedsRecorded, UsersFirst, NoFault
<1>6. OneOwner
  BY <1>3, HeldIff DEF Init, OneOwner
<1> QED BY <1>2, <1>4, <1>5, <1>6 DEF IInv

LEMMA MembersStep ==
  ASSUME IInv, CarefulClient, NEW o \in Alive, Members(o)
  PROVE  IInv'
<1>1. o \in Slots
  BY RaiiAssumption DEF IInv, TypeOK, Alive, Slots
<1> QED BY <1>1, MoveConstructStep, SwapStep, ClearStep, ReleaseStep, DestructStep DEF Members

LEMMA MemberCallStep ==
  ASSUME IInv, CarefulClient, NEW o \in Alive, MemberCall(o)
  PROVE  IInv'
<1>1. o \in Slots
  BY RaiiAssumption DEF IInv, TypeOK, Alive, Slots
<1>2. CASE AllocatorClass(o)
  <2>1. cls[o] = "Allocator"
    BY <1>2 DEF AllocatorClass
  <2>2. CASE Members(o)
    BY <2>2, MembersStep
  <2>3. ASSUME NEW c \in {"Pool", "Allocation", "DefragmentationContext", "StatsString"},
               CreateOwned(c, o)
        PROVE  IInv'
    BY <1>1, <2>1, <2>3, CreateOwnedStep DEF VmaClasses
  <2>4. ASSUME NEW c \in CombinedClasses, CreateCombined(c, o)
        PROVE  IInv'
    BY <1>1, <2>1, <2>4, CreateCombinedStep
  <2>5. ASSUME NEW c \in CombinedClasses, NEW s \in Alive,
               CombineAliasing(c, o, s) \/ CombineAllocate(c, o, s)
        PROVE  IInv'
    BY <1>1, <2>1, <2>5, CombineAliasingStep, CombineAllocateStep
  <2>6. ASSUME NEW c \in VkClasses, CreateAliasing(c, o)
        PROVE  IInv'
    BY <1>1, <2>1, <2>6, CreateAliasingStep
  <2> QED BY <1>2, <2>2, <2>3, <2>4, <2>5, <2>6 DEF AllocatorClass
<1>3. CASE AllocationClass(o)
  <2>1. cls[o] = "Allocation"
    BY <1>3 DEF AllocationClass
  <2> QED BY <1>3, <2>1, MembersStep, BindStep, CombineBindStep DEF AllocationClass
<1>4. CASE DefragmentationContextClass(o)
  BY <1>1, <1>4, MembersStep, EndDefragmentationStep DEF DefragmentationContextClass
<1>5. CASE VirtualBlockClass(o)
  <2>1. cls[o] = "VirtualBlock"
    BY <1>5 DEF VirtualBlockClass
  <2>2. ASSUME NEW c \in {"VirtualAllocation", "StatsString"}, CreateOwned(c, o)
        PROVE  IInv'
    BY <1>1, <2>1, <2>2, CreateOwnedStep DEF VmaClasses
  <2> QED BY <1>1, <1>5, <2>2, MembersStep, ClearBlockStep DEF VirtualBlockClass
<1>6. CASE BufferClass(o) \/ ImageClass(o)
  <2>1. cls[o] \in CombinedClasses /\ cls[o] # "DefragmentationContext" /\ CombinedMembers(o)
    BY <1>6 DEF BufferClass, ImageClass, CombinedClasses
  <2> QED BY <2>1, MembersStep, SplitStep, SliceStep, BindStep, SwapBaseStep
          DEF CombinedMembers
<1>7. CASE \/ PoolClass(o) \/ VirtualAllocationClass(o)
           \/ StatsStringClass(o) \/ VkClass(o)
  BY <1>7, MembersStep DEF PoolClass, VirtualAllocationClass, StatsStringClass, VkClass
<1> QED BY <1>2, <1>3, <1>4, <1>5, <1>6, <1>7 DEF MemberCall

LEMMA NextIInv ==
  ASSUME IInv, CarefulClient, Next
  PROVE  IInv'
<1>1. ASSUME NEW c \in Used, ConstructNull(c)
      PROVE  IInv'
  BY <1>1, RaiiAssumption, ConstructNullStep
<1>2. ASSUME NEW c \in {"Allocator", "VirtualBlock"}, CreateRoot(c)
      PROVE  IInv'
  BY <1>2, CreateRootStep
<1>3. ASSUME NEW c \in VkClasses, CreateVk(c)
      PROVE  IInv'
  BY <1>3, CreateVkStep
<1>4. ASSUME NEW o \in Alive, MemberCall(o)
      PROVE  IInv'
  BY <1>4, MemberCallStep
<1>5. ASSUME NEW h \in Handles, FreeRaw(h)
      PROVE  IInv'
  BY <1>5, FreeRawStep
<1> QED BY <1>1, <1>2, <1>3, <1>4, <1>5, ExitStep DEF Next

LEMMA StutterIInv ==
  ASSUME IInv, UNCHANGED vars
  PROVE  IInv'
<1>1. UNCHANGED <<top, cls, vma, vk, born, live, parent, needs, raw, fault, closing>>
  BY DEF vars
<1>2. TypeOK' /\ NoFault'
  BY <1>1 DEF IInv, TypeOK, NoFault
<1>3. ObjectShape' /\ OwnersKnown' /\ NeedsRecorded' /\ UsersFirst'
  BY <1>1 DEF IInv, ObjectShape, OwnersKnown, NeedsRecorded, UsersFirst
<1>4. HeldIsLive' /\ OneOwner' /\ Outlives'
  BY <1>1 DEF IInv, HeldIsLive, OneOwner, Outlives, Held, Holds
<1> QED BY <1>2, <1>3, <1>4 DEF IInv

(* Whatever a careful client does with the wrappers, the inductive         *)
(* invariant holds: objects of vk_mem_alloc_raii.hpp hold what their class *)
(* allows, with its owner, and every handle is live and held once.         *)
THEOREM Invariant == CarefulClient => (Spec => []IInv)
<1> SUFFICES ASSUME CarefulClient
             PROVE  Spec => []IInv
  OBVIOUS
<1>1. IInv /\ [Next]_vars => IInv'
  BY NextIInv, StutterIInv
<1> QED BY <1>1, InitIInv, PTL DEF Spec

(* The variables keep their types.                                         *)
THEOREM TypeCorrect == CarefulClient => (Spec => []TypeOK)
<1>1. IInv => TypeOK
  BY DEF IInv
<1> QED BY <1>1, Invariant, PTL

(* No clear() and no destructor of a wrapper passes the native library a   *)
(* handle that is dead, or an owner other than the one it came from.       *)
THEOREM NoBadDestroy == CarefulClient => (Spec => []NoFault)
<1>1. IInv => NoFault
  BY DEF IInv
<1> QED BY <1>1, Invariant, PTL

(* Every live handle belongs to one wrapper or to the client: no move,     *)
(* swap, split(), release() or combining call drops or duplicates one.     *)
THEOREM SingleOwner == CarefulClient => (Spec => []OneOwner)
<1>1. IInv => OneOwner
  BY DEF IInv
<1> QED BY <1>1, Invariant, PTL

(* Destructors run in an order in which users die first: nothing live ever *)
(* needs an allocator, pool, block or memory that is gone.                 *)
THEOREM UsersDieFirst == CarefulClient => (Spec => []UsersFirst)
<1>1. IInv => UsersFirst
  BY DEF IInv
<1> QED BY <1>1, Invariant, PTL

-----------------------------------------------------------------------------
(* Combined objects keep their memory as long as their resource.           *)

(* What a step may make of the object on slot o.                           *)
KeptWhole(o) ==
  \/ vk'[o].hnd = Null
  \/ vma'[o].hnd # Null
  \/ cls'[o] \notin CombinedClasses
  \/ \E q \in Slots : cls'[o] = cls[q] /\ vma'[o] = vma[q] /\ vk'[o] = vk[q]

LEMMA WholeIf ==
  ASSUME IInv, IInv', \A o \in Slots : KeptWhole(o)
  PROVE  LooseResources' \subseteq LooseResources
<1>1. Alive \subseteq Slots /\ Alive' \subseteq Slots
  BY RaiiAssumption DEF IInv, TypeOK, Alive, Slots
<1> SUFFICES ASSUME NEW o \in Slots, cls'[o] \in CombinedClasses,
                    vk'[o].hnd # Null, vma'[o].hnd = Null
             PROVE  vk'[o].hnd \in LooseResources
  BY <1>1 DEF LooseResources, Loose
<1>2. PICK q \in Slots : cls'[o] = cls[q] /\ vma'[o] = vma[q] /\ vk'[o] = vk[q]
  BY DEF KeptWhole
<1>3. q \in Alive
  BY <1>2, RaiiAssumption DEF IInv, TypeOK, ObjectShape, Alive, Slots
<1> QED BY <1>2, <1>3 DEF LooseResources, Loose

(* Cells as a step leaves them: the types make EXCEPT do what it says.     *)
LEMMA CellsTyped ==
  ASSUME IInv
  PROVE  /\ cls \in [Slots -> Classes \cup {"none"}]
         /\ vma \in [Slots -> CellType(VmaHandles)]
         /\ vk \in [Slots -> CellType(VkHandles)]
         /\ Empty.hnd = Null
         /\ Alive \subseteq Slots
         /\ Null \notin Handles
BY RaiiAssumption, EmptyFacts DEF IInv, TypeOK, Alive, Slots

LEMMA ConstructWhole ==
  ASSUME IInv,
         \/ \E c \in Used : ConstructNull(c)
         \/ \E c \in {"Allocator", "VirtualBlock"} : CreateRoot(c)
         \/ \E c \in VkClasses : CreateVk(c)
         \/ \E c \in VmaClasses, p \in Alive : CreateOwned(c, p)
         \/ \E c \in VkClasses, p \in Alive : CreateAliasing(c, p)
  PROVE  \A o \in Slots : KeptWhole(o)
<1>1. ASSUME NEW c \in Classes, Push(c), vk' = vk,
             \A o \in Slots : o # top + 1 => vma'[o] = vma[o]
      PROVE  \A o \in Slots : KeptWhole(o)
  BY <1>1, PushFacts, CellsTyped DEF KeptWhole
<1>2. ASSUME NEW c \in VkClasses, Push(c), vma' = vma, NEW w, vk' = [vk EXCEPT ![top + 1] = w]
      PROVE  \A o \in Slots : KeptWhole(o)
  <2>1. c \in Classes /\ c \notin CombinedClasses
    BY ClassesApart DEF Classes
  <2>2. \A o \in Slots : o # top + 1 => vk'[o] = vk[o] /\ cls'[o] = cls[o]
    BY <1>2, <2>1, PushFacts, CellsTyped
  <2> QED BY <1>2, <2>1, <2>2, PushFacts DEF KeptWhole
<1>3. VmaClasses \subseteq Classes /\ {"Allocator", "VirtualBlock"} \subseteq Classes
  BY DEF Classes, VmaClasses
<1>4. CASE \E c \in Used : ConstructNull(c)
  BY <1>1, <1>4, RaiiAssumption DEF ConstructNull
<1>5. CASE \E c \in {"Allocator", "VirtualBlock"} : CreateRoot(c)
  <2>1. PICK c \in {"Allocator", "VirtualBlock"} : CreateRoot(c)
    BY <1>5
  <2>2. \A o \in Slots : o # top + 1 => vma'[o] = vma[o]
    BY <2>1, CellsTyped DEF CreateRoot
  <2> QED BY <1>1, <1>3, <2>1, <2>2 DEF CreateRoot
<1>6. CASE \E c \in VkClasses : CreateVk(c)
  BY <1>2, <1>6 DEF CreateVk
<1>7. CASE \E c \in VmaClasses, p \in Alive : CreateOwned(c, p)
  <2>1. PICK c \in VmaClasses, p \in Alive : CreateOwned(c, p)
    BY <1>7
  <2>2. \A o \in Slots : o # top + 1 => vma'[o] = vma[o]
    BY <2>1, CellsTyped DEF CreateOwned
  <2> QED BY <1>1, <1>3, <2>1, <2>2 DEF CreateOwned
<1>8. CASE \E c \in VkClasses, p \in Alive : CreateAliasing(c, p)
  BY <1>2, <1>8 DEF CreateAliasing
<1> QED BY <1>4, <1>5, <1>6, <1>7, <1>8

(* A new combined object gets memory, its own or that of another object.   *)
LEMMA CombineWhole ==
  ASSUME IInv, NEW c \in CombinedClasses, NEW p \in Alive, NEW s \in Alive,
         \/ CreateCombined(c, p)
         \/ CombineAliasing(c, p, s)
         \/ CombineAllocate(c, p, s)
         \/ CombineBind(c, p, s)
  PROVE  \A o \in Slots : KeptWhole(o)
<1> DEFINE t == top + 1
<1>1. c \in Classes /\ "Allocation" \notin CombinedClasses
  BY DEF Classes, CombinedClasses
<1>2. Push(c)
  BY DEF CreateCombined, CombineAliasing, CombineAllocate, CombineBind
<1>3. /\ t \in Slots /\ p # t /\ s # t /\ p \in Slots /\ s \in Slots
      /\ \A o \in Slots : cls'[o] = IF o = t THEN c ELSE cls[o]
  BY <1>1, <1>2, PushFacts, CellsTyped
<1>4. /\ vma \in [Slots -> CellType(VmaHandles)] /\ vk \in [Slots -> CellType(VkHandles)]
      /\ Empty.hnd = Null /\ Null \notin Handles
  BY CellsTyped
<1>5. CASE CreateCombined(c, p)
  <2>1. PICK m \in Fresh("Allocation"), r \in Fresh(BaseOf[c]), q \in PoolsOf(vma[p].hnd) :
          /\ vma' = [vma EXCEPT ![t] = Cell(vma[p].hnd, m)]
          /\ vk' = [vk EXCEPT ![t] = Cell(vma[p].own, r)]
    BY <1>5 DEF CreateCombined
  <2>2. vma'[t].hnd = m /\ m # Null
    BY <1>3, <1>4, <2>1 DEF Cell, Fresh
  <2>3. \A o \in Slots : o # t => vma'[o] = vma[o] /\ vk'[o] = vk[o]
    BY <1>3, <1>4, <2>1
  <2> QED BY <1>3, <2>2, <2>3 DEF KeptWhole
<1>6. CASE CombineAliasing(c, p, s)
  <2>1. /\ cls[s] = "Allocation" /\ vma[s].hnd # Null
        /\ vma' = [vma EXCEPT ![s] = Empty, ![t] = vma[s]]
        /\ \E w : vk' = [vk EXCEPT ![t] = w]
    BY <1>6 DEF CombineAliasing
  <2>2. /\ vma'[t].hnd # Null /\ cls'[s] \notin CombinedClasses
        /\ \A o \in Slots : o # t => vk'[o] = vk[o] /\ (o # s => vma'[o] = vma[o])
    BY <1>1, <1>3, <1>4, <2>1
  <2> QED BY <1>3, <2>2 DEF KeptWhole
<1>7. CASE CombineAllocate(c, p, s)
  <2>1. PICK m \in Fresh("Allocation") :
          /\ vma' = [vma EXCEPT ![t] = Cell(vma[p].hnd, m)]
          /\ vk' = [vk EXCEPT ![s] = Empty, ![t] = vk[s]]
    BY <1>7 DEF CombineAllocate
  <2>2. vma'[t].hnd = m /\ m # Null /\ vk'[s].hnd = Null
    BY <1>3, <1>4, <2>1 DEF Cell, Fresh
  <2>3. \A o \in Slots : o # t => vma'[o] = vma[o] /\ (o # s => vk'[o] = vk[o])
    BY <1>3, <1>4, <2>1
  <2> QED BY <1>3, <2>2, <2>3 DEF KeptWhole
<1>8. CASE CombineBind(c, p, s)
  <2>1. /\ cls[p] = "Allocation" /\ vma[p].hnd # Null
        /\ vma' = [vma EXCEPT ![p] = Empty, ![t] = vma[p]]
        /\ vk' = [vk EXCEPT ![s] = Empty, ![t] = vk[s]]
    BY <1>8 DEF CombineBind
  <2>2. /\ vma'[t].hnd # Null /\ cls'[p] \notin CombinedClasses /\ vk'[s].hnd = Null
        /\ \A o \in Slots : o # t => /\ o # p => vma'[o] = vma[o]
                                     /\ o # s => vk'[o] = vk[o]
    BY <1>1, <1>3, <1>4, <2>1
  <2> QED BY <1>3, <2>2 DEF KeptWhole
<1> QED BY <1>5, <1>6, <1>7, <1>8

(* Moves and swaps keep the parts of an object together, and clear(),      *)
(* release() and the destructor empty it.                                  *)
LEMMA MembersWhole ==
  ASSUME IInv, NEW o \in Alive, Members(o)
  PROVE  \A x \in Slots : KeptWhole(x)
<1> DEFINE t == top + 1
<1>1. /\ cls \in [Slots -> Classes \cup {"none"}]
      /\ vma \in [Slots -> CellType(VmaHandles)] /\ vk \in [Slots -> CellType(VkHandles)]
      /\ Empty.hnd = Null /\ o \in Slots /\ Alive \subseteq Slots
      /\ "none" \notin CombinedClasses
  BY CellsTyped DEF CombinedClasses
<1>2. CASE MoveConstruct(o)
  <2>1. /\ top < N /\ top' = t /\ cls' = [cls EXCEPT ![t] = cls[o]]
        /\ vma' = [vma EXCEPT ![o] = Empty, ![t] = vma[o]]
        /\ vk' = [vk EXCEPT ![o] = Empty, ![t] = vk[o]]
    BY <1>2 DEF MoveConstruct, Push
  <2>2. t \in Slots /\ o # t
    BY <2>1, RaiiAssumption DEF IInv, TypeOK, Alive, Slots
  <2>3. /\ cls'[t] = cls[o] /\ vma'[t] = vma[o] /\ vk'[t] = vk[o] /\ vk'[o].hnd = Null
        /\ \A x \in Slots : x # t /\ x # o =>
             cls'[x] = cls[x] /\ vma'[x] = vma[x] /\ vk'[x] = vk[x]
    BY <1>1, <2>1, <2>2
  <2> HIDE DEF t
  <2> QED BY <1>1, <2>2, <2>3 DEF KeptWhole
<1>3. ASSUME NEW s \in Alive, Swap(o, s)
      PROVE  \A x \in Slots : KeptWhole(x)
  <2>1. /\ o # s /\ cls[o] = cls[s] /\ cls' = cls
        /\ vma' = [vma EXCEPT ![o] = vma[s], ![s] = vma[o]]
        /\ vk' = [vk EXCEPT ![o] = vk[s], ![s] = vk[o]]
    BY <1>3 DEF Swap
  <2>2. /\ vma'[o] = vma[s] /\ vk'[o] = vk[s] /\ vma'[s] = vma[o] /\ vk'[s] = vk[o]
        /\ \A x \in Slots : x # o /\ x # s => vma'[x] = vma[x] /\ vk'[x] = vk[x]
    BY <1>1, <2>1
  <2> QED BY <1>1, <2>1, <2>2 DEF KeptWhole
<1>4. CASE Clear(o) \/ Release(o) \/ Destruct(o)
  <2>1. /\ vma' = [vma EXCEPT ![o] = Empty] /\ vk' = [vk EXCEPT ![o] = Empty]
        /\ cls' = cls \/ cls' = [cls EXCEPT ![o] = "none"]
    BY <1>4 DEF Clear, Release, Destruct
  <2>2. /\ vk'[o].hnd = Null
        /\ \A x \in Slots : x # o =>
             cls'[x] = cls[x] /\ vma'[x] = vma[x] /\ vk'[x] = vk[x]
    BY <1>1, <2>1
  <2> QED BY <1>1, <2>2 DEF KeptWhole
<1> QED BY <1>2, <1>3, <1>4 DEF Members

(* split() and a move of the base leave an object without its resource.    *)
LEMMA TakeApartWhole ==
  ASSUME IInv, NEW s \in Alive, cls[s] \in CombinedClasses, Split(s) \/ Slice(s)
  PROVE  \A x \in Slots : KeptWhole(x)
<1> DEFINE t == top + 1
           v == top + 2
<1>1. /\ cls \in [Slots -> Classes \cup {"none"}]
      /\ vma \in [Slots -> CellType(VmaHandles)] /\ vk \in [Slots -> CellType(VkHandles)]
      /\ Empty.hnd = Null /\ s \in Slots
      /\ "Allocation" \notin CombinedClasses /\ BaseOf[cls[s]] \notin CombinedClasses
  BY CellsTyped, ClassesApart DEF CombinedClasses
<1>2. CASE Split(s)
  <2>1. /\ top + 2 <= N
        /\ cls' = [cls EXCEPT ![t] = "Allocation", ![v] = BaseOf[cls[s]]]
        /\ vma' = [vma EXCEPT ![s] = Empty, ![t] = vma[s]]
        /\ vk' = [vk EXCEPT ![s] = Empty, ![v] = vk[s]]
    BY <1>2 DEF Split
  <2>2. t \in Slots /\ v \in Slots /\ s # t /\ s # v /\ t # v
    BY <2>1, RaiiAssumption DEF IInv, TypeOK, Alive, Slots
  <2> HIDE DEF t, v
  <2>3. /\ cls'[t] \notin CombinedClasses /\ cls'[v] \notin CombinedClasses
        /\ vk'[s].hnd = Null
        /\ \A x \in Slots : x \notin {s, t, v} =>
             cls'[x] = cls[x] /\ vma'[x] = vma[x] /\ vk'[x] = vk[x]
    BY <1>1, <2>1, <2>2
  <2> QED BY <1>1, <2>3 DEF KeptWhole
<1>3. CASE Slice(s)
  <2>1. /\ top < N /\ cls' = [cls EXCEPT ![t] = BaseOf[cls[s]]]
        /\ vma' = vma
        /\ vk' = [vk EXCEPT ![s] = Empty, ![t] = vk[s]]
    BY <1>3 DEF Slice, Push
  <2>2. t \in Slots /\ s # t
    BY <2>1, RaiiAssumption DEF IInv, TypeOK, Alive, Slots
  <2> HIDE DEF t
  <2>3. /\ cls'[t] \notin CombinedClasses /\ vk'[s].hnd = Null
        /\ \A x \in Slots : x \notin {s, t} => cls'[x] = cls[x] /\ vk'[x] = vk[x]
    BY <1>1, <2>1, <2>2
  <2> QED BY <1>1, <2>1, <2>3 DEF KeptWhole
<1> QED BY <1>2, <1>3

LEMMA UnchangedWhole ==
  ASSUME UNCHANGED objects
  PROVE  \A x \in Slots : KeptWhole(x)
BY DEF objects, KeptWhole

LEMMA NextWhole ==
  ASSUME IInv, Next
  PROVE  (\A x \in Slots : KeptWhole(x)) \/ \E d, s \in Alive : SwapBase(d, s)
<1>1. CASE \/ \E c \in Used : ConstructNull(c)
           \/ \E c \in {"Allocator", "VirtualBlock"} : CreateRoot(c)
           \/ \E c \in VkClasses : CreateVk(c)
  BY <1>1, ConstructWhole
<1>2. CASE (\E h \in Handles : FreeRaw(h)) \/ Exit
  BY <1>2, UnchangedWhole DEF FreeRaw, Exit
<1>3. ASSUME NEW o \in Alive, MemberCall(o)
      PROVE  (\A x \in Slots : KeptWhole(x)) \/ \E s \in Alive : SwapBase(o, s)
  <2>1. CASE AllocatorClass(o)
    <3>1. ASSUME NEW c \in {"Pool", "Allocation", "DefragmentationContext", "StatsString"},
                 CreateOwned(c, o)
          PROVE  \A x \in Slots : KeptWhole(x)
      BY <3>1, ConstructWhole DEF VmaClasses
    <3>2. ASSUME NEW c \in CombinedClasses, CreateCombined(c, o)
          PROVE  \A x \in Slots : KeptWhole(x)
      BY <3>2, CombineWhole
    <3>3. ASSUME NEW c \in CombinedClasses, NEW s \in Alive,
                 CombineAliasing(c, o, s) \/ CombineAllocate(c, o, s)
          PROVE  \A x \in Slots : KeptWhole(x)
      BY <3>3, CombineWhole
    <3>4. ASSUME NEW c \in VkClasses, CreateAliasing(c, o)
          PROVE  \A x \in Slots : KeptWhole(x)
      BY <3>4, ConstructWhole
    <3> QED BY <2>1, <3>1, <3>2, <3>3, <3>4, MembersWhole DEF AllocatorClass
  <2>2. CASE AllocationClass(o)
    <3>1. ASSUME NEW s \in Alive, Bind(o, s)
          PROVE  \A x \in Slots : KeptWhole(x)
      BY <3>1, UnchangedWhole DEF Bind
    <3>2. ASSUME NEW s \in Alive, NEW c \in CombinedClasses, CombineBind(c, o, s)
          PROVE  \A x \in Slots : KeptWhole(x)
      BY <3>2, CombineWhole
    <3> QED BY <2>2, <3>1, <3>2, MembersWhole DEF AllocationClass
  <2>3. CASE DefragmentationContextClass(o)
    <3>1. CASE EndDefragmentation(o)
      BY <3>1, UnchangedWhole DEF EndDefragmentation
    <3> QED BY <2>3, <3>1, MembersWhole DEF DefragmentationContextClass
  <2>4. CASE VirtualBlockClass(o)
    <3>1. ASSUME NEW c \in {"VirtualAllocation", "StatsString"}, CreateOwned(c, o)
          PROVE  \A x \in Slots : KeptWhole(x)
      BY <3>1, ConstructWhole DEF VmaClasses
    <3>2. CASE ClearBlock(o)
      BY <3>2, UnchangedWhole DEF ClearBlock
    <3> QED BY <2>4, <3>1, <3>2, MembersWhole DEF VirtualBlockClass
  <2>5. CASE BufferClass(o) \/ ImageClass(o)
    <3>1. cls[o] \in CombinedClasses /\ CombinedMembers(o)
      BY <2>5 DEF BufferClass, ImageClass, CombinedClasses
    <3>2. ASSUME NEW s \in Alive, Bind(o, s)
          PROVE  \A x \in Slots : KeptWhole(x)
      BY <3>2, UnchangedWhole DEF Bind
    <3> QED BY <3>1, <3>2, MembersWhole, TakeApartWhole DEF CombinedMembers
  <2>6. CASE \/ PoolClass(o) \/ VirtualAllocationClass(o)
             \/ StatsStringClass(o) \/ VkClass(o)
    BY <2>6, MembersWhole DEF PoolClass, VirtualAllocationClass, StatsStringClass, VkClass
  <2> QED BY <1>3, <2>1, <2>2, <2>3, <2>4, <2>5, <2>6 DEF MemberCall
<1> QED BY <1>1, <1>2, <1>3 DEF Next

(* However combined objects are built, moved, swapped, split, cleared or   *)
(* released, none of these calls leaves one with a resource whose memory   *)
(* it has lost, which its clear() would leave to the base class: that      *)
(* takes an assignment or a swap of the public base alone.                 *)
THEOREM WholeObjects == CarefulClient => (Spec => CombinedWhole)
<1> SUFFICES ASSUME CarefulClient
             PROVE  Spec => CombinedWhole
  OBVIOUS
<1>1. ASSUME IInv, IInv', [Next]_vars
      PROVE  [WholeStep]_vars
  <2>1. CASE Next
    BY <1>1, <2>1, NextWhole, WholeIf DEF WholeStep
  <2> QED BY <1>1, <2>1
<1> QED BY <1>1, Invariant, PTL DEF Spec, CombinedWhole

-----------------------------------------------------------------------------
(* The wrappers, used by a careful client, implement HandleLifetime:       *)
(* whatever a constructor, a move, a combining call or a destructor does,  *)
(* the life of a native object is born wrapped, perhaps handed over, and   *)
(* destroyed once, after everything that needs it.                         *)

(* What a step does to the native objects and to who destroys them.        *)

Births(B) ==
  /\ B \cap born = {}
  /\ born' = born \cup B
  /\ live' = live \cup B
  /\ raw' = raw
  /\ \A h \in Handles \ B : needs'[h] = needs[h]

Binds(r) ==
  /\ r \in live
  /\ needs[r] = {}
  /\ UNCHANGED <<born, live, raw>>
  /\ \A h \in Handles \ {r} : needs'[h] = needs[h]

PassesOn ==
  /\ UNCHANGED <<born, live, needs>>
  /\ raw \subseteq raw'

Deaths ==
  /\ UNCHANGED <<born, needs>>
  /\ live' \subseteq live
  /\ raw' = raw \cap live'

Effect ==
  \/ \E B \in SUBSET Handles : Births(B)
  \/ \E r \in Handles : Binds(r)
  \/ PassesOn
  \/ Deaths

(* One native object is born, through whatever constructor.                *)
LEMMA BearEffect ==
  ASSUME IInv, NEW c, NEW h \in Fresh(c), NEW p, NEW S, Bear(h, p, S), raw' = raw
  PROVE  Effect
<1>1. h \in Handles /\ {h} \cap born = {}
  BY DEF Fresh
<1>2. \A g \in Handles \ {h} : needs'[g] = needs[g]
  BY <1>1 DEF Bear, IInv, TypeOK
<1>3. Births({h})
  BY <1>1, <1>2 DEF Bear, Births
<1>4. {h} \in SUBSET Handles
  BY <1>1
<1> QED BY <1>3, <1>4 DEF Effect

LEMMA CreationEffect ==
  ASSUME IInv,
         \/ \E c \in Used : ConstructNull(c)
         \/ \E c : CreateRoot(c)
         \/ \E c : CreateVk(c)
         \/ \E c, p : CreateOwned(c, p)
         \/ \E c, p : CreateAliasing(c, p)
         \/ \E c, p, s : CombineAliasing(c, p, s)
         \/ \E c, p, s : CombineAllocate(c, p, s)
  PROVE  Effect
<1>1. CASE \E c \in Used : ConstructNull(c)
  BY <1>1 DEF ConstructNull, native, Effect, PassesOn
<1>2. CASE \E c : CreateRoot(c)
  BY <1>2, BearEffect DEF CreateRoot
<1>3. CASE \E c : CreateVk(c)
  BY <1>3, BearEffect DEF CreateVk
<1>4. CASE \E c, p : CreateOwned(c, p)
  BY <1>4, BearEffect DEF CreateOwned
<1>5. CASE \E c, p : CreateAliasing(c, p)
  BY <1>5, BearEffect DEF CreateAliasing
<1>6. CASE \E c, p, s : CombineAliasing(c, p, s)
  BY <1>6, BearEffect DEF CombineAliasing
<1>7. CASE \E c, p, s : CombineAllocate(c, p, s)
  BY <1>7, BearEffect DEF CombineAllocate
<1> QED BY <1>1, <1>2, <1>3, <1>4, <1>5, <1>6, <1>7

(* The one native call that makes two objects.                             *)
LEMMA CreateCombinedEffect ==
  ASSUME IInv, NEW c, NEW p, CreateCombined(c, p)
  PROVE  Effect
<1>1. PICK m \in Fresh("Allocation"), r \in Fresh(BaseOf[c]), q \in PoolsOf(vma[p].hnd) :
        /\ born' = born \cup {m, r}
        /\ live' = live \cup {m, r}
        /\ needs' = [needs EXCEPT ![m] = {vma[p].hnd, q} \ {Null},
                                  ![r] = ({vma[p].hnd, q} \ {Null}) \cup {m}]
        /\ raw' = raw
  BY DEF CreateCombined
<1>2. {m, r} \in SUBSET Handles /\ {m, r} \cap born = {}
  BY DEF Fresh
<1>3. \A h \in Handles \ {m, r} : needs'[h] = needs[h]
  BY <1>1 DEF IInv, TypeOK
<1>4. Births({m, r})
  BY <1>1, <1>2, <1>3 DEF Births
<1> QED BY <1>2, <1>4 DEF Effect

LEMMA BindEffect ==
  ASSUME IInv, NEW s \in Slots, vk[s].hnd # Null, cls[s] # "DefragmentationContext",
         needs[vk[s].hnd] = {}, NEW S, needs' = [needs EXCEPT ![vk[s].hnd] = S],
         UNCHANGED <<born, live, raw>>
  PROVE  Effect
<1>1. vk[s].hnd \in live /\ vk[s].hnd \in Handles
  BY DEF IInv, HeldIsLive, Holds, TypeOK
<1>2. Binds(vk[s].hnd)
  BY <1>1 DEF IInv, TypeOK, Binds
<1> QED BY <1>1, <1>2 DEF Effect

(* A resource is in an object that may hold one.                           *)
LEMMA VkHolder ==
  ASSUME IInv, NEW s \in Slots, vk[s].hnd # Null
  PROVE  cls[s] # "DefragmentationContext"
BY DEF IInv, ObjectShape, VmaClasses

LEMMA BindingEffect ==
  ASSUME IInv, NEW a, NEW s \in Alive,
         Bind(a, s) \/ \E c : CombineBind(c, a, s)
  PROVE  Effect
<1>1. s \in Slots
  BY RaiiAssumption DEF IInv, TypeOK, Alive, Slots
<1>2. /\ vk[s].hnd # Null /\ needs[vk[s].hnd] = {}
      /\ \E S : needs' = [needs EXCEPT ![vk[s].hnd] = S]
      /\ UNCHANGED <<born, live, raw>>
  BY DEF Bind, CombineBind
<1> QED BY <1>1, <1>2, VkHolder, BindEffect

LEMMA DeathEffect ==
  ASSUME IInv, IInv', NEW S, Kill(S), raw' = raw \/ raw' = raw \ S
  PROVE  Effect
<1>1. live' = live \ S /\ raw' \subseteq live' /\ raw \subseteq live
  BY DEF Kill, IInv, TypeOK
<1>2. raw' = raw \cap live'
  BY <1>1
<1> QED BY <1>1, <1>2 DEF Kill, Effect, Deaths

LEMMA MembersEffect ==
  ASSUME IInv, IInv', NEW o \in Alive, Members(o)
  PROVE  Effect
<1>1. CASE MoveConstruct(o) \/ \E s \in Alive : Swap(o, s)
  BY <1>1 DEF MoveConstruct, Swap, native, Effect, PassesOn
<1>2. CASE Clear(o) \/ Destruct(o)
  <2>1. Kill(Holds(o)) /\ raw' = raw
    BY <1>2 DEF Clear, Destruct, DestroyHeld
  <2> QED BY <2>1, DeathEffect
<1>3. CASE Release(o)
  BY <1>3 DEF Release, native, Effect, PassesOn
<1> QED BY <1>1, <1>2, <1>3 DEF Members

LEMMA MemberCallEffect ==
  ASSUME IInv, IInv', NEW o \in Alive, MemberCall(o)
  PROVE  Effect
<1>1. CASE AllocatorClass(o)
  BY <1>1, MembersEffect, CreationEffect, CreateCombinedEffect DEF AllocatorClass
<1>2. CASE AllocationClass(o)
  BY <1>2, MembersEffect, BindingEffect DEF AllocationClass
<1>3. CASE DefragmentationContextClass(o)
  <2>1. ASSUME EndDefragmentation(o)
        PROVE  Effect
    <3>1. Kill({vma[o].hnd}) /\ raw' = raw
      BY <2>1 DEF EndDefragmentation
    <3> QED BY <3>1, DeathEffect
  <2> QED BY <1>3, <2>1, MembersEffect DEF DefragmentationContextClass
<1>4. CASE VirtualBlockClass(o)
  <2>1. ASSUME ClearBlock(o)
        PROVE  Effect
    BY <2>1, DeathEffect DEF ClearBlock
  <2> QED BY <1>4, <2>1, MembersEffect, CreationEffect DEF VirtualBlockClass
<1>5. CASE BufferClass(o) \/ ImageClass(o)
  <2>1. ASSUME Split(o) \/ Slice(o) \/ \E s \in Alive : SwapBase(o, s)
        PROVE  Effect
    BY <2>1 DEF Split, Slice, SwapBase, native, Effect, PassesOn
  <2> QED BY <1>5, <2>1, MembersEffect, BindingEffect DEF BufferClass, ImageClass, CombinedMembers
<1>6. CASE \/ PoolClass(o) \/ VirtualAllocationClass(o)
           \/ StatsStringClass(o) \/ VkClass(o)
  BY <1>6, MembersEffect DEF PoolClass, VirtualAllocationClass, StatsStringClass, VkClass
<1> QED BY <1>1, <1>2, <1>3, <1>4, <1>5, <1>6 DEF MemberCall

LEMMA NextEffect ==
  ASSUME IInv, IInv', [Next]_vars
  PROVE  Effect
<1>1. CASE \/ \E c \in Used : ConstructNull(c)
           \/ \E c \in {"Allocator", "VirtualBlock"} : CreateRoot(c)
           \/ \E c \in VkClasses : CreateVk(c)
  BY <1>1, CreationEffect
<1>2. CASE \E o \in Alive : MemberCall(o)
  BY <1>2, MemberCallEffect
<1>3. CASE \E h \in Handles : FreeRaw(h)
  BY <1>3, DeathEffect DEF FreeRaw
<1>4. CASE Exit \/ UNCHANGED vars
  BY <1>4 DEF Exit, native, vars, Effect, PassesOn
<1> QED BY <1>1, <1>2, <1>3, <1>4 DEF Next

-----------------------------------------------------------------------------
(* What an effect is to the life of the native objects.                    *)

States == [h \in Handles |-> StateOf(h)]

(* Where the invariant holds no handle is lost: three sets say it all.     *)
LifeState(h) ==
  IF h \notin born THEN "unborn"
  ELSE IF h \notin live THEN "gone"
  ELSE IF h \in raw THEN "plain" ELSE "wrapped"

LEMMA StateIs == IInv => States = [h \in Handles |-> LifeState(h)]
<1> SUFFICES ASSUME IInv, NEW h \in Handles
             PROVE  StateOf(h) = LifeState(h)
  BY DEF States
<1>1. h \in live => (h \in Held <=> h \notin raw)
  BY DEF IInv, OneOwner
<1>2. live \subseteq born
  BY DEF IInv, TypeOK
<1>3. CASE h \notin born
  BY <1>2, <1>3 DEF StateOf, LifeState
<1>4. CASE h \in born /\ h \notin live
  BY <1>4 DEF StateOf, LifeState
<1>5. CASE h \in live /\ h \in raw
  BY <1>1, <1>2, <1>5 DEF StateOf, LifeState
<1>6. CASE h \in live /\ h \notin raw
  BY <1>1, <1>2, <1>6 DEF StateOf, LifeState
<1> QED BY <1>3, <1>4, <1>5, <1>6

LEMMA StatesIs ==
  ASSUME IInv
  PROVE  /\ States = [h \in Handles |-> LifeState(h)]
         /\ \A h \in Handles : States[h] = LifeState(h)
         /\ {h \in Handles : States[h] \in {"wrapped", "plain"}} = live
<1>1. States = [h \in Handles |-> LifeState(h)]
  BY StateIs
<1>2. live \subseteq born /\ born \subseteq Handles
  BY DEF IInv, TypeOK
<1> QED BY <1>1, <1>2 DEF LifeState

LEMMA StatesNext == IInv' => States' = [h \in Handles |-> LifeState(h)']
<1>1. (IInv => States = [h \in Handles |-> LifeState(h)])'
  BY StateIs, PTL
<1> QED BY <1>1

LEMMA BirthLife ==
  ASSUME IInv, IInv', NEW B \in SUBSET Handles, Births(B)
  PROVE  Lifetime!Create(B)
<1>1. /\ \A h \in Handles : States[h] = LifeState(h)
      /\ {h \in Handles : States[h] \in {"wrapped", "plain"}} = live
  BY StatesIs
<1>2. /\ born \subseteq Handles /\ live \subseteq born /\ raw \subseteq live
      /\ needs' \in [Handles -> SUBSET born'] /\ UsersFirst'
  BY DEF IInv, TypeOK
<1>3. \A h \in B : States[h] = "unborn"
  BY <1>1 DEF Births, LifeState
<1>4. States' = [h \in Handles |-> IF h \in B THEN "wrapped" ELSE States[h]]
  <2>1. \A h \in Handles : LifeState(h)' = IF h \in B THEN "wrapped" ELSE LifeState(h)
    BY <1>2 DEF Births, LifeState
  <2> QED BY <1>1, <2>1, StatesNext
<1>5. \A h \in B : needs'[h] \subseteq live \cup B
  BY DEF Births, IInv, UsersFirst
<1>6. needs' = [h \in Handles |-> IF h \in B THEN needs'[h] ELSE needs[h]]
  BY <1>2 DEF Births
<1> QED BY <1>1, <1>3, <1>4, <1>5, <1>6
        DEF States, Lifetime!Create, Lifetime!Become, Lifetime!InUse

LEMMA BindLife ==
  ASSUME IInv, IInv', NEW r \in Handles, Binds(r)
  PROVE  Lifetime!Bind(r)
<1>1. {h \in Handles : States[h] \in {"wrapped", "plain"}} = live
  BY StatesIs
<1>2. needs' \in [Handles -> SUBSET born'] /\ needs \in [Handles -> SUBSET born]
  BY DEF IInv, TypeOK
<1>3. needs' = [needs EXCEPT ![r] = needs'[r]]
  BY <1>2 DEF Binds
<1>4. needs'[r] \subseteq live \ {r}
  BY DEF Binds, IInv, UsersFirst, NeedsRecorded, TypeOK
<1>5. States' = States
  BY StateIs, StatesNext DEF Binds, LifeState
<1> QED BY <1>1, <1>3, <1>4, <1>5 DEF States, Binds, Lifetime!Bind, Lifetime!InUse

LEMMA PassLife ==
  ASSUME IInv, IInv', PassesOn
  PROVE  Lifetime!HandOver(raw' \ raw) /\ raw' \ raw \in SUBSET Handles
<1>1. \A h \in Handles : States[h] = LifeState(h)
  BY StatesIs
<1>2. raw' \subseteq live /\ live \subseteq born /\ born \subseteq Handles
  BY DEF IInv, TypeOK, PassesOn
<1>3. \A h \in raw' \ raw : States[h] = "wrapped"
  BY <1>1, <1>2 DEF LifeState
<1>4. States' = [h \in Handles |-> IF h \in raw' \ raw THEN "plain" ELSE States[h]]
  <2>1. \A h \in Handles : LifeState(h)' = IF h \in raw' \ raw THEN "plain" ELSE LifeState(h)
    BY <1>2 DEF PassesOn, LifeState
  <2> QED BY <1>1, <2>1, StatesNext
<1> QED BY <1>2, <1>3, <1>4 DEF States, PassesOn, Lifetime!HandOver, Lifetime!Become

LEMMA DeathLife ==
  ASSUME IInv, IInv', Deaths
  PROVE  Lifetime!Destroy(live \ live') /\ live \ live' \in SUBSET Handles
<1>1. /\ \A h \in Handles : States[h] = LifeState(h)
      /\ {h \in Handles : States[h] \in {"wrapped", "plain"}} = live
  BY StatesIs
<1>2. live \subseteq born /\ born \subseteq Handles /\ raw \subseteq live
  BY DEF IInv, TypeOK
<1>3. \A h \in live \ (live \ live') : needs[h] \cap (live \ live') = {}
  BY DEF Deaths, IInv, UsersFirst
<1>4. States' = [h \in Handles |-> IF h \in live \ live' THEN "gone" ELSE States[h]]
  <2>1. \A h \in Handles : LifeState(h)' = IF h \in live \ live' THEN "gone" ELSE LifeState(h)
    BY <1>2 DEF Deaths, LifeState
  <2> QED BY <1>1, <2>1, StatesNext
<1> QED BY <1>1, <1>2, <1>3, <1>4
        DEF States, Deaths, Lifetime!Destroy, Lifetime!Become, Lifetime!InUse

LEMMA LifeStep ==
  ASSUME IInv, IInv', [Next]_vars
  PROVE  [Lifetime!Next]_(Lifetime!vars)
<1>1. Effect
  BY NextEffect
<1> QED BY <1>1, BirthLife, BindLife, PassLife, DeathLife DEF Effect, Lifetime!Next

LEMMA LifeInit ==
  ASSUME Init
  PROVE  Lifetime!Init
<1>1. IInv
  BY InitIInv
<1>2. States = [h \in Handles |-> "unborn"]
  BY <1>1, StateIs DEF Init, LifeState
<1> QED BY <1>2 DEF Init, States, Lifetime!Init

(* The wrappers of vk_mem_alloc_raii.hpp implement HandleLifetime: seen    *)
(* from the native objects every constructor is a creation, release() a    *)
(* handover, clear() and the destructors a destruction of what nothing in  *)
(* use needs, and moves, swaps and splits are no step at all.              *)
THEOREM WrappersRefineLifetime == CarefulClient => (Spec => LifetimeSpec)
<1> SUFFICES ASSUME CarefulClient
             PROVE  Spec => LifetimeSpec
  OBVIOUS
<1>1. Init => Lifetime!Init
  BY LifeInit
<1>2. IInv /\ IInv' /\ [Next]_vars => [Lifetime!Next]_(Lifetime!vars)
  BY LifeStep
<1> QED BY <1>1, <1>2, Invariant, PTL DEF Spec, LifetimeSpec, Lifetime!Spec

=============================================================================
