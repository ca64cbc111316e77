------------------------------- MODULE VmaRaii -------------------------------
(***************************************************************************)
(* The RAII wrapper objects of include/vk_mem_alloc_raii.hpp and the       *)
(* native objects they own.                                                *)
(*                                                                         *)
(* A program is a stack of scopes: constructors push an object on slot     *)
(* top + 1, destructors run on slot top.  An object is made of at most two *)
(* subobjects, each a cell with an owner and a handle:                     *)
(*   vma[o]  the pair m_<owner>, m_<handle> of a handle class; in          *)
(*           vma::raii::Buffer and Image, their member m_allocation;       *)
(*   vk[o]   the vk::raii::Buffer or Image that vma::raii::Buffer and      *)
(*           Image derive from, or that stands alone.                      *)
(* The native side is what VMA and Vulkan know: which handles are live,    *)
(* through which owner each was created, and which handles each needs.     *)
(***************************************************************************)
EXTENDS Integers, FiniteSets

CONSTANTS
  Handles,        \* native handles, each used for one native object only
  ClassOf,        \* the class of the object that wraps each handle
  N,              \* bound: how many wrapper objects exist at once
  Used,           \* bound: the classes a client builds null objects of
  Null,           \* a null handle or a null owner
  Dev,            \* the vk::Device, which outlives the program modelled
  CarefulClient   \* the client never destroys behind a wrapper's back

VmaClasses == {"Allocator", "Pool", "Allocation", "DefragmentationContext",
               "VirtualBlock", "VirtualAllocation", "StatsString"}
VkClasses == {"vkBuffer", "vkImage"}
CombinedClasses == {"Buffer", "Image"}
Classes == VmaClasses \cup VkClasses \cup CombinedClasses

(* The Vulkan class that a combined class derives from.                    *)
BaseOf == [c \in CombinedClasses |-> IF c = "Buffer" THEN "vkBuffer" ELSE "vkImage"]

ASSUME RaiiAssumption ==
  /\ ClassOf \in [Handles -> VmaClasses \cup VkClasses]
  /\ N \in Nat
  /\ Used \subseteq Classes
  /\ Null \notin Handles
  /\ Dev \notin Handles
  /\ Null # Dev
  /\ CarefulClient \in BOOLEAN

VARIABLES
  top,      \* the youngest object's slot
  cls,      \* class of the object on each slot
  vma,      \* its VMA subobject
  vk,       \* its Vulkan subobject
  born,     \* native handles created so far
  live,     \* those not yet destroyed
  parent,   \* the owner a native handle was created through
  needs,    \* the native handles that have to outlive it
  raw,      \* plain handles a release() gave to the client
  fault,    \* a native destroy call got a bad handle or a bad owner
  closing   \* the program unwinds its stack

objects == <<top, cls, vma, vk>>
native == <<born, live, parent, needs>>
vars == <<top, cls, vma, vk, born, live, parent, needs, raw, fault, closing>>

Slots == 1 .. N
Alive == 1 .. top
VmaHandles == {h \in Handles : ClassOf[h] \in VmaClasses}
VkHandles == {h \in Handles : ClassOf[h] \in VkClasses}

(* StatsString has one more member, m_destructor: the function that frees  *)
(* the string of an owner of that class.                                   *)
DestructorOf(own, hnd) ==
  IF hnd \in Handles /\ ClassOf[hnd] = "StatsString" /\ own \in Handles
  THEN ClassOf[own] ELSE "none"

Cell(own, hnd) ==
  [own |-> own, hnd |-> hnd, destructor |-> DestructorOf(own, hnd)]
Empty == Cell(Null, Null)

(* The native handles that the object on slot o would destroy.             *)
Holds(o) == {vma[o].hnd, vk[o].hnd} \ {Null}
Held == UNION {Holds(o) : o \in Slots}

Fresh(c) == {h \in Handles \ born : ClassOf[h] = c}

-----------------------------------------------------------------------------
(* The client's side of the contract.  C++ cannot enforce it: an owner has *)
(* to be destroyed after everything that was created through it, and the   *)
(* memory of a resource after the resource.                                *)

(* What an object holds needs nothing that a younger object holds.         *)
Outlives ==
  \A o, p \in Slots : \A h \in Holds(o) : needs[h] \cap Holds(p) # {} => p <= o

(* No other object holds something that needs a handle of object s.        *)
Undepended(s) ==
  \A o \in Slots \ {s} : \A h \in Holds(o) : needs[h] \cap Holds(s) = {}

(* Nothing live outside S needs a handle of S.                             *)
Unneeded(S) == \A h \in live \ S : needs[h] \cap S = {}

(* Plain handles that need a handle of S have been freed.                  *)
NoRawUserOf(S) == \A h \in raw : needs[h] \cap S = {}

(* A careful client lets no wrapper destroy a context it ended itself.     *)
Careful(o) ==
  CarefulClient /\ cls[o] = "DefragmentationContext" => Holds(o) \subseteq live

-----------------------------------------------------------------------------
(* What the operations are built from.                                     *)

(* A constructor builds an object of class c on the next slot.  A wrapper  *)
(* constructor does what the creating function that it calls does.         *)
Push(c) ==
  /\ ~closing
  /\ top < N
  /\ top' = top + 1
  /\ cls' = [cls EXCEPT ![top + 1] = c]

(* Native creation of h through owner p, needing the handles of S.         *)
Bear(h, p, S) ==
  /\ born' = born \cup {h}
  /\ live' = live \cup {h}
  /\ parent' = [parent EXCEPT ![h] = p]
  /\ needs' = [needs EXCEPT ![h] = S]

Kill(S) ==
  /\ live' = live \ S
  /\ UNCHANGED <<born, parent, needs>>

(* m_owner.destroyHandle(m_handle), or m_destructor(m_owner, m_handle),    *)
(* breaks the native library's rules.                                      *)
BadVmaCall(o) ==
  LET h == vma[o].hnd
      p == vma[o].own
      lawful == /\ h \in live
                /\ p = parent[h]
                /\ p \in live \cup {Dev, Null}
                /\ vma[o].destructor = DestructorOf(parent[h], h)
  IN h # Null /\ ~lawful

(* So does the destroy call of a vk::raii object.                          *)
BadVkCall(o) == vk[o].hnd # Null /\ ~(vk[o].hnd \in live /\ vk[o].own = Dev)

(* One vmaDestroyBuffer destroys both; it takes a null buffer.             *)
BadCombinedCall(o) == BadVmaCall(o) \/ vk[o].hnd \notin live \cup {Null}

BadDestroy(o) ==
  IF cls[o] \in CombinedClasses /\ vma[o].hnd # Null
  THEN BadCombinedCall(o)
  ELSE BadVmaCall(o) \/ BadVkCall(o)

(* Destroys what object o holds.                                           *)
DestroyHeld(o) ==
  /\ fault' = (fault \/ BadDestroy(o))
  /\ Kill(Holds(o))

-----------------------------------------------------------------------------
(* Constructors and creating functions.                                    *)

(* X(nullptr).  A creating function that fails builds no object when it    *)
(* throws, and this one, by Converter::none(), when it must not.           *)
ConstructNull(c) ==
  /\ Push(c)
  /\ UNCHANGED <<vma, vk, native, raw, fault, closing>>

(* createAllocator and createVirtualBlock: these have no owner handle.     *)
CreateRoot(c) ==
  /\ Push(c)
  /\ \E h \in Fresh(c) :
       LET p == IF c = "Allocator" THEN Dev ELSE Null
       IN /\ vma' = [vma EXCEPT ![top + 1] = Cell(p, h)]
          /\ Bear(h, p, {})
  /\ UNCHANGED <<vk, raw, fault, closing>>

(* The pool that a create info may name; Null for none.                    *)
PoolsOf(a) == {Null} \cup {q \in live : ClassOf[q] = "Pool" /\ parent[q] = a}

(* p.createX(...), where only the info of some classes names a pool.       *)
CreateOwned(c, p) ==
  /\ Push(c)
  /\ vma[p].hnd # Null
  /\ \E h \in Fresh(c), q \in PoolsOf(vma[p].hnd) :
       /\ q # Null => c \in {"Allocation", "DefragmentationContext"}
       /\ vma' = [vma EXCEPT ![top + 1] = Cell(vma[p].hnd, h)]
       /\ Bear(h, vma[p].hnd, {vma[p].hnd, q} \ {Null})
  /\ UNCHANGED <<vk, raw, fault, closing>>

(* createBuffer, createImage: one native call makes memory m and resource  *)
(* r bound to it, and the wrapper takes both.                              *)
CreateCombined(c, p) ==
  /\ Push(c)
  /\ vma[p].hnd # Null
  /\ \E m \in Fresh("Allocation"), r \in Fresh(BaseOf[c]), q \in PoolsOf(vma[p].hnd) :
       LET a == vma[p].hnd
           S == {a, q} \ {Null}
       IN /\ vma' = [vma EXCEPT ![top + 1] = Cell(a, m)]
          /\ vk' = [vk EXCEPT ![top + 1] = Cell(vma[p].own, r)]
          /\ born' = born \cup {m, r}
          /\ live' = live \cup {m, r}
          /\ parent' = [parent EXCEPT ![m] = a, ![r] = Dev]
          /\ needs' = [needs EXCEPT ![m] = S, ![r] = S \cup {m}]
  /\ UNCHANGED <<raw, fault, closing>>

(* createAliasingBuffer(m, ...): a new resource in memory that stays where *)
(* it is.                                                                  *)
CreateAliasing(c, p) ==
  /\ Push(c)
  /\ vma[p].hnd # Null
  /\ \E r \in Fresh(c), m \in live :
       /\ ClassOf[m] = "Allocation"
       /\ parent[m] = vma[p].hnd
       /\ vk' = [vk EXCEPT ![top + 1] = Cell(vma[p].own, r)]
       /\ Bear(r, Dev, needs[m] \cup {m})
  /\ UNCHANGED <<vma, raw, fault, closing>>

(* vk::raii::Buffer(device, info): a resource without memory.              *)
CreateVk(c) ==
  /\ Push(c)
  /\ \E r \in Fresh(c) :
       /\ vk' = [vk EXCEPT ![top + 1] = Cell(Dev, r)]
       /\ Bear(r, Dev, {})
  /\ UNCHANGED <<vma, raw, fault, closing>>

-----------------------------------------------------------------------------
(* Combining variants: they take a wrapper apart and build a combined one. *)

(* createAliasingBuffer(std::move(s), ...)                                 *)
CombineAliasing(c, p, s) ==
  /\ Push(c)
  /\ vma[p].hnd # Null
  /\ cls[s] = "Allocation"
  /\ vma[s].hnd # Null
  /\ parent[vma[s].hnd] = vma[p].hnd
  /\ Undepended(s)
  /\ \E r \in Fresh(BaseOf[c]) :
       /\ vma' = [vma EXCEPT ![s] = Empty, ![top + 1] = vma[s]]
       /\ vk' = [vk EXCEPT ![top + 1] = Cell(vma[p].own, r)]
       /\ Bear(r, Dev, needs[vma[s].hnd] \cup {vma[s].hnd})
  /\ UNCHANGED <<raw, fault, closing>>

(* allocateMemoryForBuffer(std::move(s), ...): it does not bind.           *)
CombineAllocate(c, p, s) ==
  /\ Push(c)
  /\ vma[p].hnd # Null
  /\ cls[s] = BaseOf[c]
  /\ vk[s].hnd # Null
  /\ needs[vk[s].hnd] = {}
  /\ \E m \in Fresh("Allocation"), q \in PoolsOf(vma[p].hnd) :
       /\ vma' = [vma EXCEPT ![top + 1] = Cell(vma[p].hnd, m)]
       /\ vk' = [vk EXCEPT ![s] = Empty, ![top + 1] = vk[s]]
       /\ Bear(m, vma[p].hnd, {vma[p].hnd, q} \ {Null})
  /\ UNCHANGED <<raw, fault, closing>>

(* std::move(a).bindBuffer(std::move(s))                                   *)
CombineBind(c, a, s) ==
  LET m == vma[a].hnd
      r == vk[s].hnd
  IN /\ Push(c)
     /\ cls[a] = "Allocation"
     /\ m # Null
     /\ cls[s] = BaseOf[c]
     /\ r # Null
     /\ needs[r] = {}
     /\ Undepended(a)
     /\ vma' = [vma EXCEPT ![a] = Empty, ![top + 1] = vma[a]]
     /\ vk' = [vk EXCEPT ![s] = Empty, ![top + 1] = vk[s]]
     /\ needs' = [needs EXCEPT ![r] = needs[m] \cup {m}]
     /\ UNCHANGED <<born, live, parent, raw, fault, closing>>

(* a.bindBuffer(s), where a and s may be parts of combined objects.        *)
Bind(a, s) ==
  LET m == vma[a].hnd
      r == vk[s].hnd
  IN /\ ~closing
     /\ m # Null
     /\ ClassOf[m] = "Allocation"
     /\ r # Null
     /\ needs[r] = {}
     /\ needs' = [needs EXCEPT ![r] = needs[m] \cup {m}]
     /\ UNCHANGED <<objects, born, live, parent, raw, fault, closing>>
     /\ Outlives'

-----------------------------------------------------------------------------
(* Members that every class has.                                           *)

(* Faulty: a move constructor that copies the members.                     *)
MoveCopies(s) ==
  /\ Push(cls[s])
  /\ Undepended(s)
  /\ vma' = [vma EXCEPT ![top + 1] = vma[s]]
  /\ vk' = [vk EXCEPT ![top + 1] = vk[s]]
  /\ UNCHANGED <<native, raw, fault, closing>>

(* X(X&& rhs): exchange(rhs.m_x, {}) on every member.                      *)
MoveConstruct(s) ==
  /\ Push(cls[s])
  /\ Undepended(s)
  /\ vma' = [vma EXCEPT ![s] = Empty, ![top + 1] = vma[s]]
  /\ vk' = [vk EXCEPT ![s] = Empty, ![top + 1] = vk[s]]
  /\ UNCHANGED <<native, raw, fault, closing>>

(* Faulty: operator=(X&&) moves over the Vulkan base, dropping its handle.  *)
SwapDropsBase(d, s) ==
  /\ ~closing
  /\ d # s
  /\ cls[d] = cls[s]
  /\ vma' = [vma EXCEPT ![d] = vma[s], ![s] = vma[d]]
  /\ vk' = [vk EXCEPT ![d] = vk[s], ![s] = Empty]
  /\ UNCHANGED <<top, cls, native, raw, fault, closing>>
  /\ Outlives'

(* Faulty: a swap of stats strings that leaves m_destructor where it was.   *)
SwapKeepsDestructor(d, s) ==
  /\ ~closing
  /\ d # s
  /\ cls[d] = cls[s]
  /\ vma' = [vma EXCEPT ![d] = [vma[s] EXCEPT !.destructor = vma[d].destructor],
                        ![s] = [vma[d] EXCEPT !.destructor = vma[s].destructor]]
  /\ vk' = [vk EXCEPT ![d] = vk[s], ![s] = vk[d]]
  /\ UNCHANGED <<top, cls, native, raw, fault, closing>>
  /\ Outlives'

(* operator=(X&&), swap(X&): both std::swap every member.                  *)
Swap(d, s) ==
  /\ ~closing
  /\ d # s
  /\ cls[d] = cls[s]
  /\ vma' = [vma EXCEPT ![d] = vma[s], ![s] = vma[d]]
  /\ vk' = [vk EXCEPT ![d] = vk[s], ![s] = vk[d]]
  /\ UNCHANGED <<top, cls, native, raw, fault, closing>>
  /\ Outlives'

(* clear()                                                                 *)
Clear(o) ==
  /\ ~closing
  /\ Careful(o)
  /\ Unneeded(Holds(o))
  /\ cls[o] \in CombinedClasses => vma[o].hnd # Null
  /\ DestroyHeld(o)
  /\ vma' = [vma EXCEPT ![o] = Empty]
  /\ vk' = [vk EXCEPT ![o] = Empty]
  /\ UNCHANGED <<top, cls, raw, closing>>

(* Faulty: release() destroys what it returns.                             *)
ReleaseDestroys(o) ==
  /\ ~closing
  /\ Careful(o)
  /\ Unneeded(Holds(o))
  /\ DestroyHeld(o)
  /\ raw' = raw \cup Holds(o)
  /\ vma' = [vma EXCEPT ![o] = Empty]
  /\ vk' = [vk EXCEPT ![o] = Empty]
  /\ UNCHANGED <<top, cls, closing>>

(* Faulty: release() returns the handle and keeps it.                      *)
ReleaseKeepsHandle(o) ==
  /\ ~closing
  /\ raw' = raw \cup (Holds(o) \cap live)
  /\ UNCHANGED <<objects, native, fault, closing>>

(* release(): the client owns what the object held, unless it is dead.     *)
Release(o) ==
  /\ ~closing
  /\ raw' = raw \cup (Holds(o) \cap live)
  /\ vma' = [vma EXCEPT ![o] = Empty]
  /\ vk' = [vk EXCEPT ![o] = Empty]
  /\ UNCHANGED <<top, cls, native, fault, closing>>

(* Faulty: a destructor that forgets to clear().                           *)
DestructForgets(o) ==
  /\ o = top
  /\ NoRawUserOf(Holds(o))
  /\ top' = top - 1
  /\ cls' = [cls EXCEPT ![o] = "none"]
  /\ vma' = [vma EXCEPT ![o] = Empty]
  /\ vk' = [vk EXCEPT ![o] = Empty]
  /\ UNCHANGED <<native, raw, fault, closing>>

(* ~X() { clear(); }, then the destructors of members and base.            *)
Destruct(o) ==
  /\ o = top
  /\ Careful(o)
  /\ NoRawUserOf(Holds(o))
  /\ DestroyHeld(o)
  /\ top' = top - 1
  /\ cls' = [cls EXCEPT ![o] = "none"]
  /\ vma' = [vma EXCEPT ![o] = Empty]
  /\ vk' = [vk EXCEPT ![o] = Empty]
  /\ UNCHANGED <<raw, closing>>

Members(o) ==
  \/ MoveConstruct(o)
  \/ \E s \in Alive : Swap(o, s)
  \/ Clear(o)
  \/ Release(o)
  \/ Destruct(o)

-----------------------------------------------------------------------------
(* Members of some classes.                                                *)

(* Faulty: split() returns the resource first and the memory on top.       *)
SplitReversed(s) ==
  /\ ~closing
  /\ top + 2 <= N
  /\ Undepended(s)
  /\ top' = top + 2
  /\ cls' = [cls EXCEPT ![top + 1] = BaseOf[cls[s]], ![top + 2] = "Allocation"]
  /\ vma' = [vma EXCEPT ![s] = Empty, ![top + 2] = vma[s]]
  /\ vk' = [vk EXCEPT ![s] = Empty, ![top + 1] = vk[s]]
  /\ UNCHANGED <<native, raw, fault, closing>>

(* Faulty: split() moves the memory out and leaves the resource behind.    *)
SplitKeepsBase(s) ==
  /\ ~closing
  /\ top + 2 <= N
  /\ Undepended(s)
  /\ top' = top + 2
  /\ cls' = [cls EXCEPT ![top + 1] = "Allocation", ![top + 2] = BaseOf[cls[s]]]
  /\ vma' = [vma EXCEPT ![s] = Empty, ![top + 1] = vma[s]]
  /\ UNCHANGED <<vk, native, raw, fault, closing>>

(* split(): a pair of an Allocation and, younger and so destroyed first, a *)
(* vk::raii::Buffer.                                                       *)
Split(s) ==
  /\ ~closing
  /\ top + 2 <= N
  /\ Undepended(s)
  /\ top' = top + 2
  /\ cls' = [cls EXCEPT ![top + 1] = "Allocation", ![top + 2] = BaseOf[cls[s]]]
  /\ vma' = [vma EXCEPT ![s] = Empty, ![top + 1] = vma[s]]
  /\ vk' = [vk EXCEPT ![s] = Empty, ![top + 2] = vk[s]]
  /\ UNCHANGED <<native, raw, fault, closing>>

(* vk::raii::Buffer b = std::move(s): public inheritance lets the client   *)
(* move the base out and leave the allocation.                             *)
Slice(s) ==
  /\ Push(BaseOf[cls[s]])
  /\ vk' = [vk EXCEPT ![s] = Empty, ![top + 1] = vk[s]]
  /\ UNCHANGED <<vma, native, raw, fault, closing>>

(* static_cast<vk::raii::Buffer&>(d) = std::move(s), or std::swap of the   *)
(* bases: the Vulkan subobjects change places under the memory of d, and   *)
(* of s when s is combined too.  The base's own clear() and release(),     *)
(* which d's hide, come to this with an s that goes on to clear itself.    *)
SwapBase(d, s) ==
  /\ ~closing
  /\ d # s
  /\ cls[d] \in CombinedClasses
  /\ cls[s] \in {cls[d], BaseOf[cls[d]]}
  /\ vk' = [vk EXCEPT ![d] = vk[s], ![s] = vk[d]]
  /\ UNCHANGED <<top, cls, vma, native, raw, fault, closing>>
  /\ Outlives'

(* endDefragmentation() const: the native context ends, the wrapper keeps  *)
(* its handle.  A careful client then takes it out with release().         *)
EndDefragmentation(o) ==
  /\ ~closing
  /\ vma[o].hnd # Null
  /\ Careful(o)
  /\ fault' = (fault \/ BadVmaCall(o))
  /\ Kill({vma[o].hnd})
  /\ UNCHANGED <<objects, raw, closing>>

(* clearBlock() const: vmaClearVirtualBlock frees every virtual allocation *)
(* of the block.  A careful client has none left in a wrapper.             *)
ClearBlock(o) ==
  LET S == {h \in live : ClassOf[h] = "VirtualAllocation" /\ parent[h] = vma[o].hnd}
  IN /\ ~closing
     /\ vma[o].hnd # Null
     /\ CarefulClient => S \cap Held = {}
     /\ Kill(S)
     /\ raw' = raw \ S
     /\ UNCHANGED <<objects, fault, closing>>

-----------------------------------------------------------------------------
(* One disjunct per member function that changes state, class by class.    *)

AllocatorClass(o) ==
  /\ cls[o] = "Allocator"
  /\ \/ Members(o)
     \/ \E c \in {"Pool", "Allocation", "DefragmentationContext", "StatsString"} :
          CreateOwned(c, o)
     \/ \E c \in CombinedClasses :
          \/ CreateCombined(c, o)
          \/ \E s \in Alive : CombineAliasing(c, o, s) \/ CombineAllocate(c, o, s)
     \/ \E c \in VkClasses : CreateAliasing(c, o)

PoolClass(o) == cls[o] = "Pool" /\ Members(o)

AllocationClass(o) ==
  /\ cls[o] = "Allocation"
  /\ \/ Members(o)
     \/ \E s \in Alive :
          Bind(o, s) \/ \E c \in CombinedClasses : CombineBind(c, o, s)

DefragmentationContextClass(o) ==
  /\ cls[o] = "DefragmentationContext"
  /\ Members(o) \/ EndDefragmentation(o)

VirtualAllocationClass(o) == cls[o] = "VirtualAllocation" /\ Members(o)

VirtualBlockClass(o) ==
  /\ cls[o] = "VirtualBlock"
  /\ \/ Members(o)
     \/ \E c \in {"VirtualAllocation", "StatsString"} : CreateOwned(c, o)
     \/ ClearBlock(o)

(* getAllocation().bindBuffer(s) reaches the member of a combined object.  *)
CombinedMembers(o) ==
  \/ Members(o)
  \/ Split(o)
  \/ Slice(o)
  \/ \E s \in Alive : Bind(o, s) \/ SwapBase(o, s)

BufferClass(o) == cls[o] = "Buffer" /\ CombinedMembers(o)

ImageClass(o) == cls[o] = "Image" /\ CombinedMembers(o)

StatsStringClass(o) == cls[o] = "StatsString" /\ Members(o)

VkClass(o) == cls[o] \in VkClasses /\ Members(o)

MemberCall(o) ==
  \/ AllocatorClass(o)
  \/ PoolClass(o)
  \/ AllocationClass(o)
  \/ DefragmentationContextClass(o)
  \/ VirtualAllocationClass(o)
  \/ VirtualBlockClass(o)
  \/ BufferClass(o)
  \/ ImageClass(o)
  \/ StatsStringClass(o)
  \/ VkClass(o)

(* The plain functions destroy what the client owns, users first.          *)
FreeRaw(h) ==
  /\ h \in raw
  /\ Unneeded({h})
  /\ raw' = raw \ {h}
  /\ Kill({h})
  /\ UNCHANGED <<objects, fault, closing>>

(* The end of the program, or an exception nobody catches before main.     *)
Exit ==
  /\ ~closing
  /\ \A o \in Slots : Careful(o)
  /\ closing' = TRUE
  /\ UNCHANGED <<objects, native, raw, fault>>

Init ==
  /\ top = 0
  /\ cls = [o \in Slots |-> "none"]
  /\ vma = [o \in Slots |-> Empty]
  /\ vk = [o \in Slots |-> Empty]
  /\ born = {}
  /\ live = {}
  /\ parent = [h \in Handles |-> Null]
  /\ needs = [h \in Handles |-> {}]
  /\ raw = {}
  /\ fault = FALSE
  /\ closing = FALSE

Next ==
  \/ \E c \in Used : ConstructNull(c)
  \/ \E c \in {"Allocator", "VirtualBlock"} : CreateRoot(c)
  \/ \E c \in VkClasses : CreateVk(c)
  \/ \E o \in Alive : MemberCall(o)
  \/ \E h \in Handles : FreeRaw(h)
  \/ Exit

(* C++ runs the destructors of a stack that unwinds, and a client frees    *)
(* the plain handles it took before it ends.                               *)
Unwind ==
  /\ closing
  /\ \/ \E o \in Alive : MemberCall(o)
     \/ \E h \in Handles : FreeRaw(h)

Spec == Init /\ [][Next]_vars

FairSpec == Spec /\ WF_vars(Unwind)

-----------------------------------------------------------------------------
CellType(H) == [own : Handles \cup {Dev, Null}, hnd : H \cup {Null},
                destructor : VmaClasses \cup VkClasses \cup {"none"}]

(* The variables have their types: plain handles are live, live ones born, *)
(* and no object is younger than top.                                      *)
TypeOK ==
  /\ top \in 0 .. N
  /\ cls \in [Slots -> Classes \cup {"none"}]
  /\ vma \in [Slots -> CellType(VmaHandles)]
  /\ vk \in [Slots -> CellType(VkHandles)]
  /\ born \in SUBSET Handles
  /\ live \in SUBSET born
  /\ parent \in [Handles -> Handles \cup {Dev, Null}]
  /\ needs \in [Handles -> SUBSET born]
  /\ raw \in SUBSET live
  /\ fault \in BOOLEAN
  /\ closing \in BOOLEAN

(* Every destroy call a wrapper makes, from clear() or from a destructor,  *)
(* gets a live handle, the owner it was created through and, for a string, *)
(* the destructor of that owner.                                           *)
NoFault == ~fault

(* Whatever is live has an owner, wrapper or client, and only one: moves,  *)
(* swaps, splits and combining calls neither drop nor copy a handle.       *)
OneOwner ==
  /\ live \subseteq Held \cup raw
  /\ Held \cap raw = {}
  /\ \A o, p \in Slots : o # p => Holds(o) \cap Holds(p) = {}

(* Nothing live needs what is destroyed: an owner outlives what it owns,   *)
(* and memory the resources bound to it.                                   *)
UsersFirst == \A h \in live : needs[h] \subseteq live

(* A combined object comes to hold a resource without memory, which its    *)
(* clear() would leave to the base class, only when the client reaches     *)
(* around it for the base: no member of its own takes one half away.       *)
Loose == {o \in Alive : cls[o] \in CombinedClasses /\ vk[o].hnd # Null /\ vma[o].hnd = Null}
LooseResources == {vk[o].hnd : o \in Loose}

WholeStep ==
  \/ LooseResources' \subseteq LooseResources
  \/ \E d, s \in Alive : SwapBase(d, s)

CombinedWhole == [][WholeStep]_vars

(* A wrapped handle is destroyed by its wrapper only: destructors have no  *)
(* method of their own.                                                    *)
WrappedIsLive == Held \subseteq live

(* Seen from the native objects, wrappers only pass them on: a life that   *)
(* HandleLifetime allows.  A handle that no one holds is in no state of it.*)
StateOf(h) ==
  CASE h \notin born -> "unborn"
    [] h \in born \ live -> "gone"
    [] h \in live \cap (Held \ raw) -> "wrapped"
    [] h \in live \cap (raw \ Held) -> "plain"
    [] OTHER -> "lost"

Lifetime == INSTANCE HandleLifetime WITH state <- [h \in Handles |-> StateOf(h)]

LifetimeSpec == Lifetime!Spec

(* A stack that unwinds leaves no native object behind.                    *)
UnwindsToNothing == closing ~> (top = 0 /\ live = {})

-----------------------------------------------------------------------------
(* The inductive invariant behind the safety properties of a careful       *)
(* client.  An object holds only what its class can hold.                  *)
ObjectShape ==
  \A o \in Slots :
    /\ cls[o] = "none" <=> o > top
    /\ cls[o] = "none" => vma[o].hnd = Null /\ vk[o].hnd = Null
    /\ cls[o] \in VmaClasses =>
         /\ vma[o].hnd # Null => ClassOf[vma[o].hnd] = cls[o]
         /\ vk[o].hnd = Null
    /\ cls[o] \in VkClasses =>
         /\ vk[o].hnd # Null => ClassOf[vk[o].hnd] = cls[o]
         /\ vma[o].hnd = Null
    /\ cls[o] \in CombinedClasses =>
         /\ vma[o].hnd # Null => ClassOf[vma[o].hnd] = "Allocation"
         /\ vk[o].hnd # Null => ClassOf[vk[o].hnd] = BaseOf[cls[o]]

(* It holds it next to the owner that its native destroy call takes, and   *)
(* the destructor of that owner.                                           *)
OwnersKnown ==
  \A o \in Slots :
    /\ vma[o].hnd # Null => vma[o] = Cell(parent[vma[o].hnd], vma[o].hnd)
    /\ vk[o].hnd # Null => vk[o].own = Dev

(* A handle's owner is among what it needs; buffers and images are not.    *)
NeedsRecorded ==
  \A h \in born :
    /\ parent[h] \in needs[h] \cup {Dev, Null}
    /\ ClassOf[h] = "Allocator" => parent[h] = Dev
    /\ \A g \in needs[h] :
         g # h /\ ClassOf[g] \in {"Allocator", "Pool", "Allocation", "VirtualBlock"}

(* Only a defragmentation context may be dead in its wrapper.              *)
HeldIsLive ==
  \A o \in Slots :
    /\ Holds(o) \subseteq born
    /\ cls[o] # "DefragmentationContext" => Holds(o) \subseteq live

(* What every call of a careful client preserves, and what the proofs use. *)
IInv ==
  /\ TypeOK
  /\ ObjectShape
  /\ OwnersKnown
  /\ NeedsRecorded
  /\ HeldIsLive
  /\ OneOwner
  /\ UsersFirst
  /\ Outlives
  /\ NoFault

=============================================================================
