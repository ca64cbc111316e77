------------------------------ MODULE VmaUnique ------------------------------
(***************************************************************************)
(* The smart handles of include/vk_mem_alloc_handles.hpp and the creating  *)
(* functions of include/vk_mem_alloc_funcs.hpp that return them, next to   *)
(* the plain handles that the client destroys itself.                      *)
(*                                                                         *)
(* A cell is one vk::UniqueHandle: a handle and a deleter, which keeps a   *)
(* plain copy of the owner.  vk::UniqueHandle itself is vulkan.hpp's; the  *)
(* deleters are this library's.  createBufferUnique and createImageUnique  *)
(* return a std::pair of two cells, the memory first and the resource      *)
(* second.  What a call does to several cells it does one after another:   *)
(* todo holds what is left of the call that runs.                          *)
(***************************************************************************)
EXTENDS Integers, Sequences, FiniteSets

CONSTANTS
  Handles,   \* native handles, which the native library may use again
  ClassOf,   \* the class of each handle
  Cells,     \* bound: places for unique handles
  Used,      \* bound: the classes a client builds null handles of
  MaxLive,   \* bound: native objects that exist at a time
  Mixes,     \* bound: sets of classes that exist at a time
  Null       \* a null handle, a null owner, no cell

PairClasses == {"Buffer", "Image"}
OwnedClasses == {"Pool", "Allocation", "VirtualAllocation"} \cup PairClasses
RootClasses == {"Allocator", "VirtualBlock"}
UniqueClasses == RootClasses \cup OwnedClasses
PlainClasses == UniqueClasses \cup {"DefragmentationContext"}

ASSUME UniqueAssumption ==
  /\ ClassOf \in [Handles -> PlainClasses]
  /\ Used \subseteq UniqueClasses
  /\ MaxLive \in Nat
  /\ Mixes \subseteq SUBSET PlainClasses
  /\ Null \notin Handles
  /\ Null \notin Cells

VARIABLES
  cls,       \* the class of the unique handle in each cell
  own, val,  \* its deleter's owner, its handle
  mate,      \* of the first of a pair: the cell of the second
  live,      \* the native objects that exist
  parent,    \* the owner a native handle was created through
  needs,     \* the native handles that have to outlive it
  raw,       \* plain handles the client has to destroy
  todo,      \* what the running call has yet to do
  exchange,  \* VULKAN_HPP_HANDLES_MOVE_EXCHANGE: moves null a plain handle
  fault      \* a deleter's call got a bad handle or a bad owner

cells == <<cls, own, val, mate>>
native == <<live, parent, needs>>
vars == <<cells, native, raw, todo, exchange, fault>>

OwnerClass(c) == IF c = "VirtualAllocation" THEN "VirtualBlock" ELSE "Allocator"

Fresh(c) == {h \in Handles \ live : ClassOf[h] = c}
Free == {x \in Cells : cls[x] = "none"}
Vals(X) == {val[x] : x \in X} \ {Null}
Held == Vals(Cells)

(* The cells of the object whose first or only cell is x.                  *)
Object(x) == {x, mate[x]} \ {Null}
Seconds == {mate[x] : x \in Cells} \ {Null}
Objects == Cells \ (Seconds \cup Free)

(* Owners are plain handles: any copy will do while the native one lives.  *)
Owners(c) == IF c \in RootClasses THEN {Null}
             ELSE {p \in live : ClassOf[p] = OwnerClass(c)}

(* The client's side: what a call destroys, nothing else in use needs.     *)
Unneeded(S) == \A h \in live \ S : needs[h] \cap S = {}

-----------------------------------------------------------------------------
(* What the operations are built from.                                     *)

Begin == todo = <<>>

(* UniqueHandle(value, owner) in a free cell.                              *)
Fill(x, c, p, h) ==
  /\ cls' = [cls EXCEPT ![x] = c]
  /\ own' = [own EXCEPT ![x] = p]
  /\ val' = [val EXCEPT ![x] = h]

(* Native creation of h through owner p, needing the handles of S too.     *)
Bear(h, p, S) ==
  /\ live' = live \cup {h}
  /\ parent' = [parent EXCEPT ![h] = p]
  /\ needs' = [needs EXCEPT ![h] = S \cup ({p} \ {Null})]

Kill(S) ==
  /\ live' = live \ S
  /\ parent' = [h \in Handles |-> IF h \in S THEN Null ELSE parent[h]]
  /\ needs' = [h \in Handles |-> IF h \in S THEN {} ELSE needs[h]]

(* The deleter's destroy(t) goes against what the native library asks for. *)
BadDestroy(x) ==
  val[x] # Null /\ ~(/\ val[x] \in live
                     /\ own[x] = parent[val[x]]
                     /\ own[x] \in live \cup {Null})

(* Faulty: the deleter destroys nothing.                                   *)
DestroyHeldSkipped(x) ==
  /\ fault' = fault
  /\ Kill({})

(* The deleter's destroy(), whose object has gone by its return.           *)
DestroyHeld(x) ==
  /\ fault' = (fault \/ BadDestroy(x))
  /\ Kill({val[x]})

-----------------------------------------------------------------------------
(* The functions of vk_mem_alloc_funcs.hpp that create.                    *)

(* The bounds leave room for new handles of these classes.                 *)
Room(cs) ==
  /\ Cardinality(live) + Len(cs) <= MaxLive
  /\ \E M \in Mixes : {ClassOf[h] : h \in live} \cup {cs[n] : n \in DOMAIN cs} \subseteq M

(* A pool that a create info may name.                                     *)
PoolsOf(a) == {{}} \cup {{q} : q \in {h \in live : ClassOf[h] = "Pool" /\ parent[h] = a}}

(* createAllocator(), createPool() and so on: the client gets the handle.  *)
CreatePlain(c) ==
  /\ Begin /\ Room(<<c>>)
  /\ \E h \in Fresh(c), p \in Owners(c) : Bear(h, p, {})
  /\ raw' = raw \cup (live' \ live)
  /\ UNCHANGED <<cells, todo, exchange, fault>>

(* vk::Device::createBuffer(), createImage(), on the device of an          *)
(* allocator: a resource without memory.                                   *)
CreateResource(c) == CreatePlain(c)

(* A unique handle for a new h, in a free cell.                            *)
NewUnique(x, h, p, S) ==
  /\ Begin /\ Room(<<ClassOf[h]>>)
  /\ Fill(x, ClassOf[h], p, h)
  /\ Bear(h, p, S)
  /\ UNCHANGED <<mate, raw, todo, exchange, fault>>

(* createAllocatorUnique(), createVirtualBlockUnique(): no owner.          *)
CreateRootUnique(c, x) == \E h \in Fresh(c) : NewUnique(x, h, Null, {})

(* createPoolUnique().                                                     *)
CreatePoolUnique(x) ==
  \E h \in Fresh("Pool"), a \in Owners("Pool") : NewUnique(x, h, a, {})

(* allocateMemoryUnique(), from a pool or not.                             *)
AllocateMemoryUnique(x) ==
  \E h \in Fresh("Allocation"), a \in Owners("Allocation") :
    \E S \in PoolsOf(a) : NewUnique(x, h, a, S)

(* allocateMemoryForBufferUnique(), allocateMemoryForImageUnique(): memory *)
(* that fits a resource, which does not get bound to it.                   *)
AllocateMemoryForUnique(c, x) ==
  \E h \in Fresh("Allocation"), r \in {g \in live : ClassOf[g] = c} :
    \E S \in PoolsOf(parent[r]) : NewUnique(x, h, parent[r], S)

(* virtualAllocateUnique().                                                *)
VirtualAllocateUnique(x) ==
  \E h \in Fresh("VirtualAllocation"), b \in Owners("VirtualAllocation") :
    NewUnique(x, h, b, {})

(* Without exceptions a call that failed still returns a handle: a null    *)
(* one, whose deleter has its owner.                                       *)
CreateFails(c, x) ==
  /\ Begin
  /\ \E p \in Owners(c) : Fill(x, c, p, Null)
  /\ UNCHANGED <<mate, native, raw, todo, exchange, fault>>

(* allocateMemoryPagesUnique(): one native call, a vector of two.          *)
AllocateMemoryPagesUnique(x, y) ==
  /\ Begin /\ Room(<<"Allocation", "Allocation">>)
  /\ \E g, h \in Fresh("Allocation"), a \in Owners("Allocation") :
       /\ g # h
       /\ cls' = [cls EXCEPT ![x] = "Allocation", ![y] = "Allocation"]
       /\ own' = [own EXCEPT ![x] = a, ![y] = a]
       /\ val' = [val EXCEPT ![x] = g, ![y] = h]
       /\ live' = live \cup {g, h}
       /\ parent' = [parent EXCEPT ![g] = a, ![h] = a]
       /\ needs' = [needs EXCEPT ![g] = {a}, ![h] = {a}]
  /\ UNCHANGED <<mate, raw, todo, exchange, fault>>

(* vmaCreateBuffer() and so on: resource r, its memory m bound to it.      *)
BearPair(m, r, a, S) ==
  /\ live' = live \cup {m, r}
  /\ parent' = [parent EXCEPT ![m] = a, ![r] = a]
  /\ needs' = [needs EXCEPT ![m] = S \cup {a}, ![r] = {a, m}]

(* createBuffer(), createImage(): a pair of plain handles.                 *)
CreatePlainPair(c) ==
  /\ Begin /\ Room(<<"Allocation", c>>)
  /\ \E m \in Fresh("Allocation"), r \in Fresh(c), a \in Owners(c) :
       \E S \in PoolsOf(a) : BearPair(m, r, a, S) /\ raw' = raw \cup {m, r}
  /\ UNCHANGED <<cells, todo, exchange, fault>>

(* Faulty: the members of the pair are in the order of the native call.    *)
MakePairReversed(x, y, c, a, m, r) ==
  /\ cls' = [cls EXCEPT ![x] = c, ![y] = "Allocation"]
  /\ own' = [own EXCEPT ![x] = a, ![y] = a]
  /\ val' = [val EXCEPT ![x] = r, ![y] = m]
  /\ mate' = [mate EXCEPT ![x] = y]

(* The pair that createBufferUnique() returns: memory m in the first cell, *)
(* resource r in the second.                                               *)
MakePair(x, y, c, a, m, r) ==
  /\ cls' = [cls EXCEPT ![x] = "Allocation", ![y] = c]
  /\ own' = [own EXCEPT ![x] = a, ![y] = a]
  /\ val' = [val EXCEPT ![x] = m, ![y] = r]
  /\ mate' = [mate EXCEPT ![x] = y]

CreatePair(c, x, y) ==
  /\ Begin /\ Room(<<"Allocation", c>>)
  /\ \E m \in Fresh("Allocation"), r \in Fresh(c), a \in Owners(c) :
       \E S \in PoolsOf(a) : MakePair(x, y, c, a, m, r) /\ BearPair(m, r, a, S)
  /\ UNCHANGED <<raw, todo, exchange, fault>>

(* createBufferUnique() and createBufferWithAlignmentUnique(); then        *)
(* createImageUnique().                                                    *)
CreateBufferUnique(x, y) == CreatePair("Buffer", x, y)
CreateImageUnique(x, y) == CreatePair("Image", x, y)

(* Only the resource is new, the client names the memory.                  *)
CreateAliasing(c, x) ==
  \E r \in Fresh(c), m \in {h \in live : ClassOf[h] = "Allocation"} :
    NewUnique(x, r, parent[m], {m})

(* createAliasingBufferUnique(), createAliasingBuffer2Unique().            *)
CreateAliasingBufferUnique(x) == CreateAliasing("Buffer", x)

(* createAliasingImageUnique(), createAliasingImage2Unique().              *)
CreateAliasingImageUnique(x) == CreateAliasing("Image", x)

(* bindBufferMemory(), bindImageMemory(): r has no memory yet.             *)
BindMemory(c, r, m) ==
  /\ Begin
  /\ {r, m} \subseteq live
  /\ ClassOf[r] = c /\ ClassOf[m] = "Allocation" /\ parent[r] = parent[m]
  /\ \A h \in needs[r] : ClassOf[h] # "Allocation"
  /\ needs' = [needs EXCEPT ![r] = @ \cup {m}]
  /\ UNCHANGED <<cells, live, parent, raw, todo, exchange, fault>>

BindBufferMemory(r, m) == BindMemory("Buffer", r, m)
BindImageMemory(r, m) == BindMemory("Image", r, m)

-----------------------------------------------------------------------------
(* The functions that destroy plain handles, by a careful client.          *)

FreeRaw(S) ==
  /\ Begin
  /\ S # {}
  /\ S \subseteq raw
  /\ Unneeded(S)
  /\ Kill(S)
  /\ raw' = raw \ S
  /\ UNCHANGED <<cells, todo, exchange, fault>>

Free1(c, h) == ClassOf[h] = c /\ FreeRaw({h})

(* Allocator::destroy(), VirtualBlock::destroy().                          *)
DestroyRoot(h) == ClassOf[h] \in RootClasses /\ FreeRaw({h})

DestroyPool(h) == Free1("Pool", h)
FreeMemory(h) == Free1("Allocation", h)
EndDefragmentation(h) == Free1("DefragmentationContext", h)
VirtualFree(h) == Free1("VirtualAllocation", h)

(* freeMemoryPages(), of two pages.                                        *)
FreeMemoryPages(g, h) ==
  /\ g # h
  /\ ClassOf[g] = "Allocation" /\ ClassOf[h] = "Allocation"
  /\ parent[g] = parent[h]
  /\ FreeRaw({g, h})

(* A resource, alone or with the memory m that it needs.                   *)
DestroyResource(c, r) ==
  /\ ClassOf[r] = c
  /\ \/ FreeRaw({r})
     \/ \E m \in needs[r] : ClassOf[m] = "Allocation" /\ FreeRaw({r, m})

DestroyBuffer(r) == DestroyResource("Buffer", r)
DestroyImage(r) == DestroyResource("Image", r)

(* clearVirtualBlock(), of a block whose allocations no cell holds.        *)
ClearVirtualBlock(b) ==
  /\ ClassOf[b] = "VirtualBlock"
  /\ FreeRaw({h \in live : parent[h] = b})

-----------------------------------------------------------------------------
(* The operations of vk::UniqueHandle with this library's deleters.        *)

(* UniqueX().                                                              *)
ConstructNull(c, x) ==
  /\ Begin
  /\ Fill(x, c, Null, Null)
  /\ UNCHANGED <<mate, native, raw, todo, exchange, fault>>

(* UniqueX(handle, owner).                                                 *)
Adopt(x, h) ==
  /\ Begin
  /\ Fill(x, ClassOf[h], parent[h], h)
  /\ raw' = raw \ {h}
  /\ UNCHANGED <<mate, native, todo, exchange, fault>>

(* The owner that a moved deleter leaves behind.                           *)
LeftOwner(y) == IF exchange THEN Null ELSE own[y]

(* UniqueX(std::move(y)).                                                  *)
MoveConstruct(x, y) ==
  /\ Begin
  /\ cls' = [cls EXCEPT ![x] = cls[y]]
  /\ own' = [own EXCEPT ![x] = own[y], ![y] = LeftOwner(y)]
  /\ val' = [val EXCEPT ![x] = val[y], ![y] = Null]
  /\ UNCHANGED <<mate, native, raw, todo, exchange, fault>>

(* The same for the pair whose first cell is y.                            *)
MoveConstructPair(x, z, y) ==
  LET w == mate[y]
  IN /\ Begin
     /\ cls' = [cls EXCEPT ![x] = cls[y], ![z] = cls[w]]
     /\ own' = [own EXCEPT ![x] = own[y], ![z] = own[w],
                           ![y] = LeftOwner(y), ![w] = LeftOwner(w)]
     /\ val' = [val EXCEPT ![x] = val[y], ![z] = val[w], ![y] = Null, ![w] = Null]
     /\ mate' = [mate EXCEPT ![x] = z]
     /\ UNCHANGED <<native, raw, todo, exchange, fault>>

Task(op, x, y) == [op |-> op, to |-> x, from |-> y]

(* x = std::move(y), of single cells or, first member first, of pairs.     *)
MoveAssign(x, y) ==
  /\ Begin
  /\ Unneeded(Vals({x}))
  /\ todo' = <<Task("assign", x, y)>>
  /\ UNCHANGED <<cells, native, raw, exchange, fault>>

MoveAssignPair(x, y) ==
  /\ Begin
  /\ Unneeded(Vals(Object(x)))
  /\ todo' = <<Task("assign", x, y), Task("assign", mate[x], mate[y])>>
  /\ UNCHANGED <<cells, native, raw, exchange, fault>>

(* reset(y.release()) destroys with the old deleter; the new one follows.  *)
StepAssign ==
  /\ todo # <<>>
  /\ Head(todo).op = "assign"
  /\ LET x == Head(todo).to
         y == Head(todo).from
     IN /\ IF x = y THEN UNCHANGED <<native, fault>> ELSE DestroyHeld(x)
        /\ val' = [val EXCEPT ![y] = Null, ![x] = val[y]]
        /\ own' = [own EXCEPT ![y] = LeftOwner(y), ![x] = own[y]]
  /\ todo' = Tail(todo)
  /\ UNCHANGED <<cls, mate, raw, exchange>>

(* reset(h), h a plain handle of the owner in the deleter, or null.        *)
Reset(x, h) ==
  /\ Begin
  /\ Unneeded(Vals({x}))
  /\ DestroyHeld(x)
  /\ val' = [val EXCEPT ![x] = h]
  /\ raw' = raw \ {h}
  /\ UNCHANGED <<cls, own, mate, todo, exchange>>

(* release(): the client destroys the handle from now on.                  *)
Release(x) ==
  /\ Begin
  /\ raw' = raw \cup Vals({x})
  /\ val' = [val EXCEPT ![x] = Null]
  /\ UNCHANGED <<cls, own, mate, native, todo, exchange, fault>>

(* x.swap(y): values and deleters.                                         *)
Swap(x, y) ==
  /\ Begin
  /\ own' = [own EXCEPT ![x] = own[y], ![y] = own[x]]
  /\ val' = [val EXCEPT ![x] = val[y], ![y] = val[x]]
  /\ UNCHANGED <<cls, mate, native, raw, todo, exchange, fault>>

(* The end of an object's life: a pair destroys its members last first.    *)
Destruct(x) ==
  /\ Begin
  /\ Unneeded(Vals(Object(x)))
  /\ todo' = IF mate[x] = Null THEN <<Task("destroy", x, Null)>>
             ELSE <<Task("destroy", mate[x], Null), Task("destroy", x, Null)>>
  /\ UNCHANGED <<cells, native, raw, exchange, fault>>

(* ~UniqueHandle().                                                        *)
StepDestroy ==
  /\ todo # <<>>
  /\ Head(todo).op = "destroy"
  /\ LET x == Head(todo).to
     IN /\ DestroyHeld(x)
        /\ cls' = [cls EXCEPT ![x] = "none"]
        /\ own' = [own EXCEPT ![x] = Null]
        /\ val' = [val EXCEPT ![x] = Null]
        /\ mate' = [mate EXCEPT ![x] = Null]
  /\ todo' = Tail(todo)
  /\ UNCHANGED <<raw, exchange>>

-----------------------------------------------------------------------------

Init ==
  /\ cls = [x \in Cells |-> "none"]
  /\ own = [x \in Cells |-> Null]
  /\ val = [x \in Cells |-> Null]
  /\ mate = [x \in Cells |-> Null]
  /\ live = {}
  /\ parent = [h \in Handles |-> Null]
  /\ needs = [h \in Handles |-> {}]
  /\ raw = {}
  /\ todo = <<>>
  /\ exchange \in BOOLEAN
  /\ fault = FALSE

Creation ==
  \/ \E c \in PlainClasses \ PairClasses : CreatePlain(c)
  \/ \E c \in PairClasses : CreateResource(c)
  \/ \E c \in PairClasses : CreatePlainPair(c)
  \/ \E x \in Free, c \in RootClasses : CreateRootUnique(c, x)
  \/ \E x \in Free : CreatePoolUnique(x)
  \/ \E x \in Free : AllocateMemoryUnique(x)
  \/ \E x \in Free, c \in PairClasses : AllocateMemoryForUnique(c, x)
  \/ \E x \in Free : VirtualAllocateUnique(x)
  \/ \E x \in Free, c \in (OwnedClasses \ PairClasses) \cap Used : CreateFails(c, x)
  \/ \E x, y \in Free : x # y /\ AllocateMemoryPagesUnique(x, y)
  \/ \E x, y \in Free : x # y /\ CreateBufferUnique(x, y)
  \/ \E x, y \in Free : x # y /\ CreateImageUnique(x, y)
  \/ \E x \in Free : CreateAliasingBufferUnique(x)
  \/ \E x \in Free : CreateAliasingImageUnique(x)
  \/ \E r, m \in live : BindBufferMemory(r, m)
  \/ \E r, m \in live : BindImageMemory(r, m)

PlainDestruction ==
  \/ \E h \in raw : DestroyRoot(h)
  \/ \E h \in raw : DestroyPool(h)
  \/ \E h \in raw : FreeMemory(h)
  \/ \E g, h \in raw : FreeMemoryPages(g, h)
  \/ \E h \in raw : EndDefragmentation(h)
  \/ \E h \in raw : VirtualFree(h)
  \/ \E h \in raw : DestroyBuffer(h)
  \/ \E h \in raw : DestroyImage(h)
  \/ \E b \in live : ClearVirtualBlock(b)

Using == Cells \ Free

HandleOperation ==
  \/ \E x \in Free, c \in Used : ConstructNull(c, x)
  \/ \E x \in Free, h \in raw : ClassOf[h] \in UniqueClasses /\ Adopt(x, h)
  \/ \E x \in Free, y \in Using : MoveConstruct(x, y)
  \/ \E x, z \in Free, y \in Objects : x # z /\ mate[y] # Null /\ MoveConstructPair(x, z, y)
  \/ \E x, y \in Using : cls[x] = cls[y] /\ MoveAssign(x, y)
  \/ \E x, y \in Objects :
       /\ mate[x] # Null /\ mate[y] # Null
       /\ cls[mate[x]] = cls[mate[y]]
       /\ MoveAssignPair(x, y)
  \/ \E x \in Using : Reset(x, Null)
  \/ \E x \in Using, h \in raw :
       ClassOf[h] = cls[x] /\ parent[h] = own[x] /\ Reset(x, h)
  \/ \E x \in Using : val[x] # Null /\ Release(x)
  \/ \E x, y \in Using : x # y /\ cls[x] = cls[y] /\ Swap(x, y)
  \/ \E x \in Objects : Destruct(x)

Step == StepAssign \/ StepDestroy

Next == Creation \/ PlainDestruction \/ HandleOperation \/ Step

Spec == Init /\ [][Next]_vars

-----------------------------------------------------------------------------
(* Properties.                                                             *)

TypeOK ==
  /\ cls \in [Cells -> UniqueClasses \cup {"none"}]
  /\ own \in [Cells -> Handles \cup {Null}]
  /\ val \in [Cells -> Handles \cup {Null}]
  /\ mate \in [Cells -> Cells \cup {Null}]
  /\ live \in SUBSET Handles
  /\ parent \in [Handles -> Handles \cup {Null}]
  /\ needs \in [Handles -> SUBSET Handles]
  /\ raw \in SUBSET live
  /\ todo \in Seq([op : {"assign", "destroy"}, to : Cells, from : Cells \cup {Null}])
  /\ exchange \in BOOLEAN
  /\ fault = FALSE

(* Every live handle has one owner, the client or one cell.                *)
OneOwner ==
  /\ live = raw \cup Held
  /\ raw \cap Held = {}
  /\ \A x, y \in Cells : val[x] = val[y] /\ x # y => val[x] = Null

(* What a cell holds was created through the owner in its deleter.         *)
DeleterFits ==
  \A x \in Cells : val[x] # Null => cls[x] = ClassOf[val[x]] /\ own[x] = parent[val[x]]

(* An owner outlives all that was created through it.                      *)
OwnersLive ==
  \A h \in live : IF ClassOf[h] \in RootClasses THEN parent[h] = Null
                  ELSE parent[h] \in live /\ ClassOf[parent[h]] \in RootClasses

(* The smart handles and the plain ones together own each live native      *)
(* object exactly once, whatever is moved, swapped, reset or released, and *)
(* no deleter makes a bad call, with either way of moving plain handles.   *)
UInv == TypeOK /\ OneOwner /\ DeleterFits /\ OwnersLive

(* What a running pair assignment has yet to overwrite.                    *)
Overwritten ==
  Vals({todo[i].to : i \in {j \in 1 .. Len(todo) : todo[j].op = "assign"}})

(* Memory outlives the resource bound to it.  The one exception is the     *)
(* pair that createBufferUnique() returns while another is assigned to it: *)
(* std::pair assigns the memory first.                                     *)
MemoryLast == \A h \in live \ Overwritten : needs[h] \subseteq live

=============================================================================
