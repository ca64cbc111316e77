---------------------------- MODULE CreatingCall ----------------------------
(***************************************************************************)
(* One call of a creating function, step by step.                          *)
(*                                                                         *)
(* Each function of vk_mem_alloc_funcs.hpp that creates something has a    *)
(* plain and mostly a Unique variant; that of vk_mem_alloc_raii.hpp is     *)
(*     return m_allocator.f(args), detail::wrap<Result>(more args);        *)
(* the plain function, an overloaded comma, and a conversion of both to    *)
(* the Result, a wrapper, a vector of wrappers or a ResultValue of one.    *)
(*                                                                         *)
(* Shapes of what is created:                                              *)
(*   "one"       a handle           allocateMemory, createAliasingBuffer   *)
(*   "pair"      memory and a resource in it  createBuffer                 *)
(*   "pages"     a vector of handles          allocateMemoryPages          *)
(*   "alias"     a resource, given memory     createAliasingBuffer(m&&)    *)
(*   "allocate"  memory, given a resource     allocateMemoryForBuffer(r&&) *)
(*   "bind"      nothing, given both          bindBuffer(r&&) &&           *)
(***************************************************************************)
EXTENDS Integers, FiniteSets

CONSTANTS
  Memories,    \* native handles of memory, each used once
  Resources,   \* native handles of buffers and images, each used once
  MaxSize      \* bound: the sizes of the arrays a call is given

ASSUME CallAssumption ==
  /\ Memories \cap Resources = {}
  /\ MaxSize \in Nat

VARIABLES
  build,        \* how the headers were compiled
  objects,      \* per non-null wrapper or Unique object, the set of its handles
  client,       \* plain handles that the client owns
  dead,         \* destroyed handles
  lost,         \* live handles that nobody knows
  pc,           \* the next step of the call
  api, shape,   \* the variant called, and what it creates
  args,         \* the objects it was given with std::move
  sizes,        \* of vkMemoryRequirements, createInfo and allocationInfo
  wrapped,      \* detail::wrap has run
  failed,       \* the native call returned an error
  made,         \* what it created, still in local variables
  built         \* the elements of the result vector so far

world == <<objects, client, dead, lost>>
vars == <<build, objects, client, dead, lost, pc, api, shape, args, sizes, wrapped, failed,
          made, built>>

Handles == Memories \cup Resources
Unborn == Handles \ ((UNION objects) \cup (UNION built) \cup client \cup dead \cup lost \cup made)

(* VULKAN_HPP_NO_EXCEPTIONS is not defined; it is, and VULKAN_HPP_ASSERT    *)
(* is active; it is, and NDEBUG turns VULKAN_HPP_ASSERT into nothing.      *)
Builds == {"exceptions", "asserts", "unchecked"}
exceptions == build = "exceptions"

Apis == {"plain", "unique", "raii"}
Created == {"one", "pair", "pages"}
Combining == {"alias", "allocate", "bind"}

(* The bitwise or of two sizes.                                            *)
Or[x \in Nat] == [y \in Nat |->
  IF x = 0 THEN y
  ELSE 2 * Or[x \div 2][y \div 2] + (IF x % 2 = 1 \/ y % 2 = 1 THEN 1 ELSE 0)]

allocationCount == Or[Or[sizes[1]][sizes[2]]][sizes[3]]

(* What the native call may create.                                        *)
NewHandles ==
  LET M == Unborn \cap Memories
      R == Unborn \cap Resources
  IN CASE shape = "one" -> {{h} : h \in Unborn}
       [] shape = "allocate" -> {{m} : m \in M}
       [] shape = "pair" -> {{m, r} : m \in M, r \in R}
       [] shape = "pages" -> {s \in SUBSET M : Cardinality(s) = allocationCount}
       [] shape = "alias" -> {{r} : r \in R}
       [] shape = "bind" -> {{}}

(* The objects that a combining variant moves from.                        *)
ArgsFor(s) ==
  LET M == {o \in objects : \E m \in Memories : o = {m}}
      R == {o \in objects : \E r \in Resources : o = {r}}
  IN CASE s = "alias" -> {{o} : o \in M}
       [] s = "allocate" -> {{p} : p \in R}
       [] s = "bind" -> {{o, p} : o \in M, p \in R}
       [] s \in Created -> {{}}

(* Faulty: the vector of results survives the call.                        *)
IdleKeepsBuilt ==
  /\ pc' = "idle"
  /\ api' = "plain" /\ shape' = "one"
  /\ args' = {} /\ sizes' = <<0, 0, 0>> /\ made' = {}
  /\ wrapped' = FALSE /\ failed' = FALSE
  /\ UNCHANGED <<build, built>>

(* The call is over, by a return or an exception, and its locals are gone. *)
Idle ==
  /\ pc' = "idle"
  /\ api' = "plain" /\ shape' = "one"
  /\ args' = {} /\ sizes' = <<0, 0, 0>>
  /\ made' = {} /\ built' = {}
  /\ wrapped' = FALSE /\ failed' = FALSE
  /\ UNCHANGED build

-----------------------------------------------------------------------------
(* The enhanced function of a plain handle, which all variants run.        *)

Init ==
  /\ build \in Builds
  /\ objects = {} /\ client = {} /\ dead = {} /\ lost = {}
  /\ pc = "idle"
  /\ api = "plain" /\ shape = "one"
  /\ args = {} /\ sizes = <<0, 0, 0>>
  /\ wrapped = FALSE /\ failed = FALSE
  /\ made = {} /\ built = {}

Call(a, s, A, n) ==
  /\ pc = "idle"
  /\ s \in Combining => a = "raii"
  /\ A \in ArgsFor(s)
  /\ s # "pages" => n = <<0, 0, 0>>
  /\ pc' = "sizes"
  /\ api' = a /\ shape' = s /\ args' = A /\ sizes' = n
  /\ UNCHANGED <<build, world, wrapped, failed, made, built>>

(* Faulty: the size of createInfo is not compared.                         *)
SizesAgreeMostly ==
  /\ sizes[1] = allocationCount
  /\ sizes[3] = 0 \/ sizes[3] = allocationCount

SizesAgree ==
  /\ sizes[1] = allocationCount
  /\ sizes[2] = allocationCount
  /\ sizes[3] = 0 \/ sizes[3] = allocationCount

(* A LogicError, or no memory for the vector of native handles: either is  *)
(* thrown before the native call.  Without exceptions a function that runs *)
(* out of memory ends the program.                                         *)
RejectCall ==
  /\ pc = "sizes"
  /\ exceptions
  /\ shape = "pages"
  /\ UNCHANGED world
  /\ Idle

(* A failed assertion ends the program; an unchecked build calls native    *)
(* code with whatever sizes it is given.  That is undefined: the program   *)
(* may end, or the call may fail or allocate as many pages as it is asked  *)
(* for.  What it may overwrite on the way is not in this model.            *)
AcceptCall ==
  /\ pc = "sizes"
  /\ build # "unchecked" => SizesAgree
  /\ pc' = "native"
  /\ UNCHANGED <<build, world, api, shape, args, sizes, wrapped, failed, made, built>>

CallNative ==
  /\ pc = "native"
  /\ \/ failed' = TRUE /\ UNCHANGED made
     \/ failed' = FALSE /\ made' \in NewHandles
  /\ pc' = "check"
  /\ UNCHANGED <<build, world, api, shape, args, sizes, wrapped, built>>

(* resultCheck throws, or the result goes into a ResultValue.              *)
ThrowResult ==
  /\ pc = "check"
  /\ failed /\ exceptions
  /\ UNCHANGED world
  /\ Idle

CheckResult ==
  /\ pc = "check"
  /\ failed => ~exceptions
  /\ pc' = IF api = "raii" THEN "comma" ELSE "return"
  /\ UNCHANGED <<build, world, api, shape, args, sizes, wrapped, failed, made, built>>

ReturnPlain ==
  /\ pc = "return"
  /\ api = "plain"
  /\ client' = client \cup made
  /\ UNCHANGED <<objects, dead, lost>>
  /\ Idle

-----------------------------------------------------------------------------
(* Unique variants: handles become objects, a vector is reserved first.    *)

ReturnUnique ==
  /\ pc = "return"
  /\ api = "unique"
  /\ shape # "pages"
  /\ objects' = objects \cup {{h} : h \in made}
  /\ UNCHANGED <<client, dead, lost>>
  /\ Idle

(* RAII variants.                                                          *)

(* Faulty: detail::wrap moves its arguments into the Wrapper.              *)
WrapTakes ==
  /\ api = "raii"
  /\ pc \in {"sizes", "comma"}
  /\ ~wrapped
  /\ wrapped' = TRUE
  /\ objects' = objects \ args
  /\ UNCHANGED <<build, client, dead, lost, pc, api, shape, args, sizes, failed, made, built>>

(* detail::wrap keeps references.  It is the right operand of a comma: up  *)
(* to C++14 it may run before the left one.                                *)
Wrap ==
  /\ api = "raii"
  /\ pc \in {"sizes", "comma"}
  /\ ~wrapped
  /\ wrapped' = TRUE
  /\ UNCHANGED <<build, world, pc, api, shape, args, sizes, failed, made, built>>

(* Converter<ResultValue>: an error makes a null object.                   *)
ConvertNone ==
  /\ pc = "comma"
  /\ wrapped
  /\ failed
  /\ UNCHANGED world
  /\ Idle

(* Faulty: the constructor copies the handles of the wrappers it is given. *)
ConvertCopies ==
  /\ pc = "comma"
  /\ wrapped
  /\ ~failed
  /\ shape # "pages"
  /\ objects' = objects \cup {(UNION args) \cup made}
  /\ UNCHANGED <<client, dead, lost>>
  /\ Idle

(* The constructor of the result moves from the wrappers it is given.      *)
Convert ==
  /\ pc = "comma"
  /\ wrapped
  /\ ~failed
  /\ shape # "pages"
  /\ objects' = (objects \ args) \cup {(UNION args) \cup made}
  /\ UNCHANGED <<client, dead, lost>>
  /\ Idle

-----------------------------------------------------------------------------
(* Vectors of Unique objects, and of wrappers.                             *)

AtVector ==
  /\ shape = "pages"
  /\ \/ pc = "return" /\ api = "unique"
     \/ pc = "comma" /\ wrapped /\ ~failed

Reserve ==
  /\ AtVector
  /\ pc' = "fill"
  /\ UNCHANGED <<build, world, api, shape, args, sizes, wrapped, failed, made, built>>

(* bad_alloc: the vector of native handles goes, the handles stay.         *)
ReserveThrows ==
  /\ AtVector
  /\ exceptions
  /\ lost' = lost \cup made
  /\ UNCHANGED <<objects, client, dead>>
  /\ Idle

(* Faulty: nothing is reserved, and an element may find no memory.         *)
FillUnreserved ==
  /\ pc = "fill"
  /\ \E h \in made :
       \/ /\ made' = made \ {h}
          /\ built' = built \cup {{h}}
          /\ UNCHANGED <<build, world, pc, api, shape, args, sizes, wrapped, failed>>
       \/ /\ dead' = dead \cup (UNION built)
          /\ lost' = lost \cup made
          /\ UNCHANGED <<objects, client>>
          /\ Idle

Fill ==
  /\ pc = "fill"
  /\ \E h \in made :
       /\ made' = made \ {h}
       /\ built' = built \cup {{h}}
  /\ UNCHANGED <<build, world, pc, api, shape, args, sizes, wrapped, failed>>

ReturnVector ==
  /\ pc = "fill"
  /\ made = {}
  /\ objects' = objects \cup built
  /\ UNCHANGED <<client, dead, lost>>
  /\ Idle

-----------------------------------------------------------------------------
(* Between calls the client drops what it has.                             *)

DestroyObject(o) ==
  /\ pc = "idle"
  /\ objects' = objects \ {o}
  /\ dead' = dead \cup o
  /\ UNCHANGED <<build, client, lost, pc, api, shape, args, sizes, wrapped, failed, made, built>>

FreePlain(h) ==
  /\ pc = "idle"
  /\ client' = client \ {h}
  /\ dead' = dead \cup {h}
  /\ UNCHANGED <<build, objects, lost, pc, api, shape, args, sizes, wrapped, failed, made, built>>

Next ==
  \/ \E a \in Apis, s \in Created \cup Combining :
       \E A \in SUBSET objects, n \in (0 .. MaxSize) \X (0 .. MaxSize) \X (0 .. MaxSize) :
         Call(a, s, A, n)
  \/ RejectCall
  \/ AcceptCall
  \/ CallNative
  \/ ThrowResult
  \/ CheckResult
  \/ ReturnPlain
  \/ ReturnUnique
  \/ Wrap
  \/ ConvertNone
  \/ Convert
  \/ Reserve
  \/ ReserveThrows
  \/ Fill
  \/ ReturnVector
  \/ \E o \in objects : DestroyObject(o)
  \/ \E h \in client : FreePlain(h)

Spec == Init /\ [][Next]_vars

-----------------------------------------------------------------------------
(* The variables have their types, and an idle program has no locals.      *)
TypeOK ==
  /\ build \in Builds
  /\ objects \subseteq SUBSET Handles
  /\ {client, dead, lost, made} \subseteq SUBSET Handles
  /\ built \subseteq {{h} : h \in Memories}
  /\ pc \in {"idle", "sizes", "native", "check", "return", "comma", "fill"}
  /\ api \in Apis /\ shape \in Created \cup Combining
  /\ args \subseteq SUBSET Handles
  /\ sizes \in (0 .. MaxSize) \X (0 .. MaxSize) \X (0 .. MaxSize)
  /\ wrapped \in BOOLEAN /\ failed \in BOOLEAN
  /\ pc = "idle" => args = {} /\ made = {} /\ built = {} /\ ~wrapped /\ ~failed

(* A handle has one owner at a time: an object, an element of the vector   *)
(* being filled, a local variable of the call, or the client.              *)
OnePlace ==
  LET places == {<<"object", o>> : o \in objects} \cup {<<"element", o>> : o \in built}
                  \cup {<<"client", client>>, <<"dead", dead>>, <<"lost", lost>>,
                        <<"made", made>>}
  IN \A S, T \in places : S # T => S[2] \cap T[2] = {}

(* The wrappers that a combining variant moves from still hold what the    *)
(* native call is to work on, whichever operand of the comma came first.   *)
NativeArgsHeld == pc = "native" => args \subseteq objects

(* allocateMemoryPages() gives its caller one page for each element of     *)
(* each array that it was given, or none: the bitwise or of the sizes that *)
(* is the count of the native call, the vectors on the way, the comma and  *)
(* the return agree.  An unchecked build does not promise it.              *)
Owned == (UNION objects) \cup client

Counted(pages) ==
  /\ Cardinality(pages) = sizes[1]
  /\ Cardinality(pages) = sizes[2]
  /\ sizes[3] \in {0, Cardinality(pages)}

PageStep ==
  shape = "pages" /\ pc # "idle" /\ pc' = "idle" /\ build # "unchecked" =>
    Owned' \ Owned = {} \/ Counted(Owned' \ Owned)

PagePerElement == [][PageStep]_vars

(* The steps of a call add up to one that happens at once or not at all:   *)
(* whichever step fails, its inputs stay what and where they were.         *)
Atomic == INSTANCE AtomicCreation
AtomicSpec == Atomic!Spec

-----------------------------------------------------------------------------
(* The inductive invariant behind them.  What a call was given stays in    *)
(* the client's objects until the conversion at its end.                   *)
ArgsKept == pc # "idle" => args \in ArgsFor(shape)

(* A call that combines is one of the RAII functions, which all reach the  *)
(* comma; the others return.                                               *)
Course ==
  /\ shape \in Combining => api = "raii"
  /\ pc = "return" => api # "raii"
  /\ pc = "comma" => api = "raii"
  /\ pc = "fill" => shape = "pages"

(* The locals hold what a native call of this shape creates, or nothing.   *)
LocalsFit ==
  /\ pc \in {"sizes", "native"} => made = {}
  /\ pc # "fill" => built = {}
  /\ failed => made = {} /\ built = {}
  /\ shape = "bind" => made = {}
  /\ shape \in {"pages", "allocate"} => made \subseteq Memories
  /\ shape = "alias" => made \subseteq Resources
  /\ pc \in {"check", "return", "comma"} /\ ~failed =>
       /\ shape \in {"one", "allocate", "alias"} => \E h \in Handles : made = {h}
       /\ shape = "pair" => \E m \in Memories, r \in Resources : made = {m, r}

(* The sizes were compared; what the native call made, in its vector or    *)
(* in that of the result already, is as many pages as it was asked for.    *)
PagesCounted ==
  shape = "pages" =>
    /\ pc \in {"native", "check", "return", "comma", "fill"} /\ build # "unchecked" => SizesAgree
    /\ pc \in {"check", "return", "comma", "fill"} /\ ~failed =>
         Cardinality(made \cup UNION built) = allocationCount

IInv ==
  /\ TypeOK
  /\ OnePlace
  /\ ArgsKept
  /\ Course
  /\ LocalsFit
  /\ PagesCounted
=============================================================================
