# Verification of VulkanMemoryAllocator-Hpp

VulkanMemoryAllocator-Hpp wraps the C library VMA (Vulkan Memory Allocator) for
C++: plain handles with "enhanced" functions, `Unique` handles, and RAII wrappers
in `vma::raii`.  The headers are not written by hand: a generator,
`tools/VmaHppGenerator.cpp`, reads `vk_mem_alloc.h` and emits them.  This directory
holds TLA+ modules of both sides, the TLC runs that check them and the proofs.

## The system

| part | state | operations | talks to |
|---|---|---|---|
| RAII wrappers (`vk_mem_alloc_raii.hpp`) | per object an owner and a handle; `Buffer` and `Image` also have a `vk::raii` base and a member `m_allocation` | constructors, creating functions of `Allocator` and `VirtualBlock`, combining variants, move, swap, `clear`, `release`, `split`, destructors | plain handles, `vk::raii`, VMA |
| `detail::Converter`, `Wrapper`, `wrap` (same file) | references held during one expression | turn the result of a plain call into a wrapper, a vector of wrappers or a null object | RAII wrappers |
| enhanced functions (`vk_mem_alloc_funcs.hpp`) | none | check sizes, call VMA, check the result, build plain or `Unique` results | VMA |
| plain handles, `Unique` deleters (`vk_mem_alloc_handles.hpp`) | a handle; a deleter's owner | destroy through the owner | enhanced functions |
| structs, enums, strings, assertions | data | conversions | – |
| `functionsFromDispatchers` (`vk_mem_alloc_structs.hpp`) | none | the first dispatcher that has a function gives it | Vulkan-Hpp dispatchers |
| generator: `ConditionalTree` | the `#if` tree of the source, a place in it | scan, `navigate` | `Segment::resolve` |
| generator: `Segment` | a sequence of text nodes, some shared | parse, replace, concatenate, generate | all emitters |
| generator: parsers | tables of handles and functions | find owners and destructors, classify parameters, choose variants | emitters |
| generator: emitters | lists of text per declaration | grow the lists, fill templates, resolve their places | `Segment`, `ConditionalTree` |

There are no threads, no messages and nothing persists.  What is hard here is
*lifetime*: the order in which objects die, what a moved-from object still holds,
what an exception leaves behind, who owns a native handle after a combination of
legal calls nobody wrote a test for; and, in the generator, a tree walk whose
bounds, sentinels and parent links have to agree for any source.

What makes each part correct:

* RAII wrappers: every live native object has exactly one owner; every destroy call
  gets a live handle and the owner it was created through; nothing is destroyed
  before what needs it; an unwinding stack destroys everything; no member of a combined
  object takes the memory of its resource away.
* `wrap`: a creating call either gives all it made to its result and takes its inputs,
  or fails and leaves the inputs as they were.
* `Unique` handles: as for wrappers, with the deleter's owner following the handle.
* defragmentation: the moves of a pass that the client decided on reach VMA.
* `ConditionalTree`: what is generated from a place of the source is under exactly
  the conditions of that place; a navigation ends; a search stays in the tree.
* `Segment`: a replacement ends, leaves none of its wildcards, keeps other segments as
  they are, and picks the conditional text that the specialisation asks for.
* parsers: every handle gets the owner through which its functions are called; the
  overloads of a function pass on what they take, clash with none, and have their
  default arguments last.
* emitters: in every configuration the lists of a declaration are well formed, and each
  text is there exactly when what it is about is.

## Modules

### VmaRaii, HandleLifetime, MCVmaRaii

`VmaRaii` models the objects of a C++ program as a stack of slots: constructors push
(`Push`), destructors run on the top slot (`Destruct`), so objects die in the reverse
order of their construction, as automatic storage has it.  An object has two cells:

| state | code |
|---|---|
| `vma[o]` | `m_<owner>`, `m_<handle>` of a handle class; in `Buffer` and `Image`, their `m_allocation`; in `StatsString`, also the class of owner that `m_destructor` is for |
| `vk[o]` | the `vk::raii::Buffer` or `Image` that is the base, or stands alone |
| `cls[o]`, `top` | the class of the object on a slot, the youngest slot |
| `born`, `live`, `parent`, `needs` | what VMA and Vulkan know: created and not yet destroyed handles, through which owner, and what each needs to exist |
| `raw` | plain handles that `release()` gave to the client |
| `fault` | a native destroy call got a dead handle, a wrong owner or another owner's destructor |
| `closing` | the program ends, or an exception unwinds its stack |

Each member function that changes ownership is an action; `AllocatorClass`,
`PoolClass`, ... list them class by class as the classes declare them.  `Members` has
what all classes share.  Two details decide a lot of what can go wrong and are kept as
they are in the code: `operator=(X&&)` *swaps* (the old resource lives on in the
moved-from object), and `Buffer::clear()` does nothing unless the object has an
allocation (the base class then destroys its own handle when the object dies).  `Buffer`
and `Image` inherit from `vk::raii` publicly, so a client may also move the base out
(`Slice`) or swap and assign it alone (`SwapBase`, with a base or with another combined
object); the `clear()` and `release()` of the base, which are the Vulkan class's, do to it
what moving it out and then destroying or releasing it does.

What C++ cannot enforce is the client's side and appears as guards: an object whose
handles are needed by another is not moved to a younger slot (`Undepended`), a swap or
bind leaves memory and owners older than what depends on them (`Outlives`), `clear()`
is called when nothing needs the object (`Unneeded`), plain handles are freed before
what they need dies (`NoRawUserOf`), and, when `CarefulClient` is TRUE, a client never
lets a wrapper destroy what it destroyed itself (`Careful`, and the guard of
`ClearBlock`).  Vulkan handles' own `vk::raii` classes, VMA and the C++ run time are
external; they are modelled by the preconditions of their calls.

`HandleLifetime` is the promise: seen from a native object, wrappers disappear.  It is
unborn, wrapped, plain (in the client's hands) or gone; several may be created, handed
over or destroyed in one step; a destroyed one is needed by nothing in use.
`VmaRaii` implements it under the refinement mapping `StateOf`, where a live handle
without an owner, or with two, is in no state that `HandleLifetime` has.

`MCVmaRaii` gives TLC one set of handles per class.

### VmaRaiiProofs

Proofs about `VmaRaii`, and that it implements `HandleLifetime`; see Proofs below, as for
the other modules named `...Proofs`.

### VmaUnique

The smart handles.  A *cell* is one `vk::UniqueHandle` with a deleter of this library:
`cls` its class, `own` the owner that `UniqueBase` keeps, `val` the handle.  Unlike the
wrappers of `VmaRaii` a deleter's owner is a plain copy, which keeps nothing alive and
may dangle; the handles are used again once their object is destroyed, as a native
library may do, so that a stale copy can meet a new object.  A pair of
`createBufferUnique()` is two cells with a `mate`.  What one call does to several cells
(assign a pair member by member, destroy a pair last member first) goes through `todo`,
one cell a step, and nothing else starts before it is done (`Begin`).  `exchange` is
the macro `VULKAN_HPP_HANDLES_MOVE_EXCHANGE`, under which moving a plain handle, and so a
deleter's owner, nulls what it is moved from.

There is one action per function of `vk_mem_alloc_funcs.hpp` that creates, binds or
destroys, and one per operation of `vk::UniqueHandle`: construct, adopt, move, assign,
`reset`, `release`, `swap`, destroy.  Objects may be destroyed in any order that native
needs allow (`Unneeded`), which is the client's side, as is that a plain handle is
destroyed once.  Unlike `VmaRaii` there is no stack: a smart handle may be anywhere.

### DefragmentationPass, MCDefragmentationPass

Extends `VmaUnique` with the passes of a defragmentation: `moves` is what an open pass
moves, and for as long the context needs that memory; `EndPass` carries out the moves
that the client marked for destruction.  `Enhanced` chooses the overload.  `pending` are
moves of an ended pass that VMA was not told of.  `MCDefragmentationPass` has one set of
handles per class, and `MCMixes`, the sets of classes that exist side by side.

### VmaUniqueProofs

Proofs about `VmaUnique` and `DefragmentationPass`.

### ConditionalTree

The class `ConditionalTree` of the generator and its `Traversal`.  A source is a
sequence of directives; TLC generates every one a compiler takes.  The scan keeps the
code's `stack` and `statements` (with their `ascent` and `descent` links), one action
per branch of the loop; `CloseHanging` is the second loop of the constructor;
`Ascend`, `StartSearch`, `Halve`, `Found`, `LeaveEnded`, `Descend` and `Return` are
the loops of `navigate()` step by step.  Text of a directive is left out; a
directive of a header guard (`ignoredDirectives`) is a kind of its own.  Against it
stands what a preprocessor says, which knows nothing of the tree: `blocks` and
`conditions` follow the source as it is scanned, `conditions[p]` being the branches that
what comes after directive `p` is in (`After`).  The text that `navigate()` returns is put
out directive by directive (`Put`), and `open` is what it has open by then.  A branch is
cut in two (`KeepsCommon`) when a directive that is no `#if` is put out although all
that is open is around the place navigated to.

### CreatingCall, AtomicCreation, CreatingCallProofs

`VmaRaii` takes a creating call for one step.  `CreatingCall` opens it: a call of any
variant (plain, `Unique`, RAII) of any shape (a handle, a pair, pages, or one of the three
combining shapes) goes through the checks of its sizes, the native call, the result check
and the construction of the result, `pc` by `pc`.  `made` is what the native call returned
and only local variables know; `built` is the vector that `reserve` and `push_back` fill.
`Wrap` is the right operand of the overloaded comma: before C++17 it may run before the left
one, so it is enabled from the start of the call.  `build` tells three builds apart.  With
exceptions each failure leaves the call at once (`RejectCall`, `ThrowResult`,
`ReserveThrows`); without them a failed native call goes on to a null object
(`ConvertNone`).  The count of several arrays is the bitwise or of their sizes, `Or`, with
which each is compared (`SizesAgree`): by a throw with exceptions, by an assertion, which
stops the program, without them (`"asserts"`), and not at all with `NDEBUG` as well
(`"unchecked"`), where the native function runs with a count that some array does not have.
`OnePlace` tags each place a handle can be in, so that one in two places of
the same content is still in two.  An allocation may fail wherever the code allocates,
except in `Fill`, which has reserved.

`AtomicCreation` is the promise: a call succeeds at once, inputs and all, or changes
nothing.  Its third outcome, `Lose`, is what the code does when the vector of results
cannot be reserved: the pages exist and nobody has them.  `CreatingCall` implements it
with the identity on the variables of the world.

### Specialization, Variants, VariantsProofs

`Specialization` has the operators of `Segment::Specialization`, a machine word being the
set of its bits.  `Variants` builds two of them literal by literal, as `appendMethods` and
the guards of conditional text do, and remembers the literals; the questions the
generator asks are compared with these.  `!` is only ever applied to a single bit;
on a longer conjunction it is not De Morgan's.

### Segment, MCSegment, SegmentProofs

`replaceImpl` as a scan in place: one action per branch of its loop.  `data` is what
`shared_ptr`s refer to; it only grows, except where code changes what is shared.
`indentNode` copies first, and in the copy of a conditional segment indents node by node:
`IndentNodes` appends a copy of what an argument can refer to and shifts the references
(`Indented`).  A text is its length, which is all that columns depend on.  The reference
recurses over the template instead, and over what it refers to: `Expand` says what a call
should leave of a segment, `LayOut` on which line and column each text should land.  Both
are recursive functions over *units*, the arguments of a call and the shared data
(`Units`); a layout is a function of the left margin and of the page so far.
`SegmentAssumption` says that references lead to shared data of their type, and that calls
are `Founded`: no argument and no shared segment holds itself, through whatever wildcards
and references.  C++ cannot tie such a knot with shared segments, which are built from
others that exist; an argument that holds its own wildcard would be put in again for ever.
`MCSegment` has the pieces: nested conditions, wildcards in replacements and in
conditions, shared strings, replacements of several lines, a directive that ignores its
indent, empty replacements, `std::nullopt`, and one or two calls in a row.

### HandleDiscovery, MCHandleDiscovery, HandleDiscoveryProofs

The loops that find owners and destructors: a function is entered or passed over
(`EnterFunction`, `PassFunction`), its parameters are read one by one (`ReadParameter`,
`PassParameter`), and a contradiction stops the generator there and then (`Reject`).  A
function is the list of its parameters, by value or pointer, and whether its name says
"Destroy" or "Free".  `Shown` and `Destructors` say the same of a *set* of functions, so
that order cannot matter; `OwnersFound` compares after every parameter, with those read
so far.  `VkHandles` are `Buffer` and `Image`, which are in the generator's table with
destructors of their own: they may be a function's first handle, never its second, and a
function that would destroy one is a conflict. `Conventional` is what `vk_mem_alloc.h` keeps
to and the code relies on: what releases an owned handle takes its owner as well. A release
function that does not is a destructor before the owner is known and none after.

### Methods, MCMethods, MethodsProofs

What `generateHandles` makes of one declaration.  A parameter is a record of what the
regular expressions found: its kind, pointers, constness, `NOT_NULL`, `LEN_IF_NOT_NULL`,
whether it is the size of an array, a handle, or one with a `Unique` form.  The loop that
classifies the parameters is one action per outcome (`Input`, `Output`,
`OptionalOutput`), with the code's `defaultOutputsFrom` as an index; what follows
is pure, so it is operators: the form a parameter takes (`Form`), how the body passes it on
(`Pass`), the overloads with their macros and parameter types (`Overloads`), the operands
of `detail::wrap` in a combining variant (`CombiningWrap`).  `Form` and `Pass` are two chains
of conditions that know nothing of each other, as in the code.  `Unexpected` has the
declarations that the generator gives up on: a `Bool32` beside outputs, more than two
outputs, an array in a pair or without a size, a combined object in a `ResultValue`; of a
declaration's name it keeps what these checks ask for.  `MCMethods` enumerates
the declarations that follow the conventions of `vk_mem_alloc.h` (`Declared`) and those
that are given up on: inputs before outputs, a size with an array, one resource and one
memory at most.

### Emission, EmissionProofs

Extends `ConditionalTree`, whose tree it navigates.  The emitters visit the members of a
declaration once and grow several lists side by side, each with the place of the member,
a separator and the member's text; a template strings the lists together, and `resolve()`
turns each place into directives.  All lists of a kind are like one of the two that the
model has for it; `Piece` is one member's part of a list, `List` a list with the
place after its end, and `StructTemplate`, `DispatchTemplate`, `EnumTemplate` and
`HandleTemplate` the order of lists and text.  The reference is not the tree but the
preprocessor: `out` remembers under which conditions a text is, and in each
configuration what is left of a list has to be well formed.  `Declared` says what the code
relies on: a list's first member is there whenever the others are, an array with its
size, and enums are unconditional, after which the generator never leads back to
the root.

## Runs

| run | instance | checks |
|---|---|---|
| `raii_wrappers` | 2 allocators, pool, allocation, buffer; 4 objects | `TypeOK`, `IInv`, `OneOwner`, `UsersFirst`, `CombinedWhole`; `VmaRaii` implements `HandleLifetime` |
| `raii_unwind` | allocator, allocation, context, image, virtual block and allocation, string; 3 objects | `NoFault`, `UnwindsToNothing` |
| `raii_ended_context` | allocator, context; 2 objects, a careless client | `WrappedIsLive` is violated |
| `unique_defragmentation` | 8 classes in 4 mixes, at most 4 native objects; 4 cells | `UInv`, `MemoryLast` |
| `defragmentation_enhanced` | allocator, allocation, context; the enhanced overload | `MovesDelivered` is violated |
| `tree_navigate` | every source of up to 6 directives | `TypeOK`, `ContextMatches`, `SearchAround`, `KeepsCommon`, `NavigationEnds` |
| `emission` | every source of up to 4 directives; 3 members or 2 functions | `ListsWellFormed`, `TextPlaced` |
| `call_atomic` | 3 allocations, a resource; arrays of up to 3 | `TypeOK`, `OnePlace`, `NativeArgsHeld`, `PagePerElement`; `CreatingCall` implements `AtomicCreation` |
| `variants` | 3 bits, chains of any length | `Inv`, `KeepsWhatAgrees`, `AsksForAll` |
| `segment_replace` | every template of up to 3 of 8 pieces, 240 sequences of calls | `TypeOK`, `Expanded`, `ColumnTracked`, `Aligned`, `OthersIntact`, `ReplaceEnds` |
| `handle_discovery` | every order of up to 4 of 15 functions | `TypeOK`, `OwnersFound`, `DestructorsFound`, `RejectsContradictions` |
| `methods` | every declaration of up to 3 parameters after its handle | `DefaultsExact`, `CallAgrees`, `OverloadsDistinct`, `CombinedFits` |

Bounds.  `N` (objects at once) is 4 where combined objects are split: an owner, a combined
object and the two parts of its split.  A handle is used for one native object only, so its
number bounds what is ever created; two of the kind a run is about suffice to confuse one
with the other.  `Used` limits the classes of which null objects are built.  In `VmaUnique`
handles come back, so `MaxLive` bounds how many native objects exist at a time: four are an
allocator, memory, its resource and one that disturbs them, a pool, more memory or a
context.  `Mixes` keeps classes apart that do not meet in the code, such as virtual blocks
and buffers; four cells hold two pairs.  Six directives are enough for three nested blocks,
or two with branches, side by side or hanging.  The handles of a class are symmetric in runs
without temporal properties.  The program of `VmaRaii` ends, so those runs do not check for
deadlock; those of `ConditionalTree` do.  Arrays of up to three elements have sizes whose
bitwise or is none of them (1 and 2); three pages make a vector half filled.  Bits of a
specialization do not influence each other, three tell two operands and a bystander apart.
Three nodes put a replacement between two others, and replacements nest three deep.  Four
functions show an owner, contradict it and release twice.  The programs of these modules end
as well: a call whose sizes fail an assertion stops, and `Segment` and
`HandleDiscovery` stop when all is done, `Methods` after its one declaration, `Emission`
after its one template; the program of `VmaUnique` goes on forever, and its run checks that
it can. Four directives give two blocks side by side, one inside the other, or one with
branches; three members put one between two others, two functions one before the other.
Three parameters after the first handle are a size, an array and an output, or the two
handles and the optional output that `createBuffer` has, or the three outputs that are too
many.

Fairness.  `FairSpec` of `VmaRaii` has weak fairness of the steps of a program that
unwinds: C++ runs the destructors of automatic objects, and a client that took plain
handles with `release()` frees them; before the unwinding nothing has to happen.
`FairSpec` of `ConditionalTree` has weak fairness of the steps inside the constructor and
`navigate()`, which is sequential code; nobody has to call it.  `FairSpec` of `Segment` has
weak fairness of the scan for the same reason.  `ReplaceEnds` needs `Founded`
calls, as those of `MCSegment` and of the generator are.

What they found.  `raii_ended_context`: `DefragmentationContext::endDefragmentation()` is
the native destructor, and the only one that is also a method of a wrapper.  The wrapper
keeps its handle, so its destructor ends the context once more.  The generator's comment
says that destructors have no method of their own in RAII, which holds for the other
classes.  The other runs use a client that takes the handle out with `release()` first.
`defragmentation_enhanced`: `vmaEndDefragmentationPass` takes the moves of the pass, with the
client's decisions, but a pointer that is not `const` looks like an output to the
generator.  The enhanced `endDefragmentationPass()` therefore passes a new, empty info
and returns it, and VMA never hears of the moves; the RAII class offers only that overload.
`unique_defragmentation` uses the one with a pointer, which is right.

## Proofs

`VmaRaiiProofs` proves, for all handles, classes and bounds and a careful client, that
the invariant `IInv` is inductive (`Invariant`), and from it type correctness
(`TypeCorrect`), `NoFault` (`NoBadDestroy`), `OneOwner` (`SingleOwner`) and `UsersFirst`
(`UsersDieFirst`).  None of the three safety properties is inductive alone.  `NoFault`
needs to know that what an object holds is live (`HeldIsLive`) and next to its parent and,
in a string, to the destructor for the class of that parent (`OwnersKnown`); that an object's owner is live when it dies needs the order of the stack
(`Outlives`) together with `OneOwner`, since the owner is held by an older object or
by nobody; and `Outlives` needs the classes of what an object can hold (`ObjectShape`)
and what a handle can need (`NeedsRecorded`).  There is one lemma per action, and under
it one step per conjunct the action can disturb.  The assumptions are `RaiiAssumption`
and `CarefulClient`; without the latter `NoFault` is false.

`WholeObjects` adds to them that a `Buffer` or `Image` comes to hold a resource without
memory, which its `clear()` leaves to the base class, only when a client swaps or assigns
the base alone (`CombinedWhole`): none of the objects' own members takes one half away.
Lemma by lemma, each other action leaves on a slot an object without a resource, one with
memory, or one that some slot had before (`KeptWhole`).

Its last part shows that `VmaRaii` implements `HandleLifetime` for a careful client
(`WrappersRefineLifetime`).  Each action is first reduced to what it does to native objects
alone: births, one binding, handing over to the client, or deaths (`BearEffect`,
`CreationEffect`, `BindingEffect`, `MembersEffect`, `DeathEffect`, together `NextEffect`).
Under `StateOf` each of these effects is a step of `HandleLifetime` or stutters, given
`IInv` before and after; `OneOwner` is what makes a live handle wrapped or plain and never
both.

`VariantsProofs` proves, for any set of bits, that a specialization is what its literals
make it (`VariantsInv`): `Words` says how literals are encoded, with both words of a
contradictory bit different from all others, and `AndWords` that `&` is the union of
literals.  From there `TextKept` and `VariantAsked` follow without another induction.

`VmaUniqueProofs` proves, for all handles, classes and cells, from `UniqueAssumption`
alone, that the smart and the plain handles own every live native object once and that no
deleter makes a bad call (`HandlesOwned`), and that memory is freed last
(`MemoryFreedLast`).  Its inductive invariant `IInv` adds to `UInv` what a call between two
of its steps owes the next one.  `TodoFits` says which tasks stand beside each other,
`PairsFit` that a cell is in one pair at most; `TodoSafe` that no task destroys what is in
use, save that the first assignment of a pair takes the memory of a resource that the second
is about to destroy, and `MemoryKept` that this resource is the only one to lose its memory.
`NeedsFit` says that nothing needs a resource, so that destroying one never orphans.
Between calls there is no exception (`BetweenCalls`), and an action that leaves no task
owes only that much (`CallDone`): one lemma per action shows it, with lemmas for what
creations (`Newborn`, `PlainStep`, `UniqueStep`), moves (`Shuffled`) and destructions
(`Killed`, `HeldDestroyed`) have in common.  `PassesOwned` extends all of it to passes of a
defragmentation, which need the memory they move until they end, and where the allocations
a pass destroys go with the plain handles the client gives up.  It assumes the overload
with a pointer: the other tells VMA of no move, as `defragmentation_enhanced` shows.

`CreatingCallProofs` proves, for any handles, any `MaxSize` and any build, from
`CallAssumption` alone, that a handle is in one place whatever fails (`PlacedOnce`), that
the arguments of a combining call are still there when the native function runs, in both
orders of the comma (`ArgsUntilNative`), and that a call on pages leaves its caller one
page for each element of the arrays, or none (`OnePagePerElement`): the pages keep the
count of the native call (`PagesCounted`) through every conversion, failure and cleanup.
An unchecked build promises that only for sizes that agree anyway, so the property leaves
it out.  The invariant adds which variants reach which step (`Course`),
which local variables are empty when (`LocalsFit`), and that the arguments of a call keep
the shape they were given with (`ArgsKept`).  `OnePlace` is proved as disjointness of any
two places (`Apart`), which every action disturbs in one or two pairs only.
`CallsAreAtomic` is the refinement: the step of `AtomicCreation` is the one that ends the
call, or that unwinds it, and all others stutter.

The first part of `EmissionProofs` is about `ConditionalTree` alone.  It proves, for sources
of any length and any sequence of navigations, from `BoundAssumption` alone, that generated
text is under the conditions of the place it comes from (`TextUnderConditions`), that no
branch is cut in two (`CommonKept`), that the binary search keeps the position between its
ends (`SearchStaysAround`) and that nothing leaves the tree (`TypeCorrect`).  Nothing of
this is inductive without what the scan makes of the tree.  `Ordered` and `Linked` are about
its positions and its links, `Nested` says that no link leads out of a branch but the
branch's own, `StackedOpen`, `StackedInOrder` and `StackedBlocks` tie the stack to the open
branches and to C's blocks.  On top of them `Path` gives every statement the conditions
after it: a statement's text turns the conditions of its predecessor into its own
(`PathsFollow`), and up to the next statement they do not change (`PathsLast`); `PathsNest`
and `PathsOpen` are what the next directive of the scan needs for that. A navigation is then
a chain: the directives put out on the way up, followed by those on the way down, each start
from the conditions the one before leaves (`Walk`, `Reached`, `Chain`), and the search ends
at the statement whose conditions are the position's (`AtTarget`).  For `CommonKept`, a
branch whose block is among the conditions of a place has its directive as the last of that
block (`PathsOwn`), so the place is between this directive and the next (`BlocksAround`),
where the walk does not leave it.

`HandleDiscoveryProofs` proves for any handles and any sources in which each function is
declared once (`SourcesAssumption`) that the owners saved at any time are those that the
parameters read so far show (`OwnersShown`), and, for conventional sources, that the
destructors are those of the set of functions, whatever its order (`DestructorsShown`), and
that a source is rejected exactly if it contradicts itself (`RejectsExactly`).  Its
invariant says where in a function the loop is and what it has seen there (`AtHandle`,
`NoPointers`), that the destructors saved are those that the whole source says of the
functions read so far (`DestructorsSoFar`), that a method is just "destroy" or "free" only
for a release function whose single parameter is its handle (`ShortAlone`), and that an
error is a contradiction of the source (`ErrorsReal`).

`MethodsProofs` proves for every declaration, with any number of parameters, that exactly
the optional outputs after all other parameters have default arguments (`DefaultsLast`),
from an invariant of the loop that classifies them (`LoopInv`); and that each parameter is
passed on as its type demands (`CallMatchesTypes`), case by case through both chains of
conditions.  The latter uses `DeclarationsAssumption`, what `vk_mem_alloc.h` keeps to.
`LoopInv` also knows the outputs found so far, in their order, and what they leave of the
second handle.  What goes through a loop over the parameters (`InOrder`) comes out once and
in order (`InOrderFacts`, an induction over the parameters).  From there no two overloads
that are seen together take the same parameters (`OverloadsTellApart`): a transformed
signature skips a parameter, so that lengths differ, or changes the form of one, and a
vector brings its allocator; and a combining variant keeps a handle to be told by.
`CombiningFits` shows that `detail::wrap` gets one resource, one memory and an owner, under
`HandlesAssumption`, which says what handles a declaration of `vk_mem_alloc.h` has.

The second part of `EmissionProofs` proves for declarations of any number of members in
sources of any length that every list is well formed in every configuration
(`ListsSeparated`) and that each text is under the conditions of the place that it is about
(`TextUnderItsConditions`).  Neither is inductive: both are about what is out, and what
comes out next depends on what is left.  `EmissionInv` (`EmissionInvariant`) therefore joins
`IInv`, what is known of the tree, to where the emission is: each text left comes under
the conditions of the place before it (`Steady`), the next one under those of the place
navigated to (`NextPlaced`), and what is written and what is left are together well formed
in each configuration (`WellFormed`).  That resolving a place leaves exactly its conditions
open is `TextUnderConditions` of the tree.  A template is a concatenation of lists that grow
member by member, so what a configuration sees of it is found by induction over the members:
the facts about sequences that this needs (what a configuration keeps of a concatenation,
how a list of alternating texts and separators grows) are the lemmas in front.

`SegmentProofs` proves, for templates, shared data and calls of any size, from
`SegmentAssumption` alone, all safety properties of `replace()`.  First, that the recursions
of the reference mean something: by `Founded` any set of units has one that refers to none of
the set, so that solutions extend unit by unit to all (`SolutionExists`) and two of them
agree (`Agree`).  Next, that neither
depends on how far shared data has grown (`UnitsGrow`, `ExpandGrows`), nor on whether
it is a copy that is read (`CopyInduction`): a copy expands to the same content
(`ExpandCopied`) and is laid out as the original is with a margin further right
(`LayByCopied`).  `SegmentTyped` is that the references of every copy lead to data of
their type, and `CopiesIndependent` that a call changes nothing that another segment sees.
The rest is an invariant of the loop, `LoopInv`: what the scan has left behind, followed by
the expansion of the nodes ahead, is the expansion of the template (`ExpandInv`); laying out
the nodes ahead from where `generate()` is after those behind gives the page of the whole
template (`LayInv`); and the scan knows the column of that page (`ColumnKnown`), without
which a replacement would get the wrong margin.  When the scan is through, nothing is ahead:
`InPlaceExpands` and `ReplacementsAligned`; `ScanTracksColumn` is `ColumnKnown`.

Model-checked only: liveness (`UnwindsToNothing`, `NavigationEnds`, `ReplaceEnds`), which
the proof system does not do.

## Not modelled

Queries, mapping, flushes, names and user data change no ownership, and neither do
virtual blocks' statistics.  The temporary allocations that VMA makes during a pass of a
defragmentation belong to no client.  Structs, enums, `to_string` and the static assertions
are generated data and conversions value by value, which the compiler checks; how their
lists come about is `Emission`.  `functionsFromDispatchers` is a single
expression without state.  The regular expressions of the parser and the wording of the
emitters' templates are text, and so is the parsing of a literal into a segment's nodes.
`Segment::resolve` replaces navigation nodes by the directives that `ConditionalTree`
yields; `Emission` has what they enclose, not the path between two nodes, which is
`ConditionalTree`'s.  Concatenation of segments copies nodes.  The module and the include
shims re-export names; samples, build and CI have no behaviour of their own.

## Plan

Done: `VmaRaii`, `VmaUnique`, `DefragmentationPass`, `CreatingCall`, `ConditionalTree`,
`Specialization`, `HandleDiscovery`, `Methods`, `Emission` and `Segment`, with their runs and
their proofs.  Left: the parsing of literals into nodes, and `resolve` composed with
`ConditionalTree` node by node, which would join `Segment` to `Emission`.
