------------------------------- MODULE Methods -------------------------------
(***************************************************************************)
(* How generateHandles() of tools/VmaHppGenerator.cpp makes C++ methods of *)
(* one declared C function: which parameters become results, references,   *)
(* proxies or disappear, what the body passes to the C function, what the  *)
(* RAII method forwards and wraps, and under which macros each overload is *)
(* seen.  Texts are abstracted to what they are made of: a parameter is    *)
(* its index in the C declaration and the form it takes.                   *)
(***************************************************************************)
EXTENDS Integers, Sequences, FiniteSets, SequencesExt

CONSTANT Functions   \* the declarations to convert

(* A declaration: params and the following.  first: params[1] is a handle, *)
(* whose method the function becomes; returns: the C return type; named:   *)
(* it has a RAII name, as all but the destructors have; name: "pass" for   *)
(* the begin and the end of a defragmentation pass and "budgets" for       *)
(* vmaGetHeapBudgets, the names that a check of the generator asks for.    *)
Kinds == {"OTHER", "VOID", "CHAR", "VK", "VMA"}
Params == [kind : Kinds, pointers : 0 .. 2, constant : BOOLEAN,
           notNull : BOOLEAN, len : BOOLEAN, size : BOOLEAN,
           handle : BOOLEAN, unique : BOOLEAN]

(* What the loop over the parameters takes for an output.                  *)
IsOutput(p) ==
  \/ p.pointers > 1
  \/ ~p.constant /\ p.pointers > 0 /\ p.kind \notin {"VOID", "CHAR"}

ASSUME MethodsAssumption ==
  \A g \in Functions : /\ g.params \in Seq(Params)
                       /\ g.first \in BOOLEAN
                       /\ g.first => g.params # <<>> /\ g.params[1].handle
                       /\ g.returns \in {"void", "VkResult", "VkBool32"}
                       /\ g.named \in BOOLEAN
                       /\ g.name \in {"pass", "budgets", "other"}

(* In vk_mem_alloc.h the size of an array is a plain value, and a void     *)
(* pointer to a pointer is a mandatory output, never an array.             *)
ASSUME DeclarationsAssumption ==
  \A g \in Functions : \A j \in 1 .. Len(g.params) :
    LET p == g.params[j]
    IN /\ p.size => p.pointers = 0
       /\ p.kind = "VOID" /\ p.pointers = 2 => p.notNull /\ ~p.len

(* Its handles, beside the object of the method, are no sizes.  Where a    *)
(* resource is with a memory there is one of each, none an optional output,*)
(* and a function without a first handle makes both.  A resource that is   *)
(* made comes before any other output.                                     *)
ASSUME HandlesAssumption ==
  \A g \in Functions :
    LET rest == (IF g.first THEN 2 ELSE 1) .. Len(g.params)
        made == {j \in rest : IsOutput(g.params[j]) /\ g.params[j].notNull}
        handles == {j \in rest : g.params[j].handle}
        resources == {j \in handles : g.params[j].kind = "VK"}
        memories == handles \ resources
    IN /\ \A j \in handles : ~g.params[j].size
       /\ resources # {} /\ memories # {} =>
            /\ \A j, k \in resources : j = k
            /\ \A j, k \in memories : j = k
            /\ \A j \in handles : IsOutput(g.params[j]) => j \in made
            /\ ~g.first => handles \subseteq made
       /\ \A j \in made, k \in made \cap resources : j < k => g.params[j].kind = "VK"

VARIABLES
  f,           \* the declaration
  i,           \* the parameter that the loop is at
  paramType,   \* INPUT, OUTPUT or OPTIONAL_OUTPUT for each parameter
  outputs,     \* the mandatory outputs
  default,     \* defaultOutputsFrom: 0 for nullptr, Len + 1 for the end
  second,      \* secondHandleParam, 0 for nullptr
  phase        \* "outputs", then "done" or "error"

vars == <<f, i, paramType, outputs, default, second, phase>>

P(j) == f.params[j]
End == Len(f.params) + 1

(* Function::methodParams().                                               *)
MethodParams(g) == [j \in 1 .. Len(g.params) - (IF g.first THEN 1 ELSE 0) |->
                      IF g.first THEN j + 1 ELSE j]

(* A loop over the parameters that goes on with those of S.                *)
InOrder(S) ==
  LET upto[j \in 0 .. Len(f.params)] ==
        IF j = 0 THEN <<>>
        ELSE IF j \in S THEN Append(upto[j - 1], j)
        ELSE upto[j - 1]
  IN upto[Len(f.params)]

(* The last other handle, by value, makes the function a method of its     *)
(* class.                                                                  *)
SecondHandle(g) ==
  LET S == {j \in 2 .. Len(g.params) : /\ g.params[j].handle
                                      /\ g.params[j].pointers = 0
                                      /\ g.params[j].kind = "VMA"}
  IN IF g.first /\ S # {} THEN CHOOSE j \in S : \A k \in S : k <= j ELSE 0

-----------------------------------------------------------------------------
(* The loop over the parameters that finds the outputs.                    *)

(* Faulty: an input does not end a run of optional outputs.                *)
InputKeepsDefault ==
  /\ ~IsOutput(P(i))
  /\ UNCHANGED <<paramType, outputs, default, second>>

Input ==
  /\ ~IsOutput(P(i))
  /\ default' = End
  /\ UNCHANGED <<paramType, outputs, second>>

(* A RAII Buffer or Image can only be made by the first handle.            *)
Output ==
  /\ IsOutput(P(i)) /\ P(i).notNull
  /\ paramType' = [paramType EXCEPT ![i] = "OUTPUT"]
  /\ outputs' = Append(outputs, i)
  /\ second' = IF P(i).handle /\ P(i).kind = "VK" THEN 0 ELSE second
  /\ default' = End

(* The optional outputs after everything else get default arguments.       *)
OptionalOutput ==
  /\ IsOutput(P(i)) /\ ~P(i).notNull
  /\ paramType' = [paramType EXCEPT ![i] = "OPTIONAL_OUTPUT"]
  /\ default' = IF default > i THEN i ELSE default
  /\ UNCHANGED <<outputs, second>>

Classify ==
  /\ phase = "outputs"
  /\ i <= Len(f.params)
  /\ Input \/ Output \/ OptionalOutput
  /\ i' = i + 1
  /\ UNCHANGED <<f, phase>>

-----------------------------------------------------------------------------
(* What the conversion is made of.                                         *)

Vector == Len(outputs) = 1 /\ P(outputs[1]).len
Pair == Len(outputs) = 2
HasUnique == \E j \in Range(outputs) : P(j).unique

(* combinedHandle: the Buffer or Image made of what the call gets or makes.*)
Combined ==
  LET H == {j \in Range(MethodParams(f)) : P(j).handle}
      R == {j \in H : P(j).kind = "VK"}
  IN IF /\ H \ R # {} /\ R # {} /\ f.named
        /\ \E j \in H : paramType[j] = "INPUT"
     THEN CHOOSE j \in R : \A k \in R : k <= j ELSE 0

(* There is no C++ return type for these: a Bool32 beside outputs, more    *)
(* than two outputs (enhancedTypes is overrun before the check), an array  *)
(* in a pair, an array without a size among the parameters and a combined  *)
(* object in a ResultValue.  The arrays of a declaration share their size. *)
Unexpected ==
  \/ f.returns = "VkBool32" /\ outputs # <<>>
  \/ Len(outputs) > 2
  \/ Pair /\ \E j \in Range(outputs) : P(j).len
  \/ Vector /\ f.name # "budgets" /\ ~\E j \in DOMAIN f.params : P(j).size
  \/ f.returns = "VkResult" /\ f.name = "pass" /\ Combined # 0

(* Outputs are returned and the sizes of arrays are taken from them.       *)
Skipped(j) == paramType[j] = "OUTPUT" \/ P(j).size

(* What an enhanced method takes for a parameter.                          *)
Form(p) ==
  IF p.pointers = 0 \/ p.kind = "VOID" THEN "same"
  ELSE IF p.len THEN IF p.constant THEN "ArrayProxy" ELSE "ArrayProxyNoTemporaries"
  ELSE IF p.notNull THEN "reference"
  ELSE IF ~p.constant /\ p.kind \notin {"OTHER", "CHAR"} THEN "Optional"
  ELSE "same"

(* Faulty: what is not constant is optional.                               *)
PassUnchecked(p) ==
  IF p.pointers = 0 THEN "name"
  ELSE IF p.len THEN "data()"
  ELSE IF p.notNull THEN "&"
  ELSE IF ~p.constant THEN "static_cast"
  ELSE "name"

(* What the body of an enhanced method passes for it.                      *)
Pass(p) ==
  IF p.pointers = 0 \/ (p.pointers = 1 /\ p.kind = "VOID") THEN "name"
  ELSE IF p.len /\ p.kind # "VOID" THEN "data()"
  ELSE IF p.notNull THEN "&"
  ELSE IF ~p.constant /\ p.kind \notin {"OTHER", "CHAR"} THEN "static_cast"
  ELSE "name"

(* Faulty: the overloads are always both emitted.                          *)
AlwaysTransformed == TRUE

(* Whether the enhanced parameters differ from those of the C function.    *)
SignatureTransformed ==
  \E j \in Range(MethodParams(f)) : Skipped(j) \/ Form(P(j)) # "same"

Taken == InOrder({j \in Range(MethodParams(f)) : ~Skipped(j)})

(* The C++ type of a parameter of that form.                               *)
Type(j, form) ==
  [form |-> form, kind |-> P(j).kind, pointers |-> P(j).pointers,
   constant |-> P(j).constant, handle |-> P(j).handle]

(* The reference to an allocator that a vector may be made with.           *)
AllocatorType ==
  [form |-> "reference", kind |-> "Allocator", pointers |-> 0, constant |-> FALSE,
   handle |-> FALSE]

(* Methods of the plain handle: the macros they are under, whether they    *)
(* are named Unique, and the types of their parameters.                    *)
Overload(unique, alloc) ==
  [guard |-> IF unique THEN {"ENHANCED", "SMART"} ELSE {"ENHANCED"},
   unique |-> unique,
   types |-> [k \in 1 .. Len(Taken) + (IF alloc THEN 1 ELSE 0) |->
                IF k > Len(Taken) THEN AllocatorType ELSE Type(Taken[k], Form(P(Taken[k])))]]

Simple ==
  [guard |-> IF SignatureTransformed THEN {} ELSE {"SIMPLE"},
   unique |-> FALSE,
   types |-> [k \in 1 .. Len(MethodParams(f)) |-> Type(MethodParams(f)[k], "same")]]

Overloads ==
  [v \in {<<"simple", FALSE, FALSE>>} \cup {"enhanced"} \X {FALSE, HasUnique} \X {FALSE, Vector} |->
     IF v[1] = "simple" THEN Simple ELSE Overload(v[2], v[3])]

(* Faulty: the order of the C function.                                    *)
PairInOrder == outputs

(* std::pair<second output, first output>.                                 *)
PairOrder == Reverse(outputs)

(* What a RAII method takes: a second handle is the object itself.  In a   *)
(* combining variant the handles among them become rvalue references.      *)
RaiiParams == InOrder(Range(Taken) \ {second})

(* The operands of detail::wrap in a combining variant: the owner *this,   *)
(* then the handles; made tells what the call itself makes.                *)
CombiningWrap ==
  LET hs == InOrder({j \in Range(MethodParams(f)) :
                       P(j).handle /\ paramType[j] # "OPTIONAL_OUTPUT"})
      n == IF f.first /\ second = 0 THEN 1 ELSE 0
  IN [k \in 1 .. n + Len(hs) |->
        IF k <= n THEN [what |-> "owner", made |-> FALSE]
        ELSE [what |-> IF P(hs[k - n]).kind = "VK" THEN "resource" ELSE "memory",
              made |-> paramType[hs[k - n]] = "OUTPUT"]]

Convert ==
  /\ phase = "outputs"
  /\ i = End
  /\ phase' = IF Unexpected THEN "error" ELSE "done"
  /\ UNCHANGED <<f, i, paramType, outputs, default, second>>

Init ==
  /\ f \in Functions
  /\ i = IF f.first THEN 2 ELSE 1
  /\ paramType = [j \in 1 .. Len(f.params) |-> "INPUT"]
  /\ outputs = <<>>
  /\ default = 0
  /\ second = SecondHandle(f)
  /\ phase = "outputs"

Next == Classify \/ Convert
Spec == Init /\ [][Next]_vars

-----------------------------------------------------------------------------
(* Properties of a conversion that succeeded.                              *)

Done == phase = "done"

(* A parameter has a default argument exactly when it and all after it are *)
(* optional outputs, so that defaults come last and no input has one.      *)
DefaultsExact ==
  Done => \A j \in Range(MethodParams(f)) :
            j >= default <=> \A k \in j .. Len(f.params) : paramType[k] = "OPTIONAL_OUTPUT"

(* What a parameter or a local has to be passed as.                        *)
Expected(j) ==
  IF P(j).size THEN "name"
  ELSE IF paramType[j] = "OUTPUT" THEN IF P(j).len THEN "data()" ELSE "&"
  ELSE CASE Form(P(j)) \in {"ArrayProxy", "ArrayProxyNoTemporaries"} -> "data()"
         [] Form(P(j)) = "reference" -> "&"
         [] Form(P(j)) = "Optional" -> "static_cast"
         [] Form(P(j)) = "same" -> "name"

(* The body passes each parameter and local to the C function by its type: *)
(* two separate chains of conditions choose the two.                       *)
CallAgrees ==
  Done => \A j \in Range(MethodParams(f)) : Pass(P(j)) = Expected(j)

(* No two methods that the same macros show have the same name and the     *)
(* same parameter types, nor have the two variants of a RAII method.       *)
OverloadsDistinct ==
  Done =>
    /\ \A a, b \in DOMAIN Overloads :
         LET x == Overloads[a]
             y == Overloads[b]
         IN a # b /\ x.unique = y.unique /\ ~({"ENHANCED", "SIMPLE"} \subseteq x.guard \cup y.guard)
              => x.types # y.types
    /\ Combined # 0 => \E j \in Range(RaiiParams) : P(j).handle

(* A combining variant wraps one resource and one memory, with an owner    *)
(* given or known to a wrapper that is moved from; a pair, declared with   *)
(* its resource first, has its memory first.                               *)
CombinedFits ==
  Done =>
    /\ Combined # 0 =>
         LET W == Range(CombiningWrap)
         IN /\ \A what \in {"resource", "memory"} :
                 Cardinality({k \in DOMAIN CombiningWrap : CombiningWrap[k].what = what}) = 1
            /\ \E o \in W : ~o.made /\ o.what \in {"owner", "memory"}
    /\ Pair /\ (\E j \in Range(outputs) : P(j).kind = "VK" /\ P(j).handle)
         => P(PairOrder[2]).kind = "VK"

-----------------------------------------------------------------------------
(* The inductive invariant of the loop.  What is behind it has its type,   *)
(* what is ahead is an input so far.                                       *)
First == IF f.first THEN 2 ELSE 1

TypeOf(p) ==
  IF ~IsOutput(p) THEN "INPUT"
  ELSE IF p.notNull THEN "OUTPUT"
  ELSE "OPTIONAL_OUTPUT"

Classified ==
  /\ f \in Functions
  /\ i \in First .. End
  /\ phase \in {"outputs", "done", "error"}
  /\ phase # "outputs" => i = End
  /\ paramType = [j \in 1 .. Len(f.params) |->
                    IF j \in First .. i - 1 THEN TypeOf(P(j)) ELSE "INPUT"]

(* Default arguments are right for a list that would end here.             *)
DefaultsSoFar ==
  /\ default \in 0 .. i - 1 \/ default = End
  /\ \A j \in First .. i - 1 :
       j >= default <=> \A k \in j .. i - 1 : paramType[k] = "OPTIONAL_OUTPUT"

Ascends(s) == \A a, b \in DOMAIN s : a < b => s[a] < s[b]

(* The outputs found so far are those behind, in their order.              *)
OutputsSoFar ==
  /\ outputs \in Seq(Nat) /\ Ascends(outputs)
  /\ Range(outputs) = {j \in First .. i - 1 : paramType[j] = "OUTPUT"}

(* A resource among them makes it a method of the first handle.            *)
SecondSoFar ==
  second = IF \E j \in First .. i - 1 :
                paramType[j] = "OUTPUT" /\ P(j).handle /\ P(j).kind = "VK"
           THEN 0 ELSE SecondHandle(f)

LoopInv == Classified /\ DefaultsSoFar /\ OutputsSoFar /\ SecondSoFar

=============================================================================
