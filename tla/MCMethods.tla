------------------------------ MODULE MCMethods ------------------------------
(* Declarations such as those of vk_mem_alloc.h, for TLC.                  *)
EXTENDS Methods

CONSTANT MaxParams   \* bound: parameters after the first handle

Plain == [kind |-> "OTHER", pointers |-> 0, constant |-> FALSE, notNull |-> FALSE,
          len |-> FALSE, size |-> FALSE, handle |-> FALSE, unique |-> FALSE]
Handle(k) == [Plain EXCEPT !.kind = k, !.handle = TRUE]
Pointer(k, c, n) == [Plain EXCEPT !.kind = k, !.pointers = 1, !.constant = c, !.notNull = n]
Array(p, c, n) == [p EXCEPT !.pointers = 1, !.len = TRUE, !.constant = c, !.notNull = n]

Size == [Plain EXCEPT !.size = TRUE]
Handles == {Handle("VMA"), Handle("VK")}
HandleOut == {[Handle(k) EXCEPT !.pointers = 1, !.notNull = TRUE, !.unique = TRUE] : k \in {"VMA", "VK"}}

Inputs == {Plain} \cup Handles
          \cup {Pointer("VMA", TRUE, n) : n \in BOOLEAN}
          \cup {Pointer("CHAR", c, FALSE) : c \in BOOLEAN}
          \cup {Pointer("VOID", c, n) : c, n \in BOOLEAN}
ArrayInputs == {Array(p, TRUE, n) : p \in {[Plain EXCEPT !.kind = "VK"], Handle("VMA")}, n \in BOOLEAN}
Outs == HandleOut
        \cup {Pointer(k, FALSE, n) : k \in {"OTHER", "VK", "VMA"}, n \in BOOLEAN}
        \cup {[Plain EXCEPT !.kind = k, !.pointers = 2, !.constant = c, !.notNull = TRUE] :
                k \in {"VOID", "CHAR", "VK"}, c \in BOOLEAN}
ArrayOuts == {Array([Plain EXCEPT !.kind = "VMA"], FALSE, FALSE),
              [Array(Handle("VMA"), FALSE, TRUE) EXCEPT !.unique = TRUE]}

Count(s, S) == Cardinality({k \in DOMAIN s : s[k] \in S})
Sorted(s, S, T) == \A j, k \in DOMAIN s : s[j] \in S /\ s[k] \in T => j < k
Mandatory(s) == {k \in DOMAIN s : s[k] \in Outs \cup ArrayOuts /\ s[k].notNull}

(* Sizes come with an array that is given; inputs come before outputs; one *)
(* resource and one memory at most, or arrays of memory.  Two outputs are  *)
(* handles, the resource first; three are too many for any conversion.     *)
Declared(s) ==
  /\ Sorted(s, Inputs \cup ArrayInputs \cup {Size}, Outs \cup ArrayOuts)
  /\ Count(s, {Size}) <= 1
  /\ (Count(s, {Size}) = 1) <=> (Count(s, ArrayInputs) > 0)
  /\ Count(s, ArrayInputs \cup ArrayOuts) > 0 => Count(s, Handles \cup HandleOut) = 0
  /\ \A k \in {"VMA", "VK"} : Cardinality({j \in DOMAIN s : s[j].handle /\ s[j].kind = k /\ ~s[j].len}) <= 1
  /\ \A j, k \in Mandatory(s) :
       j < k => IF Cardinality(Mandatory(s)) = 2
                THEN s[j].kind = "VK" /\ s[j].handle /\ s[k].handle
                ELSE s[k].kind = "VK" /\ s[k].handle => s[j].kind = "VK"

Sequences == UNION {[1 .. n -> Inputs \cup ArrayInputs \cup {Size} \cup Outs \cup ArrayOuts] :
                      n \in 0 .. MaxParams}
Rest == {s \in Sequences : Declared(s)}

(* What a declaration is beside its parameters.  A function without a      *)
(* handle takes no handle: it makes the first ones.  The names that are    *)
(* checked matter only for some parameters.                                *)
Heads == {[first |-> TRUE, returns |-> r, named |-> m, name |-> "other"] :
            r \in {"VkResult", "VkBool32"}, m \in BOOLEAN}
         \cup {[first |-> TRUE, returns |-> "VkResult", named |-> TRUE, name |-> "pass"],
               [first |-> TRUE, returns |-> "void", named |-> TRUE, name |-> "budgets"],
               [first |-> FALSE, returns |-> "VkResult", named |-> TRUE, name |-> "other"]}

With(s, h) ==
  /\ h.name = "pass" => Count(s, Handles) > 0
  /\ h.name = "budgets" => Count(s, ArrayOuts) > 0
  /\ ~h.first => Count(s, Handles) = 0

MCFunctions ==
  {[params |-> IF d[2].first THEN <<Handle("VMA")>> \o d[1] ELSE d[1], first |-> d[2].first,
    returns |-> d[2].returns, named |-> d[2].named, name |-> d[2].name] :
     d \in {e \in Rest \X Heads : With(e[1], e[2])}}
=============================================================================
