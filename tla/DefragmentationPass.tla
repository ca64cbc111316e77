------------------------- MODULE DefragmentationPass -------------------------
(***************************************************************************)
(* Defragmentation through the functions of vk_mem_alloc_funcs.hpp and     *)
(* vk_mem_alloc_raii.hpp, on memory that plain and smart handles own.      *)
(*                                                                         *)
(* beginDefragmentationPass() gives the client a DefragmentationPassMove-  *)
(* Info: allocations to move, each with an operation the client may        *)
(* change.  endDefragmentationPass() hands a DefragmentationPassMoveInfo   *)
(* to the native library, which carries the operations out.  A pass needs  *)
(* its allocations: they stay live until it ends.  VMA's own temporary     *)
(* allocations, which no client owns, are left out.                        *)
(***************************************************************************)
EXTENDS VmaUnique

CONSTANT Enhanced   \* the overload without a pass info parameter is called

ASSUME DefragmentationAssumption == Enhanced \in BOOLEAN

VARIABLES
  moves,   \* what the open pass of each context moves, {} when none is open
  pending  \* moves of ended passes that VMA was not told of

passes == <<moves, pending>>
passVars == <<vars, passes>>

Contexts == {c \in raw : ClassOf[c] = "DefragmentationContext"}
Moving == UNION {moves[c] : c \in Handles}

(* vmaBeginDefragmentationPass(): VK_INCOMPLETE when there is something to *)
(* move; VK_SUCCESS, with no moves and nothing to end, otherwise.          *)
BeginPass(c) ==
  /\ Begin
  /\ moves[c] = {}
  /\ \E S \in SUBSET ({h \in live : ClassOf[h] = "Allocation" /\ parent[h] = parent[c]}
                        \ Moving) :
       /\ S # {}
       /\ moves' = [moves EXCEPT ![c] = S]
       /\ needs' = [needs EXCEPT ![c] = @ \cup S]
  /\ UNCHANGED <<cells, live, parent, raw, todo, exchange, fault, pending>>

(* The moves in the info that the overload passes on: the one with a       *)
(* pointer passes the client's; the enhanced one a new info, without moves *)
PassInfo(c) == IF Enhanced THEN {} ELSE moves[c]

(* endDefragmentationPass() after the client set eDestroy for the moves of *)
(* D, whose handles it gives up with the call.                             *)
EndPass(c, D) ==
  /\ Begin
  /\ moves[c] # {}
  /\ D \subseteq raw
  /\ \A h \in live \ (D \cup {c}) : needs[h] \cap D = {}
  /\ LET S == D \cap PassInfo(c)
     IN /\ live' = live \ S
        /\ parent' = [h \in Handles |-> IF h \in S THEN Null ELSE parent[h]]
        /\ needs' = [h \in Handles |-> IF h \in S THEN {}
                                       ELSE IF h = c THEN needs[c] \ moves[c] ELSE needs[h]]
  /\ raw' = raw \ D
  /\ moves' = [moves EXCEPT ![c] = {}]
  /\ pending' = pending \cup (moves[c] \ PassInfo(c))
  /\ UNCHANGED <<cells, todo, exchange, fault>>

(* Everything else, a pass being ended before its context is.              *)
Other ==
  /\ Next
  /\ \A c \in live \ live' : moves[c] = {}
  /\ UNCHANGED passes

PassInit ==
  /\ Init
  /\ moves = [h \in Handles |-> {}]
  /\ pending = {}

PassNext ==
  \/ \E c \in Contexts : BeginPass(c)
  \/ \E c \in Contexts : \E D \in SUBSET moves[c] : EndPass(c, D)
  \/ Other

PassSpec == PassInit /\ [][PassNext]_passVars

-----------------------------------------------------------------------------

(* Every endDefragmentationPass() tells the native library of the moves    *)
(* that beginDefragmentationPass() gave, whose operations it waits for.    *)
MovesDelivered == pending = {}
=============================================================================
