----------------------------- MODULE MCVmaRaii -----------------------------
(* Instances of VmaRaii for TLC.  One set of handles per class.            *)
EXTENDS VmaRaii, TLC

CONSTANTS Allocators, Pools, Memories, Contexts, Blocks, VirtualAllocations,
          Strings, Buffers, Images

Kinds == << <<Allocators, "Allocator">>, <<Pools, "Pool">>, <<Memories, "Allocation">>,
            <<Contexts, "DefragmentationContext">>, <<Blocks, "VirtualBlock">>,
            <<VirtualAllocations, "VirtualAllocation">>, <<Strings, "StatsString">>,
            <<Buffers, "vkBuffer">>, <<Images, "vkImage">> >>

MCHandles == UNION {Kinds[i][1] : i \in 1 .. 9}
MCClassOf == [h \in MCHandles |-> Kinds[CHOOSE i \in 1 .. 9 : h \in Kinds[i][1]][2]]

(* Handles of a class are interchangeable.                                 *)
Symmetry == UNION {Permutations(Kinds[i][1]) : i \in 1 .. 9}
=============================================================================
