----------------------- MODULE MCDefragmentationPass -----------------------
(* Instances of DefragmentationPass for TLC.  One set of handles per class. *)
EXTENDS DefragmentationPass, TLC

CONSTANTS Allocators, Pools, Memories, DefragmentationContexts, Blocks,
          VirtualAllocations, Buffers, Images

Kinds == << <<Allocators, "Allocator">>, <<Pools, "Pool">>, <<Memories, "Allocation">>,
            <<DefragmentationContexts, "DefragmentationContext">>,
            <<Blocks, "VirtualBlock">>, <<VirtualAllocations, "VirtualAllocation">>,
            <<Buffers, "Buffer">>, <<Images, "Image">> >>

MCHandles == UNION {Kinds[i][1] : i \in 1 .. 8}
MCClassOf == [h \in MCHandles |-> Kinds[CHOOSE i \in 1 .. 8 : h \in Kinds[i][1]][2]]

(* A block and its allocations; an allocator and what it makes.            *)
MCMixes == {{"VirtualBlock", "VirtualAllocation"},
            {"Allocator", "Pool", "Allocation", "Buffer"},
            {"Allocator", "Allocation", "Image"},
            {"Allocator", "Allocation", "Buffer", "DefragmentationContext"}}

(* Handles of a class, and cells, are interchangeable.                     *)
Symmetry == Permutations(Cells) \cup UNION {Permutations(Kinds[i][1]) : i \in 1 .. 8}
=============================================================================
