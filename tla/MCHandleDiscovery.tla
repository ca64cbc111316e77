-------------------------- MODULE MCHandleDiscovery --------------------------
(***************************************************************************)
(* Sources of a few functions in any order: the kinds of vk_mem_alloc.h,   *)
(* and some that break its conventions or contradict the others.           *)
(***************************************************************************)
EXTENDS HandleDiscovery

CONSTANTS
  Allocator, Pool, Allocation, Buffer,
  MaxFunctions   \* bound: the functions of a source

Declare(name, release, params) == [name |-> name, release |-> release, params |-> params]
V(h) == [handle |-> h, pointer |-> FALSE]
P(h) == [handle |-> h, pointer |-> TRUE]

Library == {
  Declare("createAllocator", FALSE, <<V(Other), P(Allocator)>>),
  Declare("destroyAllocator", TRUE, <<V(Allocator)>>),
  Declare("freeStatsString", TRUE, <<V(Allocator), V(Other)>>),
  Declare("createPool", FALSE, <<V(Allocator), V(Other), P(Pool)>>),
  Declare("destroyPool", TRUE, <<V(Allocator), V(Pool)>>),
  Declare("freeMemory", TRUE, <<V(Allocator), V(Allocation)>>),
  Declare("freeMemoryPages", TRUE, <<V(Allocator), V(Other), P(Allocation)>>),
  Declare("destroyBuffer", TRUE, <<V(Allocator), V(Buffer), V(Allocation)>>),
  Declare("bufferMemory", FALSE, <<V(Buffer), V(Allocation)>>),
  Declare("freeBuffer", TRUE, <<V(Buffer)>>),
  Declare("poolMemory", FALSE, <<V(Pool), V(Allocation)>>),
  Declare("memoryInPool", FALSE, <<V(Allocator), V(Pool), V(Allocation)>>),
  Declare("freePool", TRUE, <<V(Allocator), V(Pool)>>),
  Declare("dropPool", TRUE, <<V(Pool)>>),
  Declare("anyPools", FALSE, <<P(Pool), V(Allocator)>>)}

MCSources ==
  {s \in UNION {[1 .. n -> Library] : n \in 1 .. MaxFunctions} :
     \A a, b \in DOMAIN s : a # b => s[a] # s[b]}
=============================================================================
