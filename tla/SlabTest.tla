------------------------------ MODULE SlabTest -------------------------------
(***************************************************************************)
(* kmods/slabtest/slabtest.c: insmod fills a new slab cache with objects   *)
(* and links a node for each into to_free; rmmod frees what the list names *)
(* and destroys the cache.  Any allocation may fail.                       *)
(***************************************************************************)
EXTENDS Naturals, Sequences

CONSTANT Objects    \* the loop bound of slabtest_init, 1000

ASSUME ObjectsAssumption == Objects \in Nat \ {0}

VARIABLES
  loader,        \* where slabtest_init / slabtest_cleanup stands
  i,             \* its loop counter
  cache,         \* slabtest_cache: "none", "created" or "destroyed"
  live,          \* the objects allocated from it, named by their counter
  nodes,         \* the nodes allocated by kmalloc, named by their object
  to_free,       \* the list, as the objects its nodes point to
  pos, next_pos  \* free_objs: pos and n, as positions in to_free

slabVars == <<loader, i, cache, live, nodes, to_free, pos, next_pos>>
walkVars == <<pos, next_pos>>

SlabInit ==
  /\ loader = "load" /\ cache = "none" /\ i = 0
  /\ live = {} /\ nodes = {} /\ to_free = <<>> /\ pos = 1 /\ next_pos = 1

Loader(from, to) == loader = from /\ loader' = to

CreateCache ==
  /\ \/ Loader("load", "alloc") /\ cache' = "created"
     \/ Loader("load", "failed") /\ UNCHANGED cache
  /\ UNCHANGED <<i, live, nodes, to_free, walkVars>>

\* kmem_cache_zalloc, or the return when it fails.
AllocObject ==
  /\ i < Objects
  /\ \/ Loader("alloc", "node") /\ live' = live \cup {i}
     \/ Loader("alloc", "failed") /\ UNCHANGED live
  /\ UNCHANGED <<i, cache, nodes, to_free, walkVars>>

\* kmalloc and list_add; the result of kmalloc is used unchecked.
LinkNode ==
  \/ /\ Loader("node", "alloc")
     /\ nodes' = nodes \cup {i} /\ to_free' = <<i>> \o to_free /\ i' = i + 1
     /\ UNCHANGED <<cache, live, walkVars>>
  \/ /\ Loader("node", "oops")
     /\ UNCHANGED <<i, cache, live, nodes, to_free, walkVars>>

InitReturns ==
  /\ i = Objects /\ Loader("alloc", "live")
  /\ UNCHANGED <<i, cache, live, nodes, to_free, walkVars>>

\* The list's head, behind its last node.
ListHead == Len(to_free) + 1

\* What p's next pointer, read when the nodes in left are allocated, may say.
Following(p, left) ==
  CASE p = ListHead -> {1}
    [] p # ListHead /\ to_free[p] \in left -> {p + 1}
    [] OTHER -> 1 .. ListHead

Rmmod ==
  /\ Loader("live", "free") /\ pos' = 1 /\ next_pos' \in Following(1, nodes)
  /\ UNCHANGED <<i, cache, live, nodes, to_free>>

FreeEntry ==
  /\ loader = "free" /\ pos # ListHead
  /\ live' = live \ {to_free[pos]} /\ nodes' = nodes \ {to_free[pos]}
  /\ UNCHANGED <<loader, i, cache, to_free>>

\* Mutant: list_for_each_entry reads the next pointer of the node it has freed.
FreeUnsafe ==
  FreeEntry /\ pos' \in Following(pos, nodes') /\ UNCHANGED next_pos

\* One turn of free_objs: go on to the saved node, and save the one behind it.
FreeObject ==
  FreeEntry /\ pos' = next_pos /\ next_pos' \in Following(next_pos, nodes')

\* Mutant: the cache is destroyed before its objects are freed.
DestroyFirst ==
  /\ Loader("free", "gone") /\ cache' = "destroyed"
  /\ UNCHANGED <<i, live, nodes, to_free, walkVars>>

DestroyCache ==
  /\ pos = ListHead /\ Loader("free", "gone") /\ cache' = "destroyed"
  /\ UNCHANGED <<i, live, nodes, to_free, walkVars>>

Stopped == loader \in {"failed", "oops", "gone"} /\ UNCHANGED slabVars

SlabNext == \/ CreateCache \/ AllocObject \/ LinkNode \/ InitReturns
        \/ Rmmod \/ FreeObject \/ DestroyCache \/ Stopped
SlabSpec == SlabInit /\ [][SlabNext]_slabVars
-----------------------------------------------------------------------------
SlabTypeOK ==
  /\ loader \in {"load", "alloc", "node", "live", "free", "failed", "oops", "gone"}
  /\ cache \in {"none", "created", "destroyed"}
  /\ i \in 0 .. Objects
  /\ live \in SUBSET (0 .. Objects - 1) /\ nodes \in SUBSET (0 .. Objects - 1)
  /\ to_free \in Seq(0 .. Objects - 1)
  /\ pos \in 1 .. ListHead /\ next_pos \in 1 .. ListHead

\* kmem_cache_destroy finds the cache empty, and no node is left.
DestroyedEmpty == cache = "destroyed" => live = {} /\ nodes = {}

\* free_objs frees no object and no node twice and follows no pointer of a freed
\* node: it stands on a node that is left, and the one it saved is another.
NoDoubleFree ==
  loader = "free" /\ pos # ListHead =>
    /\ to_free[pos] \in live \cap nodes
    /\ next_pos # ListHead =>
         to_free[next_pos] \in (live \cap nodes) \ {to_free[pos]}
==============================================================================
