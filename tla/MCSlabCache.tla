---------------------------- MODULE MCSlabCache ----------------------------
(* An instance of SlabCache for TLC: two caches that compete with tasks for *)
(* a few slabs.                                                             *)
EXTENDS SlabCache

\* Slabs of three objects, the first of which crosses the page boundary, and
\* slabs of one object.
MCObjectSize == [c \in Caches |-> IF c = "small" THEN 3 ELSE 9]
MCAlignment  == [c \in Caches |-> IF c = "small" THEN 1 ELSE 2]

MCBootFree == 1 .. lowmem_page_frames - 1
=============================================================================
