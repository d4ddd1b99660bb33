---------------------------- MODULE MCPageAlloc ----------------------------
(* An instance of PageAlloc for TLC; the cfg file chooses the sizes.       *)
EXTENDS PageAlloc

\* boot_mem_is_free is nonzero for every page but the first (BootMem), and for
\* the first exactly when it is reserved (FreedByInitZone of MemorySetup).
MCAllPages == 0 .. page_frames - 1

MCGarbageOrders == {-1, 0}
=============================================================================
