--------------------------- MODULE PageAllocSpec ---------------------------
(***************************************************************************)
(* What the page allocator of kernel/page_alloc.c promises its callers,    *)
(* without free lists, page->order fields, splitting or merging: a pool    *)
(* of free page frames, and the blocks that callers own.                   *)
(***************************************************************************)
EXTENDS Integers

CONSTANTS MAX_ORDER,            \* block orders are 0 .. MAX_ORDER-1
          lowmem_page_frames,   \* ZONE_NORMAL is [0, lowmem_page_frames)
          BootFree              \* page frames given to the pool at boot

VARIABLES free,   \* the page frames nobody owns
          held    \* the blocks <<pfn, order>> owned by callers

vars == <<free, held>>

Orders == 0 .. MAX_ORDER - 1

BlockPages(p, k) == p .. p + 2^k - 1

HeldPages == UNION {BlockPages(b[1], b[2]) : b \in held}

Init == free = {} /\ held = {}

\* Boot hands one more page frame to the pool.
Donate(p) ==
    /\ p \notin free \cup HeldPages
    /\ free' = free \cup {p}
    /\ UNCHANGED held

\* alloc_pages returns any naturally aligned block of free low memory.
Alloc(p, k) ==
    /\ p % 2^k = 0
    /\ BlockPages(p, k) \subseteq free \cap (0 .. lowmem_page_frames - 1)
    /\ free' = free \ BlockPages(p, k)
    /\ held' = held \cup {<<p, k>>}

\* free_pages takes exactly the block it is given back.
Free(p, k) ==
    /\ <<p, k>> \in held
    /\ held' = held \ {<<p, k>>}
    /\ free' = free \cup BlockPages(p, k)

Next ==
    \/ \E p \in BootFree : Donate(p)
    \/ \E p \in 0 .. lowmem_page_frames - 1, k \in Orders :
            Alloc(p, k) \/ Free(p, k)

Spec == Init /\ [][Next]_vars
=============================================================================
