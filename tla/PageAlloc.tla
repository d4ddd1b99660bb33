----------------------------- MODULE PageAlloc -----------------------------
(***************************************************************************)
(* The binary buddy allocator: kernel/page_alloc.c, the zone and node      *)
(* set-up of kernel/arch/x86/setup_page_alloc.c and the structures of      *)
(* kernel/include/kernel/page_alloc.h.                                     *)
(*                                                                         *)
(* A struct page is its page frame number (page_to_pfn and pfn_to_page are *)
(* inverse to each other because nodes[0].start_pfn = 0).  The kernel runs *)
(* with interrupts off and never preempts, so one call is one step; set-up *)
(* is one step per call of free_pages.                                     *)
(***************************************************************************)
EXTENDS Integers, Sequences, SequencesExt

CONSTANTS MAX_ORDER,            \* the number of free lists of a zone
          lowmem_page_frames,   \* lowmem_page_frames()
          page_frames,          \* page_frames()
          BootFree,             \* pages for which boot_mem_is_free is nonzero
          GarbageOrders         \* page->order in the uninitialised page array

\* 1 << order must fit an int: page_alloc.c:7.
ASSUME MaxOrderAssumption == MAX_ORDER \in 1 .. 31

\* setup_memory.c:47-48: lowmem_page_frames = min(page_frames, ...).
ASSUME PageFramesAssumption ==
    /\ lowmem_page_frames \in Nat
    /\ page_frames \in Nat
    /\ lowmem_page_frames <= page_frames

ASSUME BootAssumption ==
    /\ BootFree \subseteq 0 .. page_frames - 1
    /\ GarbageOrders \subseteq Int
    /\ GarbageOrders # {}

VARIABLES free_area,   \* zone -> order -> the FIFO list of free block heads
          order,       \* pfn -> page->order
          ready,       \* zones whose lists and pages are initialised
          init_pfn,    \* position of init_zone's second loop, over all zones
          held         \* blocks <<pfn, order>> that callers own

vars == <<free_area, order, ready, init_pfn, held>>

-----------------------------------------------------------------------------

Zones  == {"ZONE_NORMAL", "ZONE_HIGH"}
Orders == 0 .. MAX_ORDER - 1
Pages  == 0 .. page_frames - 1

start_pfn(z) == IF z = "ZONE_NORMAL" THEN 0 ELSE lowmem_page_frames
end_pfn(z)   == IF z = "ZONE_NORMAL" THEN lowmem_page_frames ELSE page_frames
ZonePages(z) == start_pfn(z) .. end_pfn(z) - 1

page_zone(p) == IF p < lowmem_page_frames THEN "ZONE_NORMAL" ELSE "ZONE_HIGH"

BlockPages(p, k) == p .. p + 2^k - 1

(* A name with a suffix, such as buddy_pfn_sum, is its prefix with a bug: the  *)
(* mutation runs of PROJECT.json show that a property tells them apart.       *)

\* Variant: + for ^.
buddy_pfn_sum(p, k) == p + 2^k

\* pfn ^ (1 << order): flip bit k.
buddy_pfn(p, k) == IF (p \div 2^k) % 2 = 0 THEN p + 2^k ELSE p - 2^k

\* Variant: the loop never moves to the buddy in front of the block.
BlockHead_kept(p, k) == p

\* The block of order k that contains p; the loop of free_pages_node has
\* reached it when its variable order is k.
BlockHead(p, k) == p - (p % 2^k)

Buddy(p, k) == buddy_pfn(BlockHead(p, k), k)

-----------------------------------------------------------------------------
Init ==
    /\ free_area = [z \in Zones |-> [k \in Orders |-> <<>>]]
    /\ order \in [Pages -> GarbageOrders]
    /\ ready = {}
    /\ init_pfn = 0
    /\ held = {}

\* Variant: any free buddy will do.
Merges_any_order(z, p, k) ==
    /\ k < MAX_ORDER - 1
    /\ Buddy(p, k) \in ZonePages(z)
    /\ order[Buddy(p, k)] >= 0

\* Variant: the largest order is never reached.
Merges_below_top(z, p, k) ==
    /\ k < MAX_ORDER - 2
    /\ Buddy(p, k) \in ZonePages(z)
    /\ order[Buddy(p, k)] = k

\* The loop of free_pages_node goes past level k of the block containing p.
Merges(z, p, k) ==
    /\ k < MAX_ORDER - 1
    /\ Buddy(p, k) \in ZonePages(z)
    /\ order[Buddy(p, k)] = k

\* Variant: an if where the loop should be.
MergedOrder_once(z, p, k) == IF Merges(z, p, k) THEN k + 1 ELSE k

\* Where that loop stops, started at order k.
MergedOrder(z, p, k) ==
    CHOOSE m \in k .. MAX_ORDER - 1 :
        /\ ~ Merges(z, p, m)
        /\ \A j \in k .. m - 1 : Merges(z, p, j)

\* Variant: the head of the merged block keeps its old order.
NewOrders_kept(h, m) == order

\* page->order of the whole array once h heads a free block of order m.  Pages
\* in the middle of the block keep the order they had.
NewOrders(h, m) == [order EXCEPT ![h] = m]

\* One call of free_pages(p, k): unlink the buddy at every level merged, put
\* the head of the result at the tail of its list and give it its order.
free_pages(p, k) ==
    LET z == page_zone(p)
        m == MergedOrder(z, p, k)
    IN  /\ free_area' = [free_area EXCEPT ![z] =
                [j \in Orders |->
                    IF j \in k .. m - 1 THEN RemoveFirst(@[j], Buddy(p, j))
                    ELSE IF j = m THEN Append(@[j], BlockHead(p, m))
                    ELSE @[j]]]
        /\ order' = NewOrders(BlockHead(p, m), m)

\* The assertion at the head of free_pages.
FreeAssert(p, k) == order[p] < 0 /\ (-order[p]) - 1 = k

-----------------------------------------------------------------------------
(* init_node calls init_zone for ZONE_NORMAL, then for ZONE_HIGH.          *)

\* init_zone up to the end of its first loop.
InitZone(z) ==
    /\ z \notin ready
    /\ init_pfn = start_pfn(z)
    /\ z = "ZONE_HIGH" => "ZONE_NORMAL" \in ready
    /\ free_area' = [free_area EXCEPT ![z] = [k \in Orders |-> <<>>]]
    /\ order' = [p \in Pages |-> IF p \in ZonePages(z) THEN -1 ELSE order[p]]
    /\ ready' = ready \cup {z}
    /\ UNCHANGED <<init_pfn, held>>

\* Variant: <= for !=.
MorePages_inclusive == init_pfn <= page_frames

MorePages == init_pfn < page_frames

\* One iteration of its second loop.
InitZonePage ==
    /\ MorePages
    /\ page_zone(init_pfn) \in ready
    /\ init_pfn' = init_pfn + 1
    /\ IF init_pfn \in BootFree
       THEN FreeAssert(init_pfn, 0) /\ free_pages(init_pfn, 0)
       ELSE UNCHANGED <<free_area, order>>
    /\ UNCHANGED <<ready, held>>

SetupDone == ready = Zones /\ init_pfn = page_frames

-----------------------------------------------------------------------------
\* The first non-empty list from order k on is the one alloc_pages_node uses.
Available(k) == {c \in k .. MAX_ORDER - 1 : free_area["ZONE_NORMAL"][c] # <<>>}

\* alloc_pages finds every list empty and returns 0.
alloc_pages_fails(k) ==
    /\ SetupDone
    /\ Available(k) = {}
    /\ UNCHANGED vars

\* Variant: page->order of a block in use is -order.
UsedOrder_bare(k) == -k

\* What page->order says of a block in use.
UsedOrder(k) == (-k) - 1

\* alloc_pages takes the first block of list c and splits it down to order k;
\* each upper half goes to the tail of its list.
alloc_pages(k) ==
    /\ SetupDone
    /\ \E c \in Available(k) :
        LET p == Head(free_area["ZONE_NORMAL"][c])
        IN  /\ \A j \in Available(k) : c <= j
            /\ free_area' = [free_area EXCEPT !["ZONE_NORMAL"] =
                    [j \in Orders |->
                        IF j = c THEN Tail(@[j])
                        ELSE IF j \in k .. c - 1
                             THEN Append(@[j], buddy_pfn(p, j))
                        ELSE @[j]]]
            /\ order' = [q \in Pages |->
                    IF q = p THEN UsedOrder(k)
                    ELSE IF \E j \in k .. c - 1 : q = buddy_pfn(p, j)
                         THEN CHOOSE j \in k .. c - 1 : q = buddy_pfn(p, j)
                    ELSE order[q]]
            /\ held' = held \cup {<<p, k>>}
    /\ UNCHANGED <<ready, init_pfn>>

\* A caller gives back a block it owns.
FreePages(p, k) ==
    /\ <<p, k>> \in held
    /\ FreeAssert(p, k)
    /\ free_pages(p, k)
    /\ held' = held \ {<<p, k>>}
    /\ UNCHANGED <<ready, init_pfn>>

Next ==
    \/ \E z \in Zones : InitZone(z)
    \/ InitZonePage
    \/ \E k \in Orders : alloc_pages(k)
    \/ \E k \in Orders : alloc_pages_fails(k)
    \/ \E b \in held : FreePages(b[1], b[2])

Spec == Init /\ [][Next]_vars

-----------------------------------------------------------------------------
(* Properties.                                                             *)

TypeOK ==
    /\ free_area \in [Zones -> [Orders -> Seq(Pages)]]
    /\ order \in [Pages -> Int]
    /\ ready \subseteq Zones
    /\ init_pfn \in 0 .. page_frames
    /\ held \subseteq Pages \X Orders

\* A block of order k whose head is p is on the free list it belongs to.
IsFree(p, k) == p \in ToSet(free_area[page_zone(p)][k])

FreeBlocks == {b \in Pages \X Orders : IsFree(b[1], b[2])}

\* Pages of initialised zones that set-up has not freed (yet).
Reserved == {p \in Pages : /\ page_zone(p) \in ready
                           /\ ~ (p < init_pfn /\ p \in BootFree)}

Blocks == FreeBlocks \cup held \cup (Reserved \X {0})

Overlap(b, c) ==
    BlockPages(b[1], b[2]) \cap BlockPages(c[1], c[2]) # {}

FreePageSet == UNION {BlockPages(b[1], b[2]) : b \in FreeBlocks}

\* No page frame is in two blocks and none is in no block: whatever sequence
\* of splits and merges ran, a page is free once, or owned once, or reserved.
BlocksPartitionPages ==
    /\ \A b \in Blocks, c \in Blocks : Overlap(b, c) => b = c
    /\ held \cap FreeBlocks = {}
    /\ (Reserved \X {0}) \cap (held \cup FreeBlocks) = {}
    /\ \A p \in Pages : page_zone(p) \in ready =>
            \E b \in Blocks : p \in BlockPages(b[1], b[2])

\* free_pages_node trusts buddy->order, which stays behind in pages that were
\* merged into a larger block.  Whatever block is freed, each buddy the loop
\* unlinks is a whole free block, on exactly the list it is unlinked from.
MergesOnlyFreeBuddies ==
    \A b \in held \cup (Reserved \X {0}) : \A k \in b[2] .. MAX_ORDER - 2 :
        LET z == page_zone(b[1])
        IN  (\A j \in b[2] .. k : Merges(z, b[1], j))
                => IsFree(Buddy(b[1], k), k)

\* free_pages' assertion never fails for an owner that gives back what
\* alloc_pages gave it, and set-up never trips over it either.
FreeAssertHolds ==
    /\ \A b \in held : FreeAssert(b[1], b[2])
    /\ \A p \in Reserved : FreeAssert(p, 0)

\* Each list holds pages of its own zone, once each, and a zone that is not
\* initialised has none.
ListsOK ==
    \A z \in Zones, k \in Orders :
        /\ IsInjective(free_area[z][k])
        /\ ToSet(free_area[z][k]) \subseteq ZonePages(z)
        /\ z \notin ready => free_area[z][k] = <<>>

\* A block is aligned to its size and lies in one initialised zone.
BlocksShape ==
    \A b \in Blocks :
        /\ b[1] % 2^b[2] = 0
        /\ BlockPages(b[1], b[2]) \subseteq ZonePages(page_zone(b[1]))
        /\ page_zone(b[1]) \in ready

\* page->order of the head of a block tells its order and who has it.
OrdersOK ==
    /\ \A b \in FreeBlocks : order[b[1]] = b[2]
    /\ FreeAssertHolds

\* Inductive by itself: the lists, the orders and the blocks agree.
BlocksInv == TypeOK /\ ListsOK /\ BlocksShape /\ OrdersOK /\ BlocksPartitionPages

\* Callers own memory of ZONE_NORMAL only.
HeldInLowMemory == \A b \in held : page_zone(b[1]) = "ZONE_NORMAL"

\* No two free blocks are the two halves of a block of their zone: free_pages
\* has merged everything that can be merged.
SiblingsMerged ==
    \A b \in FreeBlocks, c \in FreeBlocks :
        /\ b[2] = c[2]
        /\ b[2] < MAX_ORDER - 1
        /\ page_zone(b[1]) = page_zone(c[1])
        /\ BlockHead(b[1], b[2] + 1) = BlockHead(c[1], c[2] + 1)
        => b = c

\* The inductive invariant of the proofs.
IInv == BlocksInv /\ HeldInLowMemory /\ SiblingsMerged

\* A block fits in its zone, is aligned to its size, and all its pages are free.
FreeAligned(p, k) ==
    p % 2^k = 0 /\ BlockPages(p, k) \subseteq ZonePages(page_zone(p)) \cap FreePageSet

\* alloc_pages reports exhaustion only when no aligned block of the requested
\* size is free in ZONE_NORMAL: merging is complete after every free.
NoFalseExhaustion ==
    SetupDone => \A k \in Orders :
        Available(k) = {} => \A p \in ZonePages("ZONE_NORMAL") : ~ FreeAligned(p, k)

\* The free lists are a function of the set of free pages: they hold exactly
\* the largest aligned blocks of it, so no history of calls fragments a zone.
FreeListsCanonical ==
    FreeBlocks = {b \in Pages \X Orders :
                    /\ FreeAligned(b[1], b[2])
                    /\ b[2] < MAX_ORDER - 1 =>
                            ~ FreeAligned(BlockHead(b[1], b[2] + 1), b[2] + 1)}

\* The allocator implements the pool of PageAllocSpec.
Pool == INSTANCE PageAllocSpec WITH free <- FreePageSet, held <- held

ImplementsPool == Pool!Spec
=============================================================================
