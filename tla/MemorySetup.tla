---------------------------- MODULE MemorySetup ----------------------------
(***************************************************************************)
(* What the kernel does with physical memory at boot, on top of BootMem:   *)
(* setup_memory (kernel/arch/x86/setup_memory.c) reads the memory map of   *)
(* the boot loader and reserves the kernel's own image, then               *)
(* setup_page_alloc (kernel/arch/x86/setup_page_alloc.c) allocates the     *)
(* page array and decides, page by page, what the buddy allocator gets.    *)
(*                                                                         *)
(* PageAlloc models what free_pages does with those pages; here they are   *)
(* collected in the set freed.                                             *)
(*                                                                         *)
(* The calls of BootMem's Next, and the constants they take their          *)
(* arguments from, play no part here: the set-up makes its own calls.      *)
(***************************************************************************)
EXTENDS BootMem

CONSTANTS PAGE_SIZE,
          SizeofPage,           \* sizeof(struct page)
          LOWMEM_PAGE_FRAMES,
          KernelImage,          \* <<begin, end>> of the kernel, physical
          Maps                  \* memory maps: sequences of [addr, len, type]

MULTIBOOT_AVAILABLE == 1
PHYS_MEM_MAX == AddrLimit - 1

\* A struct page is no larger than the page it describes, so the size of the
\* page array does not wrap; nor does a sum of a search below the top of low
\* memory, which is under a quarter of the 2^32 addresses.
ASSUME SetupAssumption ==
    /\ PAGE_SIZE \in Nat \ {0}
    /\ SizeofPage \in 1 .. PAGE_SIZE
    /\ LOWMEM_PAGE_FRAMES \in Nat \ {0}
    /\ 2 * (LOWMEM_PAGE_FRAMES * PAGE_SIZE) + PAGE_SIZE <= AddrLimit
    /\ KernelImage \in Addresses \X Addresses

VARIABLES mmap,                     \* the map of the boot loader
          entry,                    \* position in it
          phase,                    \* how far setup_memory has come
          page_frame_count,
          lowmem_page_frame_count,
          page_array,               \* nodes[0].pages, as a physical range
          init_pfn,                 \* init_zone's second loop
          freed                     \* pages passed to free_pages

boot  == vars
count == <<page_frame_count, lowmem_page_frame_count>>
setup == <<boot, mmap, entry, phase, count, page_array, init_pfn, freed>>

-----------------------------------------------------------------------------
SetupInit ==
    /\ Init
    /\ mmap \in Maps
    /\ entry = 1
    /\ phase = "map"
    /\ page_frame_count = 0 /\ lowmem_page_frame_count = 0
    /\ page_array = <<0, 0>>
    /\ init_pfn = 0
    /\ freed = {}

(* A name with a suffix is its prefix with a bug, for the mutation runs.       *)

\* addr is 64 bits wide: entries above the 32-bit limit are skipped, and one
\* that straddles it is cut.
Usable(e)     == e.addr <= PHYS_MEM_MAX
\* Variant: nothing is cut.
EntryRange_uncut(e) == <<e.addr, e.addr + e.len>>

EntryRange(e) == <<e.addr, min(e.addr + e.len, PHYS_MEM_MAX)>>

AvailableIn(m) == {n \in 1 .. Len(m) : Usable(m[n]) /\ m[n].type = MULTIBOOT_AVAILABLE}
PiecesOf(m)    == {EntryRange(m[n]) : n \in AvailableIn(m)}

\* A map is shorter than the lists of BootMem, whose refusal of a range the
\* set-up does not notice, and like FirmwareMapAssumption says, its available
\* pieces are disjoint.  An address and a length do not add up to 2^64.
ASSUME MapsAssumption ==
    \A m \in Maps :
        /\ m \in Seq([addr : Nat, len : Nat, type : Nat])
        /\ Len(m) < BOOT_MEM_RANGES
        /\ \A q, r \in PiecesOf(m) : q # r => q[2] <= r[1] \/ r[2] <= q[1]

Available == AvailableIn(mmap)

\* Variant: the cursor moves after the `continue'.
NextEntry_late == IF Usable(mmap[entry]) THEN entry + 1 ELSE entry

\* The cursor moves before the `continue' that skips an entry.
NextEntry == entry + 1

\* One iteration of the loop of init_phys_mem_map.
MapEntry ==
    /\ phase = "map"
    /\ entry <= Len(mmap)
    /\ entry' = NextEntry
    /\ LET e == mmap[entry]
       IN  IF ~ Usable(e) THEN UNCHANGED boot
           ELSE IF e.type = MULTIBOOT_AVAILABLE THEN boot_mem_add(EntryRange(e))
           ELSE boot_mem_reserve(EntryRange(e))
    /\ UNCHANGED <<mmap, phase, count, page_array, init_pfn, freed>>

\* The end of the highest available entry.
phys_mem_size ==
    CHOOSE x \in {0} \cup {r[2] : r \in PiecesOf(mmap)} :
        \A r \in PiecesOf(mmap) : r[2] <= x

\* The end of init_phys_mem_map.
CountPageFrames ==
    /\ phase = "map"
    /\ entry > Len(mmap)
    /\ phase' = "kernel"
    /\ page_frame_count' = phys_mem_size \div PAGE_SIZE
    /\ lowmem_page_frame_count' = min(page_frame_count', LOWMEM_PAGE_FRAMES)
    /\ UNCHANGED <<boot, mmap, entry, page_array, init_pfn, freed>>

\* Variant: the kernel's image is not reserved.
reserve_kernel_memory_lost ==
    /\ phase = "kernel"
    /\ phase' = "alloc_page_array"
    /\ UNCHANGED <<boot, mmap, entry, count, page_array, init_pfn, freed>>

reserve_kernel_memory ==
    /\ phase = "kernel"
    /\ phase' = "alloc_page_array"
    /\ boot_mem_reserve(KernelImage)
    /\ UNCHANGED <<mmap, entry, count, page_array, init_pfn, freed>>

PageArrayRequest ==
    [size |-> page_frame_count * SizeofPage, align |-> PAGE_SIZE,
     from |-> PAGE_SIZE, to |-> LOWMEM_PAGE_FRAMES * PAGE_SIZE]

\* alloc_page_array calls boot_mem_alloc.
alloc_page_array ==
    /\ phase = "alloc_page_array"
    /\ phase' = "page_array_call"
    /\ boot_mem_alloc(PageArrayRequest)
    /\ UNCHANGED <<mmap, entry, count, page_array, init_pfn, freed>>

FindStep ==
    /\ Find
    /\ UNCHANGED <<mmap, entry, phase, count, page_array, init_pfn, freed>>

\* boot_mem_alloc returns; alloc_page_array asserts that it succeeded.
PageArrayReturn ==
    /\ phase = "page_array_call"
    /\ AllocReturn
    /\ IF allocated' = allocated
       THEN phase' = "panic" /\ UNCHANGED page_array
       ELSE phase' = "init_zone" /\ page_array' = <<result, result + req.size>>
    /\ UNCHANGED <<mmap, entry, count, init_pfn, freed>>

\* init_zone, for both zones in turn: the test of page init_pfn.
init_zone_test ==
    /\ phase = "init_zone"
    /\ init_pfn < page_frame_count
    /\ phase' = "is_free_call"
    /\ boot_mem_is_free(init_pfn * PAGE_SIZE, PAGE_SIZE)
    /\ UNCHANGED <<mmap, entry, count, page_array, init_pfn, freed>>

\* boot_mem_is_free returns; free_pages is called if it returned nonzero.
init_zone_free ==
    /\ phase = "is_free_call"
    /\ phase' = "init_zone"
    /\ IsFreeReturn
    /\ freed' = IF SaysFree THEN freed \cup {init_pfn} ELSE freed
    /\ init_pfn' = init_pfn + 1
    /\ UNCHANGED <<mmap, entry, count, page_array>>

SetupDone ==
    /\ phase = "init_zone"
    /\ init_pfn = page_frame_count
    /\ phase' = "done"
    /\ UNCHANGED <<boot, mmap, entry, count, page_array, init_pfn, freed>>

SetupNext ==
    \/ MapEntry \/ CountPageFrames \/ reserve_kernel_memory
    \/ alloc_page_array \/ FindStep \/ PageArrayReturn
    \/ init_zone_test \/ init_zone_free \/ SetupDone

SetupSpec == SetupInit /\ [][SetupNext]_setup

\* Nothing runs beside setup_memory, so it is never kept from its next step.
FairSetupSpec == SetupSpec /\ WF_setup(SetupNext)

-----------------------------------------------------------------------------
(* Properties.                                                             *)

Phases == {"map", "kernel", "alloc_page_array", "page_array_call",
           "init_zone", "is_free_call", "done", "panic"}

SetupTypeOK ==
    /\ TypeOK
    /\ mmap \in Maps
    /\ entry \in 1 .. Len(mmap) + 1
    /\ phase \in Phases
    /\ page_frame_count \in 0 .. AddrLimit \div PAGE_SIZE
    /\ lowmem_page_frame_count \in 0 .. LOWMEM_PAGE_FRAMES
    /\ page_array \in Addresses \X Addresses
    /\ init_pfn \in 0 .. page_frame_count
    /\ freed \subseteq 0 .. page_frame_count - 1

\* The addresses the map calls available and those it calls anything else.
MapAddrs(S) ==
    UNION {RangeAddrs(EntryRange(mmap[n])) : n \in {m \in S : Usable(mmap[m])}}
AvailableAddrs   == MapAddrs(Available)
UnavailableAddrs == MapAddrs((1 .. Len(mmap)) \ Available)

PageAddrs(p) == p * PAGE_SIZE .. (p + 1) * PAGE_SIZE - 1

UsedAddrs == UnavailableAddrs \cup RangeAddrs(KernelImage)

\* The page array lies in available low memory that is neither the kernel's
\* image nor anything the map excludes, whatever order the map is in.
PageArrayPlaced ==
    phase \in {"init_zone", "is_free_call", "done"} =>
        /\ RangeAddrs(page_array) \subseteq AvailableAddrs \ UsedAddrs
        /\ page_array[2] <= LOWMEM_PAGE_FRAMES * PAGE_SIZE
        /\ page_array[1] % PAGE_SIZE = 0

FirstPageFree == PageAddrs(0) \subseteq AvailableAddrs \ UsedAddrs

\* What init_zone frees in fact: every page of both zones but the first, holes
\* and reserved memory included; the first exactly when it is not free.
FreedByInitZone ==
    phase = "done" => freed = {p \in 0 .. page_frame_count - 1 : p > 0 \/ ~ FirstPageFree}

\* setup_page_alloc.c:38 reports the pages init_zone has freed as free pages:
\* none of them should be part of what is reserved or absent.
FreedPagesAreFree ==
    \A p \in freed : PageAddrs(p) \subseteq Covered(memory) \ Covered(reserved)

\* setup_memory finishes, or the assertion of alloc_page_array stops the boot.
SetupEnds == <>(phase \in {"done", "panic"})
=============================================================================
