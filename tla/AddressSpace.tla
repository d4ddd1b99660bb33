---------------------------- MODULE AddressSpace ----------------------------
(***************************************************************************)
(* The kernel's address space: the page tables that boot.S fills, the move *)
(* to high addresses, remap_lower_memory, and the mapping window of kmap.c *)
(* above low memory.                                                       *)
(*                                                                         *)
(* A processor may use a translation for as long as it is not told that it *)
(* has changed, and kunmap does not tell it: stale holds the translations  *)
(* that are gone from the tables and may still be in use.                  *)
(*                                                                         *)
(* Addresses are page numbers; stage is what runs next, from _start to the *)
(* end of setup_arch, some of whose steps are those of IrqChips.           *)
(***************************************************************************)
EXTENDS Integers, FiniteSets, FiniteSetsExt

CONSTANTS PTRS_PER_PT,              \* entries of a page table
          PAGE_DIRS,                \* entries of a page directory
          LOWMEM_PAGE_DIR,          \* the first entry of the kernel's part
          LOWMEM_PAGE_FRAMES,       \* page frames mapped for good
          KernelFrame,              \* page frame of code, stack and gdt
          BootInfoFrame             \* page frame of the boot loader's map

PAGE_OFFSET        == LOWMEM_PAGE_DIR * PTRS_PER_PT
KERNEL_PAGE_DIRS   == PAGE_DIRS - LOWMEM_PAGE_DIR
KERNEL_PAGE_FRAMES == KERNEL_PAGE_DIRS * PTRS_PER_PT
PAGE_FRAMES        == PAGE_DIRS * PTRS_PER_PT
KMAP_OFFSET        == PAGE_OFFSET + LOWMEM_PAGE_FRAMES

ASSUME AddressSpaceAssumption ==
    /\ {PTRS_PER_PT, PAGE_DIRS, LOWMEM_PAGE_DIR, LOWMEM_PAGE_FRAMES} \subseteq Nat \ {0}
    /\ KERNEL_PAGE_DIRS \in 1 .. LOWMEM_PAGE_DIR
    /\ LOWMEM_PAGE_FRAMES < KERNEL_PAGE_FRAMES
    /\ {KernelFrame, BootInfoFrame} \subseteq 0 .. LOWMEM_PAGE_FRAMES - 1

VARIABLES stage,
          cr3,                      \* off, or the page directory in use
          high,                     \* code and stack are at high addresses
          page_dir,                 \* directory -> entry -> page table or Absent
          kernel_page_tables,       \* page frame, or Absent
          kernel_map_top_unused,
          mapped,                   \* <<vaddr, paddr>> of the kmaps in force
          stale                     \* <<vaddr, paddr>> the processor may remember

space == <<cr3, high, page_dir, kernel_page_tables, kernel_map_top_unused, mapped, stale>>

Absent == -1

virt_addr(p) == (p + PAGE_OFFSET) % PAGE_FRAMES

SpaceInit ==
    /\ stage = "fill_tables"
    /\ cr3 = "off"
    /\ high = FALSE
    /\ page_dir = [d \in {"initial_page_dir", "swapper_page_dir"} |->
                    [e \in 0 .. PAGE_DIRS - 1 |-> Absent]]
    /\ kernel_page_tables = [i \in 0 .. KERNEL_PAGE_FRAMES - 1 |-> Absent]
    /\ kernel_map_top_unused = LOWMEM_PAGE_FRAMES
    /\ mapped = {}
    /\ stale = {}

-----------------------------------------------------------------------------
(* _start.  A name with a suffix is its prefix with a bug, for the mutation *)
(* runs.                                                                    *)

fill_tables ==
    /\ stage = "fill_tables"
    /\ kernel_page_tables' = [i \in DOMAIN kernel_page_tables |->
                                IF i < LOWMEM_PAGE_FRAMES THEN i ELSE Absent]
    /\ stage' = "fill_directory"
    /\ UNCHANGED <<cr3, high, page_dir, kernel_map_top_unused, mapped, stale>>

\* Every table twice: from virtual address 0 and from PAGE_OFFSET.
fill_directory ==
    /\ stage = "fill_directory"
    /\ page_dir' = [page_dir EXCEPT !["initial_page_dir"] =
            [e \in 0 .. PAGE_DIRS - 1 |->
                IF e < KERNEL_PAGE_DIRS THEN e
                ELSE IF e >= LOWMEM_PAGE_DIR THEN e - LOWMEM_PAGE_DIR ELSE Absent]]
    /\ stage' = "enable_paging"
    /\ UNCHANGED <<cr3, high, kernel_page_tables, kernel_map_top_unused, mapped, stale>>

\* A load of cr3 makes the processor forget its translations.
enable_paging ==
    /\ stage = "enable_paging"
    /\ cr3' = "initial_page_dir"
    /\ stale' = {}
    /\ stage' = "jump"
    /\ UNCHANGED <<high, page_dir, kernel_page_tables, kernel_map_top_unused, mapped>>

\* The far jump behind lgdt, and the move of the stack pointer.
jump ==
    /\ stage = "jump"
    /\ high' = TRUE
    /\ stage' = "setup_i8259a"
    /\ UNCHANGED <<cr3, page_dir, kernel_page_tables, kernel_map_top_unused, mapped, stale>>

-----------------------------------------------------------------------------
\* Reads the boot loader's map by its physical address (see MemorySetup).
init_phys_mem_map ==
    /\ stage = "init_phys_mem_map"
    /\ stage' = "remap_lower_memory"
    /\ UNCHANGED space

\* Variant: copied to the low half.
SwapperDir_low ==
    [e \in 0 .. PAGE_DIRS - 1 |->
        IF e < KERNEL_PAGE_DIRS THEN page_dir["initial_page_dir"][e + LOWMEM_PAGE_DIR]
        ELSE page_dir["swapper_page_dir"][e]]

\* The memcpy: the kernel's part of the directory.
SwapperDir ==
    [e \in 0 .. PAGE_DIRS - 1 |->
        IF e >= LOWMEM_PAGE_DIR THEN page_dir["initial_page_dir"][e]
        ELSE page_dir["swapper_page_dir"][e]]

remap_lower_memory ==
    /\ stage = "remap_lower_memory"
    /\ page_dir' = [page_dir EXCEPT !["swapper_page_dir"] = SwapperDir]
    /\ cr3' = "swapper_page_dir"
    /\ stale' = {}
    /\ stage' = "setup_acpi"
    /\ UNCHANGED <<high, kernel_page_tables, kernel_map_top_unused, mapped>>

-----------------------------------------------------------------------------
\* What a walk through the tables t finds for page v.
Translate(t, v) ==
    IF cr3 = "off" THEN v
    ELSE LET table == page_dir[cr3][v \div PTRS_PER_PT]
         IN  IF table = Absent THEN Absent ELSE t[table * PTRS_PER_PT + (v % PTRS_PER_PT)]

Frame(v) == Translate(kernel_page_tables, v)

\* The page frames that an access to page v may reach when the tables are t.
Reached(t, v) == {Translate(t, v)} \cup {s[2] : s \in {x \in stale : x[1] = v}}

Frames(v) == Reached(kernel_page_tables, v)

kmap_addr(paddr) ==
    IF paddr < KMAP_OFFSET - PAGE_OFFSET THEN virt_addr(paddr)
    ELSE PAGE_OFFSET + kernel_map_top_unused

\* kmap; the caller gets kmap_addr(paddr).  The code does not look whether the
\* window has room: WindowRoom bounds the callers.  No translation that it changes
\* is remembered, since the processor remembers none of an absent page.
WindowRoom == kernel_map_top_unused < KERNEL_PAGE_FRAMES

kmap(paddr) ==
    /\ WindowRoom
    /\ mapped' = mapped \cup {<<kmap_addr(paddr), paddr>>}
    /\ IF paddr < KMAP_OFFSET - PAGE_OFFSET
       THEN UNCHANGED <<kernel_page_tables, kernel_map_top_unused>>
       ELSE /\ kernel_page_tables' = [kernel_page_tables EXCEPT ![kernel_map_top_unused] = paddr]
            /\ kernel_map_top_unused' = kernel_map_top_unused + 1
    /\ UNCHANGED <<cr3, high, page_dir, stale>>

\* Variant: without the test whether the entry is the last one.
TopAfter_always(t, pe) ==
    1 + Max({LOWMEM_PAGE_FRAMES - 1} \cup {i \in LOWMEM_PAGE_FRAMES .. pe : t[i] # Absent})

\* Variant: without the loop over the holes below.
TopAfter_hole(t, pe) ==
    IF pe + 1 # kernel_map_top_unused THEN kernel_map_top_unused ELSE pe

\* kernel_map_top_unused once entry pe of the tables is cleared, which gives t.
TopAfter(t, pe) ==
    IF pe + 1 # kernel_map_top_unused THEN kernel_map_top_unused
    ELSE 1 + Max({LOWMEM_PAGE_FRAMES - 1}
                    \cup {i \in LOWMEM_PAGE_FRAMES .. pe : t[i] # Absent})

\* The entry is cleared in memory only: there is no invlpg.
kunmap(vaddr) ==
    LET pe    == vaddr - PAGE_OFFSET
        clear == [kernel_page_tables EXCEPT ![pe] = Absent]
    IN  /\ mapped' = {m \in mapped : m[1] # vaddr}
        /\ IF vaddr < KMAP_OFFSET
           THEN UNCHANGED <<kernel_page_tables, kernel_map_top_unused, stale>>
           ELSE /\ kernel_page_tables' = clear
                /\ kernel_map_top_unused' = TopAfter(clear, pe)
                /\ stale' = stale \cup {<<vaddr, Frame(vaddr)>>}
        /\ UNCHANGED <<cr3, high, page_dir>>

-----------------------------------------------------------------------------
(* Properties.                                                             *)

Stages == {"fill_tables", "fill_directory", "enable_paging", "jump", "setup_i8259a",
           "init_phys_mem_map", "remap_lower_memory", "setup_acpi", "io_apic",
           "isa_defaults", "isa_source", "local_apic", "register",
           "setup_local_apic", "ready", "panic"}

\* What the code at this stage uses, as <<virtual, physical>> pages: itself and
\* its stack, low or high; the gdt and the jump's target by their high addresses
\* as soon as paging is on; the boot loader's map by its physical address; once
\* that is read, all of low memory; and the pages that were mapped.
Used ==
    { IF high THEN <<virt_addr(KernelFrame), KernelFrame>> ELSE <<KernelFrame, KernelFrame>> }
    \cup (IF stage = "jump" THEN {<<virt_addr(KernelFrame), KernelFrame>>} ELSE {})
    \cup (IF stage \in {"setup_i8259a", "init_phys_mem_map"}
          THEN {<<BootInfoFrame, BootInfoFrame>>} ELSE {})
    \cup (IF high THEN {<<virt_addr(p), p>> : p \in 0 .. LOWMEM_PAGE_FRAMES - 1} ELSE {})
    \cup mapped

\* The window ends right behind the last mapping in it, so that what was unmapped
\* at its end can be used again.
WindowTight ==
    kernel_map_top_unused =
        1 + Max({LOWMEM_PAGE_FRAMES - 1} \cup {m[1] - PAGE_OFFSET : m \in mapped})
=============================================================================
