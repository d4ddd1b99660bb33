# Verification of auos

auos is a small x86 operating system kernel written in C (`src/kernel`), kept
together with the exercises it grew out of (`src/hw1`, `src/hw2`, `src/hw3`).
This directory holds TLA+ models of it, the TLC configurations that check them
and the proofs that the TLA+ proof system (TLAPS) checks. Each module says at
its top which files it models; `PROJECT.json` maps every definition to lines of
the source.

## The system

| Part | Source | State | Operations | Used by |
|---|---|---|---|---|
| boot-time memory | `kernel/bootmem.c` | two bounded, sorted lists of address ranges | add, reserve, alloc, is_free | memory set-up, page allocator set-up |
| memory set-up | `kernel/arch/x86/setup_memory.c` | number of page frames, all and low | read the boot loader's map, reserve the kernel, remap, start the page allocator | `setup_arch` |
| page allocator | `kernel/page_alloc.c`, `arch/x86/setup_page_alloc.c` | per zone and order a list of free blocks; an order field per page | init_zone, alloc_pages, free_pages | slab caches, tasks |
| slab caches | `kernel/slab_cache.c` | per cache two lists of slabs; per slab a bitmap and a counter; a slab pointer per page | create, alloc, free, destroy | any kernel code |
| task structures | `kernel/task.c` | two pages per task | alloc_task, free_task | `start.c` |
| tasks and switching | `kernel/scheduler.c`, `arch/x86/setup.c` | run list, two TSS descriptors, `prev_tss` per task | schedule_task, schedule, task_switch | `start.c` |
| address space | `boot/boot.S`, `memory.h`, `kmap.c`, `setup_memory.c` | page tables, two page directories, the mapping window and its top | paging on, remap, kmap, kunmap | APIC set-up |
| interrupt chips | `kernel/irq.c`, `arch/x86/i8259a.c`, `apic.c` | registered chip, shadow mask, I/O APICs, ISA routing | register, setup, mask, unmask, eoi | set-up |
| ACPI tables | `kernel/acpi.c`, `arch/x86/acpi.c` | none that changes | find a table, walk the MADT | APIC set-up |
| consoles, output | `kernel/console.c`, `io.c`, `arch/x86/*_console.c` | list of consoles, cursor | register, write, printf | everywhere |
| lists, utilities | `kernel/list.c`, `utility.c` | links | insert, remove, utoa | everywhere |
| descriptor tables, boot | `gdt.c`, `idt.c`, `start.c` | tables written once | | |
| hw3 scheduler | `hw3/scheduler.c`, `irq.c`, `time.c`, `switch.S` | run queue, `current`, time slices, interrupt flag | schedule, task_new, task_start, the interrupt handler | hw3 tasks |
| hw3 serial and tasks | `hw3/serial.c`, `main.c` | receive ring, shared buffer pointer | interrupt handler, serial_read | |
| hw1, hw2, asm_example, scripts | | earlier stages and tools | | |

How they interact: `start_kernel` calls `setup_arch`, which initialises each
part once, in a fixed order, and then creates a task and switches between two
tasks for ever. Everything is a plain function call. The kernel never enables
interrupts and is never preempted, and there is one processor. What is hard in
it is therefore not concurrency but long sequences of calls on shared
structures, fields that stay behind when a structure changes hands, arithmetic
at the end of a range, and the order in which firmware reports things. hw3 is
different: there the timer interrupt switches tasks at any instruction where
interrupts are on, and a serial interrupt fills a ring that a task reads.

What makes each part correct:

- *page allocator*: a page frame is never in two blocks; `free_pages` merges
  only blocks that are free and whole although it looks at nothing but an order
  field; merging is complete, so nothing is refused that could be given.
- *boot-time memory*: the lists cover exactly what was added; the search finds
  the lowest place, and never one that is reserved.
- *memory set-up*: the page array and whatever is freed to the page allocator
  are memory that is available and that nobody uses.
- *slab caches*: objects do not overlap each other, the header or anything else;
  an object goes back to the slab it is from; a destroyed cache leaves nothing.
- *tasks*: a task resumes where it stopped, the run list holds each other task once.
- *address space*: what is in use stays mapped through both switches of the page
  tables; no page table entry is handed out twice, and free ones at the end come back.
- *interrupt chips*: masks in the hardware equal the shadow copies; every ISA
  interrupt leads to a pin that exists, and a pin delivers its own interrupt.
- *hw3*: one task is current and every other ready one is queued once; bytes
  leave the ring, and the buffer the tasks share, in the order they came.

The list of hazards in `PROJECT.json` gives each of these at its line, with
the properties that are about it.

## Modules

| Module | Models | Role |
|---|---|---|
| `PageAllocSpec` | what `alloc_pages` and `free_pages` promise | abstract specification |
| `PageAlloc` | `page_alloc.c`, `setup_page_alloc.c` | detailed specification, properties |
| `BasicLemmas` | | lemmas the proofs share: induction, powers of two, lists without repetitions |
| `PageAllocProofs` | | blocks and buddies; the inductive invariant of `PageAlloc`; it implements `PageAllocSpec` |
| `BootMem` | `bootmem.c` | detailed specification, properties |
| `BootMemProofs` | | insertion and search are right for any lists, widths and requests; the set-up on top of them for any map |
| `MemorySetup` | `setup_memory.c`, `setup_page_alloc.c` over `BootMem` | composition |
| `SlabLayout` | the arithmetic of `slab_cache.c` | pure operators |
| `SlabCache` | `slab_cache.c`, `task.c` over `PageAllocSpec` | composition |
| `SlabCacheProofs` | | the layout is right for every size, and the caches for any pool and any caches |
| `Lists` | `list.c` | operators on links |
| `RoundRobin` | what `schedule` promises | abstract specification |
| `Descriptors` | `gdt.c` and the processor's reading of it | pure operators |
| `KernelTasks` | `scheduler.c`, `start.c`, `task_switch` and what it needs | detailed specification, properties |
| `KernelTasksProofs` | | links, descriptors and contexts are right for any tasks; no switch faults; it implements `RoundRobin` |
| `AddressSpace` | `boot.S`, `remap_lower_memory`, `kmap.c` | page tables, actions, properties |
| `IrqChips` | `irq.c`, `i8259a.c`, `apic.c`, both `acpi.c` over `AddressSpace` | composition |
| `IrqChipsProofs` | | both, for any firmware, chips and split of the address space; complete firmware never panics |
| `Hw3Scheduler` | hw3's `scheduler.c`, `irq.c`, `time.c` | detailed specification, properties |
| `Hw3SchedulerProofs` | | its run queue and its contexts are right for any number of tasks, which take turns |
| `Hw3Serial` | hw3's `serial.c`, `main.c`, `pic.c` | detailed specification, properties |
| `Hw3SerialProofs` | | no byte is lost, for any sizes of ring, chunk and FIFO |
| `MC*` | | instances for TLC |

`MemorySetup` extends `BootMem` and drives its actions, so that what is proved of a
list or a search holds in both. `PageAlloc`
implements `PageAllocSpec`, and `SlabCache` is built on `PageAllocSpec`, so that
what is checked of slab caches does not depend on how pages are found.
`KernelTasks` uses `Lists` and `Descriptors` and implements `RoundRobin`. `IrqChips` extends
`AddressSpace`: set-up of the chips interleaves with the steps that build the
address space, and reaches the registers of the APICs through it.

Names are the source's where TLA+ allows. A name with a suffix and the comment
*Variant* (`buddy_pfn_sum`, `Merges_any_order`, ...) is a definition with a
plausible bug in it. No specification uses it; `PROJECT.json` lists which
property detects it when it takes the place of the real one.

### PageAlloc

A `struct page` is its frame number. `free_area[zone][order]` is the list of
heads, first to last, as `list_insert_before` and `.next` keep it; `order[p]` is
`page->order` with the code's encoding (`k` for the head of a free block of
order k, `-k-1` for the head of a block in use, anything for other pages).
`held` is what callers own; it is not in the code, which relies on callers to
return what they got. Initially `order` is arbitrary: the page array is not
cleared before `init_zone` writes it, zone by zone. `InitZone` is the first
loop of `init_zone`, `InitZonePage` one iteration of the second, including the
call of `free_pages`. `alloc_pages` and `free_pages` are one step each, because nothing
runs between their statements. The loop of `free_pages_node` is written as the
order it stops at (`MergedOrder`) instead of step by step.

`BlocksInv` says that the lists, the order fields and the blocks agree.
`IInv`, which the run checks, adds that callers own low memory
(`HeldInLowMemory`) and that no two halves of a block are both free (`SiblingsMerged`).

### BootMem and MemorySetup

`boot_mem_add_range` is one operator with its three cases (extend, extend and
absorb one follower, insert). The search is stepwise, with its three variables
`i`, `j`, `begin`, because that `j` never moves back is what could be wrong.
Arithmetic that could wrap is modulo `AddrLimit`, which stands for 2^32.
`Requests` are the calls of `boot_mem_alloc`, `Queries` those of
`boot_mem_is_free`, and `RequestAssumption` says what the callers there are pass:
ranges that end below half of the address space, so that nothing wraps.
`MemorySetup` takes the boot loader's map as a sequence of entries in any order,
with the 64-bit entries that the code skips or cuts, and follows
`setup_memory` to the last page of `init_zone`. Its state is that of `BootMem` and a
few variables more (`setup`); its initial state, steps and invariants have names that
begin with `Setup`. The assertion in
`alloc_page_array` is the phase `panic`. `MapsAssumption` takes a map to be shorter than
the lists, since the code ignores a list that is full, and its available pieces to be
disjoint; reserved entries may overlap anything.

### SlabLayout and SlabCache

`SlabLayout` has the arithmetic of `slab_cache_init`. In `SlabCache` a slab is its
first page frame; `bitmap` is the set of its bits that are set; `partial` and
`full` are the two lists. `slab_cache_grow` and `slab_cache_alloc` are two
actions for the two ways through `slab_cache_alloc`. `slab_cache_fini` frees one slab
a step; while it runs, no other operation does (`Ready`). Blocks come
from `PageAllocSpec`, which may return any aligned free block. Set-up is the
action `Boot`, which fills the pool page by page in a fixed order; no client
runs before it is done.

### Lists, Descriptors, RoundRobin and KernelTasks

`Lists` has each function of `list.c` as an operator on the links of all nodes.
`Descriptors` packs a segment descriptor as `gdt.c` does, with a word as the set
of its bits, and takes it apart again as the processor does.
A task of `KernelTasks` stands for its `struct task`, the `struct task_state`
behind it and its stack, which share one aligned block; `current_task` is
therefore whose stack the stack pointer is in. A task is named by the address of
its `task_state`. `gdt` has the two packed TSS descriptors
by selector, `tr` is the task register with the base it cached, and `cpu` the
registers that a hardware task switch replaces. What a task has done is
represented by the turns it has counted (`turns`), which live in registers
and stack and so are saved and loaded with them. `ljmp` is external: the
processor faults unless the descriptor is a free TSS of the right size, saves where `tr` points, and loads
from where the descriptor points, except `cr3` and the first word, which it
only reads or leaves. `task_switch` writes `prev_tss` into that first word.
`task_init` includes the call of `alloc_task` before it; `SlabCache` has its
failure. `RoundRobin` promises a ring of tasks that take turns and go on
with what they had.

### AddressSpace and IrqChips

Addresses are page numbers. `page_dir` holds the two directories, whose entries
name a page table by its number, and `kernel_page_tables` is the one array behind
all of them. `stage` follows `_start`, `setup_arch` and `setup_apic`; its steps
are the assembly's blocks and the functions called, one step each, but a pass over the
MADT is one step per entry. `mapped` is what callers got from `kmap` and have
not returned. `Translate` is what the processor does with an address. `Used` lists what each stage
touches, by virtual address and by the page frame it must find there.
Mapped pages below the window keep being mapped whatever is done with them.
The code bounds nothing in `kmap`; `WindowRoom` bounds its callers here.

`firmware` is what the machine offers: where the RSDP is, the signatures of
tables, and the entries of the MADT in their order. An entry is decoded
as the code does it, where `struct acpi_isa_source` differs from what firmware
writes. The number of pins of an I/O APIC is read from the page frame that its
mapping leads to, and every register write goes through the mapping; a mapping
lost or reused would show. `out8` is the 8259A; `Remapped` is the four bytes of its
initialisation, one after the other. `owned` is what drivers have set up; a driver masks and unmasks only
that. Requests may come as soon as a chip is registered, before the APIC
too. `kmap` and `kunmap` by drivers come after set-up. `FirmwareAssumption` takes
every interrupt of an I/O APIC to have a vector below the spurious one: the code
adds 32 to the number and writes the sum into the entry without looking. It also takes drivers
to map other frames than those of the APICs.

`eoi` is left out, as no interrupt is ever in service.

The processor keeps translations it has used until `cr3` is loaded or it is told
to drop one, and `kunmap` clears an entry in memory without telling it. `stale` holds
the translations that are gone from the tables and may be in use still, and `Frames(v)`
the page frames that an access to page v may reach: the one the tables have, and the stale
ones. Every access through a mapping picks one of them. So a page that a driver maps where
another was unmapped may not be the one that it reaches, and `AddressesReach` says
just this much: the tables are right for every page in use, and all that the
kernel itself uses or has mapped, the registers of the APICs first of all, can be reached in
one way only, because none of it is mapped at a place that was used before. Nothing
in the repository calls `kunmap` yet. An entry of the window that is
mapped was absent before, and the processor does not remember absent pages.

### Hw3Scheduler

A thread is named by the `struct task` it was started for. `at` says where it is:
created (`new`), in `task_start` behind `enable_interrupts` (`start`), in its
function (`run`), or in the endless loop behind it (`finished`). `task_state[t]`
is the thread whose stack the pointer in t leads to, and `this` the local
variable of a thread's call of `schedule`, from which `current` is restored when
the thread continues. That these are kept apart is the point: the code keeps
them together only by calling things in the right order.

`schedule`, `task_new` and the interrupt handler run with interrupts off on one processor
and are one step each; `task_start` is three, because interrupts
are on from its first statement. A call of `schedule` ends in another thread, either
behind `task_state_switch` or, for a new task, at the start of `task_start`. Any
task may yield, create another, return from its function, or go on computing
(no step) until the timer takes the processor from it. `remain` starts with
anything, as `task_new` does not set it, and is kept exactly down to -1, below
which only its sign is looked at. A struct is given to `task_new` once.

`StartInterrupted` is the step in which an interrupt takes the processor from
`task_start` between its `sti` and its store to `current`. GCC emits one instruction
between the two at the repository's optimisation level, and the processor holds interrupts
back only for the one after `sti`, so the machine can take it, `Spec` has it,
and it is what breaks the scheduler (below). `UndisturbedSpec` is `Spec` as long as
it does not come, with fairness. The run `hw3_scheduler` checks that; the theorems are about
`Spec` and say what that step costs: the queue is right throughout a behaviour exactly if
the step is not in it.

### Hw3Serial

The handler is a step per access to the UART and to the ring, because bytes
arrive in between. It runs with interrupts off, so tasks wait for it
(`TasksRun`). `serial_read` is one step for the same reason. The tasks interleave at every
access to the shared pointer and the buffer: where the timer can switch them is
the matter of `Hw3Scheduler`. Both tasks get `NULL` as `data`, so `*msg` is the word at
address 0 and not `message`; nothing clears it, and `Init` lets it be
anything. If it is not zero, `task2` prints what it points to first, and `task1` waits.
Bytes are numbered as they arrive and none is zero; a zero byte from the
line would end the string `task2` prints and hide the rest of the chunk, so what the
properties say of printed bytes is said of lines that carry no zero bytes.
`accepted` and `printed` are histories. `Latch` is the edge-triggered request of
the 8259A, `Timeout` the UART's interrupt for bytes below the trigger level.

## Runs

| Run | Question | Bounds |
|---|---|---|
| `buddy` | Does the allocator keep a partition, trust no stale order, merge completely, and implement the pool, across a zone boundary too? | 8 low and 3 high pages, orders 0-3, all pages freed |
| `bootmem` | Are the lists exact, is the search right, and is nothing given out twice, whatever was reserved before? | addresses 0-7, lists of 3, all 15 reserved ranges in 0-5 and an empty one, aligned and unaligned requests of 1 and 2 |
| `memory_setup` | Does set-up end with the page array in nobody's memory? | 12 maps, 32 pages of 4 addresses, 15 of them low, lists of 6 |
| `memory_setup_reserved` | Is what set-up frees free? It is not, see below | as above |
| `slab_layout` | Does the layout hold for real sizes? | i386 sizes, every object size that leaves room for the header, alignments 1, 8, 64 |
| `slab_cache` | Do objects, counters, lists and pages agree? | slabs of 3 objects and of 1, three slabs, two caches and the tasks |
| `hw3_scheduler` | Do queue, `current` and saved contexts stay together under preemption, do tasks take turns, and does every waiting task run? | three tasks, time slices of 2, initial counters -1, 0, 3; no step of `StartInterrupted` |
| `hw3_window` | Is a node added only when it is not in the queue? It is not, see below | the same, interrupts anywhere |
| `kernel_tasks` | Do links, descriptors and saved contexts stay right, and does every task get its turn? | the swapper and three tasks, turns modulo 3 |
| `interrupts` | Is everything in use mapped, and reached although translations go stale, is complete firmware set up, do lines, pins, vectors and masks agree? | ten firmwares, 32 virtual pages, three I/O APICs for two places, interrupts 0, 9, 17 and 222 (the last with a vector), three frames to map |
| `isa_defaults` | Is a dropped override without effect? It is not, see below | as above |
| `hw3_serial` | Is what the ring took shown once and in order, and does nothing stay behind? | ring of 3, chunks of 2, FIFO of 4 that triggers at 3, 7 bytes |

Why these are enough. Eleven pages with four orders give every shape of merge:
with both buddies, at the ragged end without a buddy, into a block that itself
merges, up to the largest block, and from initial garbage in either
direction. The zone boundary is a multiple of the largest block, as
in the machine whenever there is high memory (`LOWMEM_PAGE_FRAMES` is 0x38000,
a multiple of 1024), and the last zone ends raggedly. `bootmem` reaches full
lists, ranges that touch, overlap, nest and fill a memory range, and memory
with a hole; with lists of three, a range that is extended has two followers to
overlap, of which the code absorbs one. Slabs of three objects whose first object lies across the page
boundary are the smallest in which the list, the counter and the second page
matter; one object per slab goes from empty to full at once. The
layout needs no bound but the size of a slab. Three tasks are enough for a task
to be created, to finish or to be preempted while one runs and another
waits, and a slice of 2 is used up in more than one tick. Four tasks in `kernel_tasks`
give a run list of three, in which first, middle and last differ, and more tasks
than descriptors; their addresses differ in each of the fields that a descriptor
cuts a base into. The firmwares of `interrupts` have overrides before and after the chips
they need, two for one line, more entries than places, entries that lead
nowhere, interrupts up to the last vector, and no tables. Two pages above low memory for drivers and five places in the
window leave holes in it and reuse them with translations gone stale. In `hw3_serial` the FIFO holds more than the ring and
the ring more than a chunk, so that bytes are dropped, wrap around and are left for the
next chunk; seven bytes pass the end of the ring twice.

`CHECK_DEADLOCK FALSE` is used in the `memory_setup` runs, where set-up
ends or panics, in `slab_layout`, which only counts through sizes, and in the
two runs of `IrqChips`, where set-up may panic.

**What `memory_setup_reserved` shows.** `boot_mem_is_free` returns
`boot_mem_find(...) != 0`, but `boot_mem_find` reports failure by returning its
argument `to`. Besides, `init_zone` calls it with `PAGE_SIZE` where the
prototype has the end of the range. For page 2 and above the search returns
`PAGE_SIZE` at once, because the range is empty the wrong way round, and for page 1
the size is 0; both are nonzero, so the page is freed. Page 0 is freed exactly
when it is *not* free. The page allocator therefore gets the kernel's image and
the page array itself. `FreedByInitZone` states what the code does,
`FreedPagesAreFree` what it should do.

**What `hw3_window` shows.** `task_start` enables interrupts and then sets
`current`. A task is started when another is put back on the queue and left;
`current` still points to that one. If its counter has run out, which is why it
was left when the timer did it, any interrupt in the window calls `schedule`, which
puts it on the queue a second time, links its node to itself, and saves the new
task's stack pointer in its struct. The counterexample takes six states and two
tasks. The very first call, from `main`, has `current` null in the same window.

**What `isa_defaults` shows.** `io_apic_isa_defaults` means to give ISA line i the
interrupt i, rising edge. The initialiser `{ i, i, HWIRQ_RISING }` fills flags,
isa and gsi, so every line gets interrupt 1 and the flags that the bits of i
stand for. `acpi_handle_isa_source` drops an override from line i to interrupt i as
useless. On firmware with line 9 at interrupt 9 and no other override for
it, line 9 ends at interrupt 1, with the keyboard. The properties of `interrupts`
hold all the same: whatever line a driver sets up, the pin it leads to exists
and has the vector of its interrupt.

Fairness. `hw3_scheduler` assumes that the processor goes on in `task_start` and
that the timer keeps ticking; tasks are never assumed to yield or to return, and no
other interrupt to come. `kernel_tasks` assumes that the loops of `start_kernel`
and `init` go on calling `schedule`; each task is one of these. `interrupts`
assumes that set-up goes on and nothing of drivers. `hw3_serial` assumes that
handler and UART go on and that both tasks get the processor, which
`WaitingTasksRun` of `Hw3Scheduler` gives; bytes are never assumed to
arrive. `bootmem` and `memory_setup` check that searches and set-up
end, under weak fairness of the steps of the call in progress. Nothing else
runs on the machine, and interrupts are off, so the next statement is always
executed. Clients are never assumed to call anything.

## Proofs

`PROJECT.json` lists the theorems. Each proof module but `BasicLemmas` is laid out in the
same way: facts about the operators, the inductive invariant with one lemma per
action, then the theorems. They hold for every value of the constants that
the assumptions named below allow. The only bounds in them are parameters too
(`Laps`, `MaxBytes`, `Irqs`), and may have any value, and `WindowRoom`, by which the
callers of `kmap` stay within the window.

**Page allocator** (`PageAllocProofs`; any `MAX_ORDER`, zone boundary, size of memory, set
of pages freed at boot, initial content of the page array). `BlocksPartitionPages`, the
assertion of `free_pages`, and that `free_pages` unlinks only whole free buddies
(`MergesOnlyFreeBuddies`). The partition is not inductive by itself: to know that
a merge keeps it, one must know that the buddy found by its order field is free,
which follows only if blocks are aligned, lie in one zone, and their heads have
the order that tells who has them (`BlocksShape`, `OrdersOK`), and if lists
hold each head once (`ListsOK`). The heart is `BuddyIsFree`: the buddy of an aligned
block of order k is in some block; if that block were in use, or larger, or smaller,
alignment would make the buddy the head of it or make it overlap the first block, and
its order field would not be k. All actions but `InitZone` are then an instance of
`ReplaceBlocks`: some blocks are taken out of the partition and others with the same
pages put in. On top of this, `IInv` adds `SiblingsMerged`. That merging stays complete
has two sides: the loop stops only where the buddy is not a free block of
that order (`ReturnMerges`), and splitting leaves the sibling of each part in use
(`TakeMerges`). From it, an aligned run of free pages lies inside one free
block (`CoveringBlock`: otherwise the smallest block in the run would have a
free sibling there), which gives `NoFalseExhaustion` and
`FreeListsCanonical`. `StepImplementsPool` maps each step to one of `PageAllocSpec` or
to a stutter, so `ImplementsPool` is a theorem.

**Boot-time memory** (`BootMemProofs`; any list length, address width, set of ranges and
requests). An insertion is one of three shapes (`AddRangeShape`); each keeps
the list sorted and covers what it should (`RangesExact`, `ListsOK`). The search
is right only because of what `j` has passed: `IInv` says so at the head of
each of its loops (`RangeLoop`: reserved ranges that were passed end before every
memory range still to come; `FitLoop`: they end before the candidate, and no
fit is lower). That needs memory ranges which do not touch (`MemoryApart`), which in turn
needs the disjoint pieces of `FirmwareMapAssumption`. `FindsLowestFit`
follows, and from it `AllocationsDisjoint`, which is about the step that grants a range: it is
available memory, not reserved before, reserved from then on, and shares no byte with any range
granted earlier, the same one included.

A search ends: `Descends` says that a step of it returns, or leaves fewer ranges to look at,
or raises the candidate, which has a bound, and `SearchAdvances` that every step
does. `FindReturns` needs besides only that the next step is taken.

**Memory set-up** (`BootMemProofs`; any map that `MapsAssumption` allows, any kernel image,
size of pages and of `struct page`). `SetupInv` keeps the invariant of `BootMem`, with
its histories cut to what the set-up adds (`PiecesUncut`), and relates the lists to the
map: `ListsHoldMap` says that the memory list covers what has been read of the available
entries and the reserved one what has been read of the others, and then the
kernel's image and the page array, address by address. `PageArrayPlaced` is that, and
that the search returns a place that fits. `ListsShort` keeps the lists below their
capacity, so that no range is refused. `CallOfPhase` ties the call in
progress to the phase that made it; with it the two mistakes in `boot_mem_is_free`
and its caller become facts about one search: the request for page 0 is `FirstRequest`,
which fails exactly when the page is not free and then returns nonzero, and for any
other page the request is empty or backwards, and found at once at `PAGE_SIZE`.
`FreedByInitZone` is the sum of this over the pages (`FreedSoFar`). `SetupAdvances` gives the
set-up a measure: each step raises `Progress`, which is bounded, or is a step of a
search that descends.

**Slab caches** (`SlabCacheProofs`). `LayoutIsSound` is the arithmetic: for every page
size, header, word size, object size and alignment, taken as exact numbers,
objects are aligned and behind the bitmap. `LayoutAlwaysSound` states it as the run
`slab_layout` does, for the state machine of `MCSlabLayout` with sizes that need not be
those of the i386. The state of the caches is proved on top of it for any set of
caches and any pool that behaves as `PageAllocSpec`. What makes `SlabsOnRightList`,
`FreeFindsSlab`, `ObjectsDisjoint` and the rest inductive is to say which pages lead
to which slab (`PagesFindSlab`), that a slab is on one list of one owner
(`ListsApart`), that blocks of different owners are apart (`OwnersApart`, `PoolOK`), and that an
object is a set bit and a set bit an object (`ObjectsExact`).

**Tasks and switching** (`KernelTasksProofs`; any finite set of tasks, any addresses).
The links of `list.c` form a circle through the head (`Circle`); `insert` and `remove`
change it as they change a sequence, though they touch only four fields. A
descriptor that `gdt.c` packs is taken apart again to the same base and type,
bit by bit (`ShiftBits` and what follows). `IInv` adds to `RunListIntact` and `SwitchesSafe` that only
one task exists until the swapper has its descriptor and that a task not yet scheduled has not
run. `ImplementsRoundRobin` is a theorem, too; as a stopped machine would satisfy it,
`JumpsNeverFault` adds that the descriptor `schedule` jumps to is always a free one that decodes to
the first task of the list.

**Address space and interrupt chips** (`IrqChipsProofs`; any split of the address
space, any I/O APICs, any firmware). `IInv` has four parts. `SpaceInv` says
what the directories hold at each stage, that above low memory the entries in
use are the mappings in force, all below the top, with the last right below
it, and (`StaleInv`) that a stale translation is of a page of the window which is a driver's,
if anyone's; translation then reduces to one fact of division (`FrameHigh`, `FrameLow`).
`PicInv` ties the shadow mask to both mask registers. `TablesInv` says that each I/O APIC
stems from an entry that was read, and is reached through a mapping in force,
and that each ISA line leads to a pin of one of them, the one of its last override so far. `ChipInv` says
that an entry of a redirection table that is not masked has the vector of its own
pin. The parts need each other: that a register write reaches the right I/O
APIC, and no other through a stale translation, rests on `SpaceInv`, that it is the right entry on `TablesInv`. A write for one
line may change an entry that another line shares; both want the same vector, as the
vector belongs to the pin.

`CompleteNeverPanics` is about the other direction. `IInv` says that what is in the driver's
tables stems from the firmware; `ReadInv` says that what the firmware has got into the
tables, as far as there is room: every kept I/O APIC behind the first pass (`ApicsRead`),
every kept processor behind the last (`ProcessorsRead`). `RoomLeft` is the counting behind
it: an entry that is among the first so many of its type finds a place. A chip for interrupt 1, a chip
for each override and the boot processor are then found, and none of the panics is
reached. `SetupAlwaysAdvances` adds that each step of set-up goes to a later stage or to the
next entry, and that nothing else moves it. What is left of `SetupSucceeds` is that
steps are taken, which is fairness, and that the window has room.

**hw3 scheduler** (`Hw3SchedulerProofs`; any tasks, time slice and initial memory). The
theorems are about `Spec`, with interrupts wherever they are on, and tell what the one in
`task_start` does. `QueueCorrect` is an equivalence: `QueueHoldsWaiting` holds throughout a
behaviour if and only if no step of it is a `StartInterrupted`. One direction is that everything else
preserves the invariant. The other is `WindowLosesTask`: the step itself breaks the
queue. `ContextsKept` and `TurnsTaken` say that without such a step every
thread goes on in its own context and tasks take turns. A prefix of a behaviour that
goes on by standing still is a behaviour too, so up to the first such step all of this holds even
where one comes later. The properties are not
inductive alone: `schedule` decides by `task->state` whether to put a task back, and
restores `current` from a variable of an earlier call, so `IInv` adds that `state` says
where each thread is and that only the running thread can be inside `task_start`.
`ScheduleInv` is the lemma for a call of `schedule` from anywhere; yields and
interrupts are instances. `TurnsAreTaken`, which the run checks too, is what `WaitingTasksRun` is made of: a waiting task only moves
toward the head of the queue, and a timer interrupt ends the turn of the running
task or takes from the positive ticks left of it, whatever counter a new task found in its struct.

**hw3 serial** (`Hw3SerialProofs`; any sizes of ring, chunk and FIFO). `NothingLost` is
preserved only by a handover that does not let both tasks use the buffer at
once: `HandoverOK` says which of the two may be where for each value of the pointer, `ChunkOK`
what the buffer holds at each of these places, `RingOK` that the three fields of
the ring agree. `IInv` falls into the side of the handler and that of the tasks
(`FrontOK`, `BackOK`), which share nothing but the ring.

Assumptions. `MaxOrderAssumption` (a shift of an int), `PageFramesAssumption` (`minu` in
`init_phys_mem_map`), `BootAssumption`, `AddressSpaceAssumption`, `IrqAssumption`,
`TasksAssumption`, `SchedulerAssumption`, `SerialAssumption`, `SetupAssumption` and the types in
`BootMemAssumption` and `LayoutAssumption` say what the constants are; `SetupAssumption` has
that a `struct page` is no larger than a page and that low memory ends below half of the
addresses, both of which `memory.h` and `page_alloc.h` give.
`RequestAssumption`, `FirmwareMapAssumption`, `MapsAssumption`, `FirmwareAssumption` and `SlabAssumption`
are about the world: requests whose arithmetic does not wrap, available ranges that the firmware
reports disjointly, maps that fit the lists, interrupts with vectors of their own, and object sizes of
which at least one fits a slab. The code checks none of these, and `PROJECT.json` lists under hazards
what happens without them.

Only model-checked: liveness (`FindReturns`, `EveryTaskRuns`, `WaitingTasksRun`,
`SetupEnds`, `SetupSucceeds`, `EverythingPrinted`), which is out of the prover's reach, as
it has no rule for fairness. Of all but the last the part without fairness is proved:
`SearchAdvances` for `FindReturns`, `RoundRobinImplemented` with `JumpsNeverFault` for
`EveryTaskRuns`, `TurnsTaken` for `WaitingTasksRun`, `SetupAdvances` for `SetupEnds`, and
`CompleteNeverPanics` with `SetupAlwaysAdvances` for `SetupSucceeds`. The library's induction theorems take an
operator, which the provers cannot instantiate; `BasicLemmas` derives from well-foundedness the two facts used
instead, for sets: a set of numbers has a least element (`LeastNat`), and one that is closed under successor
up to a bound has all numbers up to it (`IntervalInduction`). What a recursive
function computes for every input stays out of reach that way, but the models have none
that needs it.

## Plan

The models cover what of the kernel and of hw3 has state that evolves, and every
safety property that a passing run checks is proved. Left to do are number formatting of `utility.c`
against a reference over bounded inputs, and the cursor of the consoles.

## Not modelled, and why

Interrupt gates, the flat segments, the entry code of interrupts and port access are
straight-line code whose meaning is in hardware. The consoles write to devices;
their one piece of state is a cursor. `utility.c` keeps no state. `hw1`,
`asm_example` and the scripts have no state to speak of; `hw2` is an earlier
stage of `hw3`. Memory contents are not modelled except for the fields named
above, and callers of the allocators are assumed to return what they got, once.
More than eight processors would share logical APIC identifiers (`i % 8`); only
the boot processor runs here. An entry of the MADT with length 0 would stop
`acpi_parse_madt` from advancing, and tables above low memory cannot be reached by
`virt_addr`; the model takes firmware to be well formed in these two respects.
