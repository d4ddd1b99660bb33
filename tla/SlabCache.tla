----------------------------- MODULE SlabCache -----------------------------
(***************************************************************************)
(* The object caches of kernel/slab_cache.c on top of the page pool that   *)
(* kernel/page_alloc.c implements (PageAllocSpec), shared with the tasks   *)
(* of kernel/task.c.                                                       *)
(*                                                                         *)
(* A slab is the page frame its two pages start with.  Addresses are       *)
(* physical.  The kernel is not preempted, so a call is one step; the loop *)
(* of slab_cache_fini is a step per slab.                                  *)
(***************************************************************************)
EXTENDS SlabLayout, Sequences, FiniteSets, SequencesExt

CONSTANTS Caches,               \* struct slab_cache objects
          ObjectSize,           \* cache -> the size argument of slab_cache_create
          Alignment,            \* cache -> its align argument
          MAX_ORDER, lowmem_page_frames, BootFree

\* At least one object fits in a slab; slab_cache_create does not check it.
ASSUME SlabAssumption ==
    /\ \A c \in Caches : /\ ObjectSize[c] \in ObjectSizes /\ Alignment[c] \in ObjectSizes
                         /\ slab_object_count(slab_object_size(ObjectSize[c], Alignment[c])) > 0
    /\ lowmem_page_frames \in Nat
    /\ BootFree \subseteq 0 .. lowmem_page_frames - 1

VARIABLES free, held,     \* the page pool
          created,        \* caches between slab_cache_create and _destroy
          partial, full,  \* cache -> list of slabs
          bitmap,         \* slab -> indexes of the bits that are set
          slab_free,      \* slab -> slab->free
          page_slab,      \* page frame -> page->slab
          fini,           \* slabs slab_cache_fini has still to free
          objects,        \* <<cache, address>> of objects that clients own
          tasks           \* struct tasks in use

pool == <<free, held>>
vars == <<free, held, created, partial, full, bitmap, slab_free, page_slab, fini, objects, tasks>>

Pool == INSTANCE PageAllocSpec

PageFrames == 0 .. lowmem_page_frames - 1

object_size(c)  == slab_object_size(ObjectSize[c], Alignment[c])
object_count(c) == slab_object_count(object_size(c))
offset(c)       == object_offset(object_size(c))

object_address(c, s, n) == s * PAGE_SIZE + offset(c) + n * object_size(c)

-----------------------------------------------------------------------------
Init ==
    /\ Pool!Init
    /\ created = {}
    /\ partial = [c \in Caches |-> <<>>]
    /\ full = [c \in Caches |-> <<>>]
    /\ bitmap = [s \in PageFrames |-> {}]
    /\ slab_free = [s \in PageFrames |-> 0]
    /\ page_slab = [p \in PageFrames |-> 0]
    /\ fini = <<>>
    /\ objects = {}
    /\ tasks = {}

\* Set-up fills the pool before anything else runs.
Boot ==
    /\ created = {} /\ tasks = {} /\ fini = <<>>
    /\ free # BootFree
    /\ Pool!Donate(CHOOSE p \in BootFree \ free : TRUE)
    /\ UNCHANGED <<created, partial, full, bitmap, slab_free, page_slab, fini, objects, tasks>>

Ready == fini = <<>> /\ free \cup Pool!HeldPages = BootFree

slab_cache_create(c) ==
    /\ Ready /\ c \notin created
    /\ created' = created \cup {c}
    /\ partial' = [partial EXCEPT ![c] = <<>>]
    /\ full' = [full EXCEPT ![c] = <<>>]
    /\ UNCHANGED <<pool, bitmap, slab_free, page_slab, fini, objects, tasks>>

(* A name with a suffix is its prefix with a bug, for the mutation runs.       *)

\* Variant: the first page only.
GrownPages_first(p) == {p}

\* The pages whose page->slab slab_cache_grow sets.
GrownPages(p) == p .. p + SlabPages - 1

\* Variant: the lowest bit that is set.
FreeBit_set(c, bits) ==
    IF bits = {} THEN 0 ELSE CHOOSE n \in bits : \A m \in bits : n <= m

\* slab_alloc takes the first bit that is clear.
FreeBit(c, bits) ==
    CHOOSE n \in 0 .. object_count(c) : n \notin bits /\ \A m \in 0 .. n - 1 : m \in bits

\* Variant: the slab moves to full one object early.
Exhausted_early(n) == n <= 1

\* Variant: the slab stays on partial.
Exhausted_never(n) == FALSE

\* slab->free once slab_alloc has taken an object.
Exhausted(n) == n = 0

\* slab_alloc on the first slab of list, whose bitmap and counter are bits and
\* n; the slab moves to full when that was its last object.
TakeObject(c, list, bits, n) ==
    LET s   == Head(list)
        off == FreeBit(c, bits)
    IN  /\ bitmap' = [bitmap EXCEPT ![s] = bits \cup {off}]
        /\ slab_free' = [slab_free EXCEPT ![s] = n - 1]
        /\ objects' = objects \cup {<<c, object_address(c, s, off)>>}
        /\ IF Exhausted(n - 1)
           THEN /\ partial' = [partial EXCEPT ![c] = Tail(list)]
                /\ full' = [full EXCEPT ![c] = <<s>> \o @]
           ELSE /\ partial' = [partial EXCEPT ![c] = list]
                /\ UNCHANGED full

\* slab_cache_alloc with a slab that has room.
slab_cache_alloc(c) ==
    /\ Ready /\ c \in created
    /\ partial[c] # <<>>
    /\ TakeObject(c, partial[c], bitmap[Head(partial[c])], slab_free[Head(partial[c])])
    /\ UNCHANGED <<pool, created, page_slab, fini, tasks>>

\* slab_cache_alloc calls slab_cache_grow; alloc_pages finds a block.
slab_cache_grow(c) ==
    /\ Ready /\ c \in created
    /\ partial[c] = <<>>
    /\ \E p \in PageFrames :
        /\ Pool!Alloc(p, SLAB_ORDER)
        /\ page_slab' = [q \in PageFrames |-> IF q \in GrownPages(p) THEN p ELSE page_slab[q]]
        /\ TakeObject(c, <<p>>, {}, object_count(c))
    /\ UNCHANGED <<created, fini, tasks>>

NoBlock == \A p \in PageFrames :
    p % SlabPages = 0 => ~ (Pool!BlockPages(p, SLAB_ORDER) \subseteq free)

\* slab_cache_alloc finds neither an object nor a block and returns 0.
slab_cache_alloc_fails(c) ==
    /\ Ready /\ c \in created
    /\ partial[c] = <<>> /\ NoBlock
    /\ UNCHANGED vars

\* Variant: the slab stays where it is.
WasFull_never(s) == FALSE

\* slab_cache_free looks at the counter before slab_free increments it.
WasFull(s) == slab_free[s] = 0

\* slab_cache_free finds the slab through page->slab of the object's page.
slab_cache_free(c, addr) ==
    LET s   == page_slab[addr \div PAGE_SIZE]
        bit == (addr - (s * PAGE_SIZE + offset(c))) \div object_size(c)
    IN  /\ Ready /\ <<c, addr>> \in objects
        /\ objects' = objects \ {<<c, addr>>}
        /\ bitmap' = [bitmap EXCEPT ![s] = @ \ {bit}]
        /\ slab_free' = [slab_free EXCEPT ![s] = @ + 1]
        /\ IF WasFull(s)
           THEN /\ full' = [full EXCEPT ![c] = RemoveFirst(@, s)]
                /\ partial' = [partial EXCEPT ![c] = Append(@, s)]
           ELSE UNCHANGED <<partial, full>>
        /\ UNCHANGED <<pool, created, page_slab, fini, tasks>>

-----------------------------------------------------------------------------
\* The assertions of slab_cache_fini.
FiniAsserts(c) ==
    /\ full[c] = <<>>
    /\ \A n \in 1 .. Len(partial[c]) : slab_free[partial[c][n]] = object_count(c)

\* Variant: the loop stops after one slab.
FiniList_first(c) == IF partial[c] = <<>> THEN <<>> ELSE <<Head(partial[c])>>

FiniList(c) == partial[c]

\* A client destroys a cache when it has given back every object.
slab_cache_destroy(c) ==
    /\ Ready /\ c \in created
    /\ \A o \in objects : o[1] # c
    /\ FiniAsserts(c)
    /\ created' = created \ {c}
    /\ fini' = FiniList(c)
    /\ UNCHANGED <<pool, partial, full, bitmap, slab_free, page_slab, objects, tasks>>

\* One iteration of the loop of slab_cache_fini.  The list is left as it is.
slab_cache_fini ==
    /\ fini # <<>>
    /\ Pool!Free(Head(fini), SLAB_ORDER)
    /\ fini' = Tail(fini)
    /\ UNCHANGED <<created, partial, full, bitmap, slab_free, page_slab, objects, tasks>>

-----------------------------------------------------------------------------
KERNEL_STACK_ORDER == 1

\* The assertion of alloc_task fails, and the kernel stops, without a block.
alloc_task ==
    /\ Ready
    /\ \E p \in PageFrames :
        /\ Pool!Alloc(p, KERNEL_STACK_ORDER)
        /\ tasks' = tasks \cup {p}
    /\ UNCHANGED <<created, partial, full, bitmap, slab_free, page_slab, fini, objects>>

free_task(t) ==
    /\ Ready
    /\ Pool!Free(t, KERNEL_STACK_ORDER)
    /\ tasks' = tasks \ {t}
    /\ UNCHANGED <<created, partial, full, bitmap, slab_free, page_slab, fini, objects>>

Next ==
    \/ Boot
    \/ \E c \in Caches :
        \/ slab_cache_create(c) \/ slab_cache_destroy(c)
        \/ slab_cache_alloc(c) \/ slab_cache_grow(c) \/ slab_cache_alloc_fails(c)
    \/ \E o \in objects : slab_cache_free(o[1], o[2])
    \/ slab_cache_fini
    \/ alloc_task
    \/ \E t \in tasks : free_task(t)

Spec == Init /\ [][Next]_vars

-----------------------------------------------------------------------------
(* Properties.                                                             *)

Counters == 0 .. space

TypeOK ==
    /\ free \subseteq PageFrames /\ held \subseteq PageFrames \X {SLAB_ORDER}
    /\ created \subseteq Caches
    /\ partial \in [Caches -> Seq(PageFrames)] /\ full \in [Caches -> Seq(PageFrames)]
    /\ bitmap \in [PageFrames -> SUBSET Counters]
    /\ slab_free \in [PageFrames -> Counters]
    /\ page_slab \in [PageFrames -> PageFrames]
    /\ fini \in Seq(PageFrames)
    /\ objects \subseteq Caches \X (0 .. lowmem_page_frames * PAGE_SIZE - 1)
    /\ tasks \subseteq PageFrames

Slabs(c) == IF c \in created THEN ToSet(partial[c]) \cup ToSet(full[c]) ELSE {}

\* A slab is on one list of one cache: on full when it has no object left, on
\* partial otherwise, so that slab_cache_free moves it from the list it is on.
SlabsOnRightList ==
    \A c \in created :
        /\ IsInjective(partial[c] \o full[c])
        /\ \A s \in ToSet(partial[c]) : slab_free[s] > 0
        /\ \A s \in ToSet(full[c]) : slab_free[s] = 0
        /\ \A d \in created : c # d => Slabs(c) \cap Slabs(d) = {}

\* slab->free counts the clear bits, and the set bits are the objects that
\* clients own: none is handed out twice, and none is lost.
BitmapsMatchObjects ==
    \A c \in created :
        /\ \A s \in Slabs(c) : slab_free[s] + Cardinality(bitmap[s]) = object_count(c)
        /\ {o \in objects : o[1] = c} =
              UNION {{<<c, object_address(c, s, n)>> : n \in bitmap[s]} : s \in Slabs(c)}

ObjectBytes(o) == o[2] .. o[2] + object_size(o[1]) - 1

\* Objects do not overlap, whatever caches they are from, and none reaches into
\* a task, a free page, or the struct slab and bitmap of its own slab.
ObjectsDisjoint ==
    /\ \A o, q \in objects : o # q => ObjectBytes(o) \cap ObjectBytes(q) = {}
    /\ \A o \in objects : \E s \in Slabs(o[1]) :
            /\ ObjectBytes(o) \subseteq
                  s * PAGE_SIZE + HeaderSize(object_size(o[1])) .. (s + SlabPages) * PAGE_SIZE - 1
            /\ s \notin tasks
            /\ Pool!BlockPages(s, SLAB_ORDER) \cap free = {}

\* page->slab leads from each object that slab_cache_free may be given to the
\* slab it was taken from, although the page may have been part of other slabs
\* or of a task before and may be the second page of the slab.
FreeFindsSlab ==
    \A o \in objects :
        LET s == page_slab[o[2] \div PAGE_SIZE]
        IN  s \in Slabs(o[1]) /\ \E n \in bitmap[s] : o[2] = object_address(o[1], s, n)

\* Every block taken from the page allocator is a task, or a slab of a cache
\* that exists or is being destroyed: destroying a cache gives all of it back.
NoBlockLeaked ==
    held = {<<s, SLAB_ORDER>> : s \in tasks \cup ToSet(fini) \cup UNION {Slabs(c) : c \in Caches}}

\* The assertions of slab_cache_fini hold once a client has given back every
\* object, in whatever order it did.
DestroyAssertsHold ==
    \A c \in created : (\A o \in objects : o[1] # c) => FiniAsserts(c)
=============================================================================
