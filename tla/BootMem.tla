------------------------------ MODULE BootMem ------------------------------
(***************************************************************************)
(* The boot-time allocator of kernel/bootmem.c: two lists of physical      *)
(* address ranges, what the firmware calls available and what is reserved, *)
(* and a first-fit search for memory in the first but not in the second.   *)
(*                                                                         *)
(* boot_mem_add and boot_mem_reserve are one step.  The search is modelled *)
(* loop iteration by loop iteration, as the state of the running call.     *)
(* List positions count from 1 here and from 0 in the code.                *)
(***************************************************************************)
EXTENDS Integers, Sequences

CONSTANTS BOOT_MEM_RANGES,  \* capacity of each list
          AddrLimit,        \* 2^32: unsigned long arithmetic is modulo this
          MemoryRanges,     \* <<begin, end>> arguments of boot_mem_add
          ReservedRanges,   \* <<begin, end>> arguments of boot_mem_reserve
          Requests,         \* [size, align, from, to] arguments of boot_mem_alloc
          Queries           \* <<begin, end>> arguments of boot_mem_is_free

Addresses == 0 .. AddrLimit - 1

ASSUME BootMemAssumption ==
    /\ BOOT_MEM_RANGES \in Nat \ {0}
    /\ AddrLimit \in Nat /\ AddrLimit > 1
    /\ MemoryRanges \subseteq Addresses \X Addresses
    /\ ReservedRanges \subseteq Addresses \X Addresses
    /\ Requests \subseteq [size : Addresses, align : Addresses \ {0},
                           from : Addresses, to : Addresses]
    /\ Queries \subseteq Addresses \X Addresses

\* align_up works for powers of two, and neither it nor begin + size wraps for
\* the callers there are: `to' is the top of low memory (setup_page_alloc.c:44),
\* below 1 GB, or the size of a page (setup_page_alloc.c:31).
ASSUME RequestAssumption ==
    /\ \A r \in Requests : /\ \E n \in 0 .. 31 : r.align = 2^n
                           /\ 2 * r.to + r.align <= AddrLimit
    /\ \A q \in Queries : 2 * q[2] + 1 <= AddrLimit

\* The firmware reports disjoint pieces of available memory.  The code takes
\* this on trust: an available range enclosing one that was added before is
\* listed next to it, and boot_mem_find can then return reserved memory.
ASSUME FirmwareMapAssumption ==
    \A q, r \in MemoryRanges : q # r => q[2] <= r[1] \/ r[2] <= q[1]

VARIABLES memory,     \* boot_mem.memory
          reserved,   \* boot_mem.reserved
          pc,         \* where the call in progress is
          caller,     \* the function that called boot_mem_find
          req,        \* the arguments of that call
          i, j,       \* boot_mem_find's positions in memory and in reserved
          begin,      \* boot_mem_find's candidate address
          result,     \* what boot_mem_find returned
          allocated   \* ranges boot_mem_alloc has returned to callers

lists == <<memory, reserved>>
find  == <<i, j, begin>>
vars  == <<memory, reserved, pc, caller, req, i, j, begin, result, allocated>>

-----------------------------------------------------------------------------
(* The range lists.                                                        *)

min(x, y) == IF x < y THEN x ELSE y
max(x, y) == IF x > y THEN x ELSE y

(* A name with a suffix is its prefix with a bug, for the mutation runs.       *)

\* Variant: the end is overwritten.
boot_mem_merge_src(dst, src) == <<min(src[1], dst[1]), src[2]>>

boot_mem_merge(dst, src) == <<min(src[1], dst[1]), max(src[2], dst[2])>>

\* Variant: only the begin of r is compared with l.
boot_mem_overlap_begin(l, r) == l[1] <= r[1] \/ r[1] <= l[2]

boot_mem_overlap(l, r) ==
    \/ l[1] <= r[1] /\ r[1] <= l[2]
    \/ l[1] <= r[2] /\ r[2] <= l[2]

boot_mem_remove(s, n) ==
    [m \in 1 .. Len(s) - 1 |-> IF m < n THEN s[m] ELSE s[m + 1]]

boot_mem_insert(s, r, n) ==
    [m \in 1 .. Len(s) + 1 |->
        IF m < n THEN s[m] ELSE IF m = n THEN r ELSE s[m - 1]]

\* Variant: a new range goes to the end of the list.
InsertPosition_last(s, r) == Len(s) + 1

\* The first range that does not end before r begins, or one past the last.
InsertPosition(s, r) ==
    CHOOSE n \in 1 .. Len(s) + 1 :
        /\ \A m \in 1 .. n - 1 : s[m][2] < r[1]
        /\ n <= Len(s) => s[n][2] >= r[1]

\* Variant: the capacity is not checked.
AddRangeFails_never(s, r) == FALSE

\* boot_mem_add_range fails, and changes nothing, when it has to insert a
\* range into a full list.
AddRangeFails(s, r) ==
    LET n == InsertPosition(s, r)
    IN  /\ r[1] < r[2]
        /\ ~ (n <= Len(s) /\ boot_mem_overlap(s[n], r))
        /\ Len(s) = BOOT_MEM_RANGES

\* The list boot_mem_add_range leaves behind.  The range it extends absorbs
\* at most one follower.
boot_mem_add_range(s, r) ==
    LET n == InsertPosition(s, r)
        d == boot_mem_merge(s[n], r)
    IN  IF r[2] <= r[1] \/ AddRangeFails(s, r) THEN s
        ELSE IF n <= Len(s) /\ boot_mem_overlap(s[n], r)
        THEN IF n + 1 <= Len(s) /\ boot_mem_overlap(d, s[n + 1])
             THEN boot_mem_remove([s EXCEPT ![n] = boot_mem_merge(d, s[n + 1])], n + 1)
             ELSE [s EXCEPT ![n] = d]
        ELSE boot_mem_insert(s, r, n)

-----------------------------------------------------------------------------
NoRequest == [size |-> 0, align |-> 1, from |-> 0, to |-> 0]

Init ==
    /\ memory = <<>>
    /\ reserved = <<>>
    /\ pc = "idle"
    /\ caller = "boot_mem_alloc"
    /\ req = NoRequest
    /\ i = 1 /\ j = 1 /\ begin = 0 /\ result = 0
    /\ allocated = {}

boot_mem_add(r) ==
    /\ pc = "idle"
    /\ memory' = boot_mem_add_range(memory, r)
    /\ UNCHANGED <<reserved, pc, caller, req, find, result, allocated>>

boot_mem_reserve(r) ==
    /\ pc = "idle"
    /\ reserved' = boot_mem_add_range(reserved, r)
    /\ UNCHANGED <<memory, pc, caller, req, find, result, allocated>>

-----------------------------------------------------------------------------
(* boot_mem_find, called by boot_mem_alloc and by boot_mem_is_free.        *)

\* Variant: align_down.
align_up_floor(x, a) == x - (x % a)

align_up(x, a) == LET y == (x + a - 1) % AddrLimit IN y - (y % a)

found(addr) ==
    /\ result' = addr
    /\ pc' = "found"

\* The early returns, or the start of the loop over memory.
boot_mem_find(r) ==
    /\ pc = "idle"
    /\ req' = r
    /\ i' = 1 /\ j' = 1 /\ begin' = 0
    /\ IF r.from > r.to \/ r.size > r.to - r.from THEN found(r.to)
       ELSE IF r.size = 0 THEN found(r.from)
       ELSE pc' = "range" /\ UNCHANGED result
    /\ UNCHANGED <<lists, allocated>>

boot_mem_alloc(r) ==
    /\ boot_mem_find(r)
    /\ caller' = "boot_mem_alloc"

boot_mem_is_free(b, e) ==
    /\ boot_mem_find([size |-> (e - b) % AddrLimit, align |-> 1, from |-> b, to |-> e])
    /\ caller' = "boot_mem_is_free"

\* The head of the loop over memory: it ends, skips a range, or enters it.
FindRange ==
    /\ pc = "range"
    /\ IF i > Len(memory) \/ (memory[i][2] > req.from /\ memory[i][1] >= req.to)
       THEN found(req.to) /\ UNCHANGED find
       ELSE IF memory[i][2] <= req.from
       THEN i' = i + 1 /\ UNCHANGED <<pc, j, begin, result>>
       ELSE /\ begin' = max(memory[i][1], req.from)
            /\ pc' = "fit"
            /\ UNCHANGED <<i, j, result>>
    /\ UNCHANGED <<lists, caller, req, allocated>>

\* Variant: a range that ends where the candidate begins blocks it.
FirstEndingAfter_inclusive(b) ==
    CHOOSE n \in j .. Len(reserved) + 1 :
        /\ \A m \in j .. n - 1 : reserved[m][2] < b
        /\ n <= Len(reserved) => reserved[n][2] >= b

\* Where the scan of reserved, which never moves back, stops for a candidate.
FirstEndingAfter(b) ==
    CHOOSE n \in j .. Len(reserved) + 1 :
        /\ \A m \in j .. n - 1 : reserved[m][2] <= b
        /\ n <= Len(reserved) => reserved[n][2] > b

\* One iteration of the loop over candidates inside memory[i].
FindFit ==
    /\ pc = "fit"
    /\ LET end  == min(memory[i][2], req.to)
           b    == align_up(begin, req.align)
           stop == (b + req.size) % AddrLimit
           n    == FirstEndingAfter(b)
       IN  IF begin >= end
           THEN i' = i + 1 /\ pc' = "range" /\ UNCHANGED <<j, begin, result>>
           ELSE IF stop > end
           THEN i' = i + 1 /\ pc' = "range" /\ begin' = b /\ UNCHANGED <<j, result>>
           ELSE /\ j' = n
                /\ UNCHANGED i
                /\ IF n > Len(reserved) \/ reserved[n][1] >= stop
                   THEN begin' = b /\ found(b)
                   ELSE begin' = reserved[n][2] /\ UNCHANGED <<pc, result>>
    /\ UNCHANGED <<lists, caller, req, allocated>>

\* What boot_mem_alloc reserves for its caller when the search is over.
Granted == <<result, (result + req.size) % AddrLimit>>

\* It fails if the search did, or if there is no room to reserve the range.
Succeeds == result # req.to /\ ~ AddRangeFails(reserved, Granted)

AllocReturn ==
    /\ pc = "found" /\ caller = "boot_mem_alloc"
    /\ pc' = "idle"
    /\ IF Succeeds
       THEN /\ reserved' = boot_mem_add_range(reserved, Granted)
            /\ allocated' = allocated \cup {Granted}
       ELSE UNCHANGED <<reserved, allocated>>
    /\ UNCHANGED <<memory, caller, req, find, result>>

\* Variant: the opposite test.
SaysFree_zero == result = 0

\* boot_mem_is_free compares what the search returned with 0.
SaysFree == result # 0

IsFreeReturn ==
    /\ pc = "found" /\ caller = "boot_mem_is_free"
    /\ pc' = "idle"
    /\ UNCHANGED <<lists, caller, req, find, result, allocated>>

Find == FindRange \/ FindFit

Next ==
    \/ \E r \in MemoryRanges : boot_mem_add(r)
    \/ \E r \in ReservedRanges : boot_mem_reserve(r)
    \/ \E r \in Requests : boot_mem_alloc(r)
    \/ \E q \in Queries : boot_mem_is_free(q[1], q[2])
    \/ Find \/ AllocReturn \/ IsFreeReturn

Spec == Init /\ [][Next]_vars

\* A call runs to completion: nothing preempts the booting kernel.
FairSpec == Spec /\ WF_vars(Find \/ AllocReturn \/ IsFreeReturn)

-----------------------------------------------------------------------------
(* Properties.                                                             *)

RangeList == {s \in Seq(Addresses \X Addresses) : Len(s) <= BOOT_MEM_RANGES}

TypeOK ==
    /\ memory \in RangeList
    /\ reserved \in RangeList
    /\ pc \in {"idle", "range", "fit", "found"}
    /\ caller \in {"boot_mem_alloc", "boot_mem_is_free"}
    /\ req \in [size : Addresses, align : Addresses, from : Addresses, to : Addresses]
    /\ i \in 1 .. BOOT_MEM_RANGES + 1
    /\ j \in 1 .. BOOT_MEM_RANGES + 1
    /\ begin \in Addresses
    /\ result \in Addresses
    /\ allocated \subseteq Addresses \X Addresses

RangeAddrs(r) == r[1] .. r[2] - 1
Covered(s)    == UNION {RangeAddrs(s[n]) : n \in 1 .. Len(s)}

SortedList(s) ==
    /\ \A n \in 1 .. Len(s) : s[n][1] < s[n][2]
    /\ \A m, n \in 1 .. Len(s) : m < n => s[m][1] < s[n][1]

\* Both lists stay sorted by their begin, and hold no empty range, although
\* boot_mem_overlap misses a new range that encloses an old one.  The early
\* exits of boot_mem_find rely on it.
ListsSorted == SortedList(memory) /\ SortedList(reserved)

\* The same, and no list is ever longer than there is room for: what every other
\* property of the lists rests on.
ListsOK == TypeOK /\ ListsSorted

\* Merging never covers an address nobody gave and never loses one: the list
\* covers exactly the addresses given, unless it was full.
AddIsExact(s, t, r) ==
    \/ Covered(t) = Covered(s) \cup RangeAddrs(r)
    \/ Len(s) = BOOT_MEM_RANGES /\ t = s

RangesExact == [][
    /\ \A r \in MemoryRanges :
            boot_mem_add(r) => AddIsExact(memory, memory', r)
    /\ \A r \in ReservedRanges :
            boot_mem_reserve(r) => AddIsExact(reserved, reserved', r)]_vars

\* An address where the request in progress could be placed.
Fits(a) ==
    /\ a % req.align = 0
    /\ req.from <= a /\ a + req.size <= req.to
    /\ a .. a + req.size - 1 \subseteq Covered(memory) \ Covered(reserved)

\* The search returns the lowest address that fits, and `to' exactly when
\* there is none, whatever order ranges were added in and although reserved
\* ranges may lie inside one another.
FindsLowestFit ==
    pc = "found" /\ req.size > 0 =>
        IF \E a \in Addresses : Fits(a)
        THEN Fits(result) /\ \A a \in 0 .. result - 1 : ~ Fits(a)
        ELSE result = req.to

\* Whenever boot_mem_alloc succeeds, what it gives is available memory that was
\* not reserved and is from then on, and no byte of it was given to anyone
\* before, were it by the same range.
AllocationsDisjoint == [][AllocReturn /\ Succeeds =>
    /\ RangeAddrs(Granted) \subseteq Covered(memory) \ Covered(reserved)
    /\ RangeAddrs(Granted) \subseteq Covered(reserved')
    /\ \A r \in allocated : RangeAddrs(r) \cap RangeAddrs(Granted) = {}]_vars

\* Every call that searches returns.
FindReturns == pc # "idle" ~> pc = "idle"
=============================================================================
