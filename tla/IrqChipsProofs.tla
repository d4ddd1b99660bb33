--------------------------- MODULE IrqChipsProofs ---------------------------
(***************************************************************************)
(* Through the boot sequence and any use of kmap and kunmap the tables     *)
(* lead every page in use where its user takes it to be, and the processor *)
(* reaches there every page that no driver has mapped; both 8259As mask    *)
(* what the driver believes; and every ISA line, whatever the firmware's   *)
(* tables say, ends at a pin that its chip has, the one of its last        *)
(* override if it has any.  The set-up moves on with every step, and with  *)
(* complete tables it does not panic.                                      *)
(***************************************************************************)
EXTENDS IrqChips, BasicLemmas, FiniteSetTheorems

-----------------------------------------------------------------------------
(* The inductive invariant.                                                *)

Unpaged  == {"fill_tables", "fill_directory", "enable_paging"}
Physical == {"setup_i8259a", "init_phys_mem_map", "remap_lower_memory"}
Parsed   == {"io_apic", "isa_source", "local_apic"}

\* Until the MADT is read nothing is mapped by kmap.
Unmapped == Unpaged \cup Physical \cup {"jump", "setup_acpi"}

\* The page directory in use, and where the code runs, by stage.
PagingInv ==
    /\ stage \in Stages
    /\ high = (stage \notin Unpaged \cup {"jump"})
    /\ cr3 = IF stage \in Unpaged THEN "off"
             ELSE IF stage \in Physical \cup {"jump"} THEN "initial_page_dir"
             ELSE "swapper_page_dir"
    /\ DOMAIN page_dir = {"initial_page_dir", "swapper_page_dir"}
    /\ cr3 # "off" =>
          \A e \in LOWMEM_PAGE_DIR .. PAGE_DIRS - 1 : page_dir[cr3][e] = e - LOWMEM_PAGE_DIR
    /\ stage \in {"enable_paging", "jump"} \cup Physical =>
          /\ \A e \in LOWMEM_PAGE_DIR .. PAGE_DIRS - 1 :
                page_dir["initial_page_dir"][e] = e - LOWMEM_PAGE_DIR
          /\ \A e \in 0 .. KERNEL_PAGE_DIRS - 1 : page_dir["initial_page_dir"][e] = e

\* The tables hold low memory, and above it the kmaps in force, the last of
\* them right below kernel_map_top_unused.
WindowInv ==
    /\ kernel_page_tables \in [0 .. KERNEL_PAGE_FRAMES - 1 -> Nat \cup {Absent}]
    /\ kernel_map_top_unused \in LOWMEM_PAGE_FRAMES .. KERNEL_PAGE_FRAMES
    /\ stage # "fill_tables" =>
          \A i \in 0 .. LOWMEM_PAGE_FRAMES - 1 : kernel_page_tables[i] = i
    /\ stage \in Unmapped => mapped = {}
    /\ \A m \in mapped : \E i \in 0 .. kernel_map_top_unused - 1 :
          m = <<PAGE_OFFSET + i, kernel_page_tables[i]>> /\ kernel_page_tables[i] # Absent
    /\ \A i \in LOWMEM_PAGE_FRAMES .. KERNEL_PAGE_FRAMES - 1 :
          kernel_page_tables[i] # Absent =>
              /\ i < kernel_map_top_unused
              /\ <<PAGE_OFFSET + i, kernel_page_tables[i]>> \in mapped
    /\ kernel_map_top_unused > LOWMEM_PAGE_FRAMES =>
          kernel_page_tables[kernel_map_top_unused - 1] # Absent

\* What the processor may remember that the tables no longer say is of pages of
\* the window that are a driver's, if anyone's.
StaleInv ==
    /\ stage # "ready" => stale = {}
    /\ \A s \in stale :
          /\ s[1] \in Nat /\ KMAP_OFFSET <= s[1]
          /\ \A m \in mapped : m[1] = s[1] => m[2] \in DriverFrames

SpaceInv == PagingInv /\ WindowInv /\ StaleInv

PicInv ==
    /\ pic_irq_mask \subseteq 0 .. 15
    /\ owned \subseteq {"i8259a", "apic"} \X Nat
    /\ \A o \in owned : o[1] = "i8259a" => o[2] < 16
    /\ irqchip \in {"none", "i8259a", "apic"}
    /\ irqchip = "none" <=> stage \in Unpaged \cup {"jump", "setup_i8259a"}
    /\ DOMAIN pic = {"master", "slave"}
    /\ \A c \in {"master", "slave"} :
          /\ DOMAIN pic[c] = {"next", "offset", "cascade", "imr"}
          /\ pic[c].next = "ocw1"
          /\ irqchip # "none" => /\ pic[c].offset = IF c = "master" THEN 32 ELSE 40
                                 /\ pic[c].imr = ChipMask(c, pic_irq_mask)

\* The entries of a type that the handler finds room for.
KeptPlaces(type, count) ==
    {n \in Entries(type) : Cardinality(Entries(type) \cap (1 .. n)) <= count}

\* An I/O APIC of the driver is one of the firmware's, reached through a mapping.
Stems(apic) ==
    \E n \in KeptPlaces("io_apic", IO_APIC_MAX_COUNT) :
        /\ apic.gsi = firmware.madt[n].gsi
        /\ apic.irqs = IoApicPins[firmware.madt[n].paddr]
        /\ <<apic.iospace, firmware.madt[n].paddr>> \in mapped

\* A route leads to a pin that its chip has.
Leads(r) ==
    /\ r.gsi \in Nat
    /\ r.io_apic \in DOMAIN io_apic
    /\ Covers(io_apic[r.io_apic], r.gsi)
    /\ r.pin = r.gsi - io_apic[r.io_apic].gsi

\* The overrides of line i that are read before entry h.
Mine(i, h) == {n \in Overrides : n < h /\ firmware.madt[n].source = i}

\* The entry up to which the overrides are read.
Read == IF stage = "isa_source" THEN hdr ELSE Len(firmware.madt) + 1

CursorInv ==
    /\ firmware \in Firmwares
    /\ hdr \in 1 .. Len(firmware.madt) + 1
    /\ stage \notin Parsed \cup {"panic"} => hdr = 1

\* The I/O APICs are those of the entries read so far, as far as there is room.
ApicsInv ==
    /\ io_apic \in Seq([iospace : Nat, gsi : Nat, irqs : Nat])
    /\ stage \in Unmapped => io_apic = <<>>
    /\ stage = "io_apic" =>
          \/ Len(io_apic) = IO_APIC_MAX_COUNT
          \/ Len(io_apic) = Cardinality(Entries("io_apic") \cap (1 .. hdr - 1))
    /\ Len(io_apic) <= IO_APIC_MAX_COUNT
    /\ \A i \in DOMAIN io_apic : Stems(io_apic[i])

\* Every ISA line has a pin, the one of the last override read for it.
RoutesInv ==
    /\ DOMAIN isa_irq = 0 .. ISA_IRQ_COUNT - 1
    /\ stage = "isa_source" \/ IsaDone =>
          \A i \in 0 .. ISA_IRQ_COUNT - 1 :
              /\ Leads(isa_irq[i])
              /\ Mine(i, Read) # {} =>
                    isa_irq[i].gsi = SourceGsi(firmware.madt[Max(Mine(i, Read))])

TablesInv == CursorInv /\ ApicsInv /\ RoutesInv

\* The page frame of the chip for a request.
Chip(irq) == Frame(io_apic[Route(irq).io_apic].iospace)

Deliver == {"setup_local_apic", "ready", "panic"}

\* The entry of the redirection table holds the vector of its own pin.
Delivers(f, p) ==
    /\ redtbl[f][p].vector \in 32 .. SPURIOUS_INTERRUPT_VECTOR - 1
    /\ <<f, p>> \in FirmwarePins(redtbl[f][p].vector - HW_INTERRUPT_OFFSET)

ChipInv ==
    /\ DOMAIN redtbl = DOMAIN IoApicPins
    /\ \A f \in DOMAIN IoApicPins :
          redtbl[f] \in [0 .. IoApicPins[f] - 1 ->
                            [vector : Nat, masked : BOOLEAN, low : BOOLEAN, level : BOOLEAN]]
    /\ \A f \in DOMAIN IoApicPins : \A p \in 0 .. IoApicPins[f] - 1 :
          ~ redtbl[f][p].masked => Delivers(f, p)
    /\ irqchip = "apic" => stage \in Deliver
    /\ \A o \in owned : o[1] = "apic" =>
          /\ irqchip = "apic"
          /\ o[2] < ISA_IRQ_COUNT \/ io_apic_find(o[2]) # 0
          /\ stage # "panic" => Delivers(Chip(o[2]), Route(o[2]).pin)

IInv == SpaceInv /\ PicInv /\ TablesInv /\ ChipInv

-----------------------------------------------------------------------------
(* Numbers.                                                                *)

\* A number is written in one way as a multiple of q and a remainder.
LEMMA DivisionUnique ==
    ASSUME NEW q \in Nat \ {0}, NEW a \in Nat, NEW r \in 0 .. q - 1
    PROVE  (a * q + r) \div q = a /\ (a * q + r) % q = r
OBVIOUS

\* A number is the multiple and the remainder that division gives.
LEMMA Division ==
    ASSUME NEW q \in Nat \ {0}, NEW i \in Nat
    PROVE  i \div q \in Nat /\ i % q \in 0 .. q - 1 /\ (i \div q) * q + (i % q) = i
OBVIOUS

\* Max of a set of numbers that has a bound is an element and a bound.
LEMMA MaxFacts ==
    ASSUME NEW S \in SUBSET Nat, S # {}, NEW b \in Nat, \A x \in S : x <= b
    PROVE  Max(S) \in S /\ \A x \in S : x <= Max(S)
<1> DEFINE T == {b - x : x \in S}
<1>1. T \in SUBSET Nat /\ T # {}
  <2>1. \A x \in S : b - x \in Nat
    OBVIOUS
  <2> QED BY <2>1
<1>2. PICK y \in T : \A z \in T : y <= z
  <2> HIDE DEF T
  <2> QED BY <1>1, LeastNat
<1>3. PICK x \in S : y = b - x
  BY <1>2
<1>4. ASSUME NEW z \in S PROVE x >= z
  <2>1. b - z \in T
    OBVIOUS
  <2>2. b - x <= b - z /\ x \in Nat /\ z \in Nat
    BY <1>2, <1>3, <2>1
  <2> QED BY <2>2
<1>5. \E m \in S : \A z \in S : m >= z
  BY <1>4
<1>6. Max(S) \in S /\ \A z \in S : Max(S) >= z
  BY <1>5 DEF Max
<1> QED BY <1>6

\* A bound of a set that is in it is its maximum.
LEMMA MaxIs ==
    ASSUME NEW S \in SUBSET Nat, NEW x \in S, \A y \in S : y <= x
    PROVE  Max(S) = x
<1>1. Max(S) \in S /\ Max(S) <= x
  BY MaxFacts
<1>2. x <= Max(S)
  BY MaxFacts
<1>3. x \in Nat /\ Max(S) \in Nat
  BY <1>1
<1> HIDE DEF Max
<1> QED BY <1>1, <1>2, <1>3

-----------------------------------------------------------------------------
(* Translation.                                                            *)

\* What the assumptions say of the sizes of the address space.
LEMMA SpaceFacts ==
    /\ PTRS_PER_PT \in Nat \ {0} /\ LOWMEM_PAGE_DIR \in Nat \ {0}
    /\ KERNEL_PAGE_DIRS \in Nat \ {0} /\ KERNEL_PAGE_DIRS <= LOWMEM_PAGE_DIR
    /\ PAGE_DIRS = LOWMEM_PAGE_DIR + KERNEL_PAGE_DIRS
    /\ LOWMEM_PAGE_FRAMES \in Nat \ {0} /\ LOWMEM_PAGE_FRAMES < KERNEL_PAGE_FRAMES
    /\ PAGE_OFFSET \in Nat /\ PAGE_OFFSET = LOWMEM_PAGE_DIR * PTRS_PER_PT
    /\ KERNEL_PAGE_FRAMES \in Nat /\ KERNEL_PAGE_FRAMES = KERNEL_PAGE_DIRS * PTRS_PER_PT
    /\ PAGE_FRAMES = PAGE_OFFSET + KERNEL_PAGE_FRAMES
    /\ KMAP_OFFSET = PAGE_OFFSET + LOWMEM_PAGE_FRAMES
    /\ KERNEL_PAGE_FRAMES <= PAGE_OFFSET
    /\ KernelFrame \in 0 .. LOWMEM_PAGE_FRAMES - 1
    /\ BootInfoFrame \in 0 .. LOWMEM_PAGE_FRAMES - 1
<1>1. /\ PTRS_PER_PT \in Nat \ {0} /\ LOWMEM_PAGE_DIR \in Nat \ {0}
      /\ LOWMEM_PAGE_FRAMES \in Nat \ {0} /\ PAGE_DIRS \in Nat \ {0}
      /\ KERNEL_PAGE_DIRS \in 1 .. LOWMEM_PAGE_DIR
      /\ LOWMEM_PAGE_FRAMES < KERNEL_PAGE_FRAMES
      /\ KernelFrame \in 0 .. LOWMEM_PAGE_FRAMES - 1
      /\ BootInfoFrame \in 0 .. LOWMEM_PAGE_FRAMES - 1
  BY AddressSpaceAssumption
<1>2. KERNEL_PAGE_DIRS \in Nat \ {0} /\ KERNEL_PAGE_DIRS <= LOWMEM_PAGE_DIR
  BY <1>1
<1>3. PAGE_DIRS = LOWMEM_PAGE_DIR + KERNEL_PAGE_DIRS
  BY <1>1 DEF KERNEL_PAGE_DIRS
<1>4. PAGE_FRAMES = LOWMEM_PAGE_DIR * PTRS_PER_PT + KERNEL_PAGE_DIRS * PTRS_PER_PT
  BY <1>1, <1>2, <1>3 DEF PAGE_FRAMES
<1>5. KERNEL_PAGE_DIRS * PTRS_PER_PT <= LOWMEM_PAGE_DIR * PTRS_PER_PT
  BY <1>1, <1>2
<1>6. KERNEL_PAGE_DIRS * PTRS_PER_PT \in Nat /\ LOWMEM_PAGE_DIR * PTRS_PER_PT \in Nat
  BY <1>1, <1>2
<1> QED BY <1>1, <1>2, <1>3, <1>4, <1>5, <1>6 DEF PAGE_OFFSET, KERNEL_PAGE_FRAMES, KMAP_OFFSET

\* The address that low memory has in the kernel's part.
LEMMA VirtAddr ==
    ASSUME NEW p \in 0 .. KERNEL_PAGE_FRAMES - 1
    PROVE  virt_addr(p) = PAGE_OFFSET + p
<1>1. p + PAGE_OFFSET \in 0 .. PAGE_FRAMES - 1 /\ PAGE_FRAMES \in Nat \ {0}
  BY SpaceFacts
<1> QED BY <1>1, SpaceFacts DEF virt_addr

\* Where the page tables hold the entry of page i of the kernel's part.
LEMMA TableOf ==
    ASSUME NEW i \in 0 .. KERNEL_PAGE_FRAMES - 1
    PROVE  /\ (PAGE_OFFSET + i) \div PTRS_PER_PT = LOWMEM_PAGE_DIR + (i \div PTRS_PER_PT)
           /\ (PAGE_OFFSET + i) % PTRS_PER_PT = i % PTRS_PER_PT
           /\ i \div PTRS_PER_PT \in 0 .. KERNEL_PAGE_DIRS - 1
           /\ (i \div PTRS_PER_PT) * PTRS_PER_PT + (i % PTRS_PER_PT) = i
<1> DEFINE q == PTRS_PER_PT
           d == LOWMEM_PAGE_DIR
           k == KERNEL_PAGE_DIRS
           a == i \div q
           r == i % q
<1>1. /\ q \in Nat \ {0} /\ d \in Nat /\ k \in Nat /\ k * q \in Nat
      /\ PAGE_OFFSET = d * q /\ i \in Nat /\ i < k * q
  BY SpaceFacts
<1>2. a \in Nat /\ r \in 0 .. q - 1 /\ a * q + r = i
  BY <1>1, Division
<1> HIDE DEF q, d, k, a, r
<1>3. d * q + i = (d + a) * q + r
  BY <1>1, <1>2
<1>4. PICK b \in Nat : b = d + a
  BY <1>1, <1>2
<1>5. (b * q + r) \div q = b /\ (b * q + r) % q = r
  BY <1>1, <1>2, DivisionUnique
<1>6. a < k
  <2>1. SUFFICES ASSUME k <= a PROVE FALSE
    BY <1>1, <1>2
  <2>2. k * q <= a * q
    BY <1>1, <1>2, <2>1
  <2>3. a * q \in Nat
    BY <1>1, <1>2
  <2> QED BY <1>1, <1>2, <2>2, <2>3
<1>7. a \in 0 .. k - 1
  BY <1>1, <1>2, <1>6
<1>8. (PAGE_OFFSET + i) \div q = d + a /\ (PAGE_OFFSET + i) % q = r /\ a * q + r = i
  BY <1>1, <1>2, <1>3, <1>4, <1>5, Zenon
<1> QED BY <1>7, <1>8, Zenon DEF q, d, k, a, r

\* With the kernel's tables in the kernel's part of a directory d, its pages
\* are translated by the tables t; with them at its start too, low pages are.
LEMMA DirectoryHigh ==
    ASSUME NEW d, NEW t, NEW i \in 0 .. KERNEL_PAGE_FRAMES - 1,
           \A e \in LOWMEM_PAGE_DIR .. PAGE_DIRS - 1 : d[e] = e - LOWMEM_PAGE_DIR
    PROVE  LET v == PAGE_OFFSET + i
               table == d[v \div PTRS_PER_PT]
           IN  /\ table # Absent
               /\ t[table * PTRS_PER_PT + (v % PTRS_PER_PT)] = t[i]
<1> DEFINE v == PAGE_OFFSET + i
           a == i \div PTRS_PER_PT
<1>1. /\ v \div PTRS_PER_PT = LOWMEM_PAGE_DIR + a
      /\ v % PTRS_PER_PT = i % PTRS_PER_PT
      /\ a \in 0 .. KERNEL_PAGE_DIRS - 1
      /\ a * PTRS_PER_PT + (i % PTRS_PER_PT) = i
  BY TableOf, Zenon
<1> HIDE DEF v, a
<1>2. /\ LOWMEM_PAGE_DIR + a \in LOWMEM_PAGE_DIR .. PAGE_DIRS - 1
      /\ (LOWMEM_PAGE_DIR + a) - LOWMEM_PAGE_DIR = a
  BY <1>1, SpaceFacts
<1>3. d[v \div PTRS_PER_PT] = a
  BY <1>1, <1>2
<1>4. a # Absent
  BY <1>1 DEF Absent
<1> QED BY <1>1, <1>3, <1>4 DEF v

\* A directory that counts up from entry 0 maps virtual page i to t[i].
LEMMA DirectoryLow ==
    ASSUME NEW d, NEW t, NEW i \in 0 .. KERNEL_PAGE_FRAMES - 1,
           \A e \in 0 .. KERNEL_PAGE_DIRS - 1 : d[e] = e
    PROVE  LET table == d[i \div PTRS_PER_PT]
           IN  /\ table # Absent
               /\ t[table * PTRS_PER_PT + (i % PTRS_PER_PT)] = t[i]
<1> DEFINE a == i \div PTRS_PER_PT
<1>1. /\ a \in 0 .. KERNEL_PAGE_DIRS - 1
      /\ a * PTRS_PER_PT + (i % PTRS_PER_PT) = i
  BY TableOf, Zenon
<1> HIDE DEF a
<1>2. a # Absent /\ d[a] = a
  BY <1>1 DEF Absent
<1> QED BY <1>1, <1>2 DEF a

\* With paging on, page i of the kernel space is where table entry i says.
LEMMA FrameHigh ==
    ASSUME PagingInv, cr3 # "off", NEW i \in 0 .. KERNEL_PAGE_FRAMES - 1
    PROVE  Frame(PAGE_OFFSET + i) = kernel_page_tables[i]
<1>1. \A e \in LOWMEM_PAGE_DIR .. PAGE_DIRS - 1 : page_dir[cr3][e] = e - LOWMEM_PAGE_DIR
  BY DEF PagingInv
<1> DEFINE d == page_dir[cr3]
<1>2. LET v == PAGE_OFFSET + i
          table == d[v \div PTRS_PER_PT]
      IN  /\ table # Absent
          /\ kernel_page_tables[table * PTRS_PER_PT + (v % PTRS_PER_PT)] = kernel_page_tables[i]
  <2>1. \A e \in LOWMEM_PAGE_DIR .. PAGE_DIRS - 1 : d[e] = e - LOWMEM_PAGE_DIR
    BY <1>1
  <2> HIDE DEF d
  <2> QED BY <2>1, DirectoryHigh
<1> QED BY <1>2, Zenon DEF Frame, Translate

\* Until the remap, low addresses are physical ones.
LEMMA FrameLow ==
    ASSUME PagingInv, stage \in Unpaged \cup Physical \cup {"jump"},
           NEW i \in 0 .. KERNEL_PAGE_FRAMES - 1,
           cr3 # "off" => kernel_page_tables[i] = i
    PROVE  Frame(i) = i
<1>1. CASE cr3 = "off"
  BY <1>1 DEF Frame, Translate
<1>2. CASE cr3 # "off"
  <2>1. cr3 = "initial_page_dir" /\ stage \in Physical \cup {"jump"}
    BY <1>2 DEF PagingInv
  <2>2. \A e \in 0 .. KERNEL_PAGE_DIRS - 1 : page_dir[cr3][e] = e
    BY <2>1 DEF PagingInv
  <2> DEFINE d == page_dir[cr3]
  <2>3. LET table == d[i \div PTRS_PER_PT]
        IN  /\ table # Absent
            /\ kernel_page_tables[table * PTRS_PER_PT + (i % PTRS_PER_PT)] = kernel_page_tables[i]
    <3>1. \A e \in 0 .. KERNEL_PAGE_DIRS - 1 : d[e] = e
      BY <2>2
    <3> HIDE DEF d
    <3> QED BY <3>1, DirectoryLow
  <2> QED BY <1>2, <2>3, Zenon DEF Frame, Translate
<1> QED BY <1>1, <1>2

\* What kmap gave out leads where the caller asked for.
LEMMA MappedFrame ==
    ASSUME SpaceInv, NEW m \in mapped
    PROVE  /\ Frame(m[1]) = m[2]
           /\ \E i \in 0 .. kernel_map_top_unused - 1 :
                 m = <<PAGE_OFFSET + i, kernel_page_tables[i]>>
<1>1. stage \notin Unmapped /\ stage \in Stages
  BY DEF SpaceInv, WindowInv, PagingInv
<1>2. cr3 # "off"
  BY <1>1 DEF SpaceInv, PagingInv, Unmapped
<1>3. PICK i \in 0 .. kernel_map_top_unused - 1 : m = <<PAGE_OFFSET + i, kernel_page_tables[i]>>
  BY DEF SpaceInv, WindowInv
<1>4. i \in 0 .. KERNEL_PAGE_FRAMES - 1
  BY SpaceFacts DEF SpaceInv, WindowInv
<1>5. Frame(PAGE_OFFSET + i) = kernel_page_tables[i]
  BY <1>2, <1>4, FrameHigh DEF SpaceInv
<1> QED BY <1>3, <1>5

\* Of a page that no translation is remembered for, the tables' frame is reached.
LEMMA FramesFresh ==
    ASSUME NEW v, \A s \in stale : s[1] # v
    PROVE  Frames(v) = {Frame(v)}
BY DEF Frames, Reached, Frame

\* None is of a page below the window,
LEMMA FramesBelow ==
    ASSUME SpaceInv, NEW v \in Nat, v < KMAP_OFFSET
    PROVE  Frames(v) = {Frame(v)}
<1>1. \A s \in stale : s[1] \in Nat /\ KMAP_OFFSET <= s[1]
  BY DEF SpaceInv, StaleInv
<1>2. KMAP_OFFSET \in Nat
  BY SpaceFacts
<1> QED BY <1>1, <1>2, FramesFresh

\* and none of a page that set-up mapped.
LEMMA FramesMapped ==
    ASSUME SpaceInv, NEW m \in mapped, m[2] \notin DriverFrames
    PROVE  Frames(m[1]) = {m[2]}
<1>1. \A s \in stale : s[1] # m[1]
  BY DEF SpaceInv, StaleInv
<1> QED BY <1>1, FramesFresh, MappedFrame

\* The addresses of mapped pages are numbers.
LEMMA MappedNat ==
    ASSUME SpaceInv, NEW m \in mapped
    PROVE  m[1] \in Nat
<1>1. PICK i \in 0 .. kernel_map_top_unused - 1 : m = <<PAGE_OFFSET + i, kernel_page_tables[i]>>
  BY MappedFrame
<1> QED BY <1>1, SpaceFacts

\* In every page in use the processor reaches what the tables say, unless a
\* driver mapped it.
LEMMA UsedFresh ==
    ASSUME SpaceInv, NEW u \in Used, u \notin DriverPages
    PROVE  Frames(u[1]) = {Frame(u[1])}
<1>1. /\ LOWMEM_PAGE_FRAMES \in Nat /\ PAGE_OFFSET \in Nat /\ LOWMEM_PAGE_FRAMES <= PAGE_OFFSET
      /\ KMAP_OFFSET = PAGE_OFFSET + LOWMEM_PAGE_FRAMES
      /\ \A p \in 0 .. LOWMEM_PAGE_FRAMES - 1 : p \in 0 .. KERNEL_PAGE_FRAMES - 1
      /\ KernelFrame \in 0 .. LOWMEM_PAGE_FRAMES - 1 /\ BootInfoFrame \in 0 .. LOWMEM_PAGE_FRAMES - 1
  BY SpaceFacts
<1>2. ASSUME NEW p \in 0 .. LOWMEM_PAGE_FRAMES - 1
      PROVE  /\ p \in Nat /\ p < KMAP_OFFSET
             /\ virt_addr(p) \in Nat /\ virt_addr(p) < KMAP_OFFSET
  <2>1. virt_addr(p) = PAGE_OFFSET + p
    BY <1>1, VirtAddr
  <2> QED BY <1>1, <2>1
<1>3. CASE u \in mapped
  <2>1. CASE u[1] < KMAP_OFFSET
    BY <1>3, <2>1, MappedNat, FramesBelow
  <2>2. CASE ~ (u[1] < KMAP_OFFSET)
    <3>1. u[1] >= KMAP_OFFSET
      BY <1>1, <1>3, <2>2, MappedNat
    <3>2. u[2] \notin DriverFrames
      BY <1>3, <3>1 DEF DriverPages
    <3> QED BY <1>3, <3>2, FramesMapped, MappedFrame
  <2> QED BY <2>1, <2>2
<1>4. CASE u \notin mapped
  <2>1. \E p \in 0 .. LOWMEM_PAGE_FRAMES - 1 : u[1] = virt_addr(p) \/ u[1] = p
    BY <1>1, <1>4 DEF Used
  <2>2. u[1] \in Nat /\ u[1] < KMAP_OFFSET
    BY <1>2, <2>1
  <2> QED BY <2>2, FramesBelow
<1> QED BY <1>3, <1>4

\* The invariant of the address space gives the first property of it,
LEMMA SpaceReaches == SpaceInv => AddressesReach
<1> SUFFICES ASSUME SpaceInv, NEW u \in Used PROVE Frame(u[1]) = u[2]
  BY UsedFresh DEF AddressesReach
<1>1. \A p \in 0 .. LOWMEM_PAGE_FRAMES - 1 : p \in 0 .. KERNEL_PAGE_FRAMES - 1
  BY SpaceFacts
<1>2. cr3 # "off" => \A p \in 0 .. LOWMEM_PAGE_FRAMES - 1 : kernel_page_tables[p] = p
  BY DEF SpaceInv, PagingInv, WindowInv, Unpaged
<1>3. ASSUME NEW p \in 0 .. LOWMEM_PAGE_FRAMES - 1, cr3 # "off" PROVE Frame(virt_addr(p)) = p
  BY <1>1, <1>2, <1>3, FrameHigh, VirtAddr DEF SpaceInv
<1>4. ASSUME NEW p \in 0 .. LOWMEM_PAGE_FRAMES - 1, stage \in Unpaged \cup Physical \cup {"jump"}
      PROVE  Frame(p) = p
  BY <1>1, <1>2, <1>4, FrameLow DEF SpaceInv
<1>5. KernelFrame \in 0 .. LOWMEM_PAGE_FRAMES - 1 /\ BootInfoFrame \in 0 .. LOWMEM_PAGE_FRAMES - 1
  BY SpaceFacts
<1>6. /\ high => cr3 # "off"
      /\ ~ high => stage \in Unpaged \cup Physical \cup {"jump"}
      /\ stage = "jump" => cr3 # "off"
  BY DEF SpaceInv, PagingInv, Unpaged, Physical
<1>7. CASE high /\ u = <<virt_addr(KernelFrame), KernelFrame>>
  BY <1>3, <1>5, <1>6, <1>7
<1>8. CASE ~ high /\ u = <<KernelFrame, KernelFrame>>
  BY <1>4, <1>5, <1>6, <1>8
<1>9. CASE stage = "jump" /\ u = <<virt_addr(KernelFrame), KernelFrame>>
  BY <1>3, <1>5, <1>6, <1>9
<1>10. CASE stage \in {"setup_i8259a", "init_phys_mem_map"} /\ u = <<BootInfoFrame, BootInfoFrame>>
  BY <1>4, <1>5, <1>10 DEF Physical
<1>11. CASE high /\ \E p \in 0 .. LOWMEM_PAGE_FRAMES - 1 : u = <<virt_addr(p), p>>
  BY <1>3, <1>6, <1>11
<1>12. CASE u \in mapped
  BY <1>12, MappedFrame
<1> QED BY <1>7, <1>8, <1>9, <1>10, <1>11, <1>12 DEF Used

\* and the second.
LEMMA SpaceTight == SpaceInv => WindowTight
<1> SUFFICES ASSUME SpaceInv PROVE WindowTight
  OBVIOUS
<1> DEFINE S == {LOWMEM_PAGE_FRAMES - 1} \cup {m[1] - PAGE_OFFSET : m \in mapped}
           top == kernel_map_top_unused
<1>1. top \in Nat /\ LOWMEM_PAGE_FRAMES \in Nat \ {0} /\ LOWMEM_PAGE_FRAMES <= top
      /\ PAGE_OFFSET \in Nat /\ top <= KERNEL_PAGE_FRAMES /\ KERNEL_PAGE_FRAMES \in Nat
  BY SpaceFacts DEF SpaceInv, WindowInv
<1>2. ASSUME NEW m \in mapped PROVE m[1] - PAGE_OFFSET \in Nat /\ m[1] - PAGE_OFFSET <= top - 1
  <2>1. PICK i \in 0 .. top - 1 : m = <<PAGE_OFFSET + i, kernel_page_tables[i]>>
    BY MappedFrame
  <2>2. i \in Nat /\ i <= top - 1 /\ m[1] = PAGE_OFFSET + i
    BY <2>1
  <2> QED BY <1>1, <2>2
<1>3. S \in SUBSET Nat /\ \A y \in S : y <= top - 1
  BY <1>1, <1>2
<1>4. top - 1 \in S
  <2>1. CASE top = LOWMEM_PAGE_FRAMES
    BY <2>1
  <2>2. CASE top # LOWMEM_PAGE_FRAMES
    <3>1. top - 1 \in LOWMEM_PAGE_FRAMES .. KERNEL_PAGE_FRAMES - 1 /\ top > LOWMEM_PAGE_FRAMES
      BY <1>1, <2>2
    <3>2. kernel_page_tables[top - 1] # Absent
      BY <3>1 DEF SpaceInv, WindowInv
    <3>3. <<PAGE_OFFSET + (top - 1), kernel_page_tables[top - 1]>> \in mapped
      BY <3>1, <3>2 DEF SpaceInv, WindowInv
    <3>4. (PAGE_OFFSET + (top - 1)) - PAGE_OFFSET = top - 1
      BY <1>1
    <3> QED BY <3>3, <3>4
  <2> QED BY <2>1, <2>2
<1>5. Max(S) = top - 1
  <2> HIDE DEF S, top
  <2> QED BY <1>3, <1>4, MaxIs
<1> QED BY <1>1, <1>5 DEF WindowTight

-----------------------------------------------------------------------------
(* Every step keeps the address space.                                     *)

\* It holds when the boot loader enters _start.
LEMMA SpaceInitInv ==
    ASSUME SpaceInit
    PROVE  SpaceInv
<1>1. /\ stage = "fill_tables" /\ cr3 = "off" /\ high = FALSE /\ mapped = {} /\ stale = {}
      /\ DOMAIN page_dir = {"initial_page_dir", "swapper_page_dir"}
      /\ kernel_page_tables = [i \in 0 .. KERNEL_PAGE_FRAMES - 1 |-> Absent]
      /\ kernel_map_top_unused = LOWMEM_PAGE_FRAMES
  BY DEF SpaceInit
<1>2. PagingInv
  BY <1>1 DEF PagingInv, Stages, Unpaged, Physical
<1>3. kernel_map_top_unused \in LOWMEM_PAGE_FRAMES .. KERNEL_PAGE_FRAMES
  BY <1>1, SpaceFacts
<1>4. \A i \in LOWMEM_PAGE_FRAMES .. KERNEL_PAGE_FRAMES - 1 : kernel_page_tables[i] = Absent
  BY <1>1, SpaceFacts
<1>5. ~ (kernel_map_top_unused > LOWMEM_PAGE_FRAMES)
  BY <1>1, SpaceFacts
<1>6. WindowInv
  BY <1>1, <1>3, <1>4, <1>5 DEF WindowInv
<1>7. StaleInv
  BY <1>1 DEF StaleInv
<1> QED BY <1>2, <1>6, <1>7 DEF SpaceInv

\* Steps that leave the space alone, from one stage to another of the same kind.
LEMMA SpaceFrame ==
    ASSUME SpaceInv, UNCHANGED space, stage' \in Stages,
           \/ stage' = stage
           \/ stage \notin Unmapped \cup {"ready"} /\ stage' \notin Unmapped
           \/ stage \in Physical /\ stage' \in Physical
           \/ stage = "setup_acpi" /\ stage' \notin Unmapped
    PROVE  SpaceInv'
<1>1. UNCHANGED <<cr3, high, page_dir, kernel_page_tables, kernel_map_top_unused, mapped, stale>>
  BY DEF space
<1>2. /\ stage' \in Unpaged <=> stage \in Unpaged
      /\ stage' \in Physical <=> stage \in Physical
      /\ stage' = "jump" <=> stage = "jump"
      /\ stage' = "enable_paging" <=> stage = "enable_paging"
      /\ stage' = "fill_tables" <=> stage = "fill_tables"
      /\ stage' \in Unmapped => stage \in Unmapped
  BY DEF Unmapped, Unpaged, Physical
<1>3. PagingInv'
  BY <1>1, <1>2 DEF SpaceInv, PagingInv
<1>4. WindowInv'
  BY <1>1, <1>2 DEF SpaceInv, WindowInv
<1>5. stage' = stage \/ stage # "ready"
  BY DEF Unmapped, Unpaged, Physical
<1>6. StaleInv'
  BY <1>1, <1>5 DEF SpaceInv, StaleInv
<1> QED BY <1>3, <1>4, <1>6 DEF SpaceInv

\* The steps of _start and remap_lower_memory keep it.
LEMMA BootSpace ==
    ASSUME SpaceInv, boot
    PROVE  SpaceInv'
<1>1. StaleInv'
  <2>1. stage # "ready" /\ stale' = {}
    BY DEF boot, fill_tables, fill_directory, enable_paging, jump, init_phys_mem_map,
           remap_lower_memory, space, SpaceInv, StaleInv
  <2> QED BY <2>1 DEF StaleInv
<1> USE DEF SpaceInv
<1>2. CASE fill_tables
  <2>1. /\ stage = "fill_tables" /\ stage' = "fill_directory" /\ mapped = {}
        /\ UNCHANGED <<cr3, high, page_dir, kernel_map_top_unused, mapped>>
        /\ kernel_page_tables' = [i \in 0 .. KERNEL_PAGE_FRAMES - 1 |->
                                    IF i < LOWMEM_PAGE_FRAMES THEN i ELSE Absent]
    BY <1>2 DEF fill_tables, WindowInv, Unmapped, Unpaged
  <2>2. PagingInv'
    BY <2>1 DEF PagingInv, Stages, Unpaged, Physical
  <2>3. \A i \in LOWMEM_PAGE_FRAMES .. KERNEL_PAGE_FRAMES - 1 : kernel_page_tables[i] = Absent
    BY <2>1 DEF WindowInv
  <2>4. kernel_map_top_unused = LOWMEM_PAGE_FRAMES
    <3>1. SUFFICES ASSUME kernel_map_top_unused # LOWMEM_PAGE_FRAMES PROVE FALSE
      OBVIOUS
    <3>2. /\ kernel_map_top_unused - 1 \in LOWMEM_PAGE_FRAMES .. KERNEL_PAGE_FRAMES - 1
          /\ kernel_map_top_unused > LOWMEM_PAGE_FRAMES
      BY <3>1, SpaceFacts DEF WindowInv
    <3> QED BY <2>3, <3>2 DEF WindowInv
  <2>5. WindowInv'
    <3>1. kernel_page_tables' \in [0 .. KERNEL_PAGE_FRAMES - 1 -> Nat \cup {Absent}]
      BY <2>1
    <3>2. \A i \in 0 .. LOWMEM_PAGE_FRAMES - 1 : kernel_page_tables'[i] = i
      BY <2>1, SpaceFacts
    <3>3. \A i \in LOWMEM_PAGE_FRAMES .. KERNEL_PAGE_FRAMES - 1 : kernel_page_tables'[i] = Absent
      BY <2>1, SpaceFacts
    <3>4. kernel_map_top_unused' \in LOWMEM_PAGE_FRAMES .. KERNEL_PAGE_FRAMES
      BY <2>1 DEF WindowInv
    <3>5. ~ (kernel_map_top_unused' > LOWMEM_PAGE_FRAMES)
      BY <2>1, <2>4, SpaceFacts
    <3> QED BY <2>1, <3>1, <3>2, <3>3, <3>4, <3>5 DEF WindowInv
  <2> QED BY <1>1, <2>2, <2>5
<1>3. CASE fill_directory
  <2>1. /\ stage = "fill_directory" /\ stage' = "enable_paging"
        /\ UNCHANGED <<cr3, high, kernel_page_tables, kernel_map_top_unused, mapped>>
    BY <1>3 DEF fill_directory
  <2> DEFINE d == [e \in 0 .. PAGE_DIRS - 1 |->
                IF e < KERNEL_PAGE_DIRS THEN e
                ELSE IF e >= LOWMEM_PAGE_DIR THEN e - LOWMEM_PAGE_DIR ELSE Absent]
  <2>2. page_dir' = [page_dir EXCEPT !["initial_page_dir"] = d]
    BY <1>3 DEF fill_directory
  <2>3. /\ DOMAIN page_dir' = {"initial_page_dir", "swapper_page_dir"}
        /\ page_dir'["initial_page_dir"] = d
    BY <2>2 DEF PagingInv
  <2>4. /\ \A e \in LOWMEM_PAGE_DIR .. PAGE_DIRS - 1 : d[e] = e - LOWMEM_PAGE_DIR
        /\ \A e \in 0 .. KERNEL_PAGE_DIRS - 1 : d[e] = e
    BY SpaceFacts
  <2> HIDE DEF d
  <2>5. PagingInv'
    BY <2>1, <2>3, <2>4 DEF PagingInv, Stages, Unpaged, Physical
  <2>6. WindowInv'
    BY <2>1 DEF WindowInv, Unmapped, Unpaged
  <2> QED BY <1>1, <2>5, <2>6
<1>4. CASE enable_paging
  <2>1. /\ stage = "enable_paging" /\ stage' = "jump" /\ cr3' = "initial_page_dir"
        /\ UNCHANGED <<high, page_dir, kernel_page_tables, kernel_map_top_unused, mapped>>
    BY <1>4 DEF enable_paging
  <2>2. PagingInv'
    BY <2>1 DEF PagingInv, Stages, Unpaged, Physical
  <2>3. WindowInv'
    BY <2>1 DEF WindowInv, Unmapped, Unpaged
  <2> QED BY <1>1, <2>2, <2>3
<1>5. CASE jump
  <2>1. /\ stage = "jump" /\ stage' = "setup_i8259a" /\ high' = TRUE
        /\ UNCHANGED <<cr3, page_dir, kernel_page_tables, kernel_map_top_unused, mapped>>
    BY <1>5 DEF jump
  <2>2. PagingInv'
    BY <2>1 DEF PagingInv, Stages, Unpaged, Physical
  <2>3. WindowInv'
    BY <2>1 DEF WindowInv, Unmapped, Physical
  <2> QED BY <1>1, <2>2, <2>3
<1>6. CASE init_phys_mem_map
  <2>1. stage \in Physical /\ stage' \in Physical /\ stage' \in Stages /\ UNCHANGED space
    BY <1>6 DEF init_phys_mem_map, Physical, Stages
  <2> QED BY <2>1, SpaceFrame
<1>7. CASE remap_lower_memory
  <2>1. /\ stage = "remap_lower_memory" /\ stage' = "setup_acpi" /\ cr3' = "swapper_page_dir"
        /\ page_dir' = [page_dir EXCEPT !["swapper_page_dir"] = SwapperDir]
        /\ UNCHANGED <<high, kernel_page_tables, kernel_map_top_unused, mapped>>
    BY <1>7 DEF remap_lower_memory
  <2>2. /\ DOMAIN page_dir' = {"initial_page_dir", "swapper_page_dir"}
        /\ page_dir'["swapper_page_dir"] = SwapperDir
    BY <2>1 DEF PagingInv
  <2>3. ASSUME NEW e \in LOWMEM_PAGE_DIR .. PAGE_DIRS - 1
        PROVE  SwapperDir[e] = e - LOWMEM_PAGE_DIR
    <3>1. e \in 0 .. PAGE_DIRS - 1 /\ e >= LOWMEM_PAGE_DIR
      BY SpaceFacts
    <3>2. page_dir["initial_page_dir"][e] = e - LOWMEM_PAGE_DIR
      BY <2>1 DEF PagingInv, Physical
    <3> QED BY <3>1, <3>2 DEF SwapperDir
  <2>4. PagingInv'
    BY <2>1, <2>2, <2>3 DEF PagingInv, Stages, Unpaged, Physical
  <2>5. WindowInv'
    BY <2>1 DEF WindowInv, Unmapped, Physical
  <2> QED BY <1>1, <2>4, <2>5
<1> QED BY <1>2, <1>3, <1>4, <1>5, <1>6, <1>7 DEF boot

\* kmap gives an address that leads to the page, and harms no mapping in force.
LEMMA KmapSpace ==
    ASSUME SpaceInv, NEW p \in Nat, kmap(p),
           stage \notin Unmapped, stage' \in Stages \ Unmapped,
           stage = "ready" => stage' = "ready" /\ p \in DriverFrames
    PROVE  /\ SpaceInv'
           /\ mapped' = mapped \cup {<<kmap_addr(p), p>>}
           /\ kmap_addr(p) \in Nat
<1> DEFINE top == kernel_map_top_unused
           t   == kernel_page_tables
<1>1. /\ top \in LOWMEM_PAGE_FRAMES .. KERNEL_PAGE_FRAMES /\ top < KERNEL_PAGE_FRAMES
      /\ t \in [0 .. KERNEL_PAGE_FRAMES - 1 -> Nat \cup {Absent}]
      /\ mapped' = mapped \cup {<<kmap_addr(p), p>>}
      /\ UNCHANGED <<cr3, high, page_dir, stale>>
  BY DEF kmap, WindowRoom, SpaceInv, WindowInv
<1>5. StaleInv'
  <2>1. CASE stage # "ready"
    BY <1>1, <2>1 DEF SpaceInv, StaleInv
  <2>2. CASE stage = "ready"
    <3>1. ASSUME NEW s \in stale, NEW m \in mapped', m[1] = s[1]
          PROVE  m[2] \in DriverFrames
      <4>1. CASE m \in mapped
        BY <3>1, <4>1 DEF SpaceInv, StaleInv
      <4>2. CASE m = <<kmap_addr(p), p>>
        BY <2>2, <4>2
      <4> QED BY <1>1, <4>1, <4>2
    <3>2. \A s \in stale : s[1] \in Nat /\ KMAP_OFFSET <= s[1]
      BY DEF SpaceInv, StaleInv
    <3> QED BY <1>1, <2>2, <3>1, <3>2 DEF StaleInv
  <2> QED BY <2>1, <2>2
<1>2. PagingInv'
  <2>1. /\ stage \notin Unpaged \cup Physical \cup {"jump", "enable_paging"}
        /\ stage' \notin Unpaged \cup Physical \cup {"jump", "enable_paging"}
        /\ stage' \in Stages
    BY DEF Unmapped, Unpaged
  <2> QED BY <1>1, <2>1 DEF SpaceInv, PagingInv
<1>3. /\ \A i \in 0 .. LOWMEM_PAGE_FRAMES - 1 : t[i] = i
      /\ stage' # "fill_tables" /\ stage' \notin Unmapped
  <2>1. stage # "fill_tables" /\ stage' # "fill_tables"
    BY DEF Unmapped, Unpaged
  <2> QED BY <2>1 DEF SpaceInv, WindowInv
<1>4. /\ top \in Nat /\ LOWMEM_PAGE_FRAMES \in Nat \ {0} /\ KERNEL_PAGE_FRAMES \in Nat
      /\ PAGE_OFFSET \in Nat /\ LOWMEM_PAGE_FRAMES <= top /\ KMAP_OFFSET - PAGE_OFFSET = LOWMEM_PAGE_FRAMES
      /\ LOWMEM_PAGE_FRAMES < KERNEL_PAGE_FRAMES
  BY <1>1, SpaceFacts
<1>6. CASE p < LOWMEM_PAGE_FRAMES
  <2>1. kmap_addr(p) = PAGE_OFFSET + p
    <3>1. p \in 0 .. KERNEL_PAGE_FRAMES - 1
      BY <1>4, <1>6
    <3> QED BY <1>4, <1>6, <3>1, VirtAddr DEF kmap_addr
  <2>2. UNCHANGED <<kernel_page_tables, kernel_map_top_unused>>
    BY <1>4, <1>6 DEF kmap
  <2>3. \E i \in 0 .. top - 1 : <<kmap_addr(p), p>> = <<PAGE_OFFSET + i, t[i]>> /\ t[i] # Absent
    <3>1. p \in 0 .. top - 1 /\ p \in 0 .. LOWMEM_PAGE_FRAMES - 1 /\ p # Absent
      BY <1>4, <1>6 DEF Absent
    <3>2. t[p] = p
      BY <1>3, <3>1
    <3> QED BY <2>1, <3>1, <3>2
  <2>4. WindowInv'
    BY <1>1, <1>3, <2>2, <2>3 DEF SpaceInv, WindowInv
  <2> QED BY <1>1, <1>2, <1>4, <1>5, <2>1, <2>4 DEF SpaceInv
<1>7. CASE ~ (p < LOWMEM_PAGE_FRAMES)
  <2>1. kmap_addr(p) = PAGE_OFFSET + top
    BY <1>4, <1>7 DEF kmap_addr
  <2>2. kernel_page_tables' = [t EXCEPT ![top] = p] /\ kernel_map_top_unused' = top + 1
    BY <1>4, <1>7 DEF kmap
  <2>3. /\ top \in 0 .. KERNEL_PAGE_FRAMES - 1 /\ top \in LOWMEM_PAGE_FRAMES .. KERNEL_PAGE_FRAMES - 1
        /\ top + 1 \in LOWMEM_PAGE_FRAMES .. KERNEL_PAGE_FRAMES /\ (top + 1) - 1 = top
        /\ p # Absent
    BY <1>1, <1>4 DEF Absent
  <2>4. /\ kernel_page_tables' \in [0 .. KERNEL_PAGE_FRAMES - 1 -> Nat \cup {Absent}]
        /\ kernel_page_tables'[top] = p
        /\ \A i \in 0 .. KERNEL_PAGE_FRAMES - 1 : i # top => kernel_page_tables'[i] = t[i]
    BY <1>1, <2>2, <2>3
  <2> HIDE DEF t, top
  <2>5. \A i \in 0 .. LOWMEM_PAGE_FRAMES - 1 : kernel_page_tables'[i] = i
    <3> TAKE i \in 0 .. LOWMEM_PAGE_FRAMES - 1
    <3>1. i \in 0 .. KERNEL_PAGE_FRAMES - 1 /\ i # top
      BY <1>4
    <3> QED BY <1>3, <2>4, <3>1
  <2>6. ASSUME NEW m \in mapped'
        PROVE  \E i \in 0 .. kernel_map_top_unused' - 1 :
                  m = <<PAGE_OFFSET + i, kernel_page_tables'[i]>> /\ kernel_page_tables'[i] # Absent
    <3>1. CASE m = <<kmap_addr(p), p>>
      <4>1. top \in 0 .. kernel_map_top_unused' - 1
        BY <1>4, <2>2
      <4> QED BY <2>1, <2>3, <2>4, <3>1, <4>1
    <3>2. CASE m \in mapped
      <4>1. PICK i \in 0 .. top - 1 : m = <<PAGE_OFFSET + i, t[i]>> /\ t[i] # Absent
        BY <3>2 DEF SpaceInv, WindowInv, t, top
      <4>2. i \in 0 .. kernel_map_top_unused' - 1 /\ i \in 0 .. KERNEL_PAGE_FRAMES - 1 /\ i # top
        BY <1>1, <1>4, <2>2
      <4> QED BY <2>4, <4>1, <4>2
    <3> QED BY <1>1, <3>1, <3>2
  <2>7. ASSUME NEW i \in LOWMEM_PAGE_FRAMES .. KERNEL_PAGE_FRAMES - 1,
               kernel_page_tables'[i] # Absent
        PROVE  /\ i < kernel_map_top_unused'
               /\ <<PAGE_OFFSET + i, kernel_page_tables'[i]>> \in mapped'
    <3>1. CASE i = top
      <4>1. top < kernel_map_top_unused' /\ kernel_page_tables'[top] = p
        BY <1>4, <2>2, <2>4
      <4> QED BY <1>1, <2>1, <3>1, <4>1
    <3>2. CASE i # top
      <4>1. i \in 0 .. KERNEL_PAGE_FRAMES - 1 /\ i \in Nat
        BY <1>4
      <4>2. kernel_page_tables'[i] = t[i]
        BY <2>4, <3>2, <4>1
      <4>3. i < top /\ <<PAGE_OFFSET + i, t[i]>> \in mapped
        BY <2>7, <4>2 DEF SpaceInv, WindowInv, t, top
      <4>4. i < kernel_map_top_unused'
        BY <1>4, <2>2, <4>1, <4>3
      <4> QED BY <1>1, <4>2, <4>3, <4>4
    <3> QED BY <3>1, <3>2
  <2>8. WindowInv'
    BY <1>3, <2>2, <2>3, <2>4, <2>5, <2>6, <2>7 DEF WindowInv
  <2> QED BY <1>1, <1>2, <1>4, <1>5, <2>1, <2>8 DEF SpaceInv, top
<1> QED BY <1>6, <1>7

\* kunmap takes away the mapping that it is called for and no other.
LEMMA KunmapSpace ==
    ASSUME SpaceInv, NEW m \in mapped, kunmap(m[1]), UNCHANGED stage,
           stage = "ready", m[2] \in DriverFrames
    PROVE  SpaceInv' /\ mapped' = mapped \ {m}
<1> DEFINE top == kernel_map_top_unused
           t   == kernel_page_tables
<1>1. /\ top \in LOWMEM_PAGE_FRAMES .. KERNEL_PAGE_FRAMES
      /\ t \in [0 .. KERNEL_PAGE_FRAMES - 1 -> Nat \cup {Absent}]
      /\ mapped' = {n \in mapped : n[1] # m[1]}
      /\ UNCHANGED <<cr3, high, page_dir>>
  BY DEF kunmap, SpaceInv, WindowInv
<1>2. PagingInv'
  BY <1>1 DEF SpaceInv, PagingInv
<1>3. /\ top \in Nat /\ LOWMEM_PAGE_FRAMES \in Nat \ {0} /\ KERNEL_PAGE_FRAMES \in Nat
      /\ PAGE_OFFSET \in Nat /\ LOWMEM_PAGE_FRAMES <= top /\ top <= KERNEL_PAGE_FRAMES
      /\ KMAP_OFFSET = PAGE_OFFSET + LOWMEM_PAGE_FRAMES
      /\ LOWMEM_PAGE_FRAMES < KERNEL_PAGE_FRAMES
  BY <1>1, SpaceFacts
<1>4. PICK pe \in 0 .. top - 1 : m = <<PAGE_OFFSET + pe, t[pe]>> /\ t[pe] # Absent
  BY DEF SpaceInv, WindowInv
<1>5. m[1] - PAGE_OFFSET = pe /\ pe \in Nat /\ pe < top
  BY <1>3, <1>4
<1>6. ASSUME NEW n \in mapped PROVE n[1] = m[1] <=> n = m
  <2>1. PICK i \in 0 .. top - 1 : n = <<PAGE_OFFSET + i, t[i]>>
    BY DEF SpaceInv, WindowInv
  <2>2. PAGE_OFFSET + i = PAGE_OFFSET + pe => i = pe
    BY <1>3, <1>5, <2>1
  <2> QED BY <1>4, <2>1, <2>2
<1>7. mapped' = mapped \ {m}
  BY <1>1, <1>6
<1>8. stage \notin Unmapped /\ stage # "fill_tables"
  BY DEF SpaceInv, WindowInv, Unmapped, Unpaged
<1>9. StaleInv'
  <2>1. m[1] \in Nat /\ KMAP_OFFSET \in Nat
    BY SpaceFacts, MappedNat
  <2>2. stale' = stale \/ (KMAP_OFFSET <= m[1] /\ stale' = stale \cup {<<m[1], Frame(m[1])>>})
    BY <2>1 DEF kunmap
  <2>3. ASSUME NEW s \in stale'
        PROVE  /\ s[1] \in Nat /\ KMAP_OFFSET <= s[1]
               /\ \A n \in mapped' : n[1] = s[1] => n[2] \in DriverFrames
    <3>1. CASE s \in stale
      BY <1>7, <3>1 DEF SpaceInv, StaleInv
    <3>2. CASE s = <<m[1], Frame(m[1])>> /\ KMAP_OFFSET <= m[1]
      BY <1>1, <2>1, <3>2
    <3> QED BY <2>2, <3>1, <3>2
  <2> QED BY <2>3 DEF StaleInv
<1>10. CASE pe < LOWMEM_PAGE_FRAMES
  <2>1. UNCHANGED <<kernel_page_tables, kernel_map_top_unused>>
    <3>1. m[1] < KMAP_OFFSET
      BY <1>3, <1>4, <1>5, <1>10
    <3> QED BY <3>1 DEF kunmap
  <2>2. ASSUME NEW i \in LOWMEM_PAGE_FRAMES .. KERNEL_PAGE_FRAMES - 1, t[i] # Absent
        PROVE  i < top /\ <<PAGE_OFFSET + i, t[i]>> \in mapped'
    <3>1. i < top /\ <<PAGE_OFFSET + i, t[i]>> \in mapped
      BY <2>2 DEF SpaceInv, WindowInv
    <3>2. PAGE_OFFSET + i # PAGE_OFFSET + pe
      BY <1>3, <1>5, <1>10
    <3>3. <<PAGE_OFFSET + i, t[i]>> # m
      BY <1>4, <3>2
    <3> QED BY <1>7, <3>1, <3>3
  <2>3. WindowInv'
    BY <1>7, <1>8, <2>1, <2>2 DEF SpaceInv, WindowInv
  <2> QED BY <1>2, <1>7, <1>9, <2>3 DEF SpaceInv
<1>11. CASE ~ (pe < LOWMEM_PAGE_FRAMES)
  <2> DEFINE clear == [t EXCEPT ![pe] = Absent]
             S == {LOWMEM_PAGE_FRAMES - 1}
                    \cup {i \in LOWMEM_PAGE_FRAMES .. pe : clear[i] # Absent}
  <2>1. kernel_page_tables' = clear /\ kernel_map_top_unused' = TopAfter(clear, pe)
    <3>1. ~ (m[1] < KMAP_OFFSET)
      BY <1>3, <1>4, <1>5, <1>11
    <3> QED BY <1>5, <3>1 DEF kunmap
  <2>2. /\ pe \in 0 .. KERNEL_PAGE_FRAMES - 1 /\ pe \in LOWMEM_PAGE_FRAMES .. KERNEL_PAGE_FRAMES - 1
    BY <1>3, <1>5, <1>11
  <2>3. /\ clear \in [0 .. KERNEL_PAGE_FRAMES - 1 -> Nat \cup {Absent}]
        /\ clear[pe] = Absent
        /\ \A i \in 0 .. KERNEL_PAGE_FRAMES - 1 : i # pe => clear[i] = t[i]
    BY <1>1, <2>2
  <2> HIDE DEF clear, t, top
  <2>4. \A i \in LOWMEM_PAGE_FRAMES .. KERNEL_PAGE_FRAMES - 1 :
            clear[i] # Absent => i # pe /\ clear[i] = t[i] /\ i < top /\ i \in Nat
    <3> TAKE i \in LOWMEM_PAGE_FRAMES .. KERNEL_PAGE_FRAMES - 1
    <3> HAVE clear[i] # Absent
    <3>1. i # pe /\ i \in 0 .. KERNEL_PAGE_FRAMES - 1
      BY <1>3, <2>3
    <3>2. clear[i] = t[i]
      BY <2>3, <3>1
    <3>3. i < top
      BY <3>2 DEF SpaceInv, WindowInv, t, top
    <3> QED BY <3>1, <3>2, <3>3
  <2> DEFINE new == TopAfter(clear, pe)
  <2>5. /\ new \in LOWMEM_PAGE_FRAMES .. top
        /\ \A i \in LOWMEM_PAGE_FRAMES .. KERNEL_PAGE_FRAMES - 1 : clear[i] # Absent => i < new
        /\ new > LOWMEM_PAGE_FRAMES => clear[new - 1] # Absent
    <3>1. CASE pe + 1 # top
      <4>1. new = top
        BY <3>1 DEF TopAfter, top
      <4>2. ASSUME top > LOWMEM_PAGE_FRAMES PROVE clear[top - 1] # Absent
        <5>1. t[top - 1] # Absent
          BY <4>2 DEF SpaceInv, WindowInv, t, top
        <5>2. top - 1 \in 0 .. KERNEL_PAGE_FRAMES - 1 /\ top - 1 # pe
          BY <1>3, <1>5, <3>1, <4>2
        <5> QED BY <2>3, <5>1, <5>2
      <4>3. top \in LOWMEM_PAGE_FRAMES .. top
        BY <1>3
      <4> HIDE DEF new
      <4> QED BY <2>4, <4>1, <4>2, <4>3
    <3>2. CASE pe + 1 = top
      <4>1. new = 1 + Max(S)
        BY <3>2 DEF TopAfter, top
      <4>2. S \in SUBSET Nat /\ S # {} /\ pe \in Nat /\ \A x \in S : x <= pe
        <5>1. \A x \in S : x \in Nat /\ x <= pe
          BY <1>3, <1>5, <1>11
        <5> QED BY <1>5, <5>1
      <4>3. Max(S) \in S /\ \A x \in S : x <= Max(S)
        <5> HIDE DEF S
        <5> QED BY <4>2, MaxFacts
      <4>4. Max(S) \in Nat /\ LOWMEM_PAGE_FRAMES - 1 <= Max(S) /\ Max(S) <= pe
        BY <4>2, <4>3
      <4>5. new \in LOWMEM_PAGE_FRAMES .. top
        <5> HIDE DEF new, S
        <5> QED BY <1>3, <1>5, <3>2, <4>1, <4>4
      <4>6. ASSUME NEW i \in LOWMEM_PAGE_FRAMES .. KERNEL_PAGE_FRAMES - 1, clear[i] # Absent
            PROVE  i < new
        <5>1. i \in Nat /\ i < top
          BY <2>4, <4>6
        <5>2. i \in LOWMEM_PAGE_FRAMES .. pe
          BY <1>3, <1>5, <3>2, <5>1
        <5>3. i <= Max(S)
          BY <4>3, <4>6, <5>2
        <5> HIDE DEF new, S
        <5> QED BY <4>1, <4>4, <5>1, <5>3
      <4>7. ASSUME new > LOWMEM_PAGE_FRAMES PROVE clear[new - 1] # Absent
        <5>1. Max(S) # LOWMEM_PAGE_FRAMES - 1 /\ new - 1 = Max(S)
          <6> HIDE DEF new, S
          <6> QED BY <1>3, <4>1, <4>4, <4>7
        <5>2. clear[Max(S)] # Absent
          BY <4>3, <5>1
        <5> QED BY <5>1, <5>2
      <4> HIDE DEF new
      <4> QED BY <4>5, <4>6, <4>7
    <3> QED BY <3>1, <3>2
  <2>6. kernel_map_top_unused' = new
    BY <2>1
  <2> HIDE DEF new
  <2>7. \A i \in 0 .. LOWMEM_PAGE_FRAMES - 1 : clear[i] = i
    <3> TAKE i \in 0 .. LOWMEM_PAGE_FRAMES - 1
    <3>1. i \in 0 .. KERNEL_PAGE_FRAMES - 1 /\ i # pe
      BY <1>3, <1>5, <1>11
    <3> QED BY <1>8, <2>3, <3>1 DEF SpaceInv, WindowInv, t
  <2>8. ASSUME NEW n \in mapped'
        PROVE  \E i \in 0 .. new - 1 : n = <<PAGE_OFFSET + i, clear[i]>> /\ clear[i] # Absent
    <3>1. n \in mapped /\ n # m
      BY <1>7
    <3>2. PICK i \in 0 .. top - 1 : n = <<PAGE_OFFSET + i, t[i]>> /\ t[i] # Absent
      BY <3>1 DEF SpaceInv, WindowInv, t, top
    <3>3. i # pe /\ i \in Nat /\ i \in 0 .. KERNEL_PAGE_FRAMES - 1
      BY <1>3, <1>4, <3>1, <3>2
    <3>4. clear[i] = t[i]
      BY <2>3, <3>3
    <3>5. i < new
      <4>1. CASE i < LOWMEM_PAGE_FRAMES
        BY <1>3, <2>5, <3>3, <4>1
      <4>2. CASE ~ (i < LOWMEM_PAGE_FRAMES)
        <5>1. i \in LOWMEM_PAGE_FRAMES .. KERNEL_PAGE_FRAMES - 1
          BY <1>3, <3>3, <4>2
        <5> QED BY <2>5, <3>2, <3>4, <5>1
      <4> QED BY <4>1, <4>2
    <3>6. i \in 0 .. new - 1
      BY <1>3, <2>5, <3>3, <3>5
    <3> QED BY <3>2, <3>4, <3>6
  <2>9. ASSUME NEW i \in LOWMEM_PAGE_FRAMES .. KERNEL_PAGE_FRAMES - 1, clear[i] # Absent
        PROVE  i < new /\ <<PAGE_OFFSET + i, clear[i]>> \in mapped'
    <3>1. i # pe /\ clear[i] = t[i] /\ i \in Nat
      BY <2>4, <2>9
    <3>2. <<PAGE_OFFSET + i, t[i]>> \in mapped
      BY <2>9, <3>1 DEF SpaceInv, WindowInv, t
    <3>3. PAGE_OFFSET + i # PAGE_OFFSET + pe
      BY <1>3, <1>5, <3>1
    <3>4. <<PAGE_OFFSET + i, t[i]>> # m
      BY <1>4, <3>3
    <3> QED BY <1>7, <2>5, <2>9, <3>1, <3>2, <3>4
  <2>10. new \in LOWMEM_PAGE_FRAMES .. KERNEL_PAGE_FRAMES
    BY <1>3, <2>5
  <2>11. WindowInv'
    BY <1>8, <2>1, <2>3, <2>5, <2>6, <2>7, <2>8, <2>9, <2>10 DEF WindowInv
  <2> QED BY <1>2, <1>7, <1>9, <2>11 DEF SpaceInv
<1> QED BY <1>10, <1>11

-----------------------------------------------------------------------------
(* Every step keeps the 8259As in accord with the driver.                  *)

\* Nothing is registered, masked or set up at first.
LEMMA PicInitInv ==
    ASSUME Init
    PROVE  PicInv
<1>1. /\ pic_irq_mask = 0 .. 15 /\ owned = {} /\ irqchip = "none" /\ stage = "fill_tables"
      /\ pic = [c \in {"master", "slave"} |->
                   [next |-> "ocw1", offset |-> 0, cascade |-> 0, imr |-> {}]]
  BY DEF Init, SpaceInit
<1>2. /\ DOMAIN pic = {"master", "slave"}
      /\ \A c \in {"master", "slave"} :
            pic[c] = [next |-> "ocw1", offset |-> 0, cascade |-> 0, imr |-> {}]
  BY <1>1
<1> QED BY <1>1, <1>2 DEF PicInv, Unpaged

\* Steps that touch neither chip.
LEMMA PicFrame ==
    ASSUME PicInv, UNCHANGED <<pic_irq_mask, pic, owned>>,
           irqchip' \in {"none", "i8259a", "apic"},
           irqchip' = "none" <=> irqchip = "none",
           irqchip' = "none" <=> stage' \in Unpaged \cup {"jump", "setup_i8259a"}
    PROVE  PicInv'
BY DEF PicInv

\* A byte to a chip that waits for a mask is the mask.
LEMMA MaskByte ==
    ASSUME NEW chip, DOMAIN chip = {"next", "offset", "cascade", "imr"}, chip.next = "ocw1", NEW b
    PROVE  LET new == out8(chip, [port |-> "data", byte |-> b])
           IN  /\ DOMAIN new = {"next", "offset", "cascade", "imr"}
               /\ new.next = "ocw1" /\ new.offset = chip.offset /\ new.imr = b
<1> DEFINE w == [port |-> "data", byte |-> b]
<1>1. w.port # "cmd" /\ w.byte = b
  OBVIOUS
<1> HIDE DEF w
<1>2. out8(chip, w) = [chip EXCEPT !.imr = w.byte]
  BY <1>1 DEF out8
<1>3. [chip EXCEPT !.imr = b].imr = b /\ [chip EXCEPT !.imr = b].next = chip.next
      /\ [chip EXCEPT !.imr = b].offset = chip.offset
      /\ DOMAIN [chip EXCEPT !.imr = b] = DOMAIN chip
  OBVIOUS
<1> QED BY <1>1, <1>2, <1>3 DEF w

\* The initialisation, whatever the chip did before.
LEMMA RemapResult ==
    ASSUME PicInv, NEW c \in {"master", "slave"}
    PROVE  /\ DOMAIN Remapped(c) = {"next", "offset", "cascade", "imr"}
           /\ Remapped(c).next = "ocw1"
           /\ Remapped(c).offset = IF c = "master" THEN 32 ELSE 40
           /\ Remapped(c).imr = ChipMask(c, pic_irq_mask)
<1> DEFINE data(chip, b) == out8(chip, [port |-> "data", byte |-> b])
           icw1 == out8(pic[c], [port |-> "cmd", byte |-> {0, 4}])
           b2 == IF c = "master" THEN HW_INTERRUPT_OFFSET ELSE HW_INTERRUPT_OFFSET + 8
           b3 == IF c = "master" THEN {2} ELSE 2
           icw2 == data(icw1, b2)
           icw3 == data(icw2, b3)
           icw4 == data(icw3, {0})
<1>1. Remapped(c) = data(icw4, ChipMask(c, pic_irq_mask))
  BY DEF Remapped
<1>2. /\ DOMAIN icw1 = {"next", "offset", "cascade", "imr"} /\ icw1.next = "icw2"
  <2> DEFINE w == [port |-> "cmd", byte |-> {0, 4}]
             chip == pic[c]
  <2>1. DOMAIN chip = {"next", "offset", "cascade", "imr"} /\ chip.next = "ocw1"
    BY DEF PicInv
  <2>2. w.port = "cmd" /\ icw1 = out8(chip, w)
    OBVIOUS
  <2> HIDE DEF w, chip, icw1
  <2>3. icw1 = [chip EXCEPT !.next = "icw2", !.imr = {}]
    BY <2>1, <2>2 DEF out8
  <2> QED BY <2>1, <2>3
<1> HIDE DEF icw1, b2, b3
<1>3. /\ DOMAIN icw2 = {"next", "offset", "cascade", "imr"} /\ icw2.next = "icw3"
      /\ icw2.offset = b2
  <2>1. icw2 = [icw1 EXCEPT !.offset = b2, !.next = "icw3"]
    BY <1>2 DEF out8
  <2> QED BY <1>2, <2>1
<1> HIDE DEF icw2
<1>4. /\ DOMAIN icw3 = {"next", "offset", "cascade", "imr"} /\ icw3.next = "icw4"
      /\ icw3.offset = b2
  <2>1. icw3 = [icw2 EXCEPT !.cascade = b3, !.next = "icw4"]
    BY <1>3 DEF out8
  <2> QED BY <1>3, <2>1
<1> HIDE DEF icw3
<1>5. /\ DOMAIN icw4 = {"next", "offset", "cascade", "imr"} /\ icw4.next = "ocw1"
      /\ icw4.offset = b2
  <2>1. icw4 = [icw3 EXCEPT !.next = "ocw1"]
    BY <1>4 DEF out8
  <2> QED BY <1>4, <2>1
<1> HIDE DEF icw4
<1>6. b2 = IF c = "master" THEN 32 ELSE 40
  BY DEF b2, HW_INTERRUPT_OFFSET
<1> QED BY <1>1, <1>5, <1>6, MaskByte

\* pic_remap and the masks after it establish the part about the 8259As.
LEMMA SetupPic ==
    ASSUME PicInv, setup_i8259a
    PROVE  PicInv'
<1>1. /\ stage' = "init_phys_mem_map" /\ irqchip' = "i8259a"
      /\ UNCHANGED <<pic_irq_mask, owned>>
      /\ pic' = [c \in {"master", "slave"} |-> Remapped(c)]
  BY DEF setup_i8259a, PicInv
<1>2. /\ DOMAIN pic' = {"master", "slave"}
      /\ \A c \in {"master", "slave"} : pic'[c] = Remapped(c)
  BY <1>1
<1> HIDE DEF Remapped
<1>3. stage' \notin Unpaged \cup {"jump", "setup_i8259a"}
  BY <1>1 DEF Unpaged
<1>4. \A c \in {"master", "slave"} : ChipMask(c, pic_irq_mask') = ChipMask(c, pic_irq_mask)
  BY <1>1
<1>5. \A c \in {"master", "slave"} :
          /\ DOMAIN pic'[c] = {"next", "offset", "cascade", "imr"}
          /\ pic'[c].next = "ocw1"
          /\ pic'[c].offset = IF c = "master" THEN 32 ELSE 40
          /\ pic'[c].imr = ChipMask(c, pic_irq_mask')
  BY <1>2, <1>4, RemapResult
<1>6. irqchip' # "none" /\ irqchip' \in {"none", "i8259a", "apic"}
  BY <1>1
<1> HIDE DEF ChipMask
<1> QED BY <1>1, <1>2, <1>3, <1>5, <1>6 DEF PicInv

\* The chip of a line gets its new mask, and the other one needs none.
LEMMA SetMask ==
    ASSUME PicInv, irqchip # "none", NEW irq \in Nat, irq < 16, NEW mask \in SUBSET (0 .. 15),
           \A i \in 0 .. 15 : i # irq => (i \in mask <=> i \in pic_irq_mask),
           pic_set_mask(irq, mask),
           UNCHANGED <<irqchip, stage>>,
           owned' \subseteq {"i8259a", "apic"} \X Nat,
           \A o \in owned' : o[1] = "i8259a" => o[2] < 16
    PROVE  PicInv'
<1> DEFINE line == PicChip(irq)
           b == ChipMask(line, mask)
<1>1. /\ pic_irq_mask' = mask
      /\ pic' = [pic EXCEPT ![line] = out8(pic[line], [port |-> "data", byte |-> b])]
  BY DEF pic_set_mask, PicByte
<1>2. line \in {"master", "slave"} /\ line \in DOMAIN pic
  BY DEF PicChip, PicInv
<1>3. /\ DOMAIN pic' = {"master", "slave"}
      /\ pic'[line] = out8(pic[line], [port |-> "data", byte |-> b])
      /\ \A c \in {"master", "slave"} : c # line => pic'[c] = pic[c]
  BY <1>1, <1>2 DEF PicInv
<1>4. \A c \in {"master", "slave"} :
          /\ DOMAIN pic[c] = {"next", "offset", "cascade", "imr"} /\ pic[c].next = "ocw1"
          /\ pic[c].offset = IF c = "master" THEN 32 ELSE 40
          /\ pic[c].imr = ChipMask(c, pic_irq_mask)
  BY DEF PicInv
<1>5. /\ DOMAIN pic'[line] = {"next", "offset", "cascade", "imr"}
      /\ pic'[line].next = "ocw1" /\ pic'[line].offset = pic[line].offset
      /\ pic'[line].imr = b
  <2> HIDE DEF b, line
  <2> QED BY <1>2, <1>3, <1>4, MaskByte
<1>6. ASSUME NEW c \in {"master", "slave"}, c # line
      PROVE  ChipMask(c, mask) = ChipMask(c, pic_irq_mask)
  <2>1. CASE c = "master"
    <3>1. ~ (irq < 8)
      BY <1>6, <2>1 DEF PicChip
    <3>2. \A i \in 0 .. 7 : i \in mask <=> i \in pic_irq_mask
      BY <3>1
    <3> QED BY <2>1, <3>2 DEF ChipMask, Low
  <2>2. CASE c = "slave"
    <3>1. irq < 8
      BY <1>6, <2>2 DEF PicChip
    <3>2. \A i \in 0 .. 7 : i + 8 \in mask <=> i + 8 \in pic_irq_mask
      BY <3>1
    <3> QED BY <2>2, <3>2 DEF ChipMask, High
  <2> QED BY <2>1, <2>2
<1> HIDE DEF line
<1>7. \A c \in {"master", "slave"} :
          /\ DOMAIN pic'[c] = {"next", "offset", "cascade", "imr"}
          /\ pic'[c].next = "ocw1"
          /\ pic'[c].offset = IF c = "master" THEN 32 ELSE 40
          /\ pic'[c].imr = ChipMask(c, pic_irq_mask')
  <2> TAKE c \in {"master", "slave"}
  <2>1. CASE c = line
    BY <1>1, <1>2, <1>4, <1>5, <2>1
  <2>2. CASE c # line
    BY <1>1, <1>3, <1>4, <1>6, <2>2
  <2> QED BY <2>1, <2>2
<1> QED BY <1>1, <1>3, <1>7 DEF PicInv

\* Requests to the 8259As.
LEMMA PicRequest ==
    ASSUME PicInv, irqchip = "i8259a", UNCHANGED <<irqchip, stage>>, NEW irq \in Nat, irq < 16,
           pic_mask(irq) \/ pic_unmask(irq),
           owned' \subseteq owned \cup {<<"i8259a", irq>>}
    PROVE  PicInv'
<1>1. /\ irqchip # "none"
      /\ owned' \subseteq {"i8259a", "apic"} \X Nat
      /\ \A o \in owned' : o[1] = "i8259a" => o[2] < 16
  BY DEF PicInv
<1>2. CASE pic_mask(irq)
  <2> DEFINE mask == pic_irq_mask \cup {irq}
  <2>1. mask \in SUBSET (0 .. 15) /\ \A i \in 0 .. 15 : i # irq => (i \in mask <=> i \in pic_irq_mask)
    BY DEF PicInv
  <2>2. pic_set_mask(irq, mask)
    BY <1>2 DEF pic_mask
  <2> HIDE DEF mask
  <2> QED BY <1>1, <2>1, <2>2, SetMask
<1>3. CASE pic_unmask(irq)
  <2> DEFINE mask == pic_irq_mask \ {irq}
  <2>1. mask \in SUBSET (0 .. 15) /\ \A i \in 0 .. 15 : i # irq => (i \in mask <=> i \in pic_irq_mask)
    BY DEF PicInv
  <2>2. pic_set_mask(irq, mask)
    BY <1>3 DEF pic_unmask
  <2> HIDE DEF mask
  <2> QED BY <1>1, <2>1, <2>2, SetMask
<1> QED BY <1>2, <1>3

\* The part about the 8259As gives the property of them.
LEMMA PicMatches == PicInv => PicMatchesShadow
<1> SUFFICES ASSUME PicInv, irqchip # "none", NEW c \in {"master", "slave"}
    PROVE  /\ pic[c].next = "ocw1"
           /\ pic[c].offset = IF c = "master" THEN 32 ELSE 40
           /\ pic[c].imr = {i \in 0 .. 7 :
                                (IF c = "master" THEN i ELSE i + 8) \in pic_irq_mask}
  BY DEF PicMatchesShadow, PicInv
<1>1. ChipMask(c, pic_irq_mask)
          = {i \in 0 .. 7 : (IF c = "master" THEN i ELSE i + 8) \in pic_irq_mask}
  <2>1. CASE c = "master"
    BY <2>1 DEF ChipMask, Low
  <2>2. CASE c # "master"
    BY <2>2 DEF ChipMask, High
  <2> QED BY <2>1, <2>2
<1> QED BY <1>1 DEF PicInv

-----------------------------------------------------------------------------
(* The tables.                                                             *)

\* What kmap returned leads to the frame it was given,
LEMMA MappedFrames == SpaceInv => \A m \in mapped : Frame(m[1]) = m[2]
BY MappedFrame

\* in the next state too.
LEMMA MappedFramesNext == (SpaceInv => \A m \in mapped : Frame(m[1]) = m[2])'
BY MappedFrames, PTL

\* What the firmware's entries are.
LEMMA EntryFacts ==
    ASSUME firmware \in Firmwares
    PROVE  /\ Len(firmware.madt) \in Nat
           /\ DOMAIN firmware.madt = 1 .. Len(firmware.madt)
           /\ \A n \in DOMAIN firmware.madt :
                 /\ firmware.madt[n].type = "io_apic" =>
                       /\ firmware.madt[n].paddr \in DOMAIN IoApicPins
                       /\ firmware.madt[n].paddr \in Nat
                       /\ firmware.madt[n].paddr \notin DriverFrames
                       /\ firmware.madt[n].gsi \in Nat
                       /\ IoApicPins[firmware.madt[n].paddr] \in Nat \ {0}
                       /\ firmware.madt[n].gsi + IoApicPins[firmware.madt[n].paddr] + 32 <= 255
                 /\ firmware.madt[n].type = "isa_source" =>
                       firmware.madt[n].source \in Nat /\ firmware.madt[n].gsi \in Nat
<1>1. firmware.madt \in Seq(Entry)
  BY FirmwareAssumption
<1>2. Len(firmware.madt) \in Nat /\ DOMAIN firmware.madt = 1 .. Len(firmware.madt)
  BY <1>1
<1>3. ASSUME NEW n \in DOMAIN firmware.madt PROVE firmware.madt[n] \in Entry
  BY <1>1, <1>2
<1>4. ASSUME NEW e \in Entry, e.type = "io_apic"
      PROVE  e.paddr \in DOMAIN IoApicPins /\ e.gsi \in Nat
  BY <1>4 DEF Entry
<1>5. ASSUME NEW e \in Entry, e.type = "isa_source"
      PROVE  e.source \in Nat /\ e.gsi \in Nat
  BY <1>5 DEF Entry
<1>6. ASSUME NEW f \in DOMAIN IoApicPins
      PROVE  f \in Nat /\ f \notin DriverFrames /\ IoApicPins[f] \in Nat \ {0}
  BY FirmwareAssumption, IrqAssumption
<1>7. ASSUME NEW n \in DOMAIN firmware.madt, firmware.madt[n].type = "io_apic"
      PROVE  firmware.madt[n].gsi + IoApicPins[firmware.madt[n].paddr] + 32 <= 255
  BY <1>7, FirmwareAssumption DEF HW_INTERRUPT_OFFSET, SPURIOUS_INTERRUPT_VECTOR
<1> QED BY <1>2, <1>3, <1>4, <1>5, <1>6, <1>7

\* An I/O APIC that has interrupt g has the firmware's pin for it.
LEMMA StemPins ==
    ASSUME NEW apic, NEW g \in Nat, firmware \in Firmwares, SpaceInv, Stems(apic), Covers(apic, g)
    PROVE  /\ Frame(apic.iospace) \in DOMAIN IoApicPins
           /\ g - apic.gsi \in 0 .. IoApicPins[Frame(apic.iospace)] - 1
           /\ <<Frame(apic.iospace), g - apic.gsi>> \in FirmwarePins(g)
           /\ g + 32 < 255
           /\ Frames(apic.iospace) = {Frame(apic.iospace)}
<1>1. PICK n \in KeptPlaces("io_apic", IO_APIC_MAX_COUNT) :
          /\ apic.gsi = firmware.madt[n].gsi
          /\ apic.irqs = IoApicPins[firmware.madt[n].paddr]
          /\ <<apic.iospace, firmware.madt[n].paddr>> \in mapped
  BY DEF Stems
<1> DEFINE e == firmware.madt[n]
<1>2. n \in DOMAIN firmware.madt /\ e.type = "io_apic"
  BY DEF KeptPlaces, Entries
<1>3. /\ e.paddr \in DOMAIN IoApicPins /\ e.gsi \in Nat
      /\ IoApicPins[e.paddr] \in Nat /\ e.gsi + IoApicPins[e.paddr] + 32 <= 255
  BY <1>2, EntryFacts
<1>4. Frame(apic.iospace) = e.paddr
  BY <1>1, MappedFrames
<1>5. Frames(apic.iospace) = {Frame(apic.iospace)}
  <2>1. e.paddr \notin DriverFrames
    BY <1>2, EntryFacts
  <2>2. PICK m \in mapped : m[1] = apic.iospace /\ m[2] = e.paddr
    BY <1>1
  <2> QED BY <1>4, <2>1, <2>2, FramesMapped
<1>6. e \in Kept("io_apic", IO_APIC_MAX_COUNT)
  BY DEF KeptPlaces, Kept
<1> HIDE DEF e
<1>7. e.gsi <= g /\ g < e.gsi + IoApicPins[e.paddr] /\ apic.gsi = e.gsi
  BY <1>1, <1>3 DEF Covers, e
<1>8. g \in e.gsi .. e.gsi + IoApicPins[e.paddr] - 1
  BY <1>3, <1>7
<1>9. <<e.paddr, g - e.gsi>> \in FirmwarePins(g)
  BY <1>6, <1>8 DEF FirmwarePins
<1>10. g - e.gsi \in 0 .. IoApicPins[e.paddr] - 1 /\ g + 32 < 255
  BY <1>3, <1>7
<1> QED BY <1>3, <1>4, <1>7, <1>9, <1>10, <1>5

\* io_apic_find gives a chip that has the interrupt.
LEMMA FindCovers ==
    ASSUME io_apic \in Seq([iospace : Nat, gsi : Nat, irqs : Nat]), NEW g \in Nat,
           io_apic_find(g) # 0
    PROVE  /\ io_apic_find(g) \in DOMAIN io_apic
           /\ Covers(io_apic[io_apic_find(g)], g)
<1> DEFINE found == {i \in DOMAIN io_apic : Covers(io_apic[i], g)}
<1>1. found # {} /\ io_apic_find(g) = Min(found)
  BY DEF io_apic_find
<1>2. found \in SUBSET Nat
  OBVIOUS
<1>3. \E x \in found : \A y \in found : x <= y
  <2> HIDE DEF found
  <2> QED BY <1>1, <1>2, LeastNat
<1>4. Min(found) \in found
  <2> HIDE DEF found
  <2> QED BY <1>3 DEF Min
<1> QED BY <1>1, <1>4

\* A route leads to the firmware's pin for its interrupt.
LEMMA RoutePins ==
    ASSUME SpaceInv, CursorInv, ApicsInv, NEW r, Leads(r)
    PROVE  LET f == Frame(io_apic[r.io_apic].iospace)
           IN  /\ f \in DOMAIN IoApicPins
               /\ r.pin \in 0 .. IoApicPins[f] - 1
               /\ <<f, r.pin>> \in FirmwarePins(r.gsi)
               /\ r.gsi \in Nat /\ r.gsi + 32 < 255
               /\ Frames(io_apic[r.io_apic].iospace) = {f}
<1> DEFINE apic == io_apic[r.io_apic]
<1>1. Stems(apic) /\ Covers(apic, r.gsi) /\ r.gsi \in Nat /\ r.pin = r.gsi - apic.gsi
  BY DEF Leads, ApicsInv
<1>2. firmware \in Firmwares
  BY DEF CursorInv
<1> HIDE DEF apic
<1>3. /\ Frame(apic.iospace) \in DOMAIN IoApicPins
      /\ r.gsi - apic.gsi \in 0 .. IoApicPins[Frame(apic.iospace)] - 1
      /\ <<Frame(apic.iospace), r.gsi - apic.gsi>> \in FirmwarePins(r.gsi)
      /\ r.gsi + 32 < 255
      /\ Frames(apic.iospace) = {Frame(apic.iospace)}
  BY <1>1, <1>2, StemPins
<1> QED BY <1>1, <1>3, Zenon DEF apic

\* Routes to the pins of known I/O APICs are routes to pins of the machine.
LEMMA TablesReach == SpaceInv /\ TablesInv => RoutesReachPins
<1> SUFFICES ASSUME SpaceInv, TablesInv, IsaDone, NEW i \in 0 .. ISA_IRQ_COUNT - 1
    PROVE  LET r    == isa_irq[i]
               mine == {n \in Overrides : firmware.madt[n].source = i}
           IN  /\ \A f \in Frames(io_apic[r.io_apic].iospace) : <<f, r.pin>> \in FirmwarePins(r.gsi)
               /\ mine # {} => r.gsi = SourceGsi(firmware.madt[Max(mine)])
  BY DEF RoutesReachPins, TablesInv, RoutesInv
<1> DEFINE r == isa_irq[i]
           mine == {n \in Overrides : firmware.madt[n].source = i}
<1>1. Leads(r) /\ (Mine(i, Read) # {} => r.gsi = SourceGsi(firmware.madt[Max(Mine(i, Read))]))
  BY DEF TablesInv, RoutesInv
<1>2. ASSUME NEW f \in Frames(io_apic[r.io_apic].iospace)
      PROVE  <<f, r.pin>> \in FirmwarePins(r.gsi)
  <2> HIDE DEF r
  <2>1. f = Frame(io_apic[r.io_apic].iospace)
    BY <1>1, RoutePins DEF TablesInv
  <2> QED BY <1>1, <2>1, RoutePins DEF TablesInv
<1>3. Mine(i, Read) = mine
  <2>1. Read = Len(firmware.madt) + 1
    BY DEF Read, IsaDone
  <2>2. \A n \in Overrides : n < Len(firmware.madt) + 1
    <3>1. firmware \in Firmwares
      BY DEF TablesInv, CursorInv
    <3>2. /\ Len(firmware.madt) \in Nat
          /\ \A n \in Overrides : n \in 1 .. Len(firmware.madt)
      BY <3>1, EntryFacts DEF Overrides, Entries
    <3> QED BY <3>2
  <2> QED BY <2>1, <2>2 DEF Mine
<1> QED BY <1>1, <1>2, <1>3

-----------------------------------------------------------------------------
(* Every step keeps the tables.                                            *)

\* Before set-up there is no I/O APIC and nothing is read.
LEMMA TablesInitInv ==
    ASSUME Init
    PROVE  TablesInv
<1>1. /\ stage = "fill_tables" /\ firmware \in Firmwares /\ hdr = 1 /\ io_apic = <<>>
      /\ isa_irq = [i \in 0 .. ISA_IRQ_COUNT - 1 |-> NoRoute]
  BY DEF Init, SpaceInit
<1>2. CursorInv
  <2>1. Len(firmware.madt) \in Nat
    BY <1>1, EntryFacts
  <2> QED BY <1>1, <2>1 DEF CursorInv
<1>3. ApicsInv
  <2>1. /\ io_apic \in Seq([iospace : Nat, gsi : Nat, irqs : Nat])
        /\ Len(io_apic) = 0 /\ DOMAIN io_apic = {}
    BY <1>1
  <2>2. 0 <= IO_APIC_MAX_COUNT
    BY IrqAssumption
  <2> QED BY <1>1, <2>1, <2>2 DEF ApicsInv
<1>4. RoutesInv
  <2>1. ~ (stage = "isa_source" \/ IsaDone)
    BY <1>1 DEF IsaDone
  <2> QED BY <1>1, <2>1 DEF RoutesInv
<1> QED BY <1>2, <1>3, <1>4 DEF TablesInv

\* As long as the mappings of the APICs stay, so do their stems.
LEMMA StemsKept ==
    ASSUME firmware \in Firmwares, UNCHANGED firmware, NEW apic, Stems(apic),
           \A m \in mapped : m[2] \notin DriverFrames => m \in mapped'
    PROVE  Stems(apic)'
<1>1. PICK n \in KeptPlaces("io_apic", IO_APIC_MAX_COUNT) :
          /\ apic.gsi = firmware.madt[n].gsi
          /\ apic.irqs = IoApicPins[firmware.madt[n].paddr]
          /\ <<apic.iospace, firmware.madt[n].paddr>> \in mapped
  BY DEF Stems
<1>2. n \in DOMAIN firmware.madt /\ firmware.madt[n].type = "io_apic"
  BY DEF KeptPlaces, Entries
<1>3. firmware.madt[n].paddr \notin DriverFrames
  BY <1>2, EntryFacts
<1>4. <<apic.iospace, firmware.madt[n].paddr>> \in mapped'
  BY <1>1, <1>3
<1>5. n \in KeptPlaces("io_apic", IO_APIC_MAX_COUNT)'
  BY DEF KeptPlaces, Entries
<1> QED BY <1>1, <1>4, <1>5 DEF Stems

\* Steps that leave the cursor and the tables alone.
LEMMA TablesFrame ==
    ASSUME TablesInv, UNCHANGED <<firmware, hdr, io_apic, isa_irq>>,
           \A m \in mapped : m[2] \notin DriverFrames => m \in mapped',
           \/ stage' = stage
           \/ stage \in Unmapped /\ stage' \in Unmapped
           \/ stage' = "panic"
           \/ stage \in {"register", "setup_local_apic"} /\ stage' \in {"setup_local_apic", "ready"}
    PROVE  TablesInv'
<1> USE DEF TablesInv
<1>1. CursorInv'
  <2>1. stage' \notin Parsed \cup {"panic"} => stage \notin Parsed \cup {"panic"}
    BY DEF Parsed, Unmapped, Unpaged, Physical
  <2> QED BY <2>1 DEF CursorInv
<1>2. ApicsInv'
  <2>1. (stage' = "io_apic" => stage = "io_apic") /\ (stage' \in Unmapped => stage \in Unmapped)
    BY DEF Unmapped, Unpaged, Physical
  <2>2. \A i \in DOMAIN io_apic : Stems(io_apic[i])'
    <3> TAKE i \in DOMAIN io_apic
    <3>1. Stems(io_apic[i]) /\ firmware \in Firmwares
      BY DEF ApicsInv, CursorInv
    <3> DEFINE apic == io_apic[i]
    <3>2. apic' = apic
      OBVIOUS
    <3>3. \A a : Stems(a) => Stems(a)'
      BY <3>1, StemsKept
    <3>4. Stems(apic)'
      <4>1. Stems(apic)
        BY <3>1
      <4>2. \A a : a = apic => Stems(a)'
        BY <3>3, <4>1
      <4> QED BY <3>2, <4>2 DEF Stems
    <3> QED BY <3>4
  <2>3. Entries("io_apic")' = Entries("io_apic")
    BY DEF Entries
  <2> QED BY <2>1, <2>2, <2>3 DEF ApicsInv
<1>3. RoutesInv'
  <2>1. (stage' = "isa_source" \/ IsaDone') => (stage = "isa_source" \/ IsaDone)
    BY DEF IsaDone, Unmapped, Unpaged, Physical
  <2>2. (stage' = "isa_source" \/ IsaDone') => (stage' = "isa_source" <=> stage = "isa_source")
    BY DEF IsaDone, Unmapped, Unpaged, Physical
  <2>3. (stage' = "isa_source" \/ IsaDone') => Read' = Read
    BY <2>2 DEF Read
  <2>4. \A i, h : Mine(i, h)' = Mine(i, h)
    BY DEF Mine, Overrides, Entries, Useless, SourceGsi, Polarity, Trigger, SourceFlags
  <2>5. \A i \in 0 .. ISA_IRQ_COUNT - 1 : Leads(isa_irq[i]) => Leads(isa_irq[i])'
    BY DEF Leads, Covers
  <2>6. DOMAIN isa_irq' = 0 .. ISA_IRQ_COUNT - 1
    BY DEF RoutesInv
  <2>7. ASSUME stage' = "isa_source" \/ IsaDone', NEW i \in 0 .. ISA_IRQ_COUNT - 1
        PROVE  /\ Leads(isa_irq[i])'
               /\ Mine(i, Read)' # {} =>
                    isa_irq'[i].gsi = SourceGsi(firmware'.madt[Max(Mine(i, Read)')])
    <3>1. Read' = Read /\ Mine(i, Read)' = Mine(i, Read)
      BY <2>3, <2>4, <2>7 DEF Mine, Overrides, Entries, Useless, SourceGsi, Polarity, Trigger, SourceFlags
    <3>2. /\ Leads(isa_irq[i])
          /\ Mine(i, Read) # {} =>
                isa_irq[i].gsi = SourceGsi(firmware.madt[Max(Mine(i, Read))])
      BY <2>1, <2>7 DEF RoutesInv
    <3> QED BY <2>5, <3>1, <3>2
  <2> QED BY <2>6, <2>7 DEF RoutesInv
<1> QED BY <1>1, <1>2, <1>3

\* One entry further.
LEMMA ScanNext ==
    ASSUME firmware \in Firmwares, NEW type, NEW h \in DOMAIN firmware.madt
    PROVE  /\ Cardinality(Entries(type) \cap (1 .. h - 1)) \in Nat
           /\ h \in Entries(type) =>
                 Cardinality(Entries(type) \cap (1 .. h))
                     = Cardinality(Entries(type) \cap (1 .. h - 1)) + 1
           /\ h \notin Entries(type) =>
                 Entries(type) \cap (1 .. h) = Entries(type) \cap (1 .. h - 1)
<1>1. h \in Nat /\ h >= 1 /\ Entries(type) \subseteq Nat
  BY EntryFacts DEF Entries
<1> DEFINE S == Entries(type) \cap (1 .. h - 1)
<1>2. IsFiniteSet(S)
  <2>1. IsFiniteSet(1 .. h - 1)
    BY <1>1, FS_Interval
  <2> QED BY <2>1, FS_Subset
<1>3. Cardinality(S) \in Nat
  BY <1>2, FS_CardinalityType
<1>4. \A n \in Nat : n \in 1 .. h <=> (n = h \/ n \in 1 .. h - 1)
  BY <1>1
<1>5. ASSUME h \in Entries(type)
      PROVE  Cardinality(Entries(type) \cap (1 .. h)) = Cardinality(S) + 1
  <2>1. Entries(type) \cap (1 .. h) = S \cup {h} /\ h \notin S
    BY <1>1, <1>4, <1>5
  <2> HIDE DEF S
  <2> QED BY <1>2, <2>1, FS_AddElement
<1>6. ASSUME h \notin Entries(type) PROVE Entries(type) \cap (1 .. h) = S
  BY <1>1, <1>4, <1>6
<1> QED BY <1>3, <1>5, <1>6

\* Looking for the tables begins the first pass, or leaves the tables alone.
LEMMA SetupAcpiTables ==
    ASSUME TablesInv, SpaceInv, setup_acpi
    PROVE  TablesInv' /\ SpaceInv'
<1>1. /\ stage = "setup_acpi" /\ stage' = "io_apic"
      /\ UNCHANGED <<space, firmware, hdr, io_apic, isa_irq>>
  BY DEF setup_acpi, NextStage, tables
<1>2. stage \in Unmapped /\ stage' \notin Unmapped /\ stage' \in Stages
  BY <1>1 DEF Unmapped, Unpaged, Physical, Stages
<1>3. SpaceInv'
  BY <1>1, <1>2, SpaceFrame
<1>4. CursorInv'
  BY <1>1 DEF TablesInv, CursorInv, Parsed
<1>5. ApicsInv'
  <2>1. io_apic = <<>> /\ hdr = 1
    BY <1>1, <1>2 DEF TablesInv, ApicsInv, CursorInv, Parsed
  <2>2. Entries("io_apic")' \cap (1 .. hdr' - 1) = {}
    BY <1>1, <2>1
  <2>3. Cardinality(Entries("io_apic")' \cap (1 .. hdr' - 1)) = 0
    BY <2>2, FS_EmptySet
  <2>4. Len(io_apic) = 0 /\ DOMAIN io_apic = {}
    BY <2>1
  <2>5. io_apic \in Seq([iospace : Nat, gsi : Nat, irqs : Nat]) /\ Len(io_apic) <= IO_APIC_MAX_COUNT
    BY DEF TablesInv, ApicsInv
  <2> QED BY <1>1, <1>2, <2>3, <2>4, <2>5 DEF ApicsInv
<1>6. RoutesInv'
  <2>1. ~ (stage' = "isa_source" \/ IsaDone')
    BY <1>1 DEF IsaDone
  <2>2. DOMAIN isa_irq' = 0 .. ISA_IRQ_COUNT - 1
    BY <1>1 DEF TablesInv, RoutesInv
  <2> QED BY <2>1, <2>2 DEF RoutesInv
<1> QED BY <1>3, <1>4, <1>5, <1>6 DEF TablesInv

\* What io_apic_setup_isa stores leads to a pin.
LEMMA IsaRouteLeads ==
    ASSUME ApicsInv, NEW cfg, cfg.gsi \in Nat, io_apic_find(cfg.gsi) # 0
    PROVE  Leads(IsaRoute(cfg)) /\ IsaRoute(cfg).gsi = cfg.gsi
<1> DEFINE r == IsaRoute(cfg)
<1>1. /\ r.gsi = cfg.gsi /\ r.io_apic = io_apic_find(cfg.gsi)
      /\ r.pin = cfg.gsi - io_apic[io_apic_find(cfg.gsi)].gsi
  BY DEF IsaRoute
<1>2. /\ io_apic_find(cfg.gsi) \in DOMAIN io_apic
      /\ Covers(io_apic[io_apic_find(cfg.gsi)], cfg.gsi)
  BY FindCovers DEF ApicsInv
<1> HIDE DEF r
<1> QED BY <1>1, <1>2 DEF Leads, r

\* Before any override is read, all lines have interrupt 1.
LEMMA DefaultsTables ==
    ASSUME TablesInv, SpaceInv, io_apic_isa_defaults
    PROVE  TablesInv' /\ SpaceInv'
<1>1. /\ stage = "isa_defaults" /\ UNCHANGED <<space, firmware, hdr, io_apic>>
      /\ UNCHANGED mapped
  BY DEF io_apic_isa_defaults, space
<1>2. stage' \in {"panic", "isa_source"}
  BY <1>1 DEF io_apic_isa_defaults, NextStage
<1>3. SpaceInv'
  <2>1. stage \notin Unmapped \cup {"ready"} /\ stage' \notin Unmapped /\ stage' \in Stages
    BY <1>1, <1>2 DEF Unmapped, Unpaged, Physical, Stages
  <2> QED BY <1>1, <2>1, SpaceFrame
<1>4. CASE io_apic_find(HWIRQ_RISING) = 0
  <2>1. stage' = "panic" /\ UNCHANGED isa_irq
    BY <1>4 DEF io_apic_isa_defaults
  <2>2. TablesInv'
    BY <1>1, <2>1, TablesFrame
  <2> QED BY <1>3, <2>2
<1>5. CASE io_apic_find(HWIRQ_RISING) # 0
  <2>1. /\ stage' = "isa_source"
        /\ isa_irq' = [i \in DOMAIN isa_irq |-> IsaRoute(DefaultCfg(i))]
    BY <1>1, <1>5 DEF io_apic_isa_defaults, NextStage
  <2>2. hdr = 1
    BY <1>1 DEF TablesInv, CursorInv, Parsed
  <2>3. CursorInv'
    BY <1>1, <2>1 DEF TablesInv, CursorInv, Parsed
  <2>4. \A a : Stems(a) => Stems(a)'
    <3>1. firmware \in Firmwares /\ UNCHANGED firmware
      BY <1>1 DEF TablesInv, CursorInv
    <3> QED BY <1>1, <3>1, StemsKept
  <2>5. ApicsInv'
    <3>1. stage' # "io_apic" /\ stage' \notin Unmapped
      BY <2>1 DEF Unmapped, Unpaged, Physical
    <3>2. \A i \in DOMAIN io_apic' : Stems(io_apic[i])'
      <4> TAKE i \in DOMAIN io_apic'
      <4>1. Stems(io_apic[i])
        BY <1>1 DEF TablesInv, ApicsInv
      <4>2. PICK a : a = io_apic[i]
        OBVIOUS
      <4>3. Stems(a)' /\ a = io_apic'[i]
        BY <1>1, <2>4, <4>1, <4>2
      <4> QED BY <4>3 DEF Stems
    <3> QED BY <1>1, <3>1, <3>2 DEF TablesInv, ApicsInv
  <2>6. ASSUME NEW i \in 0 .. ISA_IRQ_COUNT - 1
        PROVE  Leads(isa_irq[i])' /\ Mine(i, Read)' = {}
    <3>1. isa_irq'[i] = IsaRoute(DefaultCfg(i))
      BY <2>1 DEF TablesInv, RoutesInv
    <3>2. DefaultCfg(i).gsi = HWIRQ_RISING /\ HWIRQ_RISING \in Nat
      BY DEF DefaultCfg, HWIRQ_RISING
    <3>3. Leads(isa_irq'[i])
      BY <1>5, <3>1, <3>2, IsaRouteLeads DEF TablesInv
    <3>4. Leads(isa_irq[i])'
      BY <1>1, <3>3 DEF Leads, Covers
    <3>5. Read' = 1
      BY <1>1, <2>1, <2>2 DEF Read
    <3>6. \A n \in Overrides' : n \in Nat /\ n >= 1
      <4>1. firmware \in Firmwares /\ firmware' = firmware
        BY <1>1 DEF TablesInv, CursorInv
      <4>2. DOMAIN firmware'.madt = 1 .. Len(firmware'.madt)
        BY <4>1, EntryFacts
      <4> QED BY <4>2 DEF Overrides, Entries
    <3>7. Mine(i, Read)' = {}
      BY <3>5, <3>6 DEF Mine
    <3> QED BY <3>4, <3>7
  <2>7. RoutesInv'
    <3>1. DOMAIN isa_irq' = 0 .. ISA_IRQ_COUNT - 1
      BY <2>1 DEF TablesInv, RoutesInv
    <3> QED BY <2>6, <3>1 DEF RoutesInv
  <2> QED BY <1>3, <2>3, <2>5, <2>7 DEF TablesInv
<1> QED BY <1>4, <1>5

\* The overrides of line i, one entry further.
LEMMA MineNext ==
    ASSUME firmware \in Firmwares, NEW h \in DOMAIN firmware.madt, NEW i
    PROVE  /\ h \in Overrides /\ firmware.madt[h].source = i =>
                 Mine(i, h + 1) # {} /\ Max(Mine(i, h + 1)) = h
           /\ ~ (h \in Overrides /\ firmware.madt[h].source = i) => Mine(i, h + 1) = Mine(i, h)
<1>1. h \in Nat /\ \A n \in Overrides : n \in Nat
  BY EntryFacts DEF Overrides, Entries
<1>2. \A n \in Nat : n < h + 1 <=> (n < h \/ n = h)
  BY <1>1
<1>3. ASSUME h \in Overrides, firmware.madt[h].source = i
      PROVE  Mine(i, h + 1) # {} /\ Max(Mine(i, h + 1)) = h
  <2>1. h \in Mine(i, h + 1)
    BY <1>1, <1>3 DEF Mine
  <2>2. Mine(i, h + 1) \in SUBSET Nat /\ \A n \in Mine(i, h + 1) : n <= h
    BY <1>1 DEF Mine
  <2> QED BY <2>1, <2>2, MaxIs
<1>4. ASSUME ~ (h \in Overrides /\ firmware.madt[h].source = i)
      PROVE  Mine(i, h + 1) = Mine(i, h)
  BY <1>1, <1>2, <1>4 DEF Mine
<1> QED BY <1>3, <1>4

\* The step of acpi_parse_madt, by what it meets.
LEMMA ParseCases ==
    ASSUME NEW type \in Parsed, acpi_parse_madt(type)
    PROVE  /\ stage = type /\ UNCHANGED <<firmware, irqchip, chips, owned>>
           /\ \/ stage' = "panic" /\ UNCHANGED <<space, hdr, tables>>
              \/ /\ hdr > Len(firmware.madt)
                 /\ stage' = NextStage(stage) /\ hdr' = 1 /\ UNCHANGED <<space, tables>>
              \/ /\ ~ (hdr > Len(firmware.madt)) /\ hdr' = hdr + 1
                 /\ \/ firmware.madt[hdr].type # type /\ UNCHANGED <<stage, space, tables>>
                    \/ /\ firmware.madt[hdr].type = "io_apic" /\ type = "io_apic"
                       /\ acpi_handle_io_apic(firmware.madt[hdr])
                    \/ /\ firmware.madt[hdr].type = "isa_source" /\ type = "isa_source"
                       /\ acpi_handle_isa_source(firmware.madt[hdr])
                    \/ /\ firmware.madt[hdr].type = "local_apic" /\ type = "local_apic"
                       /\ acpi_handle_local_apic(firmware.madt[hdr])
BY Zenon DEF acpi_parse_madt

\* The end of the entries.
LEMMA ParseEnd ==
    ASSUME SpaceInv, TablesInv, stage \in Parsed, hdr > Len(firmware.madt),
           stage' = NextStage(stage), hdr' = 1, UNCHANGED <<space, firmware, io_apic, isa_irq>>
    PROVE  SpaceInv' /\ TablesInv'
<1>1. /\ stage = "io_apic" => stage' = "isa_defaults"
      /\ stage = "isa_source" => stage' = "local_apic"
      /\ stage = "local_apic" => stage' = "register"
      /\ stage \in {"io_apic", "isa_source", "local_apic"}
  BY DEF NextStage, Parsed
<1>2. stage \notin Unmapped \cup {"ready"} /\ stage' \notin Unmapped /\ stage' \in Stages
  BY <1>1 DEF Unmapped, Unpaged, Physical, Stages
<1>3. SpaceInv'
  BY <1>2, SpaceFrame
<1>4. firmware \in Firmwares /\ Len(firmware.madt) \in Nat /\ hdr = Len(firmware.madt) + 1
  <2>1. firmware \in Firmwares /\ hdr \in 1 .. Len(firmware.madt) + 1
    BY DEF TablesInv, CursorInv
  <2> QED BY <2>1, EntryFacts
<1>5. CursorInv'
  <2>1. 1 \in 1 .. Len(firmware.madt) + 1
    BY <1>4
  <2> QED BY <1>4, <2>1 DEF CursorInv
<1>6. mapped' = mapped
  BY DEF space
<1>7. ApicsInv'
  <2>1. \A a : Stems(a) => Stems(a)'
    BY <1>4, <1>6, StemsKept
  <2>2. \A i \in DOMAIN io_apic' : Stems(io_apic[i])'
    <3> TAKE i \in DOMAIN io_apic'
    <3>1. Stems(io_apic[i])
      BY DEF TablesInv, ApicsInv
    <3>2. PICK a : a = io_apic[i]
      OBVIOUS
    <3>3. Stems(a)' /\ a = io_apic'[i]
      BY <2>1, <3>1, <3>2
    <3> QED BY <3>3 DEF Stems
  <2>3. stage' # "io_apic"
    BY <1>1
  <2> QED BY <1>2, <2>2, <2>3 DEF TablesInv, ApicsInv
<1>8. RoutesInv'
  <2>1. \A i \in 0 .. ISA_IRQ_COUNT - 1 : Leads(isa_irq[i]) => Leads(isa_irq[i])'
    BY DEF Leads, Covers
  <2>2. ASSUME stage' = "isa_source" \/ IsaDone', NEW i \in 0 .. ISA_IRQ_COUNT - 1
        PROVE  /\ Leads(isa_irq[i])'
               /\ Mine(i, Read)' # {} =>
                    isa_irq'[i].gsi = SourceGsi(firmware'.madt[Max(Mine(i, Read)')])
    <3>1. stage = "isa_source" \/ IsaDone
      BY <1>1, <2>2 DEF IsaDone
    <3>2. Read' = Len(firmware.madt) + 1 /\ Read = Len(firmware.madt) + 1
      BY <1>1, <1>4, <2>2 DEF Read, IsaDone
    <3>3. Mine(i, Read)' = Mine(i, Read)
      BY <3>2 DEF Mine, Overrides, Entries, Useless, SourceGsi, Polarity, Trigger, SourceFlags
    <3>4. /\ Leads(isa_irq[i])
          /\ Mine(i, Read) # {} =>
                isa_irq[i].gsi = SourceGsi(firmware.madt[Max(Mine(i, Read))])
      BY <3>1 DEF TablesInv, RoutesInv
    <3> QED BY <2>1, <3>3, <3>4
  <2>3. DOMAIN isa_irq' = 0 .. ISA_IRQ_COUNT - 1
    BY DEF TablesInv, RoutesInv
  <2> QED BY <2>2, <2>3 DEF RoutesInv
<1> QED BY <1>3, <1>5, <1>7, <1>8 DEF TablesInv

\* An entry that changes neither the I/O APICs nor a line: one of another type,
\* of a processor, an I/O APIC without room, or an override that is useless.
LEMMA ParseSkip ==
    ASSUME SpaceInv, TablesInv, stage \in Parsed, ~ (hdr > Len(firmware.madt)), hdr' = hdr + 1,
           UNCHANGED <<stage, space, firmware, io_apic, isa_irq>>,
           stage = "io_apic" => hdr \notin Entries("io_apic") \/ Len(io_apic) = IO_APIC_MAX_COUNT,
           stage = "isa_source" => hdr \notin Overrides
    PROVE  SpaceInv' /\ TablesInv'
<1>1. SpaceInv'
  <2>1. stage' \in Stages
    BY DEF SpaceInv, PagingInv
  <2> QED BY <2>1, SpaceFrame
<1>2. firmware \in Firmwares /\ Len(firmware.madt) \in Nat /\ hdr \in DOMAIN firmware.madt
      /\ hdr \in Nat /\ hdr <= Len(firmware.madt)
  <2>1. firmware \in Firmwares /\ hdr \in 1 .. Len(firmware.madt) + 1
    BY DEF TablesInv, CursorInv
  <2> QED BY <2>1, EntryFacts
<1>3. CursorInv'
  <2>1. hdr + 1 \in 1 .. Len(firmware.madt) + 1
    BY <1>2
  <2> QED BY <1>2, <2>1 DEF CursorInv
<1>4. mapped' = mapped
  BY DEF space
<1>5. ApicsInv'
  <2>1. \A a : Stems(a) => Stems(a)'
    BY <1>2, <1>4, StemsKept
  <2>2. \A i \in DOMAIN io_apic' : Stems(io_apic[i])'
    <3> TAKE i \in DOMAIN io_apic'
    <3>1. Stems(io_apic[i])
      BY DEF TablesInv, ApicsInv
    <3>2. PICK a : a = io_apic[i]
      OBVIOUS
    <3>3. Stems(a)' /\ a = io_apic'[i]
      BY <2>1, <3>1, <3>2
    <3> QED BY <3>3 DEF Stems
  <2>3. ASSUME stage = "io_apic"
        PROVE  \/ Len(io_apic) = IO_APIC_MAX_COUNT
               \/ Len(io_apic) = Cardinality(Entries("io_apic")' \cap (1 .. hdr' - 1))
    <3>1. hdr' - 1 = hdr /\ Entries("io_apic")' = Entries("io_apic")
      BY <1>2 DEF Entries
    <3>2. CASE Len(io_apic) = IO_APIC_MAX_COUNT
      BY <3>2
    <3>3. CASE Len(io_apic) # IO_APIC_MAX_COUNT
      <4>1. hdr \notin Entries("io_apic")
        BY <2>3, <3>3
      <4>2. Len(io_apic) = Cardinality(Entries("io_apic") \cap (1 .. hdr - 1))
        BY <2>3, <3>3 DEF TablesInv, ApicsInv
      <4>3. Entries("io_apic") \cap (1 .. hdr) = Entries("io_apic") \cap (1 .. hdr - 1)
        BY <1>2, <4>1, ScanNext
      <4> QED BY <3>1, <4>2, <4>3
    <3> QED BY <3>2, <3>3
  <2> QED BY <2>2, <2>3 DEF TablesInv, ApicsInv
<1>6. RoutesInv'
  <2>1. \A i \in 0 .. ISA_IRQ_COUNT - 1 : Leads(isa_irq[i]) => Leads(isa_irq[i])'
    BY DEF Leads, Covers
  <2>2. ASSUME stage' = "isa_source" \/ IsaDone', NEW i \in 0 .. ISA_IRQ_COUNT - 1
        PROVE  /\ Leads(isa_irq[i])'
               /\ Mine(i, Read)' # {} =>
                    isa_irq'[i].gsi = SourceGsi(firmware'.madt[Max(Mine(i, Read)')])
    <3>1. stage = "isa_source" \/ IsaDone
      BY <2>2 DEF IsaDone
    <3>2. Mine(i, Read') = Mine(i, Read)
      <4>1. CASE stage = "isa_source"
        <5>1. Read' = hdr + 1 /\ Read = hdr
          BY <4>1 DEF Read
        <5> QED BY <1>2, <4>1, <5>1, MineNext
      <4>2. CASE stage # "isa_source"
        BY <4>2 DEF Read
      <4> QED BY <4>1, <4>2
    <3>3. Mine(i, Read)' = Mine(i, Read')
      BY DEF Mine, Overrides, Entries, Useless, SourceGsi, Polarity, Trigger, SourceFlags
    <3>4. /\ Leads(isa_irq[i])
          /\ Mine(i, Read) # {} =>
                isa_irq[i].gsi = SourceGsi(firmware.madt[Max(Mine(i, Read))])
      BY <3>1 DEF TablesInv, RoutesInv
    <3> QED BY <2>1, <3>2, <3>3, <3>4
  <2>3. DOMAIN isa_irq' = 0 .. ISA_IRQ_COUNT - 1
    BY DEF TablesInv, RoutesInv
  <2> QED BY <2>2, <2>3 DEF RoutesInv
<1> QED BY <1>1, <1>3, <1>5, <1>6 DEF TablesInv

\* What is read from an I/O APIC's registers while nothing was unmapped yet.
LEMMA FreshHandler ==
    ASSUME stale = {}, NEW e, acpi_handle_io_apic(e), Len(io_apic) # IO_APIC_MAX_COUNT
    PROVE  /\ kmap(e.paddr)
           /\ io_apic' = Append(io_apic,
                    [iospace |-> kmap_addr(e.paddr), gsi |-> e.gsi,
                     irqs |-> IoApicPins[Translate(kernel_page_tables', kmap_addr(e.paddr))]])
<1> DEFINE a == kmap_addr(e.paddr)
           apic(f) == [iospace |-> a, gsi |-> e.gsi, irqs |-> IoApicPins[f]]
<1>1. Reached(kernel_page_tables', a) = {Translate(kernel_page_tables', a)}
  BY DEF Reached
<1>2. kmap(e.paddr) /\ \E f \in Reached(kernel_page_tables', a) : io_apic' = Append(io_apic, apic(f))
  BY DEF acpi_handle_io_apic
<1> HIDE DEF a, apic
<1>3. io_apic' = Append(io_apic, apic(Translate(kernel_page_tables', a)))
  BY <1>1, <1>2
<1> QED BY <1>2, <1>3 DEF a, apic

\* A new I/O APIC: its registers are read through the mapping made for it.
LEMMA ParseIoApic ==
    ASSUME SpaceInv, TablesInv, stage = "io_apic", ~ (hdr > Len(firmware.madt)), hdr' = hdr + 1,
           UNCHANGED <<firmware>>, firmware.madt[hdr].type = "io_apic",
           acpi_handle_io_apic(firmware.madt[hdr]),
           Len(io_apic) # IO_APIC_MAX_COUNT
    PROVE  SpaceInv' /\ TablesInv'
<1> DEFINE e == firmware.madt[hdr]
           a == kmap_addr(e.paddr)
           new == [iospace |-> a, gsi |-> e.gsi,
                   irqs |-> IoApicPins[Translate(kernel_page_tables', a)]]
<1>1. /\ stage' = stage /\ UNCHANGED isa_irq /\ kmap(e.paddr) /\ io_apic' = Append(io_apic, new)
  <2>1. stale = {}
    BY DEF SpaceInv, StaleInv
  <2>2. stage' = stage /\ UNCHANGED isa_irq
    BY DEF acpi_handle_io_apic
  <2> QED BY <2>1, <2>2, FreshHandler
<1>2. firmware \in Firmwares /\ Len(firmware.madt) \in Nat /\ hdr \in DOMAIN firmware.madt
      /\ hdr \in Nat /\ hdr <= Len(firmware.madt)
  <2>1. firmware \in Firmwares /\ hdr \in 1 .. Len(firmware.madt) + 1
    BY DEF TablesInv, CursorInv
  <2> QED BY <2>1, EntryFacts
<1>3. /\ e.paddr \in DOMAIN IoApicPins /\ e.paddr \in Nat /\ e.gsi \in Nat
      /\ IoApicPins[e.paddr] \in Nat
  BY <1>2, EntryFacts
<1>4. SpaceInv' /\ mapped' = mapped \cup {<<a, e.paddr>>} /\ a \in Nat
  <2>1. stage \notin Unmapped /\ stage' \in Stages \ Unmapped /\ stage # "ready"
    BY <1>1 DEF Unmapped, Unpaged, Physical, Stages
  <2> QED BY <1>1, <1>3, <2>1, KmapSpace
<1>5. Translate(kernel_page_tables', a) = e.paddr
  <2> HIDE DEF a
  <2>1. PICK m \in mapped' : m[1] = a /\ m[2] = e.paddr
    <3> HIDE DEF e
    <3>1. <<a, e.paddr>> \in mapped'
      BY <1>4
    <3> QED BY <3>1
  <2>2. Frame(m[1])' = m[2]
    BY <1>4, MappedFramesNext
  <2>3. cr3' = cr3 /\ page_dir' = page_dir
    BY <1>1 DEF kmap
  <2>4. Frame(m[1])' = Translate(kernel_page_tables', m[1])
    BY <2>3 DEF Frame, Translate
  <2> QED BY <2>1, <2>2, <2>4
<1>6. new = [iospace |-> a, gsi |-> e.gsi, irqs |-> IoApicPins[e.paddr]]
  BY <1>5
<1> DEFINE rec == [iospace : Nat, gsi : Nat, irqs : Nat]
<1>7. /\ new \in rec /\ new.iospace = a /\ new.gsi = e.gsi /\ new.irqs = IoApicPins[e.paddr]
  BY <1>3, <1>4, <1>6
<1> HIDE DEF new, a
<1>8. io_apic \in Seq(rec) /\ Len(io_apic) \in Nat /\ Len(io_apic) < IO_APIC_MAX_COUNT
      /\ Len(io_apic) = Cardinality(Entries("io_apic") \cap (1 .. hdr - 1))
  <2>1. io_apic \in Seq(rec) /\ Len(io_apic) <= IO_APIC_MAX_COUNT
        /\ Len(io_apic) = Cardinality(Entries("io_apic") \cap (1 .. hdr - 1))
    BY DEF TablesInv, ApicsInv
  <2>2. Len(io_apic) \in Nat /\ IO_APIC_MAX_COUNT \in Nat
    BY <2>1, IrqAssumption
  <2> QED BY <2>1, <2>2
<1>9. /\ io_apic' \in Seq(rec) /\ Len(io_apic') = Len(io_apic) + 1
      /\ \A i \in 1 .. Len(io_apic) : io_apic'[i] = io_apic[i]
      /\ io_apic'[Len(io_apic) + 1] = new
      /\ DOMAIN io_apic' = 1 .. Len(io_apic) + 1 /\ DOMAIN io_apic = 1 .. Len(io_apic)
  <2> HIDE DEF rec
  <2>1. /\ io_apic' \in Seq(rec) /\ Len(io_apic') = Len(io_apic) + 1
        /\ \A i \in 1 .. Len(io_apic) : io_apic'[i] = io_apic[i]
        /\ io_apic'[Len(io_apic) + 1] = new
    <3>1. io_apic' = Append(io_apic, new) /\ new \in rec /\ io_apic \in Seq(rec)
      BY <1>1, <1>7, <1>8
    <3> QED BY <3>1, AppendProperties
  <2>2. DOMAIN io_apic' = 1 .. Len(io_apic') /\ DOMAIN io_apic = 1 .. Len(io_apic)
    <3>1. io_apic' \in Seq(rec) /\ io_apic \in Seq(rec)
      BY <1>8, <2>1
    <3> QED BY ONLY <3>1
  <2> QED BY <2>1, <2>2
<1>10. Cardinality(Entries("io_apic") \cap (1 .. hdr)) = Len(io_apic) + 1
       /\ hdr \in Entries("io_apic")
  <2>1. hdr \in Entries("io_apic")
    BY <1>2 DEF Entries
  <2> QED BY <1>2, <1>8, <2>1, ScanNext
<1>11. CursorInv'
  <2>1. hdr + 1 \in 1 .. Len(firmware.madt) + 1
    BY <1>2
  <2> QED BY <1>1, <1>2, <2>1 DEF CursorInv, Parsed
<1>12. PICK x : x = new /\ Stems(x)'
  <2>1. hdr \in KeptPlaces("io_apic", IO_APIC_MAX_COUNT)
    BY <1>8, <1>10, IrqAssumption DEF KeptPlaces
  <2>2. hdr \in KeptPlaces("io_apic", IO_APIC_MAX_COUNT)'
    BY <2>1 DEF KeptPlaces, Entries
  <2>3. PICK x : x = new
    OBVIOUS
  <2>4. /\ x.gsi = firmware'.madt[hdr].gsi /\ x.irqs = IoApicPins[firmware'.madt[hdr].paddr]
        /\ <<x.iospace, firmware'.madt[hdr].paddr>> \in mapped'
    BY <1>4, <1>7, <2>3
  <2>5. Stems(x)'
    BY <2>2, <2>4 DEF Stems
  <2> QED BY <2>3, <2>5
<1>13. ApicsInv'
  <2>1. \A y : Stems(y) => Stems(y)'
    BY <1>2, <1>4, StemsKept
  <2>2. \A i \in DOMAIN io_apic' : Stems(io_apic[i])'
    <3> TAKE i \in DOMAIN io_apic'
    <3>1. CASE i = Len(io_apic) + 1
      <4>1. x = io_apic'[i]
        BY <1>9, <1>12, <3>1
      <4> QED BY <1>12, <4>1 DEF Stems
    <3>2. CASE i # Len(io_apic) + 1
      <4>1. i \in 1 .. Len(io_apic)
        BY <1>8, <1>9, <3>2
      <4>2. Stems(io_apic[i])
        BY <1>9, <4>1 DEF TablesInv, ApicsInv
      <4>3. PICK y : y = io_apic[i]
        OBVIOUS
      <4>4. Stems(y)' /\ y = io_apic'[i]
        BY <1>9, <2>1, <4>1, <4>2, <4>3
      <4> QED BY <4>4 DEF Stems
    <3> QED BY <3>1, <3>2
  <2>3. Len(io_apic') = Cardinality(Entries("io_apic")' \cap (1 .. hdr' - 1))
    <3>1. hdr' - 1 = hdr /\ Entries("io_apic")' = Entries("io_apic")
      BY <1>2 DEF Entries
    <3> QED BY <1>9, <1>10, <3>1
  <2>4. Len(io_apic') <= IO_APIC_MAX_COUNT
    BY <1>8, <1>9, IrqAssumption
  <2>5. stage' \notin Unmapped
    BY <1>1 DEF Unmapped, Unpaged, Physical
  <2> QED BY <1>9, <2>2, <2>3, <2>4, <2>5 DEF ApicsInv
<1>14. RoutesInv'
  <2>1. ~ (stage' = "isa_source" \/ IsaDone')
    BY <1>1 DEF IsaDone
  <2>2. DOMAIN isa_irq' = 0 .. ISA_IRQ_COUNT - 1
    BY <1>1 DEF TablesInv, RoutesInv
  <2> QED BY <2>1, <2>2 DEF RoutesInv
<1> QED BY <1>4, <1>11, <1>13, <1>14 DEF TablesInv

\* An override that is not useless moves its line, or the code panics.
LEMMA ParseIsaSource ==
    ASSUME SpaceInv, TablesInv, stage = "isa_source", ~ (hdr > Len(firmware.madt)),
           hdr' = hdr + 1, UNCHANGED <<firmware>>, firmware.madt[hdr].type = "isa_source",
           acpi_handle_isa_source(firmware.madt[hdr]), ~ Useless(firmware.madt[hdr])
    PROVE  SpaceInv' /\ TablesInv'
<1> DEFINE e == firmware.madt[hdr]
           cfg == [flags |-> OverrideFlags(e), isa |-> e.source, gsi |-> SourceGsi(e)]
<1>1. /\ UNCHANGED <<space, io_apic>>
      /\ IF cfg.isa >= ISA_IRQ_COUNT \/ io_apic_find(cfg.gsi) = 0
         THEN stage' = "panic" /\ UNCHANGED isa_irq
         ELSE isa_irq' = [isa_irq EXCEPT ![cfg.isa] = IsaRoute(cfg)] /\ UNCHANGED stage
  BY DEF acpi_handle_isa_source
<1>2. firmware \in Firmwares /\ Len(firmware.madt) \in Nat /\ hdr \in DOMAIN firmware.madt
      /\ hdr \in Nat /\ hdr <= Len(firmware.madt)
  <2>1. firmware \in Firmwares /\ hdr \in 1 .. Len(firmware.madt) + 1
    BY DEF TablesInv, CursorInv
  <2> QED BY <2>1, EntryFacts
<1>3. e.source \in Nat /\ e.gsi \in Nat
  BY <1>2, EntryFacts
<1>4. cfg.isa = e.source /\ cfg.gsi = SourceGsi(e) /\ SourceGsi(e) \in Nat
  BY <1>3 DEF SourceGsi
<1>5. hdr \in Overrides
  BY <1>2 DEF Overrides, Entries
<1> HIDE DEF cfg
<1>6. mapped' = mapped
  BY <1>1 DEF space
<1>7. SpaceInv'
  <2>1. stage \notin Unmapped \cup {"ready"} /\ stage' \notin Unmapped /\ stage' \in Stages
    BY <1>1 DEF Unmapped, Unpaged, Physical, Stages
  <2> QED BY <1>1, <2>1, SpaceFrame
<1>8. CursorInv'
  <2>1. hdr + 1 \in 1 .. Len(firmware.madt) + 1
    BY <1>2
  <2> QED BY <1>1, <1>2, <2>1 DEF CursorInv, Parsed
<1>9. ApicsInv'
  <2>1. \A x : Stems(x) => Stems(x)'
    BY <1>2, <1>6, StemsKept
  <2>2. \A i \in DOMAIN io_apic' : Stems(io_apic[i])'
    <3> TAKE i \in DOMAIN io_apic'
    <3>1. Stems(io_apic[i])
      BY <1>1 DEF TablesInv, ApicsInv
    <3>2. PICK x : x = io_apic[i]
      OBVIOUS
    <3>3. Stems(x)' /\ x = io_apic'[i]
      BY <1>1, <2>1, <3>1, <3>2
    <3> QED BY <3>3 DEF Stems
  <2>3. stage' # "io_apic" /\ stage' \notin Unmapped
    BY <1>1 DEF Unmapped, Unpaged, Physical
  <2> QED BY <1>1, <2>2, <2>3 DEF TablesInv, ApicsInv
<1>10. \A i, h : Mine(i, h)' = {n \in Overrides : n < h' /\ firmware.madt[n].source = i}
  BY DEF Mine, Overrides, Entries, Useless, SourceGsi, Polarity, Trigger, SourceFlags
<1>11. DOMAIN isa_irq = 0 .. ISA_IRQ_COUNT - 1
  BY DEF TablesInv, RoutesInv
<1>12. CASE cfg.isa >= ISA_IRQ_COUNT \/ io_apic_find(cfg.gsi) = 0
  <2>1. stage' = "panic" /\ UNCHANGED isa_irq
    BY <1>1, <1>12
  <2>2. ~ (stage' = "isa_source" \/ IsaDone')
    BY <2>1 DEF IsaDone
  <2>3. RoutesInv'
    BY <1>11, <2>1, <2>2 DEF RoutesInv
  <2> QED BY <1>7, <1>8, <1>9, <2>3 DEF TablesInv
<1>13. CASE ~ (cfg.isa >= ISA_IRQ_COUNT \/ io_apic_find(cfg.gsi) = 0)
  <2>1. isa_irq' = [isa_irq EXCEPT ![e.source] = IsaRoute(cfg)] /\ stage' = "isa_source"
    BY <1>1, <1>4, <1>13
  <2>2. e.source \in 0 .. ISA_IRQ_COUNT - 1 /\ io_apic_find(cfg.gsi) # 0
    <3> DEFINE s == e.source
    <3>1. ~ (s >= 16) /\ s \in Nat
      BY <1>3, <1>4, <1>13 DEF ISA_IRQ_COUNT
    <3>2. s \in 0 .. 15 /\ 15 = ISA_IRQ_COUNT - 1
      <4> HIDE DEF s
      <4> QED BY <3>1 DEF ISA_IRQ_COUNT
    <3>3. io_apic_find(cfg.gsi) # 0
      BY <1>13, Zenon
    <3> QED BY <3>2, <3>3
  <2>3. /\ isa_irq'[e.source] = IsaRoute(cfg)
        /\ \A i \in 0 .. ISA_IRQ_COUNT - 1 : i # e.source => isa_irq'[i] = isa_irq[i]
        /\ DOMAIN isa_irq' = 0 .. ISA_IRQ_COUNT - 1
    BY <1>11, <2>1, <2>2
  <2>4. Leads(IsaRoute(cfg)) /\ IsaRoute(cfg).gsi = SourceGsi(e)
    BY <1>4, <2>2, IsaRouteLeads DEF TablesInv
  <2>5. Read = hdr /\ Read' = hdr + 1
    BY <2>1 DEF Read
  <2>6. ASSUME NEW i \in 0 .. ISA_IRQ_COUNT - 1
        PROVE  /\ Leads(isa_irq'[i])
               /\ Mine(i, hdr + 1) # {} =>
                    isa_irq'[i].gsi = SourceGsi(firmware.madt[Max(Mine(i, hdr + 1))])
    <3>1. CASE i = e.source
      <4>1. Max(Mine(i, hdr + 1)) = hdr
        BY <1>2, <1>5, <3>1, MineNext
      <4> QED BY <2>3, <2>4, <3>1, <4>1
    <3>2. CASE i # e.source
      <4>1. Mine(i, hdr + 1) = Mine(i, hdr) /\ isa_irq'[i] = isa_irq[i]
        BY <1>2, <2>3, <3>2, MineNext
      <4>2. /\ Leads(isa_irq[i])
            /\ Mine(i, hdr) # {} => isa_irq[i].gsi = SourceGsi(firmware.madt[Max(Mine(i, hdr))])
        BY <2>5 DEF TablesInv, RoutesInv
      <4> QED BY <4>1, <4>2
    <3> QED BY <3>1, <3>2
  <2>7. ASSUME NEW i \in 0 .. ISA_IRQ_COUNT - 1
        PROVE  /\ Leads(isa_irq[i])'
               /\ Mine(i, Read)' # {} =>
                    isa_irq'[i].gsi = SourceGsi(firmware'.madt[Max(Mine(i, Read)')])
    <3>1. Mine(i, Read)' = Mine(i, hdr + 1)
      BY <2>5 DEF Mine, Overrides, Entries, Useless, SourceGsi, Polarity, Trigger, SourceFlags
    <3>2. Leads(isa_irq[i])'
      <4>1. Leads(isa_irq'[i])
        BY <2>6
      <4> QED BY <1>1, <4>1 DEF Leads, Covers
    <3>3. Mine(i, hdr + 1) # {} =>
              isa_irq'[i].gsi = SourceGsi(firmware.madt[Max(Mine(i, hdr + 1))])
      BY <2>6
    <3> QED BY <3>1, <3>2, <3>3
  <2>8. RoutesInv'
    BY <2>3, <2>7 DEF RoutesInv
  <2> QED BY <1>7, <1>8, <1>9, <2>8 DEF TablesInv
<1> QED BY <1>12, <1>13

\* An entry of any pass keeps the tables in step with what was read.
LEMMA ParseTables ==
    ASSUME SpaceInv, TablesInv, NEW type \in Parsed, acpi_parse_madt(type)
    PROVE  SpaceInv' /\ TablesInv'
<1>1. stage = type /\ stage \in Parsed /\ UNCHANGED firmware
  BY ParseCases
<1>2. firmware \in Firmwares /\ hdr \in 1 .. Len(firmware.madt) + 1 /\ Len(firmware.madt) \in Nat
      /\ DOMAIN firmware.madt = 1 .. Len(firmware.madt)
  <2>1. firmware \in Firmwares /\ hdr \in 1 .. Len(firmware.madt) + 1
    BY DEF TablesInv, CursorInv
  <2> QED BY <2>1, EntryFacts
<1>3. CASE stage' = "panic" /\ UNCHANGED <<space, hdr, tables>>
  <2>1. UNCHANGED <<io_apic, isa_irq, mapped>>
    BY <1>3 DEF tables, space
  <2>2. TablesInv'
    BY <1>1, <1>3, <2>1, TablesFrame
  <2>3. stage \notin Unmapped \cup {"ready"} /\ stage' \notin Unmapped /\ stage' \in Stages
    BY <1>1, <1>3 DEF Unmapped, Unpaged, Physical, Stages, Parsed
  <2> QED BY <1>3, <2>2, <2>3, SpaceFrame
<1>4. CASE /\ hdr > Len(firmware.madt)
           /\ stage' = NextStage(stage) /\ hdr' = 1 /\ UNCHANGED <<space, tables>>
  <2>1. UNCHANGED <<io_apic, isa_irq>>
    BY <1>4 DEF tables
  <2> QED BY <1>1, <1>4, <2>1, ParseEnd
<1>5. CASE ~ (hdr > Len(firmware.madt)) /\ hdr' = hdr + 1
  <2> DEFINE e == firmware.madt[hdr]
  <2>1. hdr \in DOMAIN firmware.madt
    BY <1>2, <1>5
  <2>2. CASE e.type # type /\ UNCHANGED <<stage, space, tables>>
    <3>1. UNCHANGED <<io_apic, isa_irq>>
      BY <2>2 DEF tables
    <3>2. /\ stage = "io_apic" => hdr \notin Entries("io_apic")
          /\ stage = "isa_source" => hdr \notin Overrides
      BY <1>1, <2>2 DEF Entries, Overrides
    <3> QED BY <1>1, <1>5, <2>2, <3>1, <3>2, ParseSkip
  <2>3. CASE e.type = "io_apic" /\ type = "io_apic" /\ acpi_handle_io_apic(e)
    <3>1. CASE Len(io_apic) = IO_APIC_MAX_COUNT
      <4>1. UNCHANGED <<stage, isa_irq, space, io_apic>>
        BY <2>3, <3>1 DEF acpi_handle_io_apic
      <4>2. stage # "isa_source"
        BY <1>1, <2>3
      <4> QED BY <1>1, <1>5, <3>1, <4>1, <4>2, ParseSkip
    <3>2. CASE Len(io_apic) # IO_APIC_MAX_COUNT
      BY <1>1, <1>5, <2>3, <3>2, ParseIoApic
    <3> QED BY <3>1, <3>2
  <2>4. CASE e.type = "isa_source" /\ type = "isa_source" /\ acpi_handle_isa_source(e)
    <3>1. CASE Useless(e)
      <4>1. UNCHANGED <<stage, isa_irq, space, io_apic>>
        BY <2>4, <3>1 DEF acpi_handle_isa_source
      <4>2. stage # "io_apic" /\ hdr \notin Overrides
        BY <1>1, <2>4, <3>1 DEF Overrides
      <4> QED BY <1>1, <1>5, <4>1, <4>2, ParseSkip
    <3>2. CASE ~ Useless(e)
      BY <1>1, <1>5, <2>4, <3>2, ParseIsaSource
    <3> QED BY <3>1, <3>2
  <2>5. CASE e.type = "local_apic" /\ type = "local_apic" /\ acpi_handle_local_apic(e)
    <3>1. UNCHANGED <<stage, isa_irq, space, io_apic>>
      BY <2>5 DEF acpi_handle_local_apic
    <3>2. stage # "io_apic" /\ stage # "isa_source"
      BY <1>1, <2>5
    <3> QED BY <1>1, <1>5, <3>1, <3>2, ParseSkip
  <2> QED BY <1>3, <1>4, <1>5, <2>2, <2>3, <2>4, <2>5, ParseCases, Zenon
<1> QED BY <1>3, <1>4, <1>5, ParseCases

-----------------------------------------------------------------------------
(* Every step keeps the redirection tables.                                *)

\* After reset every redirection entry is masked.
LEMMA ChipInitInv ==
    ASSUME Init
    PROVE  ChipInv
<1>1. /\ redtbl = [f \in DOMAIN IoApicPins |-> [p \in 0 .. IoApicPins[f] - 1 |-> ResetEntry]]
      /\ owned = {} /\ irqchip = "none"
  BY DEF Init
<1>2. ResetEntry \in [vector : Nat, masked : BOOLEAN, low : BOOLEAN, level : BOOLEAN]
      /\ ResetEntry.masked = TRUE
  BY DEF ResetEntry
<1> HIDE DEF ResetEntry
<1>3. \A f \in DOMAIN IoApicPins :
          /\ redtbl[f] = [p \in 0 .. IoApicPins[f] - 1 |-> ResetEntry]
          /\ \A p \in 0 .. IoApicPins[f] - 1 : redtbl[f][p] = ResetEntry
  BY <1>1
<1>4. \A f \in DOMAIN IoApicPins :
          redtbl[f] \in [0 .. IoApicPins[f] - 1 ->
                            [vector : Nat, masked : BOOLEAN, low : BOOLEAN, level : BOOLEAN]]
  BY <1>2, <1>3
<1> QED BY <1>1, <1>2, <1>3, <1>4 DEF ChipInv

\* The invariant of the redirection tables gives the property of them.
LEMMA ChipsDeliver == ChipInv => UnmaskedPinsDeliver
<1> SUFFICES ASSUME ChipInv PROVE UnmaskedPinsDeliver
  OBVIOUS
<1>1. DOMAIN redtbl = DOMAIN IoApicPins
  BY DEF ChipInv
<1>2. \A f \in DOMAIN IoApicPins : DOMAIN redtbl[f] = 0 .. IoApicPins[f] - 1
  BY DEF ChipInv
<1>3. \A f \in DOMAIN IoApicPins : \A p \in 0 .. IoApicPins[f] - 1 :
          ~ redtbl[f][p].masked => Delivers(f, p)
  BY DEF ChipInv
<1> QED BY <1>1, <1>2, <1>3 DEF UnmaskedPinsDeliver, Delivers

\* Steps while the I/O APICs are not in use: requests go to the 8259As, or none
\* is made.
LEMMA ChipFrameUnused ==
    ASSUME ChipInv, irqchip # "apic", UNCHANGED <<firmware, redtbl>>,
           \A o \in owned' : o[1] = "apic" => o \in owned,
           irqchip' = "apic" => stage' \in Deliver
    PROVE  ChipInv'
<1>1. \A o \in owned' : o[1] # "apic"
  BY DEF ChipInv
<1>2. \A f, p : Delivers(f, p)' <=> Delivers(f, p)
  BY DEF Delivers, FirmwarePins, Kept, Entries
<1>3. \A f \in DOMAIN IoApicPins : \A p \in 0 .. IoApicPins[f] - 1 :
          ~ redtbl'[f][p].masked => Delivers(f, p)'
  BY <1>2 DEF ChipInv
<1> QED BY <1>1, <1>3 DEF ChipInv

\* A request that finds a pin finds one of the machine.
LEMMA RouteLeads ==
    ASSUME TablesInv, IsaDone, NEW irq \in Nat,
           irq < ISA_IRQ_COUNT \/ io_apic_find(irq) # 0
    PROVE  Leads(Route(irq))
<1>1. CASE irq < ISA_IRQ_COUNT
  <2>1. irq \in 0 .. ISA_IRQ_COUNT - 1
    BY <1>1 DEF ISA_IRQ_COUNT
  <2>2. Leads(isa_irq[irq])
    BY <2>1 DEF TablesInv, RoutesInv
  <2>3. isa_irq[irq].io_apic # 0
    <3>1. io_apic \in Seq([iospace : Nat, gsi : Nat, irqs : Nat])
      BY DEF TablesInv, ApicsInv
    <3>2. isa_irq[irq].io_apic \in DOMAIN io_apic
      BY <2>2 DEF Leads
    <3> QED BY <3>1, <3>2
  <2>4. Route(irq) = isa_irq[irq]
    BY <1>1, <2>3 DEF Route
  <2> QED BY <2>2, <2>4
<1>2. CASE ~ (irq < ISA_IRQ_COUNT)
  <2> DEFINE r == Route(irq)
  <2>1. /\ r.io_apic = io_apic_find(irq) /\ r.gsi = irq
        /\ r.pin = irq - io_apic[io_apic_find(irq)].gsi
    BY <1>2 DEF Route
  <2>2. io_apic_find(irq) \in DOMAIN io_apic /\ Covers(io_apic[io_apic_find(irq)], irq)
    BY <1>2, FindCovers DEF TablesInv, ApicsInv
  <2> HIDE DEF r
  <2>3. Leads(r)
    BY <2>1, <2>2 DEF Leads
  <2> QED BY <2>3 DEF r
<1> QED BY <1>1, <1>2

\* Where a request goes, once set-up is so far.
LEMMA RequestPin ==
    ASSUME SpaceInv, TablesInv, IsaDone, NEW irq \in Nat,
           irq < ISA_IRQ_COUNT \/ io_apic_find(irq) # 0
    PROVE  /\ Chip(irq) \in DOMAIN IoApicPins
           /\ Route(irq).pin \in 0 .. IoApicPins[Chip(irq)] - 1
           /\ <<Chip(irq), Route(irq).pin>> \in FirmwarePins(Route(irq).gsi)
           /\ Route(irq).gsi \in Nat /\ Route(irq).gsi + 32 < 255
           /\ ReachedChips(irq) = {Chip(irq)}
<1> DEFINE r == Route(irq)
<1>1. Leads(r)
  BY RouteLeads
<1> HIDE DEF r
<1>2. /\ Frame(io_apic[r.io_apic].iospace) \in DOMAIN IoApicPins
      /\ r.pin \in 0 .. IoApicPins[Frame(io_apic[r.io_apic].iospace)] - 1
      /\ <<Frame(io_apic[r.io_apic].iospace), r.pin>> \in FirmwarePins(r.gsi)
      /\ r.gsi \in Nat /\ r.gsi + 32 < 255
      /\ Frames(io_apic[r.io_apic].iospace) = {Frame(io_apic[r.io_apic].iospace)}
  BY <1>1, RoutePins DEF TablesInv
<1> QED BY <1>2, Zenon DEF Chip, ReachedChips, r

\* Steps of an apic that leave the redirection tables and the mappings of the
\* APICs alone.
LEMMA ChipFrameUsed ==
    ASSUME SpaceInv, SpaceInv', PicInv, TablesInv, ChipInv, irqchip = "apic",
           UNCHANGED <<firmware, redtbl, owned, irqchip, io_apic, isa_irq>>,
           \A m \in mapped : m[2] \notin DriverFrames => m \in mapped',
           stage' \in Deliver, stage = "panic" => stage' = "panic"
    PROVE  ChipInv'
<1>1. \A f, p : Delivers(f, p)' <=> Delivers(f, p)
  BY DEF Delivers, FirmwarePins, Kept, Entries
<1>2. \A f \in DOMAIN IoApicPins : \A p \in 0 .. IoApicPins[f] - 1 :
          ~ redtbl'[f][p].masked => Delivers(f, p)'
  BY <1>1 DEF ChipInv
<1>3. \A g : io_apic_find(g)' = io_apic_find(g)
  BY DEF io_apic_find, Covers
<1>4. ASSUME NEW o \in owned', o[1] = "apic"
      PROVE  /\ o[2] < ISA_IRQ_COUNT \/ io_apic_find(o[2])' # 0
             /\ stage' # "panic" => Delivers(Chip(o[2]), Route(o[2]).pin)'
  <2> DEFINE irq == o[2]
  <2>1. irq \in Nat /\ o \in owned
    BY DEF PicInv
  <2> HIDE DEF irq
  <2>2. /\ irq < ISA_IRQ_COUNT \/ io_apic_find(irq) # 0
        /\ stage # "panic" => Delivers(Chip(irq), Route(irq).pin)
    BY <1>4, <2>1 DEF ChipInv, irq
  <2>3. Route(irq)' = Route(irq)
    BY DEF Route, io_apic_find, Covers
  <2>4. ASSUME stage' # "panic" PROVE Delivers(Chip(irq), Route(irq).pin)'
    <3>1. IsaDone /\ stage # "panic"
      <4>1. stage \in Deliver
        BY DEF ChipInv
      <4> QED BY <2>4, <4>1 DEF Deliver, IsaDone
    <3> DEFINE apic == io_apic[Route(irq).io_apic]
    <3>2. Stems(apic)
      <4>1. Leads(Route(irq))
        BY <2>1, <2>2, <3>1, RouteLeads
      <4> QED BY <4>1 DEF Leads, TablesInv, ApicsInv
    <3>3. PICK n \in KeptPlaces("io_apic", IO_APIC_MAX_COUNT) :
              <<apic.iospace, firmware.madt[n].paddr>> \in mapped
      BY <3>2 DEF Stems
    <3>4. firmware.madt[n].paddr \notin DriverFrames
      <4>1. n \in DOMAIN firmware.madt /\ firmware.madt[n].type = "io_apic" /\ firmware \in Firmwares
        BY DEF KeptPlaces, Entries, TablesInv, CursorInv
      <4> QED BY <4>1, EntryFacts
    <3> DEFINE io == apic.iospace
    <3> HIDE DEF apic, io
    <3>5. PICK m \in mapped' : m \in mapped /\ m[1] = io /\ m[2] = firmware.madt[n].paddr
      <4>1. <<io, firmware.madt[n].paddr>> \in mapped
        BY <3>3 DEF io
      <4>2. <<io, firmware.madt[n].paddr>>[2] = firmware.madt[n].paddr
            /\ <<io, firmware.madt[n].paddr>>[1] = io
        OBVIOUS
      <4>3. <<io, firmware.madt[n].paddr>> \in mapped'
        BY <3>4, <4>1, <4>2
      <4> QED BY <4>1, <4>2, <4>3
    <3>6. Frame(m[1]) = m[2] /\ Frame(m[1])' = m[2]
      BY <3>5, MappedFrames, MappedFramesNext
    <3>7. Chip(irq) = Frame(m[1])
      BY <3>5 DEF Chip, apic, io
    <3>8. Chip(irq)' = Frame(m[1])'
      BY <2>3, <3>5 DEF Chip, apic, io, Frame
    <3>9. Delivers(Chip(irq), Route(irq).pin)
      BY <2>2, <3>1
    <3> QED BY <1>1, <2>3, <3>6, <3>7, <3>8, <3>9 DEF Delivers
  <2> QED BY <1>3, <2>2, <2>4 DEF irq
<1>5. irqchip' = "apic" => stage' \in Deliver
  OBVIOUS
<1> QED BY <1>2, <1>4, <1>5 DEF ChipInv

\* A request writes the entry of the pin that it is routed to.
LEMMA WriteEntryChips ==
    ASSUME SpaceInv, PicInv, TablesInv, ChipInv, irqchip = "apic", IsaDone,
           NEW irq \in Nat, irq < ISA_IRQ_COUNT \/ io_apic_find(irq) # 0,
           NEW entry \in [vector : Nat, masked : BOOLEAN, low : BOOLEAN, level : BOOLEAN],
           entry.vector \in 32 .. 254,
           <<Chip(irq), Route(irq).pin>> \in FirmwarePins(entry.vector - 32),
           WriteEntry(Chip(irq), irq, entry), UNCHANGED <<stage, space, firmware, irqchip, tables>>,
           owned' \subseteq owned \cup {<<"apic", irq>>}
    PROVE  ChipInv'
<1> DEFINE f == Chip(irq)
           p == Route(irq).pin
           rec == [vector : Nat, masked : BOOLEAN, low : BOOLEAN, level : BOOLEAN]
<1>1. f \in DOMAIN IoApicPins /\ p \in 0 .. IoApicPins[f] - 1
  BY RequestPin
<1>2. /\ redtbl' = [redtbl EXCEPT ![f][p] = entry]
      /\ UNCHANGED <<io_apic, isa_irq, cr3, page_dir, kernel_page_tables>>
  BY DEF WriteEntry, tables, space
<1>3. /\ DOMAIN redtbl = DOMAIN IoApicPins
      /\ \A g \in DOMAIN IoApicPins : redtbl[g] \in [0 .. IoApicPins[g] - 1 -> rec]
  BY DEF ChipInv
<1>4. <<f, p>> \in FirmwarePins(entry.vector - 32)
  OBVIOUS
<1>5. /\ \A i : Chip(i)' = Chip(i)
      /\ \A i : Route(i)' = Route(i)
      /\ \A i : io_apic_find(i)' = io_apic_find(i)
  <2>1. \A i : io_apic_find(i)' = io_apic_find(i)
    BY <1>2 DEF io_apic_find, Covers
  <2>2. \A i : Route(i)' = Route(i)
    BY <1>2 DEF Route, io_apic_find
  <2>3. \A v : Frame(v)' = Frame(v)
    BY <1>2 DEF Frame, Translate
  <2>4. \A i : Chip(i)' = Chip(i)
    BY <1>2, <2>2 DEF Chip, Frame, Translate
  <2> QED BY <2>1, <2>2, <2>4
<1> HIDE DEF f, p
<1>6. /\ DOMAIN redtbl' = DOMAIN IoApicPins
      /\ redtbl'[f] = [redtbl[f] EXCEPT ![p] = entry]
      /\ \A g \in DOMAIN IoApicPins : g # f => redtbl'[g] = redtbl[g]
  BY <1>1, <1>2, <1>3
<1>7. /\ redtbl'[f] \in [0 .. IoApicPins[f] - 1 -> rec]
      /\ redtbl'[f][p] = entry
      /\ \A q \in 0 .. IoApicPins[f] - 1 : q # p => redtbl'[f][q] = redtbl[f][q]
  <2>1. redtbl[f] \in [0 .. IoApicPins[f] - 1 -> rec] /\ entry \in rec
    BY <1>1, <1>3
  <2> HIDE DEF rec
  <2> QED BY <1>1, <1>6, <2>1
<1>8. \A g \in DOMAIN IoApicPins : redtbl'[g] \in [0 .. IoApicPins[g] - 1 -> rec]
  <2> HIDE DEF rec
  <2> QED BY <1>3, <1>6, <1>7
<1>9. Delivers(f, p)'
  <2>1. redtbl'[f][p].vector = entry.vector
    BY <1>7
  <2>2. FirmwarePins(entry.vector - 32)' = FirmwarePins(entry.vector - 32)
    BY DEF FirmwarePins, Kept, Entries
  <2>3. PICK v \in 32 .. 254 : v = entry.vector
    OBVIOUS
  <2>4. FirmwarePins(v - 32)' = FirmwarePins(v - 32)
    BY DEF FirmwarePins, Kept, Entries
  <2>5. <<f, p>> \in FirmwarePins(v - 32)'
    BY <1>4, <2>3, <2>4
  <2>6. f' = f /\ p' = p
    BY <1>5 DEF f, p
  <2>7. redtbl'[f'][p'].vector = v
    BY <2>1, <2>3, <2>6
  <2>8. <<f', p'>> \in FirmwarePins(v - 32)'
    BY <2>5, <2>6
  <2>9. v \in 32 .. SPURIOUS_INTERRUPT_VECTOR - 1
    BY DEF SPURIOUS_INTERRUPT_VECTOR
  <2> QED BY <2>7, <2>8, <2>9 DEF Delivers, HW_INTERRUPT_OFFSET, FirmwarePins, Kept, Entries
<1>10. ASSUME NEW g \in DOMAIN IoApicPins, NEW q \in 0 .. IoApicPins[g] - 1,
              ~ (g = f /\ q = p)
       PROVE  redtbl'[g][q] = redtbl[g][q]
  BY <1>6, <1>7, <1>10
<1>11. ASSUME NEW g, NEW q, redtbl'[g][q] = redtbl[g][q]
       PROVE  Delivers(g, q)' <=> Delivers(g, q)
  BY <1>11 DEF Delivers, FirmwarePins, Kept, Entries
<1>12. \A g, q : g = f /\ q = p => Delivers(g, q)'
  <2>1. f' = f /\ p' = p
    BY <1>5 DEF f, p
  <2> QED BY <1>9, <2>1 DEF Delivers
<1>13. ASSUME NEW g \in DOMAIN IoApicPins, NEW q \in 0 .. IoApicPins[g] - 1,
              Delivers(g, q) \/ (g = f /\ q = p)
       PROVE  Delivers(g, q)'
  <2>1. CASE g = f /\ q = p
    BY <1>12, <2>1
  <2>2. CASE ~ (g = f /\ q = p)
    BY <1>10, <1>11, <1>13, <2>2
  <2> QED BY <2>1, <2>2
<1>14. ASSUME NEW g \in DOMAIN IoApicPins, NEW q \in 0 .. IoApicPins[g] - 1,
              ~ redtbl'[g][q].masked
       PROVE  Delivers(g, q)'
  <2>1. CASE g = f /\ q = p
    BY <1>12, <2>1
  <2>2. CASE ~ (g = f /\ q = p)
    <3>1. redtbl'[g][q] = redtbl[g][q]
      BY <1>10, <2>2
    <3>2. Delivers(g, q)
      BY <1>14, <3>1 DEF ChipInv
    <3> QED BY <1>13, <3>2
  <2> QED BY <2>1, <2>2
<1>15. ASSUME NEW o \in owned', o[1] = "apic"
       PROVE  /\ o[2] < ISA_IRQ_COUNT \/ io_apic_find(o[2])' # 0
              /\ Delivers(Chip(o[2]), Route(o[2]).pin)'
  <2>1. PICK i \in Nat : i = o[2] /\ (i = irq \/ o \in owned)
    <3>1. CASE o \in owned
      BY <3>1 DEF PicInv
    <3>2. CASE o = <<"apic", irq>>
      BY <3>2
    <3> QED BY <3>1, <3>2
  <2>2. i < ISA_IRQ_COUNT \/ io_apic_find(i) # 0
    BY <1>15, <2>1 DEF ChipInv
  <2>3. Delivers(Chip(i), Route(i).pin) \/ (Chip(i) = f /\ Route(i).pin = p)
    <3>1. CASE i = irq
      BY <3>1 DEF f, p
    <3>2. CASE i # irq
      <4>1. o \in owned /\ stage # "panic"
        BY <2>1, <3>2 DEF IsaDone
      <4> QED BY <1>15, <2>1, <4>1 DEF ChipInv
    <3> QED BY <3>1, <3>2
  <2>4. Chip(i) \in DOMAIN IoApicPins /\ Route(i).pin \in 0 .. IoApicPins[Chip(i)] - 1
    BY <2>2, RequestPin
  <2>5. PICK g \in DOMAIN IoApicPins : g = Chip(i)
    BY <2>4
  <2>6. PICK q \in 0 .. IoApicPins[g] - 1 : q = Route(i).pin
    BY <2>4, <2>5
  <2>7. Delivers(g, q)'
    BY <1>13, <2>3, <2>5, <2>6
  <2>8. g = Chip(i)' /\ q = Route(i)'.pin
    BY <1>5, <2>5, <2>6
  <2>9. Delivers(Chip(i), Route(i).pin)'
    BY <2>7, <2>8 DEF Delivers
  <2>10. o[2] < ISA_IRQ_COUNT \/ io_apic_find(o[2])' # 0
    BY <1>5, <2>1, <2>2
  <2> QED BY <2>1, <2>9, <2>10
<1>16. irqchip' = "apic" /\ stage' \in Deliver
  BY DEF ChipInv
<1> HIDE DEF rec
<1> QED BY <1>6, <1>8, <1>14, <1>15, <1>16 DEF ChipInv, rec

\* Setting up an interrupt at the APIC writes the vector of its own pin.
LEMMA ApicSetupChips ==
    ASSUME SpaceInv, PicInv, TablesInv, ChipInv, irqchip = "apic", IsaDone,
           NEW irq \in Nat, irq < ISA_IRQ_COUNT \/ io_apic_find(irq) # 0, NEW flags,
           apic_setup(irq, flags), UNCHANGED <<stage, space, firmware, irqchip, tables>>,
           owned' = owned \cup {<<"apic", irq>>}
    PROVE  ChipInv'
<1>1. ReachedChips(irq) = {Chip(irq)}
  BY RequestPin
<1>2. PICK f : WriteEntry(Chip(irq), irq,
                   [vector |-> Vector(irq), masked |-> HWIRQ_DISABLED \in f,
                    low |-> f \cap {HWIRQ_FALLING, HWIRQ_LOW} # {},
                    level |-> f \cap {HWIRQ_HIGH, HWIRQ_LOW} # {}])
  <2>1. \E f : \E chip \in ReachedChips(irq) : WriteEntry(chip, irq,
                   [vector |-> Vector(irq), masked |-> HWIRQ_DISABLED \in f,
                    low |-> f \cap {HWIRQ_FALLING, HWIRQ_LOW} # {},
                    level |-> f \cap {HWIRQ_HIGH, HWIRQ_LOW} # {}])
    BY Zenon DEF apic_setup
  <2> QED BY <1>1, <2>1
<1> DEFINE entry == [vector |-> Vector(irq), masked |-> HWIRQ_DISABLED \in f,
                     low |-> f \cap {HWIRQ_FALLING, HWIRQ_LOW} # {},
                     level |-> f \cap {HWIRQ_HIGH, HWIRQ_LOW} # {}]
<1>3. /\ <<Chip(irq), Route(irq).pin>> \in FirmwarePins(Route(irq).gsi)
      /\ Route(irq).gsi \in Nat /\ Route(irq).gsi + 32 < 255
  BY RequestPin
<1>4. Vector(irq) = Route(irq).gsi + 32 /\ Vector(irq) \in 32 .. 254
      /\ Vector(irq) - 32 = Route(irq).gsi
  <2> DEFINE g == Route(irq).gsi
  <2>1. g \in Nat /\ g + 32 < 255
    BY <1>3
  <2>2. Vector(irq) = (g + 32) % 256
    BY DEF Vector, HW_INTERRUPT_OFFSET
  <2> HIDE DEF g
  <2>3. (g + 32) % 256 = g + 32
    BY <2>1
  <2> QED BY <2>1, <2>2, <2>3 DEF g
<1>5. entry \in [vector : Nat, masked : BOOLEAN, low : BOOLEAN, level : BOOLEAN]
      /\ entry.vector = Vector(irq)
  <2>1. Vector(irq) \in Nat
    BY <1>4
  <2> HIDE DEF Vector
  <2> QED BY <2>1
<1>6. WriteEntry(Chip(irq), irq, entry)
  BY <1>2
<1> HIDE DEF entry, Vector
<1>7. entry.vector \in 32 .. 254
      /\ <<Chip(irq), Route(irq).pin>> \in FirmwarePins(entry.vector - 32)
  BY <1>3, <1>4, <1>5
<1> QED BY <1>5, <1>6, <1>7, WriteEntryChips

\* Masking and unmasking change no vector.
LEMMA ApicMaskChips ==
    ASSUME SpaceInv, PicInv, TablesInv, ChipInv, irqchip = "apic", IsaDone,
           NEW irq \in Nat, <<"apic", irq>> \in owned, NEW masked \in BOOLEAN,
           apic_set_mask(irq, masked), UNCHANGED <<stage, space, firmware, irqchip, tables, owned>>
    PROVE  ChipInv'
<1> DEFINE old == redtbl[Chip(irq)][Route(irq).pin]
           entry == [old EXCEPT !.masked = masked]
           rec == [vector : Nat, masked : BOOLEAN, low : BOOLEAN, level : BOOLEAN]
<1>1. /\ irq < ISA_IRQ_COUNT \/ io_apic_find(irq) # 0
      /\ stage # "panic" => Delivers(Chip(irq), Route(irq).pin)
  <2>1. PICK o \in owned : o[1] = "apic" /\ o[2] = irq
    OBVIOUS
  <2> QED BY <2>1 DEF ChipInv
<1>2. ReachedChips(irq) = {Chip(irq)}
  BY <1>1, RequestPin
<1>3. WriteEntry(Chip(irq), irq, entry)
  BY <1>2 DEF apic_set_mask
<1>4. Delivers(Chip(irq), Route(irq).pin)
  BY <1>1 DEF IsaDone
<1>5. Chip(irq) \in DOMAIN IoApicPins /\ Route(irq).pin \in 0 .. IoApicPins[Chip(irq)] - 1
  BY <1>1, RequestPin
<1>6. old \in rec
  <2>1. redtbl[Chip(irq)] \in [0 .. IoApicPins[Chip(irq)] - 1 -> rec]
    BY <1>5 DEF ChipInv
  <2> HIDE DEF rec
  <2> QED BY <1>5, <2>1
<1>7. old.vector \in 32 .. 254 /\ <<Chip(irq), Route(irq).pin>> \in FirmwarePins(old.vector - 32)
  <2>1. SPURIOUS_INTERRUPT_VECTOR - 1 = 254 /\ HW_INTERRUPT_OFFSET = 32
    BY DEF SPURIOUS_INTERRUPT_VECTOR, HW_INTERRUPT_OFFSET
  <2> QED BY <1>4, <2>1 DEF Delivers
<1> HIDE DEF old
<1>8. entry \in rec /\ entry.vector = old.vector
  BY <1>6
<1> HIDE DEF entry
<1>9. entry.vector \in 32 .. 254 /\ <<Chip(irq), Route(irq).pin>> \in FirmwarePins(entry.vector - 32)
  BY <1>7, <1>8
<1> QED BY <1>3, <1>1, <1>8, <1>9, WriteEntryChips

-----------------------------------------------------------------------------
(* The steps together.                                                     *)

\* When which chip is registered.
LEMMA IrqchipStages ==
    ASSUME PicInv, ChipInv
    PROVE  /\ irqchip \in {"none", "i8259a", "apic"}
           /\ irqchip = "none" <=> stage \in Unpaged \cup {"jump", "setup_i8259a"}
           /\ irqchip = "apic" => stage \in Deliver
BY DEF PicInv, ChipInv

\* The invariant is kept by paging and the remap,
LEMMA BootStep ==
    ASSUME IInv, boot
    PROVE  IInv'
<1> USE DEF IInv
<1>1. UNCHANGED <<firmware, hdr, irqchip, chips, tables, owned>>
  BY DEF boot
<1>2. UNCHANGED <<io_apic, isa_irq, pic_irq_mask, pic, redtbl>>
  BY <1>1 DEF chips, tables
<1>3. /\ stage \in Unmapped /\ stage' \in Unmapped
      /\ stage' \in Unpaged \cup {"jump", "setup_i8259a"}
             <=> stage \in Unpaged \cup {"jump", "setup_i8259a"}
  BY DEF boot, fill_tables, fill_directory, enable_paging, jump, init_phys_mem_map,
         remap_lower_memory, Unmapped, Unpaged, Physical
<1>4. SpaceInv'
  BY BootSpace
<1>5. irqchip # "apic"
  BY <1>3, IrqchipStages DEF Unmapped, Unpaged, Physical, Deliver
<1>6. PicInv'
  BY <1>1, <1>2, <1>3, IrqchipStages, PicFrame
<1>7. mapped = {}
  BY <1>3 DEF SpaceInv, WindowInv
<1>8. TablesInv'
  BY <1>1, <1>2, <1>3, <1>7, TablesFrame
<1>9. ChipInv'
  BY <1>1, <1>2, <1>5, ChipFrameUnused
<1> QED BY <1>4, <1>6, <1>8, <1>9

\* by setting up the 8259As,
LEMMA SetupPicStep ==
    ASSUME IInv, setup_i8259a
    PROVE  IInv'
<1> USE DEF IInv
<1>1. /\ stage = "setup_i8259a" /\ stage' = "init_phys_mem_map" /\ irqchip' = "i8259a"
      /\ UNCHANGED <<space, firmware, hdr, redtbl, io_apic, isa_irq, owned>>
  BY DEF setup_i8259a, tables
<1>2. SpaceInv'
  <2>1. stage \in Physical /\ stage' \in Physical /\ stage' \in Stages
    BY <1>1 DEF Physical, Stages
  <2> QED BY <1>1, <2>1, SpaceFrame
<1>3. PicInv'
  BY SetupPic
<1>4. TablesInv'
  <2>1. stage \in Unmapped /\ stage' \in Unmapped /\ mapped' = mapped
    BY <1>1 DEF Unmapped, Physical, space
  <2> QED BY <1>1, <2>1, TablesFrame
<1>5. ChipInv'
  <2>1. irqchip # "apic" /\ irqchip' # "apic"
    BY <1>1, IrqchipStages DEF Deliver
  <2> QED BY <1>1, <2>1, ChipFrameUnused
<1> QED BY <1>2, <1>3, <1>4, <1>5

\* The steps that read the firmware's tables, none of which writes to a chip.
LEMMA ReadTablesStep ==
    ASSUME IInv,
           \/ setup_acpi \/ io_apic_isa_defaults
           \/ \E type \in {"io_apic", "isa_source", "local_apic"} : acpi_parse_madt(type)
    PROVE  IInv'
<1> USE DEF IInv
<1> DEFINE Reading == {"setup_acpi", "io_apic", "isa_defaults", "isa_source", "local_apic",
                       "register", "panic"}
<1>1. /\ stage \in Reading \ {"panic", "register"} /\ stage' \in Reading
      /\ UNCHANGED <<firmware, irqchip, chips, owned>>
      /\ SpaceInv' /\ TablesInv'
  <2>1. CASE setup_acpi
    <3>1. stage = "setup_acpi" /\ stage' = "io_apic" /\ UNCHANGED <<firmware, irqchip, chips, owned>>
      BY <2>1 DEF setup_acpi, NextStage
    <3> QED BY <2>1, <3>1, SetupAcpiTables
  <2>2. CASE io_apic_isa_defaults
    <3>1. /\ stage = "isa_defaults" /\ stage' \in {"panic", "isa_source"}
          /\ UNCHANGED <<firmware, irqchip, chips, owned>>
      BY <2>2 DEF io_apic_isa_defaults, NextStage
    <3> QED BY <2>2, <3>1, DefaultsTables
  <2>3. ASSUME NEW type \in {"io_apic", "isa_source", "local_apic"}, acpi_parse_madt(type)
        PROVE  /\ stage \in Reading \ {"panic", "register"} /\ stage' \in Reading
               /\ UNCHANGED <<firmware, irqchip, chips, owned>>
               /\ SpaceInv' /\ TablesInv'
    <3>1. type \in Parsed
      BY DEF Parsed
    <3>2. SpaceInv' /\ TablesInv'
      BY <2>3, <3>1, ParseTables
    <3>3. stage = type /\ UNCHANGED <<firmware, irqchip, chips, owned>>
      BY <2>3, <3>1, ParseCases
    <3>4. stage' \in {stage, "panic", NextStage(stage)}
      BY <2>3, <3>1, ParseCases
             DEF acpi_handle_io_apic, acpi_handle_isa_source, acpi_handle_local_apic
    <3>5. NextStage(stage) \in Reading
      BY <3>3 DEF NextStage
    <3> QED BY <3>2, <3>3, <3>4, <3>5
  <2> QED BY <2>1, <2>2, <2>3
<1>2. UNCHANGED <<pic_irq_mask, pic, redtbl>>
  BY <1>1 DEF chips
<1>3. irqchip = "i8259a"
  <2>1. stage \notin Deliver /\ stage \notin Unpaged \cup {"jump", "setup_i8259a"}
    BY <1>1 DEF Deliver, Unpaged
  <2> QED BY <2>1, IrqchipStages
<1>4. PicInv'
  <2>1. stage' \notin Unpaged \cup {"jump", "setup_i8259a"}
    BY <1>1 DEF Unpaged
  <2> QED BY <1>1, <1>2, <1>3, <2>1, PicFrame
<1>5. ChipInv'
  BY <1>1, <1>2, <1>3, ChipFrameUnused
<1> QED BY <1>1, <1>4, <1>5

\* by registering the APIC,
LEMMA RegisterStep ==
    ASSUME IInv, register_apic
    PROVE  IInv'
<1> USE DEF IInv
<1>1. /\ stage = "register" /\ stage' = "setup_local_apic" /\ irqchip' = "apic"
      /\ kmap(LocalApicFrame)
      /\ UNCHANGED <<firmware, hdr, pic_irq_mask, pic, redtbl, io_apic, isa_irq, owned>>
  BY DEF register_apic, NextStage, chips
<1>2. SpaceInv' /\ mapped' = mapped \cup {<<kmap_addr(LocalApicFrame), LocalApicFrame>>}
  <2>1. /\ LocalApicFrame \in Nat /\ stage \notin Unmapped /\ stage' \in Stages \ Unmapped
        /\ stage # "ready"
    BY <1>1, FirmwareAssumption DEF Unmapped, Unpaged, Physical, Stages
  <2> QED BY <1>1, <2>1, KmapSpace
<1>3. irqchip = "i8259a"
  <2>1. stage \notin Deliver /\ stage \notin Unpaged \cup {"jump", "setup_i8259a"}
    BY <1>1 DEF Deliver, Unpaged
  <2> QED BY <2>1, IrqchipStages
<1>4. PicInv'
  <2>1. stage' \notin Unpaged \cup {"jump", "setup_i8259a"}
    BY <1>1 DEF Unpaged
  <2> QED BY <1>1, <1>3, <2>1, PicFrame
<1>5. TablesInv'
  BY <1>1, <1>2, TablesFrame
<1>6. ChipInv'
  BY <1>1, <1>3, ChipFrameUnused DEF Deliver
<1> QED BY <1>2, <1>4, <1>5, <1>6

\* by setting up the local APIC,
LEMMA LocalApicStep ==
    ASSUME IInv, setup_local_apic
    PROVE  IInv'
<1> USE DEF IInv
<1>1. /\ stage = "setup_local_apic" /\ stage' \in {"panic", "ready"}
      /\ UNCHANGED <<space, firmware, hdr, irqchip, pic_irq_mask, pic, redtbl,
                     io_apic, isa_irq, owned, mapped>>
  BY DEF setup_local_apic, tables, space
<1>2. SpaceInv'
  <2>1. stage \notin Unmapped \cup {"ready"} /\ stage' \notin Unmapped /\ stage' \in Stages
    BY <1>1 DEF Unmapped, Unpaged, Physical, Stages
  <2> QED BY <1>1, <2>1, SpaceFrame
<1>3. irqchip # "none" /\ irqchip \in {"none", "i8259a", "apic"}
  BY <1>1, IrqchipStages DEF Unpaged
<1>4. PicInv'
  <2>1. stage' \notin Unpaged \cup {"jump", "setup_i8259a"}
    BY <1>1 DEF Unpaged
  <2> QED BY <1>1, <1>3, <2>1, PicFrame
<1>5. TablesInv'
  BY <1>1, TablesFrame
<1>6. ChipInv'
  <2>1. stage' \in Deliver /\ stage # "panic"
    BY <1>1 DEF Deliver
  <2>2. CASE irqchip = "apic"
    BY <1>1, <1>2, <2>1, <2>2, ChipFrameUsed
  <2>3. CASE irqchip # "apic"
    BY <1>1, <2>1, <2>3, ChipFrameUnused
  <2> QED BY <2>2, <2>3
<1> QED BY <1>2, <1>4, <1>5, <1>6

\* A request leaves the space and the tables alone.
LEMMA RequestFrame ==
    ASSUME IInv, Request
    PROVE  /\ SpaceInv' /\ TablesInv'
           /\ UNCHANGED <<stage, space, firmware, irqchip, tables, io_apic, isa_irq>>
           /\ irqchip = "apic" => IsaDone
<1> USE DEF IInv
<1>1. UNCHANGED <<stage, space, firmware, hdr, irqchip, tables, io_apic, isa_irq, mapped>>
      /\ stage # "panic"
  BY DEF Request, tables, space
<1>2. SpaceInv'
  <2>1. stage' \in Stages
    BY <1>1 DEF SpaceInv, PagingInv
  <2> QED BY <1>1, <2>1, SpaceFrame
<1>3. TablesInv'
  BY <1>1, TablesFrame
<1>4. irqchip = "apic" => IsaDone
  BY <1>1, IrqchipStages DEF Deliver, IsaDone
<1> QED BY <1>1, <1>2, <1>3, <1>4

\* A request to the 8259As.
LEMMA PicRequestStep ==
    ASSUME IInv, Request, irqchip = "i8259a", NEW irq \in Nat, irq < 16,
           pic_mask(irq) \/ pic_unmask(irq),
           owned' \subseteq owned \cup {<<"i8259a", irq>>}
    PROVE  IInv'
<1>1. SpaceInv' /\ TablesInv' /\ UNCHANGED <<stage, firmware, irqchip>>
  BY RequestFrame
<1>2. PicInv'
  BY <1>1, PicRequest DEF IInv
<1>3. UNCHANGED redtbl
  BY DEF pic_mask, pic_unmask, pic_set_mask
<1>4. ChipInv'
  <2>1. \A o \in owned' : o[1] = "apic" => o \in owned
    OBVIOUS
  <2> QED BY <1>1, <1>3, <2>1, ChipFrameUnused DEF IInv
<1> QED BY <1>1, <1>2, <1>4 DEF IInv

\* A request to the APICs does not touch the 8259As.
LEMMA ApicRequestPic ==
    ASSUME IInv, Request, irqchip = "apic", NEW irq \in Nat, NEW chip, NEW entry,
           WriteEntry(chip, irq, entry), owned' \subseteq owned \cup {<<"apic", irq>>}
    PROVE  PicInv'
<1>1. UNCHANGED <<stage, irqchip, pic_irq_mask, pic>>
  BY RequestFrame DEF WriteEntry
<1>2. PicInv
  BY DEF IInv
<1>3. owned' \subseteq {"i8259a", "apic"} \X Nat /\ \A o \in owned' : o[1] = "i8259a" => o[2] < 16
  BY <1>2 DEF PicInv
<1> QED BY <1>1, <1>2, <1>3 DEF PicInv

\* by a driver that sets up an interrupt,
LEMMA SetupRequestStep ==
    ASSUME IInv, NEW irq \in Irqs, NEW flags \in SetupFlags, irqchip_setup(irq, flags)
    PROVE  IInv'
<1>1. /\ Request /\ Known(irq) /\ owned' = owned \cup {<<irqchip, irq>>} /\ irq \in Nat
      /\ irqchip = "apic" => apic_setup(irq, flags)
      /\ irqchip # "apic" => pic_setup(irq, flags)
  BY IrqAssumption DEF irqchip_setup
<1>2. CASE irqchip = "apic"
  <2>1. irq < ISA_IRQ_COUNT \/ io_apic_find(irq) # 0
    BY <1>1, <1>2 DEF Known
  <2>2. /\ SpaceInv' /\ TablesInv' /\ IsaDone
        /\ UNCHANGED <<stage, space, firmware, irqchip, tables>>
    BY <1>1, <1>2, RequestFrame
  <2>3. apic_setup(irq, flags) /\ owned' = owned \cup {<<"apic", irq>>}
    BY <1>1, <1>2
  <2>4. ChipInv'
    BY <1>1, <1>2, <2>1, <2>2, <2>3, ApicSetupChips DEF IInv
  <2>5. PICK chip, entry : WriteEntry(chip, irq, entry)
    BY <2>3 DEF apic_setup
  <2>6. PicInv'
    BY <1>1, <1>2, <2>3, <2>5, ApicRequestPic
  <2> QED BY <2>2, <2>4, <2>6 DEF IInv
<1>3. CASE irqchip # "apic"
  <2>1. irqchip = "i8259a" /\ irq < 16
    BY <1>1, <1>3 DEF Known
  <2>2. pic_mask(irq) \/ pic_unmask(irq)
    BY <1>1, <1>3 DEF pic_setup
  <2> QED BY <1>1, <2>1, <2>2, PicRequestStep
<1> QED BY <1>2, <1>3

\* by one that masks or unmasks its own,
LEMMA MaskRequestStep ==
    ASSUME IInv, NEW irq \in Irqs, irqchip_mask(irq) \/ irqchip_unmask(irq)
    PROVE  IInv'
<1>1. /\ Request /\ <<irqchip, irq>> \in owned /\ owned' = owned /\ irq \in Nat
      /\ irqchip = "apic" => \E masked \in BOOLEAN : apic_set_mask(irq, masked)
      /\ irqchip # "apic" => pic_mask(irq) \/ pic_unmask(irq)
  BY IrqAssumption DEF irqchip_mask, irqchip_unmask
<1>2. CASE irqchip = "apic"
  <2>1. PICK masked \in BOOLEAN : apic_set_mask(irq, masked)
    BY <1>1, <1>2
  <2>2. /\ SpaceInv' /\ TablesInv' /\ IsaDone
        /\ UNCHANGED <<stage, space, firmware, irqchip, tables, owned>>
    BY <1>1, <1>2, RequestFrame
  <2>3. <<"apic", irq>> \in owned
    BY <1>1, <1>2
  <2>4. ChipInv'
    BY <1>1, <1>2, <2>1, <2>2, <2>3, ApicMaskChips DEF IInv
  <2>5. PICK chip, entry : WriteEntry(chip, irq, entry)
    BY <2>1 DEF apic_set_mask
  <2>6. PicInv'
    BY <1>1, <1>2, <2>5, ApicRequestPic
  <2> QED BY <2>2, <2>4, <2>6 DEF IInv
<1>3. CASE irqchip # "apic"
  <2>1. irqchip = "i8259a" /\ irq < 16
    <3>1. PICK o \in owned : o[1] = irqchip /\ o[2] = irq
      BY <1>1
    <3>2. o \in {"i8259a", "apic"} \X Nat
      BY DEF IInv, PicInv
    <3>3. o[1] = "i8259a"
      BY <1>3, <3>1, <3>2
    <3> QED BY <3>1, <3>3 DEF IInv, PicInv
  <2> QED BY <1>1, <1>3, <2>1, PicRequestStep
<1> QED BY <1>2, <1>3

\* by one that maps a page,
LEMMA DriverKmapStep ==
    ASSUME IInv, NEW p \in DriverFrames, driver_kmap(p)
    PROVE  IInv'
<1> USE DEF IInv
<1>1. /\ stage = "ready" /\ stage' = "ready" /\ kmap(p) /\ p \in Nat
      /\ UNCHANGED <<firmware, hdr, irqchip, pic_irq_mask, pic, redtbl, io_apic, isa_irq, owned>>
  BY FirmwareAssumption DEF driver_kmap, chips, tables
<1>2. SpaceInv' /\ \A m \in mapped : m \in mapped'
  <2>1. stage \notin Unmapped /\ stage' \in Stages \ Unmapped
    BY <1>1 DEF Unmapped, Unpaged, Physical, Stages
  <2> QED BY <1>1, <2>1, KmapSpace
<1>3. PicInv'
  BY <1>1, IrqchipStages, PicFrame
<1>4. TablesInv'
  BY <1>1, <1>2, TablesFrame
<1>5. ChipInv'
  <2>1. CASE irqchip = "apic"
    BY <1>1, <1>2, <2>1, ChipFrameUsed DEF Deliver
  <2>2. CASE irqchip # "apic"
    BY <1>1, <2>2, ChipFrameUnused
  <2> QED BY <2>1, <2>2
<1> QED BY <1>2, <1>3, <1>4, <1>5

\* and by one that unmaps what it mapped.
LEMMA DriverKunmapStep ==
    ASSUME IInv, NEW m \in mapped, driver_kunmap(m)
    PROVE  IInv'
<1> USE DEF IInv
<1>1. /\ stage = "ready" /\ stage' = "ready" /\ kunmap(m[1]) /\ m[2] \in DriverFrames
      /\ UNCHANGED <<firmware, hdr, irqchip, pic_irq_mask, pic, redtbl, io_apic, isa_irq, owned>>
  BY DEF driver_kunmap, chips, tables
<1>2. SpaceInv' /\ \A n \in mapped : n[2] \notin DriverFrames => n \in mapped'
  BY <1>1, KunmapSpace
<1>3. PicInv'
  BY <1>1, IrqchipStages, PicFrame
<1>4. TablesInv'
  BY <1>1, <1>2, TablesFrame
<1>5. ChipInv'
  <2>1. CASE irqchip = "apic"
    BY <1>1, <1>2, <2>1, ChipFrameUsed DEF Deliver
  <2>2. CASE irqchip # "apic"
    BY <1>1, <2>2, ChipFrameUnused
  <2> QED BY <2>1, <2>2
<1> QED BY <1>2, <1>3, <1>4, <1>5

-----------------------------------------------------------------------------
(* The theorems.                                                           *)

\* The inductive invariant, for every map of the machine: the tables and the
\* window of kmap, the masks, the routes and the redirection tables.
THEOREM InvariantHolds == Spec => []IInv
<1>1. Init => IInv
  BY SpaceInitInv, PicInitInv, TablesInitInv, ChipInitInv DEF Init, IInv
<1>2. ASSUME IInv, [Next]_vars PROVE IInv'
  <2>1. CASE boot
    BY <1>2, <2>1, BootStep
  <2>2. CASE setup_i8259a
    BY <1>2, <2>2, SetupPicStep
  <2>3. CASE setup_acpi \/ io_apic_isa_defaults
             \/ \E type \in {"io_apic", "isa_source", "local_apic"} : acpi_parse_madt(type)
    BY <1>2, <2>3, ReadTablesStep
  <2>4. CASE register_apic
    BY <1>2, <2>4, RegisterStep
  <2>5. CASE setup_local_apic
    BY <1>2, <2>5, LocalApicStep
  <2>6. CASE Requests
    <3>1. PICK irq \in Irqs : \/ \E flags \in SetupFlags : irqchip_setup(irq, flags)
                              \/ irqchip_mask(irq) \/ irqchip_unmask(irq)
      BY <2>6 DEF Requests
    <3> QED BY <1>2, <3>1, SetupRequestStep, MaskRequestStep
  <2>7. CASE Mappings
    BY <1>2, <2>7, DriverKmapStep, DriverKunmapStep DEF Mappings
  <2>8. CASE UNCHANGED vars
    <3> USE <2>8 DEF vars, space, chips, tables
    <3>1. SpaceInv'
      BY <1>2 DEF IInv, SpaceInv, PagingInv, WindowInv, StaleInv
    <3>2. PicInv'
      BY <1>2 DEF IInv, PicInv
    <3>3. UNCHANGED <<stage, firmware, hdr, io_apic, isa_irq, mapped, redtbl, owned, irqchip>>
      OBVIOUS
    <3>4. TablesInv'
      BY <1>2, <3>3, TablesFrame DEF IInv
    <3>5. ChipInv'
      <4>1. CASE irqchip = "apic"
        <5>1. stage \in Deliver
          BY <1>2, <4>1 DEF IInv, ChipInv
        <5> QED BY <1>2, <3>1, <3>3, <4>1, <5>1, ChipFrameUsed DEF IInv
      <4>2. CASE irqchip # "apic"
        BY <1>2, <3>3, <4>2, ChipFrameUnused DEF IInv
      <4> QED BY <4>1, <4>2
    <3> QED BY <3>1, <3>2, <3>4, <3>5 DEF IInv
  <2> QED BY <1>2, <2>1, <2>2, <2>3, <2>4, <2>5, <2>6, <2>7, <2>8 DEF Next, Setup
<1> QED BY <1>1, <1>2, PTL DEF Spec

\* Through the boot sequence and any calls of kmap and kunmap, the tables lead
\* every page in use where its user takes it to be, and unless a driver mapped it
\* through the window, the processor reaches it there.
THEOREM AddressesAlwaysReach == Spec => []AddressesReach
<1>1. IInv => AddressesReach
  BY SpaceReaches DEF IInv
<1> QED BY <1>1, InvariantHolds, PTL

\* kunmap gives back all of the window behind the last mapping in force.
THEOREM WindowAlwaysTight == Spec => []WindowTight
<1>1. IInv => WindowTight
  BY SpaceTight DEF IInv
<1> QED BY <1>1, InvariantHolds, PTL

\* From pic_remap on, both 8259As mask what pic_irq_mask says, whatever is
\* masked, unmasked and set up in which order.
THEOREM PicAlwaysMatches == Spec => []PicMatchesShadow
<1>1. IInv => PicMatchesShadow
  BY PicMatches DEF IInv
<1> QED BY <1>1, InvariantHolds, PTL

\* Whatever entries the MADT has, in whatever order, a set-up that gets behind
\* them has routed every ISA line to a pin that exists, by its last override.
THEOREM RoutesAlwaysReachPins == Spec => []RoutesReachPins
<1>1. IInv => RoutesReachPins
  BY TablesReach DEF IInv
<1> QED BY <1>1, InvariantHolds, PTL

\* An unmasked pin delivers the vector of its own interrupt, whichever lines
\* share it and whatever drivers requested, mapped and unmapped before.
THEOREM PinsAlwaysDeliver == Spec => []UnmaskedPinsDeliver
<1>1. IInv => UnmaskedPinsDeliver
  BY ChipsDeliver DEF IInv
<1> QED BY <1>1, InvariantHolds, PTL

-----------------------------------------------------------------------------
(* Complete firmware is set up without a panic.  IInv says that what is in *)
(* the tables comes from the firmware; ReadInv says that what the firmware *)
(* has gets into the tables.                                               *)

\* The I/O APICs read so far are known, as far as there is room.
ApicsRead ==
    /\ stage = "io_apic" => Len(io_apic) <= Cardinality(Entries("io_apic") \cap (1 .. hdr - 1))
    /\ stage \notin Unmapped \cup {"panic"} =>
          \A n \in KeptPlaces("io_apic", IO_APIC_MAX_COUNT) :
              (stage = "io_apic" => n < hdr) =>
                  \E i \in DOMAIN io_apic :
                      /\ io_apic[i].gsi = firmware.madt[n].gsi
                      /\ io_apic[i].irqs = IoApicPins[firmware.madt[n].paddr]

\* So are the processors.
ProcessorsRead ==
    /\ local_apic \in Seq(Nat)
    /\ stage \notin {"local_apic", "register"} \cup Deliver => local_apic = <<>>
    /\ stage = "local_apic" =>
          Len(local_apic) <= Cardinality(Entries("local_apic") \cap (1 .. hdr - 1))
    /\ stage \in {"local_apic", "register", "setup_local_apic"} =>
          \A n \in KeptPlaces("local_apic", LOCAL_APIC_MAX_COUNT) :
              (stage = "local_apic" => n < hdr) =>
                  \E i \in DOMAIN local_apic : local_apic[i] = firmware.madt[n].id

\* The processor's id is read from its own APIC.
LocalApicMapped ==
    stage = "setup_local_apic" => <<local_apic_iospace, LocalApicFrame>> \in mapped

NoPanic == Complete => stage # "panic"

ReadInv == ApicsRead /\ ProcessorsRead /\ LocalApicMapped /\ NoPanic

\* An entry that is kept was read when there was room.
LEMMA RoomLeft ==
    ASSUME firmware \in Firmwares, NEW type, NEW count \in Nat, NEW h \in DOMAIN firmware.madt,
           h \in KeptPlaces(type, count), NEW n \in Nat,
           n <= Cardinality(Entries(type) \cap (1 .. h - 1))
    PROVE  n < count
<1>1. h \in Entries(type) /\ Cardinality(Entries(type) \cap (1 .. h)) <= count
  BY DEF KeptPlaces
<1>2. PICK c \in Nat : c = Cardinality(Entries(type) \cap (1 .. h - 1))
  BY ScanNext
<1>3. Cardinality(Entries(type) \cap (1 .. h)) = c + 1
  BY <1>1, <1>2, ScanNext
<1> QED BY <1>1, <1>2, <1>3

\* What the firmware has stays what it is.
LEMMA FirmwareStays ==
    ASSUME UNCHANGED firmware
    PROVE  /\ Complete' <=> Complete
           /\ \A t : Entries(t)' = Entries(t)
           /\ \A t, c : KeptPlaces(t, c)' = KeptPlaces(t, c)
<1>1. \A t : Entries(t)' = Entries(t)
  BY DEF Entries
<1>2. \A t, c : KeptPlaces(t, c)' = KeptPlaces(t, c)
  BY DEF Entries, KeptPlaces
<1>3. \A t, c : Kept(t, c)' = Kept(t, c)
  BY DEF Entries, Kept
<1>4. \A g : FirmwarePins(g)' = FirmwarePins(g)
  BY <1>3 DEF FirmwarePins, Kept, Entries
<1>5. Overrides' = Overrides
  BY DEF Overrides, Entries, Useless, SourceGsi, Polarity, Trigger, SourceFlags
<1>6. acpi_available' = acpi_available /\ HasMadt' = HasMadt
  BY DEF acpi_available, HasMadt
<1>7. Complete' <=> Complete
  BY <1>3, <1>4, <1>5, <1>6 DEF Complete, FirmwarePins, Kept, Entries, SourceGsi
<1> QED BY <1>1, <1>2, <1>7

\* When all of them are read, io_apic_find finds what the firmware has a pin for.
LEMMA FindAll ==
    ASSUME IInv, ApicsRead, stage \notin Unmapped \cup {"io_apic", "panic"},
           NEW g \in Nat, FirmwarePins(g) # {}
    PROVE  io_apic_find(g) # 0
<1>1. PICK e \in Kept("io_apic", IO_APIC_MAX_COUNT) :
          g \in e.gsi .. e.gsi + IoApicPins[e.paddr] - 1
  BY DEF FirmwarePins
<1>2. PICK n \in KeptPlaces("io_apic", IO_APIC_MAX_COUNT) : e = firmware.madt[n]
  BY DEF Kept, KeptPlaces
<1>3. n \in DOMAIN firmware.madt /\ firmware.madt[n].type = "io_apic"
  BY DEF KeptPlaces, Entries
<1>4. e.gsi \in Nat /\ IoApicPins[e.paddr] \in Nat
  <2>1. firmware \in Firmwares
    BY DEF IInv, TablesInv, CursorInv
  <2> QED BY <1>2, <1>3, <2>1, EntryFacts
<1>5. PICK i \in DOMAIN io_apic : io_apic[i].gsi = e.gsi /\ io_apic[i].irqs = IoApicPins[e.paddr]
  BY <1>2 DEF ApicsRead
<1>6. e.gsi <= g /\ e.gsi + IoApicPins[e.paddr] > g
  BY <1>1, <1>4
<1>7. Covers(io_apic[i], g)
  BY <1>5, <1>6 DEF Covers
<1> DEFINE found == {j \in DOMAIN io_apic : Covers(io_apic[j], g)}
<1>8. found # {} /\ found \in SUBSET (Nat \ {0})
  <2>1. io_apic \in Seq([iospace : Nat, gsi : Nat, irqs : Nat])
    BY DEF IInv, TablesInv, ApicsInv
  <2>2. Len(io_apic) \in Nat /\ DOMAIN io_apic = 1 .. Len(io_apic)
    BY ONLY <2>1
  <2> QED BY <1>7, <2>2
<1>9. io_apic_find(g) = Min(found)
  BY <1>8 DEF io_apic_find
<1> HIDE DEF found
<1>10. \E x \in found : \A y \in found : x <= y
  BY <1>8, LeastNat
<1>11. Min(found) \in found
  BY <1>10 DEF Min
<1> QED BY <1>8, <1>9, <1>11

\* A step that reads no entry for the I/O APICs, or the last one.
LEMMA ApicsReadFrame ==
    ASSUME IInv, ApicsRead, UNCHANGED <<firmware, io_apic>>,
           \/ stage' \in Unmapped \cup {"panic"}
           \/ stage' = stage /\ UNCHANGED hdr
           \/ stage \notin Unmapped \cup {"io_apic", "panic"} /\ stage' # "io_apic"
           \/ stage = "io_apic" /\ stage' # "io_apic" /\ hdr > Len(firmware.madt)
    PROVE  ApicsRead'
<1>1. /\ Entries("io_apic")' = Entries("io_apic")
      /\ KeptPlaces("io_apic", IO_APIC_MAX_COUNT)' = KeptPlaces("io_apic", IO_APIC_MAX_COUNT)
  BY FirmwareStays
<1>2. "io_apic" \notin Unmapped \cup {"panic"}
  BY DEF Unmapped, Unpaged, Physical
<1>3. CASE stage' \in Unmapped \cup {"panic"}
  BY <1>2, <1>3 DEF ApicsRead
<1>4. CASE stage' = stage /\ UNCHANGED hdr
  BY <1>1, <1>4 DEF ApicsRead
<1>5. CASE stage \notin Unmapped \cup {"io_apic", "panic"} /\ stage' # "io_apic"
  BY <1>1, <1>5 DEF ApicsRead
<1>6. CASE stage = "io_apic" /\ stage' # "io_apic" /\ hdr > Len(firmware.madt)
  <2>1. /\ firmware \in Firmwares /\ hdr \in 1 .. Len(firmware.madt) + 1
        /\ Len(firmware.madt) \in Nat /\ DOMAIN firmware.madt = 1 .. Len(firmware.madt)
    BY EntryFacts DEF IInv, TablesInv, CursorInv
  <2>2. \A n \in KeptPlaces("io_apic", IO_APIC_MAX_COUNT) : n < hdr
    BY <1>6, <2>1 DEF KeptPlaces, Entries
  <2> QED BY <1>1, <1>2, <1>6, <2>2 DEF ApicsRead
<1> QED BY <1>3, <1>4, <1>5, <1>6

\* An entry of the first pass.
LEMMA ApicsReadEntry ==
    ASSUME IInv, ApicsRead, UNCHANGED firmware, stage = "io_apic", stage' = stage,
           ~ (hdr > Len(firmware.madt)), hdr' = hdr + 1,
           \/ firmware.madt[hdr].type # "io_apic" /\ UNCHANGED io_apic
           \/ firmware.madt[hdr].type = "io_apic" /\ acpi_handle_io_apic(firmware.madt[hdr])
    PROVE  ApicsRead'
<1> DEFINE e == firmware.madt[hdr]
           E == Entries("io_apic")
           K == KeptPlaces("io_apic", IO_APIC_MAX_COUNT)
           In(n) == \E i \in DOMAIN io_apic :
                          /\ io_apic[i].gsi = firmware.madt[n].gsi
                          /\ io_apic[i].irqs = IoApicPins[firmware.madt[n].paddr]
           InNext(n) == \E i \in DOMAIN io_apic' :
                          /\ io_apic'[i].gsi = firmware.madt[n].gsi
                          /\ io_apic'[i].irqs = IoApicPins[firmware.madt[n].paddr]
<1>1. /\ firmware \in Firmwares /\ hdr \in DOMAIN firmware.madt /\ hdr \in Nat
      /\ DOMAIN firmware.madt \subseteq Nat
  <2>1. /\ firmware \in Firmwares /\ hdr \in 1 .. Len(firmware.madt) + 1
        /\ Len(firmware.madt) \in Nat /\ DOMAIN firmware.madt = 1 .. Len(firmware.madt)
    BY EntryFacts DEF IInv, TablesInv, CursorInv
  <2> QED BY <2>1
<1>2. stage \notin Unmapped \cup {"panic"}
  BY DEF Unmapped, Unpaged, Physical
<1>3. PICK l \in Nat : l = Len(io_apic)
  <2>1. io_apic \in Seq([iospace : Nat, gsi : Nat, irqs : Nat])
    BY DEF IInv, TablesInv, ApicsInv
  <2> QED BY ONLY <2>1
<1>4. l <= Cardinality(E \cap (1 .. hdr - 1)) /\ \A n \in K : n < hdr => In(n)
  BY <1>2, <1>3 DEF ApicsRead
<1>5. E' = E /\ K' = K
  BY FirmwareStays
<1>6. hdr' - 1 = hdr /\ \A n \in K : n < hdr' <=> (n < hdr \/ n = hdr)
  BY <1>1 DEF KeptPlaces, Entries
<1>7. SUFFICES /\ Len(io_apic') <= Cardinality(E \cap (1 .. hdr))
               /\ \A n \in K : n < hdr => InNext(n)
               /\ hdr \in K => InNext(hdr)
  BY <1>5, <1>6 DEF ApicsRead
<1>8. PICK c \in Nat : c = Cardinality(E \cap (1 .. hdr - 1))
  BY <1>1, ScanNext
<1>9. CASE e.type # "io_apic" /\ UNCHANGED io_apic
  <2>1. hdr \notin E
    BY <1>9 DEF Entries
  <2>2. hdr \notin K /\ E \cap (1 .. hdr) = E \cap (1 .. hdr - 1)
    BY <1>1, <2>1, ScanNext DEF KeptPlaces
  <2> QED BY <1>3, <1>4, <1>9, <2>2
<1>10. CASE e.type = "io_apic" /\ acpi_handle_io_apic(e)
  <2>1. hdr \in E
    BY <1>1, <1>10 DEF Entries
  <2>2. Cardinality(E \cap (1 .. hdr)) = c + 1
    BY <1>1, <1>8, <2>1, ScanNext
  <2>3. CASE Len(io_apic) = IO_APIC_MAX_COUNT
    <3>1. UNCHANGED io_apic
      BY <1>10, <2>3 DEF acpi_handle_io_apic
    <3>2. ASSUME hdr \in K PROVE FALSE
      <4>1. IO_APIC_MAX_COUNT \in Nat /\ l = IO_APIC_MAX_COUNT
        BY <1>3, <2>3, IrqAssumption
      <4>2. l < IO_APIC_MAX_COUNT
        BY <1>1, <1>3, <1>4, <3>2, <4>1, RoomLeft
      <4> QED BY <4>1, <4>2
    <3>3. l <= c + 1
      BY <1>3, <1>4, <1>8
    <3> QED BY <1>3, <1>4, <2>2, <3>1, <3>2, <3>3
  <2>4. CASE Len(io_apic) # IO_APIC_MAX_COUNT
    <3>1. PICK a : io_apic' = Append(io_apic, [iospace |-> a, gsi |-> e.gsi,
                                      irqs |-> IoApicPins[Translate(kernel_page_tables', a)]])
                   /\ a = kmap_addr(e.paddr) /\ kmap(e.paddr)
      <4>1. stale = {}
        BY DEF IInv, SpaceInv, StaleInv
      <4> QED BY <1>10, <2>4, <4>1, FreshHandler
    <3>2. Translate(kernel_page_tables', a) = e.paddr
      <4>1. e.paddr \in Nat
        BY <1>1, <1>10, EntryFacts
      <4>2. SpaceInv' /\ <<a, e.paddr>> \in mapped'
        <5>1. stage' \in Stages \ Unmapped /\ stage # "ready"
          BY <1>2 DEF Stages
        <5> QED BY <1>2, <3>1, <4>1, <5>1, KmapSpace DEF IInv
      <4>3. PICK m \in mapped' : m[1] = a /\ m[2] = e.paddr
        <5> HIDE DEF e
        <5> QED BY <4>2
      <4>4. Frame(m[1])' = m[2]
        BY <4>2, MappedFramesNext
      <4>5. Frame(m[1])' = Translate(kernel_page_tables', m[1])
        BY <3>1 DEF Frame, Translate, kmap
      <4> QED BY <4>3, <4>4, <4>5
    <3> DEFINE new == [iospace |-> a, gsi |-> e.gsi, irqs |-> IoApicPins[e.paddr]]
    <3>3. io_apic' = Append(io_apic, new) /\ new.gsi = e.gsi /\ new.irqs = IoApicPins[e.paddr]
      BY <3>1, <3>2
    <3> HIDE DEF new
    <3>4. /\ Len(io_apic') = l + 1 /\ \A i \in DOMAIN io_apic : io_apic'[i] = io_apic[i]
          /\ io_apic'[l + 1] = new /\ l + 1 \in DOMAIN io_apic'
          /\ DOMAIN io_apic \subseteq DOMAIN io_apic'
      <4>1. io_apic \in Seq([iospace : Nat, gsi : Nat, irqs : Nat])
        BY DEF IInv, TablesInv, ApicsInv
      <4>2. Len(io_apic) = l /\ io_apic' = Append(io_apic, new) /\ l \in Nat
        BY <1>3, <3>3
      <4> QED BY ONLY <4>1, <4>2
    <3>5. \A n : In(n) => InNext(n)
      BY <3>4
    <3>6. InNext(hdr)
      BY <3>3, <3>4
    <3>7. l + 1 <= c + 1
      BY <1>4, <1>8
    <3> HIDE DEF In, InNext, K, E
    <3> QED BY <1>4, <2>2, <3>4, <3>5, <3>6, <3>7
  <2> QED BY <2>3, <2>4
<1> QED BY <1>9, <1>10

\* Every step keeps what is known of the I/O APICs.
LEMMA ApicsReadStep ==
    ASSUME IInv, ApicsRead, [Next]_vars
    PROVE  ApicsRead'
<1>1. CASE boot \/ setup_i8259a
  <2>1. stage' \in Unmapped /\ UNCHANGED <<firmware, io_apic>>
    BY <1>1 DEF boot, fill_tables, fill_directory, enable_paging, jump, init_phys_mem_map,
           remap_lower_memory, setup_i8259a, Unmapped, Unpaged, Physical, tables
  <2> QED BY <2>1, ApicsReadFrame
<1>2. CASE setup_acpi
  <2>1. stage = "setup_acpi" /\ stage' = "io_apic" /\ UNCHANGED <<firmware, hdr, io_apic>>
    BY <1>2 DEF setup_acpi, NextStage, tables
  <2>2. io_apic = <<>> /\ hdr = 1
    BY <2>1 DEF IInv, TablesInv, ApicsInv, CursorInv, Parsed, Unmapped
  <2>3. /\ Entries("io_apic") \cap (1 .. hdr - 1) = {}
        /\ \A n \in KeptPlaces("io_apic", IO_APIC_MAX_COUNT) : ~ (n < hdr)
    <3>1. firmware \in Firmwares
      BY DEF IInv, TablesInv, CursorInv
    <3>2. DOMAIN firmware.madt = 1 .. Len(firmware.madt) /\ Len(firmware.madt) \in Nat
      BY <3>1, EntryFacts
    <3> QED BY <2>2, <3>2 DEF KeptPlaces, Entries
  <2>4. Len(io_apic) = 0 /\ Cardinality(Entries("io_apic") \cap (1 .. hdr - 1)) = 0
    BY <2>2, <2>3, FS_EmptySet
  <2>5. /\ Entries("io_apic")' = Entries("io_apic")
        /\ KeptPlaces("io_apic", IO_APIC_MAX_COUNT)' = KeptPlaces("io_apic", IO_APIC_MAX_COUNT)
    BY <2>1, FirmwareStays
  <2>6. Len(io_apic') <= Cardinality(Entries("io_apic")' \cap (1 .. hdr' - 1))
    BY <2>1, <2>4, <2>5
  <2>7. \A n \in KeptPlaces("io_apic", IO_APIC_MAX_COUNT)' : ~ (n < hdr')
    BY <2>1, <2>3, <2>5
  <2> QED BY <2>1, <2>6, <2>7 DEF ApicsRead
<1>3. ASSUME NEW type \in Parsed, acpi_parse_madt(type) PROVE ApicsRead'
  <2>1. stage = type /\ UNCHANGED firmware
    BY <1>3, ParseCases
  <2>2. CASE stage' = "panic" /\ UNCHANGED <<space, hdr, tables>>
    BY <2>1, <2>2, ApicsReadFrame DEF tables
  <2>3. CASE /\ hdr > Len(firmware.madt)
             /\ stage' = NextStage(stage) /\ hdr' = 1 /\ UNCHANGED <<space, tables>>
    <3>1. stage' # "io_apic" /\ stage \notin Unmapped \cup {"panic"}
      BY <2>1, <2>3 DEF NextStage, Parsed, Unmapped, Unpaged, Physical
    <3> QED BY <2>1, <2>3, <3>1, ApicsReadFrame DEF tables
  <2>4. CASE ~ (hdr > Len(firmware.madt)) /\ hdr' = hdr + 1 /\ stage' = "panic"
    <3>1. type # "io_apic"
      BY <1>3, <2>1, <2>4, ParseCases DEF acpi_handle_io_apic
    <3>2. UNCHANGED io_apic
      BY <1>3, <2>4, <3>1, ParseCases DEF acpi_handle_isa_source, acpi_handle_local_apic, tables
    <3> QED BY <2>1, <2>4, <3>2, ApicsReadFrame
  <2>5. CASE /\ ~ (hdr > Len(firmware.madt)) /\ hdr' = hdr + 1
             /\ stage' # "panic" /\ type = "io_apic"
    <3>1. stage' = stage
      BY <1>3, <2>1, <2>5, ParseCases DEF acpi_handle_io_apic
    <3>2. \/ firmware.madt[hdr].type # "io_apic" /\ UNCHANGED io_apic
          \/ firmware.madt[hdr].type = "io_apic" /\ acpi_handle_io_apic(firmware.madt[hdr])
      BY <1>3, <2>5, ParseCases DEF tables
    <3> QED BY <2>1, <2>5, <3>1, <3>2, ApicsReadEntry
  <2>6. CASE /\ ~ (hdr > Len(firmware.madt)) /\ hdr' = hdr + 1
             /\ stage' # "panic" /\ type # "io_apic"
    <3>1. UNCHANGED <<stage, io_apic>>
      BY <1>3, <2>6, ParseCases DEF acpi_handle_isa_source, acpi_handle_local_apic, tables
    <3>2. stage \notin Unmapped \cup {"io_apic", "panic"}
      BY <2>1, <2>6 DEF Parsed, Unmapped, Unpaged, Physical
    <3> QED BY <2>1, <3>1, <3>2, ApicsReadFrame
  <2> QED BY <1>3, <2>2, <2>3, <2>4, <2>5, <2>6, ParseCases
<1>4. CASE io_apic_isa_defaults \/ register_apic \/ setup_local_apic
  <2>1. /\ stage \in {"isa_defaults", "register", "setup_local_apic"}
        /\ stage' \in {"panic", "isa_source", "setup_local_apic", "ready"}
        /\ UNCHANGED <<firmware, io_apic>>
    BY <1>4 DEF io_apic_isa_defaults, register_apic, setup_local_apic, NextStage, tables
  <2>2. stage \notin Unmapped \cup {"io_apic", "panic"} /\ stage' # "io_apic"
    BY <2>1 DEF Unmapped, Unpaged, Physical
  <2> QED BY <2>1, <2>2, ApicsReadFrame
<1>5. CASE Requests \/ Mappings \/ UNCHANGED vars
  <2>1. UNCHANGED <<stage, hdr, firmware, io_apic>>
    BY <1>5 DEF Requests, irqchip_setup, irqchip_mask, irqchip_unmask, Request, Mappings,
                driver_kmap, driver_kunmap, vars, tables
  <2> QED BY <2>1, ApicsReadFrame
<1> QED BY <1>1, <1>2, <1>3, <1>4, <1>5 DEF Next, Setup, Parsed

\* A step that reads no entry for the processors, or the last one.
LEMMA ProcessorsReadFrame ==
    ASSUME IInv, ProcessorsRead, UNCHANGED <<firmware, local_apic>>,
           \/ stage' = stage /\ UNCHANGED hdr
           \/ stage' = "panic" \/ stage' = "ready"
           \/ /\ stage \notin {"local_apic", "register"} \cup Deliver
              /\ stage' \notin {"local_apic", "register"} \cup Deliver
           \/ stage = "local_apic" /\ stage' = "register" /\ hdr > Len(firmware.madt)
           \/ stage = "register" /\ stage' = "setup_local_apic"
    PROVE  ProcessorsRead'
<1>1. /\ Entries("local_apic")' = Entries("local_apic")
      /\ KeptPlaces("local_apic", LOCAL_APIC_MAX_COUNT)'
            = KeptPlaces("local_apic", LOCAL_APIC_MAX_COUNT)
  BY FirmwareStays
<1>2. CASE stage' = stage /\ UNCHANGED hdr
  BY <1>1, <1>2 DEF ProcessorsRead
<1>3. CASE stage' = "panic" \/ stage' = "ready"
  BY <1>3 DEF ProcessorsRead, Deliver
<1>4. CASE /\ stage \notin {"local_apic", "register"} \cup Deliver
           /\ stage' \notin {"local_apic", "register"} \cup Deliver
  BY <1>4 DEF ProcessorsRead, Deliver
<1>5. CASE stage = "local_apic" /\ stage' = "register" /\ hdr > Len(firmware.madt)
  <2>1. /\ firmware \in Firmwares /\ hdr \in 1 .. Len(firmware.madt) + 1
        /\ Len(firmware.madt) \in Nat /\ DOMAIN firmware.madt = 1 .. Len(firmware.madt)
    BY EntryFacts DEF IInv, TablesInv, CursorInv
  <2>2. \A n \in KeptPlaces("local_apic", LOCAL_APIC_MAX_COUNT) : n < hdr
    BY <1>5, <2>1 DEF KeptPlaces, Entries
  <2> QED BY <1>1, <1>5, <2>2 DEF ProcessorsRead
<1>6. CASE stage = "register" /\ stage' = "setup_local_apic"
  BY <1>1, <1>6 DEF ProcessorsRead, Deliver
<1> QED BY <1>2, <1>3, <1>4, <1>5, <1>6

\* An entry of the last pass.
LEMMA ProcessorsReadEntry ==
    ASSUME IInv, ProcessorsRead, UNCHANGED firmware, stage = "local_apic", stage' = stage,
           ~ (hdr > Len(firmware.madt)), hdr' = hdr + 1,
           \/ firmware.madt[hdr].type # "local_apic" /\ UNCHANGED local_apic
           \/ firmware.madt[hdr].type = "local_apic" /\ acpi_handle_local_apic(firmware.madt[hdr])
    PROVE  ProcessorsRead'
<1> DEFINE e == firmware.madt[hdr]
           E == Entries("local_apic")
           K == KeptPlaces("local_apic", LOCAL_APIC_MAX_COUNT)
           In(n) == \E i \in DOMAIN local_apic : local_apic[i] = firmware.madt[n].id
           InNext(n) == \E i \in DOMAIN local_apic' : local_apic'[i] = firmware.madt[n].id
<1>1. /\ firmware \in Firmwares /\ hdr \in DOMAIN firmware.madt /\ hdr \in Nat
      /\ DOMAIN firmware.madt \subseteq Nat
  <2>1. /\ firmware \in Firmwares /\ hdr \in 1 .. Len(firmware.madt) + 1
        /\ Len(firmware.madt) \in Nat /\ DOMAIN firmware.madt = 1 .. Len(firmware.madt)
    BY EntryFacts DEF IInv, TablesInv, CursorInv
  <2> QED BY <2>1
<1>2. PICK l \in Nat : l = Len(local_apic)
  <2>1. local_apic \in Seq(Nat)
    BY DEF ProcessorsRead
  <2> QED BY ONLY <2>1
<1>3. /\ local_apic \in Seq(Nat) /\ l <= Cardinality(E \cap (1 .. hdr - 1))
      /\ \A n \in K : n < hdr => In(n)
  BY <1>2 DEF ProcessorsRead
<1>4. E' = E /\ K' = K
  BY FirmwareStays
<1>5. hdr' - 1 = hdr /\ \A n \in K : n < hdr' <=> (n < hdr \/ n = hdr)
  BY <1>1 DEF KeptPlaces, Entries
<1>6. SUFFICES /\ local_apic' \in Seq(Nat)
               /\ Len(local_apic') <= Cardinality(E \cap (1 .. hdr))
               /\ \A n \in K : n < hdr => InNext(n)
               /\ hdr \in K => InNext(hdr)
  BY <1>4, <1>5 DEF ProcessorsRead
<1>7. PICK c \in Nat : c = Cardinality(E \cap (1 .. hdr - 1))
  BY <1>1, ScanNext
<1>8. CASE e.type # "local_apic" /\ UNCHANGED local_apic
  <2>1. hdr \notin E
    BY <1>8 DEF Entries
  <2>2. hdr \notin K /\ E \cap (1 .. hdr) = E \cap (1 .. hdr - 1)
    BY <1>1, <2>1, ScanNext DEF KeptPlaces
  <2> QED BY <1>2, <1>3, <1>8, <2>2
<1>9. CASE e.type = "local_apic" /\ acpi_handle_local_apic(e)
  <2>1. hdr \in E
    BY <1>1, <1>9 DEF Entries
  <2>2. Cardinality(E \cap (1 .. hdr)) = c + 1
    BY <1>1, <1>7, <2>1, ScanNext
  <2>3. CASE Len(local_apic) = LOCAL_APIC_MAX_COUNT
    <3>1. UNCHANGED local_apic
      BY <1>9, <2>3 DEF acpi_handle_local_apic
    <3>2. ASSUME hdr \in K PROVE FALSE
      <4>1. LOCAL_APIC_MAX_COUNT \in Nat /\ l = LOCAL_APIC_MAX_COUNT
        BY <1>2, <2>3, IrqAssumption
      <4>2. l < LOCAL_APIC_MAX_COUNT
        BY <1>1, <1>2, <1>3, <3>2, <4>1, RoomLeft
      <4> QED BY <4>1, <4>2
    <3>3. l <= c + 1
      BY <1>2, <1>3, <1>7
    <3> QED BY <1>2, <1>3, <2>2, <3>1, <3>2, <3>3
  <2>4. CASE Len(local_apic) # LOCAL_APIC_MAX_COUNT
    <3>1. local_apic' = Append(local_apic, e.id)
      BY <1>9, <2>4 DEF acpi_handle_local_apic
    <3>2. e.id \in Nat
      <4>1. e \in Entry
        <5>1. firmware.madt \in Seq(Entry)
          BY <1>1, FirmwareAssumption
        <5> QED BY <1>1, <5>1
      <4> HIDE DEF e
      <4>2. \A x \in Entry : x.type = "local_apic" => x.id \in Nat
        BY DEF Entry
      <4> QED BY <1>9, <4>1, <4>2
    <3>3. PICK id \in Nat : id = e.id
      BY <3>2
    <3>4. /\ local_apic' \in Seq(Nat)
          /\ Len(local_apic') = l + 1 /\ \A i \in DOMAIN local_apic : local_apic'[i] = local_apic[i]
          /\ local_apic'[l + 1] = id /\ l + 1 \in DOMAIN local_apic'
          /\ DOMAIN local_apic \subseteq DOMAIN local_apic'
      <4>1. local_apic \in Seq(Nat) /\ id \in Nat
        BY <1>3
      <4>2. Len(local_apic) = l /\ local_apic' = Append(local_apic, id) /\ l \in Nat
        BY <1>2, <3>1, <3>3
      <4> QED BY ONLY <4>1, <4>2
    <3>5. \A n : In(n) => InNext(n)
      BY <3>4
    <3>6. InNext(hdr)
      BY <3>3, <3>4
    <3>7. l + 1 <= c + 1
      BY <1>3, <1>7
    <3> HIDE DEF In, InNext, K, E
    <3> QED BY <1>3, <2>2, <3>4, <3>5, <3>6, <3>7
  <2> QED BY <2>3, <2>4
<1> QED BY <1>8, <1>9

\* Every step keeps what is known of the processors.
LEMMA ProcessorsReadStep ==
    ASSUME IInv, ProcessorsRead, [Next]_vars
    PROVE  ProcessorsRead'
<1> DEFINE Before == Stages \ ({"local_apic", "register"} \cup Deliver)
<1>1. CASE boot \/ setup_i8259a \/ setup_acpi
  <2>1. stage \in Before /\ stage' \in Before /\ UNCHANGED <<firmware, local_apic>>
    BY <1>1 DEF boot, fill_tables, fill_directory, enable_paging, jump, init_phys_mem_map,
           remap_lower_memory, setup_i8259a, setup_acpi, NextStage, tables, Stages, Deliver
  <2> QED BY <2>1, ProcessorsReadFrame
<1>2. ASSUME NEW type \in Parsed, acpi_parse_madt(type) PROVE ProcessorsRead'
  <2>1. stage = type /\ UNCHANGED firmware
    BY <1>2, ParseCases
  <2>2. CASE stage' = "panic"
    <3>1. UNCHANGED local_apic
      BY <1>2, <2>1, <2>2, ParseCases DEF acpi_handle_isa_source, acpi_handle_local_apic,
             acpi_handle_io_apic, tables
    <3> QED BY <2>1, <2>2, <3>1, ProcessorsReadFrame
  <2>3. CASE /\ hdr > Len(firmware.madt)
             /\ stage' = NextStage(stage) /\ hdr' = 1 /\ UNCHANGED <<space, tables>>
    <3>1. UNCHANGED local_apic
      BY <2>3 DEF tables
    <3>2. CASE type = "io_apic"
      BY <2>1, <2>3, <3>1, <3>2, ProcessorsReadFrame DEF NextStage, Deliver
    <3>3. CASE type = "isa_source"
      <4>1. stage' = "local_apic" /\ hdr' = 1
        BY <2>1, <2>3, <3>3 DEF NextStage
      <4>2. local_apic' = <<>> /\ local_apic' \in Seq(Nat)
        BY <2>1, <3>1, <3>3 DEF ProcessorsRead, Deliver
      <4>3. /\ Entries("local_apic")' \cap (1 .. hdr' - 1) = {}
            /\ \A n \in KeptPlaces("local_apic", LOCAL_APIC_MAX_COUNT)' : ~ (n < hdr')
        <5>1. firmware \in Firmwares
          BY DEF IInv, TablesInv, CursorInv
        <5>2. DOMAIN firmware.madt = 1 .. Len(firmware.madt) /\ Len(firmware.madt) \in Nat
          BY <5>1, EntryFacts
        <5>3. \A n \in KeptPlaces("local_apic", LOCAL_APIC_MAX_COUNT) : ~ (n < 1)
          BY <5>2 DEF KeptPlaces, Entries
        <5> QED BY <2>1, <4>1, <5>3, FirmwareStays
      <4>4. Len(local_apic') <= Cardinality(Entries("local_apic")' \cap (1 .. hdr' - 1))
        <5>1. Len(local_apic') = 0
          BY <4>2
        <5>2. Cardinality(Entries("local_apic")' \cap (1 .. hdr' - 1)) = 0
          BY <4>3, FS_EmptySet
        <5> QED BY <5>1, <5>2
      <4> QED BY <4>1, <4>2, <4>3, <4>4 DEF ProcessorsRead
    <3>4. CASE type = "local_apic"
      BY <2>1, <2>3, <3>1, <3>4, ProcessorsReadFrame DEF NextStage
    <3> QED BY <3>2, <3>3, <3>4 DEF Parsed
  <2>4. CASE /\ ~ (hdr > Len(firmware.madt)) /\ hdr' = hdr + 1
             /\ stage' # "panic" /\ type = "local_apic"
    <3>1. stage' = stage
      BY <1>2, <2>1, <2>4, ParseCases DEF acpi_handle_local_apic
    <3>2. \/ firmware.madt[hdr].type # "local_apic" /\ UNCHANGED local_apic
          \/ firmware.madt[hdr].type = "local_apic" /\ acpi_handle_local_apic(firmware.madt[hdr])
      BY <1>2, <2>4, ParseCases DEF tables
    <3> QED BY <2>1, <2>4, <3>1, <3>2, ProcessorsReadEntry
  <2>5. CASE /\ ~ (hdr > Len(firmware.madt)) /\ hdr' = hdr + 1
             /\ stage' # "panic" /\ type # "local_apic"
    <3>1. UNCHANGED <<stage, local_apic>>
      BY <1>2, <2>5, ParseCases DEF acpi_handle_isa_source, acpi_handle_io_apic, tables
    <3>2. stage \notin {"local_apic", "register"} \cup Deliver
      BY <2>1, <2>5 DEF Parsed, Deliver
    <3> QED BY <2>1, <3>1, <3>2, ProcessorsReadFrame
  <2> QED BY <1>2, <2>2, <2>3, <2>4, <2>5, ParseCases
<1>3. CASE io_apic_isa_defaults \/ register_apic \/ setup_local_apic
  <2>1. /\ \/ stage = "isa_defaults" /\ stage' \in {"panic", "isa_source"}
           \/ stage = "register" /\ stage' = "setup_local_apic"
           \/ stage = "setup_local_apic" /\ stage' \in {"panic", "ready"}
        /\ UNCHANGED <<firmware, local_apic>>
    BY <1>3 DEF io_apic_isa_defaults, register_apic, setup_local_apic, NextStage, tables
  <2> QED BY <2>1, ProcessorsReadFrame DEF Deliver
<1>4. CASE Requests \/ Mappings \/ UNCHANGED vars
  <2>1. UNCHANGED <<stage, hdr, firmware, local_apic>>
    BY <1>4 DEF Requests, irqchip_setup, irqchip_mask, irqchip_unmask, Request, Mappings,
                driver_kmap, driver_kunmap, vars, tables
  <2> QED BY <2>1, ProcessorsReadFrame
<1> QED BY <1>1, <1>2, <1>3, <1>4 DEF Next, Setup, Parsed

\* The registers of the local APIC are mapped when they are used.
LEMMA LocalApicMappedStep ==
    ASSUME IInv, LocalApicMapped, [Next]_vars
    PROVE  LocalApicMapped'
<1>1. CASE register_apic
  <2>1. local_apic_iospace' = kmap_addr(LocalApicFrame) /\ kmap(LocalApicFrame)
    BY <1>1 DEF register_apic
  <2> QED BY <2>1 DEF kmap, LocalApicMapped
<1>2. CASE Requests \/ UNCHANGED vars
  <2>1. UNCHANGED <<stage, mapped, local_apic_iospace>>
    BY <1>2 DEF Requests, irqchip_setup, irqchip_mask, irqchip_unmask, Request, vars, tables, space
  <2> QED BY <2>1 DEF LocalApicMapped
<1>3. CASE Mappings
  <2>1. stage' # "setup_local_apic"
    BY <1>3 DEF Mappings, driver_kmap, driver_kunmap
  <2> QED BY <2>1 DEF LocalApicMapped
<1>4. CASE boot \/ setup_i8259a \/ setup_acpi \/ io_apic_isa_defaults \/ setup_local_apic
  <2>1. stage' # "setup_local_apic"
    BY <1>4 DEF boot, fill_tables, fill_directory, enable_paging, jump, init_phys_mem_map,
           remap_lower_memory, setup_i8259a, setup_acpi, io_apic_isa_defaults,
           setup_local_apic, NextStage
  <2> QED BY <2>1 DEF LocalApicMapped
<1>5. ASSUME NEW type \in Parsed, acpi_parse_madt(type) PROVE LocalApicMapped'
  <2>1. stage' # "setup_local_apic"
    BY <1>5, ParseCases DEF NextStage, Parsed, acpi_handle_io_apic, acpi_handle_isa_source,
           acpi_handle_local_apic
  <2> QED BY <2>1 DEF LocalApicMapped
<1> QED BY <1>1, <1>2, <1>3, <1>4, <1>5 DEF Next, Setup, Parsed

\* No step panics when the firmware is complete.
LEMMA NoPanicStep ==
    ASSUME IInv, ReadInv, [Next]_vars
    PROVE  NoPanic'
<1>1. SUFFICES ASSUME Complete, stage # "panic", UNCHANGED firmware PROVE stage' # "panic"
  <2>1. UNCHANGED firmware
    <3>1. CASE boot
      BY <3>1 DEF boot
    <3>2. CASE Setup /\ ~ boot
      BY <3>2 DEF Setup, setup_i8259a, setup_acpi, acpi_parse_madt, io_apic_isa_defaults,
             register_apic, setup_local_apic
    <3>3. CASE Requests \/ Mappings \/ UNCHANGED vars
      BY <3>3 DEF Requests, irqchip_setup, irqchip_mask, irqchip_unmask, Request, Mappings,
             driver_kmap, driver_kunmap, vars
    <3> QED BY <3>1, <3>2, <3>3 DEF Next
  <2>2. Complete' <=> Complete
    BY <2>1, FirmwareStays
  <2> QED BY <1>1, <2>1, <2>2 DEF ReadInv, NoPanic
<1>2. CASE boot \/ setup_i8259a \/ setup_acpi \/ register_apic
  BY <1>2 DEF boot, fill_tables, fill_directory, enable_paging, jump, init_phys_mem_map,
         remap_lower_memory, setup_i8259a, setup_acpi, register_apic, NextStage
<1>3. CASE io_apic_isa_defaults
  <2>1. stage = "isa_defaults" /\ "isa_defaults" \notin Unmapped \cup {"io_apic", "panic"}
    BY <1>3 DEF io_apic_isa_defaults, Unmapped, Unpaged, Physical
  <2>2. HWIRQ_RISING \in Nat /\ FirmwarePins(HWIRQ_RISING) # {}
    BY <1>1 DEF HWIRQ_RISING, Complete
  <2>3. io_apic_find(HWIRQ_RISING) # 0
    BY <2>1, <2>2, FindAll DEF ReadInv
  <2> QED BY <1>3, <2>3 DEF io_apic_isa_defaults, NextStage
<1>4. ASSUME NEW type \in Parsed, acpi_parse_madt(type) PROVE stage' # "panic"
  <2>1. stage = type /\ NextStage(stage) # "panic" /\ acpi_available /\ HasMadt
    BY <1>1, <1>4 DEF Parsed, NextStage, acpi_parse_madt, Complete
  <2>2. CASE hdr > Len(firmware.madt)
    BY <1>4, <2>1, <2>2 DEF acpi_parse_madt
  <2>3. CASE ~ (hdr > Len(firmware.madt)) /\ type # "isa_source"
    <3>1. \/ UNCHANGED stage
          \/ acpi_handle_io_apic(firmware.madt[hdr])
          \/ acpi_handle_local_apic(firmware.madt[hdr])
      BY <1>4, <2>1, <2>3 DEF acpi_parse_madt
    <3> QED BY <1>1, <3>1 DEF acpi_handle_io_apic, acpi_handle_local_apic
  <2>4. CASE ~ (hdr > Len(firmware.madt)) /\ type = "isa_source"
    <3> DEFINE e == firmware.madt[hdr]
    <3>1. \/ UNCHANGED stage
          \/ e.type = "isa_source" /\ acpi_handle_isa_source(e)
      BY <1>4, <2>1, <2>4 DEF acpi_parse_madt
    <3>2. CASE e.type = "isa_source" /\ acpi_handle_isa_source(e) /\ ~ Useless(e)
      <4>1. firmware \in Firmwares /\ hdr \in DOMAIN firmware.madt
        <5>1. /\ firmware \in Firmwares /\ hdr \in 1 .. Len(firmware.madt) + 1
              /\ Len(firmware.madt) \in Nat /\ DOMAIN firmware.madt = 1 .. Len(firmware.madt)
          BY EntryFacts DEF IInv, TablesInv, CursorInv
        <5> QED BY <2>4, <5>1
      <4>2. hdr \in Overrides
        BY <3>2, <4>1 DEF Overrides, Entries
      <4>3. e.source < ISA_IRQ_COUNT /\ FirmwarePins(SourceGsi(e)) # {}
        BY <1>1, <4>2 DEF Complete
      <4>4. e.source \in Nat /\ SourceGsi(e) \in Nat
        BY <3>2, <4>1, EntryFacts DEF SourceGsi
      <4>5. io_apic_find(SourceGsi(e)) # 0
        <5>1. "isa_source" \notin Unmapped \cup {"io_apic", "panic"}
          BY DEF Unmapped, Unpaged, Physical
        <5> HIDE DEF e
        <5> QED BY <2>1, <2>4, <4>3, <4>4, <5>1, FindAll DEF ReadInv
      <4>6. ~ (e.source >= ISA_IRQ_COUNT)
        <5> HIDE DEF e
        <5> QED BY <4>3, <4>4 DEF ISA_IRQ_COUNT
      <4>7. stage' = stage
        BY <3>2, <4>5, <4>6, Zenon DEF acpi_handle_isa_source
      <4> QED BY <1>1, <4>7
    <3>3. CASE acpi_handle_isa_source(e) /\ Useless(e)
      BY <1>1, <3>3 DEF acpi_handle_isa_source
    <3> QED BY <1>1, <3>1, <3>2, <3>3
  <2> QED BY <2>2, <2>3, <2>4
<1>5. CASE setup_local_apic
  <2>1. stage = "setup_local_apic"
    BY <1>5 DEF setup_local_apic
  <2>2. <<local_apic_iospace, LocalApicFrame>> \in mapped
    BY <2>1 DEF ReadInv, LocalApicMapped
  <2>3. Frames(local_apic_iospace) = {LocalApicFrame}
    <3>1. PICK m \in mapped : m[1] = local_apic_iospace /\ m[2] = LocalApicFrame
      BY <2>2
    <3>2. LocalApicFrame \notin DriverFrames
      BY FirmwareAssumption
    <3> QED BY <3>1, <3>2, FramesMapped DEF IInv
  <2>4. PICK e \in Kept("local_apic", LOCAL_APIC_MAX_COUNT) : e.id = BootCpu
    BY <1>1 DEF Complete
  <2>5. PICK n \in KeptPlaces("local_apic", LOCAL_APIC_MAX_COUNT) : e = firmware.madt[n]
    BY DEF Kept, KeptPlaces
  <2>6. PICK i \in DOMAIN local_apic : local_apic[i] = BootCpu
    BY <2>1, <2>4, <2>5 DEF ReadInv, ProcessorsRead
  <2>7. {j \in DOMAIN local_apic : local_apic[j] = BootCpu} # {}
    BY <2>6
  <2> QED BY <1>5, <2>3, <2>7 DEF setup_local_apic
<1>6. CASE Requests \/ Mappings \/ UNCHANGED vars
  <2>1. UNCHANGED stage
    BY <1>6 DEF Requests, irqchip_setup, irqchip_mask, irqchip_unmask, Request, Mappings,
           driver_kmap, driver_kunmap, vars
  <2> QED BY <1>1, <2>1
<1> QED BY <1>2, <1>3, <1>4, <1>5, <1>6 DEF Next, Setup, Parsed

\* Firmware that has what set-up needs never makes it panic: not for a missing
\* table, an interrupt without a chip, a line that does not exist or a processor
\* that is not listed, whatever the order and the number of its entries.
THEOREM CompleteNeverPanics == Spec => [](Complete => stage # "panic")
<1>1. Init => ReadInv
  <2>1. SUFFICES ASSUME Init PROVE ReadInv
    OBVIOUS
  <2>2. stage = "fill_tables" /\ local_apic = <<>>
    BY <2>1 DEF Init, SpaceInit
  <2>3. stage \in Unmapped /\ local_apic \in Seq(Nat)
    BY <2>2 DEF Unmapped, Unpaged
  <2>4. "io_apic" \notin Unmapped
    BY DEF Unmapped, Unpaged, Physical
  <2> QED BY <2>2, <2>3, <2>4 DEF ReadInv, ApicsRead, ProcessorsRead, LocalApicMapped, NoPanic, Deliver
<1>2. ASSUME IInv, ReadInv, [Next]_vars PROVE ReadInv'
  BY <1>2, ApicsReadStep, ProcessorsReadStep, LocalApicMappedStep, NoPanicStep DEF ReadInv
<1>3. ReadInv => (Complete => stage # "panic")
  BY DEF ReadInv, NoPanic
<1> QED BY <1>1, <1>2, <1>3, InvariantHolds, PTL DEF Spec

\* How far set-up is.
Position(s) ==
    CASE s = "fill_tables" -> 0 [] s = "fill_directory" -> 1 [] s = "enable_paging" -> 2
      [] s = "jump" -> 3 [] s = "setup_i8259a" -> 4 [] s = "init_phys_mem_map" -> 5
      [] s = "remap_lower_memory" -> 6 [] s = "setup_acpi" -> 7 [] s = "io_apic" -> 8
      [] s = "isa_defaults" -> 9 [] s = "isa_source" -> 10 [] s = "local_apic" -> 11
      [] s = "register" -> 12 [] s = "setup_local_apic" -> 13 [] s \in {"ready", "panic"} -> 14

\* The next step of set-up, or the next of finitely many entries in it.
Advances ==
    \/ Position(stage') \in Position(stage) + 1 .. 14
    \/ stage' = stage /\ hdr <= Len(firmware.madt) /\ hdr' = hdr + 1

\* The stages in their order.
LEMMA Positions ==
    /\ Position("fill_tables") = 0 /\ Position("fill_directory") = 1
    /\ Position("enable_paging") = 2 /\ Position("jump") = 3
    /\ Position("setup_i8259a") = 4 /\ Position("init_phys_mem_map") = 5
    /\ Position("remap_lower_memory") = 6 /\ Position("setup_acpi") = 7
    /\ Position("io_apic") = 8 /\ Position("isa_defaults") = 9
    /\ Position("isa_source") = 10 /\ Position("local_apic") = 11
    /\ Position("register") = 12 /\ Position("setup_local_apic") = 13
    /\ Position("ready") = 14 /\ Position("panic") = 14
BY DEF Position

\* Every step of set-up brings it forward, and nothing else moves it, so that its
\* steps are finitely many: set-up that goes on ends.
THEOREM SetupAlwaysAdvances ==
    Spec => [][IF Setup THEN Advances ELSE UNCHANGED <<stage, hdr, firmware>>]_vars
<1> DEFINE Step == IF Setup THEN Advances ELSE UNCHANGED <<stage, hdr, firmware>>
<1>1. ASSUME IInv, Next PROVE Step
  <2>1. ASSUME \/ boot \/ setup_i8259a \/ setup_acpi
               \/ io_apic_isa_defaults \/ register_apic \/ setup_local_apic
        PROVE  Advances
    <3>1. \/ stage = "fill_tables" /\ stage' = "fill_directory"
          \/ stage = "fill_directory" /\ stage' = "enable_paging"
          \/ stage = "enable_paging" /\ stage' = "jump"
          \/ stage = "jump" /\ stage' = "setup_i8259a"
          \/ stage = "setup_i8259a" /\ stage' = "init_phys_mem_map"
          \/ stage = "init_phys_mem_map" /\ stage' = "remap_lower_memory"
          \/ stage = "remap_lower_memory" /\ stage' = "setup_acpi"
          \/ stage = "setup_acpi" /\ stage' = "io_apic"
          \/ stage = "isa_defaults" /\ stage' \in {"isa_source", "panic"}
          \/ stage = "register" /\ stage' = "setup_local_apic"
          \/ stage = "setup_local_apic" /\ stage' \in {"ready", "panic"}
      <4>1. CASE boot \/ setup_i8259a
        BY <4>1 DEF boot, fill_tables, fill_directory, enable_paging, jump, init_phys_mem_map,
               remap_lower_memory, setup_i8259a
      <4>2. CASE setup_acpi \/ io_apic_isa_defaults \/ register_apic
        BY <4>2 DEF setup_acpi, io_apic_isa_defaults, register_apic, NextStage
      <4>3. CASE setup_local_apic
        BY <4>3 DEF setup_local_apic
      <4> QED BY <2>1, <4>1, <4>2, <4>3
    <3>2. Position(stage') \in Position(stage) + 1 .. 14
      BY <3>1, Positions
    <3> QED BY <3>2 DEF Advances
  <2>2. ASSUME NEW type \in Parsed, acpi_parse_madt(type) PROVE Advances
    <3>1. /\ stage = type
          /\ stage \in {"io_apic", "isa_source", "local_apic"}
      BY <2>2, ParseCases DEF Parsed
    <3>2. Position(stage) \in 8 .. 11 /\ Position("panic") = 14
      BY <3>1, Positions
    <3>3. CASE stage' = "panic"
      BY <3>2, <3>3 DEF Advances
    <3>4. CASE stage' = NextStage(stage)
      <4>1. \/ stage = "io_apic" /\ stage' = "isa_defaults"
            \/ stage = "isa_source" /\ stage' = "local_apic"
            \/ stage = "local_apic" /\ stage' = "register"
        BY <3>1, <3>4 DEF NextStage
      <4>2. Position(stage') \in Position(stage) + 1 .. 14
        BY <4>1, Positions
      <4> QED BY <4>2 DEF Advances
    <3>5. CASE stage' # "panic" /\ stage' # NextStage(stage)
      <4>1. stage' = stage /\ ~ (hdr > Len(firmware.madt)) /\ hdr' = hdr + 1
        BY <2>2, <3>1, <3>5, ParseCases DEF acpi_handle_io_apic, acpi_handle_isa_source,
               acpi_handle_local_apic
      <4>2. hdr \in 1 .. Len(firmware.madt) + 1 /\ Len(firmware.madt) \in Nat
        BY <1>1, EntryFacts DEF IInv, TablesInv, CursorInv
      <4>3. hdr <= Len(firmware.madt)
        BY <4>1, <4>2
      <4> QED BY <4>1, <4>3 DEF Advances
    <3> QED BY <3>3, <3>4, <3>5
  <2>3. ASSUME Requests \/ Mappings PROVE UNCHANGED <<stage, hdr, firmware>>
    BY <2>3 DEF Requests, irqchip_setup, irqchip_mask, irqchip_unmask, Request, Mappings,
           driver_kmap, driver_kunmap
  <2>4. ASSUME Setup PROVE Advances
    BY <2>1, <2>2, <2>4 DEF Setup, Parsed
  <2> QED BY <1>1, <2>3, <2>4 DEF Next
<1>2. IInv /\ [Next]_vars => [Step]_vars
  BY <1>1
<1> QED BY <1>2, InvariantHolds, PTL DEF Spec
=============================================================================
