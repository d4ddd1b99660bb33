------------------------------ MODULE IrqChips ------------------------------
(***************************************************************************)
(* The interrupt controllers behind kernel/irq.c: i8259a.c, and apic.c     *)
(* with what it reads of the ACPI tables (acpi.c), in the order of         *)
(* setup_arch and over AddressSpace, through whose mapping window the      *)
(* registers of the APICs are reached.                                     *)
(*                                                                         *)
(* No interrupt is ever accepted here, as the kernel keeps interrupts off; *)
(* so eoi has nothing to act on and is left out.                           *)
(***************************************************************************)
EXTENDS AddressSpace, Sequences, SequencesExt

CONSTANTS Firmwares,            \* what set-up may find, see Firmware below
          IoApicPins,           \* page frame of an I/O APIC -> its number of pins
          LocalApicFrame, BootCpu,
          IO_APIC_MAX_COUNT, LOCAL_APIC_MAX_COUNT,
          Irqs,                 \* bound: the interrupts that drivers use
          SetupFlags,           \* bound: the flags they ask for
          DriverFrames          \* bound: the page frames they map

ISA_IRQ_COUNT == 16
HW_INTERRUPT_OFFSET == 32
SPURIOUS_INTERRUPT_VECTOR == 255

\* Flags are the set of their bits.
HWIRQ_RISING == 1
HWIRQ_FALLING == 2
HWIRQ_HIGH == 4
HWIRQ_LOW == 8
HWIRQ_DISABLED == 16
Bits(n) == {b \in {1, 2, 4, 8, 16} : (n \div b) % 2 = 1}

ASSUME IrqAssumption ==
    /\ IO_APIC_MAX_COUNT \in Nat /\ LOCAL_APIC_MAX_COUNT \in Nat
    /\ Irqs \subseteq Nat /\ SetupFlags \subseteq SUBSET Bits(31)
    /\ \A f \in DOMAIN IoApicPins : IoApicPins[f] \in Nat \ {0}

\* The entries that the code looks at.
Entry == [type : {"io_apic"}, paddr : DOMAIN IoApicPins, gsi : Nat]
         \cup [type : {"local_apic"}, id : Nat]
         \cup [type : {"isa_source"}, source : Nat, gsi : Nat]

\* The interrupts of the machine have vectors below the spurious one, and
\* drivers map other page frames than those of the APICs.
ASSUME FirmwareAssumption ==
    /\ DOMAIN IoApicPins \cup DriverFrames \cup {LocalApicFrame} \subseteq Nat
    /\ DriverFrames \cap (DOMAIN IoApicPins \cup {LocalApicFrame}) = {}
    /\ \A fw \in Firmwares :
          /\ fw.madt \in Seq(Entry)
          /\ \A n \in DOMAIN fw.madt :
                fw.madt[n].type = "io_apic" =>
                    fw.madt[n].gsi + IoApicPins[fw.madt[n].paddr] + HW_INTERRUPT_OFFSET
                        <= SPURIOUS_INTERRUPT_VECTOR

VARIABLES firmware,
          hdr,                  \* the cursor of acpi_parse_madt
          irqchip,              \* none, i8259a or apic
          pic_irq_mask,         \* the lines masked, as the driver believes
          pic,                  \* the two 8259As
          io_apic,              \* sequence of [iospace, gsi, irqs]
          isa_irq,              \* line -> [io_apic, gsi, pin, flags]; io_apic 0 is null
          redtbl,               \* page frame of an I/O APIC -> pin -> its entry
          local_apic,           \* sequence of processor ids
          local_apic_iospace,
          lapic,                \* the boot processor's: logical id, enabled
          owned                 \* interrupts that a driver has set up

tables == <<io_apic, isa_irq, local_apic, local_apic_iospace>>
chips  == <<pic_irq_mask, pic, redtbl, lapic>>
vars   == <<stage, space, firmware, hdr, irqchip, chips, tables, owned>>

NoRoute == [io_apic |-> 0, gsi |-> 0, pin |-> 0, flags |-> {}]
ResetEntry == [vector |-> 0, masked |-> TRUE, low |-> FALSE, level |-> FALSE]

Init ==
    /\ SpaceInit
    /\ firmware \in Firmwares
    /\ hdr = 1
    /\ irqchip = "none"
    /\ pic_irq_mask = 0 .. 15
    /\ pic = [c \in {"master", "slave"} |->
                [next |-> "ocw1", offset |-> 0, cascade |-> 0, imr |-> {}]]
    /\ io_apic = <<>>
    /\ isa_irq = [i \in 0 .. ISA_IRQ_COUNT - 1 |-> NoRoute]
    /\ redtbl = [f \in DOMAIN IoApicPins |-> [p \in 0 .. IoApicPins[f] - 1 |-> ResetEntry]]
    /\ local_apic = <<>>
    /\ local_apic_iospace = Absent
    /\ lapic = [id |-> 0, enabled |-> FALSE]
    /\ owned = {}

boot ==
    /\ fill_tables \/ fill_directory \/ enable_paging \/ jump
        \/ init_phys_mem_map \/ remap_lower_memory
    /\ UNCHANGED <<firmware, hdr, irqchip, chips, tables, owned>>

-----------------------------------------------------------------------------
(* i8259a.c.  A name with a suffix is its prefix with a bug, for the       *)
(* mutation runs.                                                          *)

\* A byte written to a chip.  The command ICW1 starts the initialisation, and
\* the next three bytes on the data port are ICW2 to ICW4; after that a byte
\* there is the mask.
out8(chip, w) ==
    CASE w.port = "cmd" -> [chip EXCEPT !.next = "icw2", !.imr = {}]
      [] chip.next = "icw2" -> [chip EXCEPT !.offset = w.byte, !.next = "icw3"]
      [] chip.next = "icw3" -> [chip EXCEPT !.cascade = w.byte, !.next = "icw4"]
      [] chip.next = "icw4" -> [chip EXCEPT !.next = "ocw1"]
      [] OTHER -> [chip EXCEPT !.imr = w.byte]

Low(mask)  == {i \in 0 .. 7 : i \in mask}
High(mask) == {i \in 0 .. 7 : i + 8 \in mask}
ChipMask(c, mask) == IF c = "master" THEN Low(mask) ELSE High(mask)

\* What pic_remap leaves in chip c: a command, then four bytes on its data port.
Remapped(c) ==
    LET data(chip, b) == out8(chip, [port |-> "data", byte |-> b])
        icw1 == out8(pic[c], [port |-> "cmd", byte |-> {0, 4}])
        icw2 == data(icw1, IF c = "master" THEN HW_INTERRUPT_OFFSET ELSE HW_INTERRUPT_OFFSET + 8)
        icw3 == data(icw2, IF c = "master" THEN {2} ELSE 2)
        icw4 == data(icw3, {0})
    IN  data(icw4, ChipMask(c, pic_irq_mask))

setup_i8259a ==
    /\ stage = "setup_i8259a"
    /\ pic' = [c \in DOMAIN pic |-> Remapped(c)]
    /\ irqchip' = "i8259a"
    /\ stage' = "init_phys_mem_map"
    /\ UNCHANGED <<space, firmware, hdr, pic_irq_mask, redtbl, lapic, tables, owned>>

PicChip(irq) == IF irq < 8 THEN "master" ELSE "slave"

\* Variant: the byte of the master whatever the line.
PicByte_low(irq, mask) == ChipMask("master", mask)

\* The byte that goes to the chip of the line.
PicByte(irq, mask) == ChipMask(PicChip(irq), mask)

\* pic_mask and pic_unmask, with the new mask.
pic_set_mask(irq, mask) ==
    /\ pic_irq_mask' = mask
    /\ pic' = [pic EXCEPT ![PicChip(irq)] =
                    out8(@, [port |-> "data", byte |-> PicByte(irq, mask)])]
    /\ UNCHANGED <<redtbl, lapic>>

pic_mask(irq)   == pic_set_mask(irq, pic_irq_mask \cup {irq})
pic_unmask(irq) == pic_set_mask(irq, pic_irq_mask \ {irq})
pic_setup(irq, flags) == IF HWIRQ_DISABLED \in flags THEN pic_mask(irq) ELSE pic_unmask(irq)

-----------------------------------------------------------------------------
(* ACPI.  A firmware has a place where its RSDP is found, the signatures   *)
(* of the tables of the RSDT, and the entries of its MADT, which are       *)
(* [type |-> "io_apic", paddr, gsi], [type |-> "local_apic", id] or        *)
(* [type |-> "isa_source", source, gsi].                                   *)

\* acpi_rsdp_probe.  It takes the word at 0x40E0 for the address of the EBDA,
\* which is above all addresses that a word can hold: nothing is found there.
acpi_available == firmware.rsdp = "bios"

\* acpi_table_find(ACPI_MADT_SIGN) finds a table.
HasMadt == "APIC" \in ToSet(firmware.tables)

\* Variant: the defaults come last.
NextStage_defaults_last(s) ==
    CASE s = "setup_acpi" -> "io_apic" [] s = "io_apic" -> "isa_source"
      [] s = "isa_source" -> "isa_defaults" [] s = "isa_defaults" -> "local_apic"
      [] s = "local_apic" -> "register" [] s = "register" -> "setup_local_apic"

\* The order of setup_arch behind setup_memory, and of setup_apic.
NextStage(s) ==
    CASE s = "setup_acpi" -> "io_apic" [] s = "io_apic" -> "isa_defaults"
      [] s = "isa_defaults" -> "isa_source" [] s = "isa_source" -> "local_apic"
      [] s = "local_apic" -> "register" [] s = "register" -> "setup_local_apic"

setup_acpi ==
    /\ stage = "setup_acpi"
    /\ stage' = NextStage(stage)
    /\ UNCHANGED <<space, firmware, hdr, irqchip, chips, tables, owned>>

-----------------------------------------------------------------------------
(* apic.c, set-up.                                                         *)

\* Variant: the first interrupt of a chip is missed.
Covers_exclusive(apic, gsi) == apic.gsi < gsi /\ apic.gsi + apic.irqs > gsi

Covers(apic, gsi) == apic.gsi <= gsi /\ apic.gsi + apic.irqs > gsi

\* The index of the first I/O APIC that has gsi; 0 where the code panics.
io_apic_find(gsi) ==
    LET found == {i \in DOMAIN io_apic : Covers(io_apic[i], gsi)}
    IN  IF found = {} THEN 0 ELSE Min(found)

\* acpi_handle_io_apic and io_apic_add: the number of interrupts is read from
\* the chip, through the new mapping.
acpi_handle_io_apic(e) ==
    /\ UNCHANGED <<stage, isa_irq, local_apic, local_apic_iospace>>
    /\ IF Len(io_apic) = IO_APIC_MAX_COUNT THEN UNCHANGED <<space, io_apic>>
       ELSE /\ kmap(e.paddr)
            /\ \E f \in Reached(kernel_page_tables', kmap_addr(e.paddr)) :
                    io_apic' = Append(io_apic, [iospace |-> kmap_addr(e.paddr),
                                                gsi |-> e.gsi, irqs |-> IoApicPins[f]])

\* What io_apic_setup_isa stores.
IsaRoute(cfg) ==
    LET apic == io_apic_find(cfg.gsi)
    IN  [io_apic |-> apic, gsi |-> cfg.gsi, flags |-> cfg.flags,
         pin |-> cfg.gsi - io_apic[apic].gsi]

\* The initialiser of cfg is { i, i, HWIRQ_RISING }, and the fields of struct
\* isa_irq_cfg are flags, isa and gsi.
DefaultCfg(i) == [flags |-> Bits(i), isa |-> i, gsi |-> HWIRQ_RISING]

io_apic_isa_defaults ==
    /\ stage = "isa_defaults"
    /\ UNCHANGED <<space, firmware, hdr, irqchip, chips, io_apic, local_apic,
                   local_apic_iospace, owned>>
    /\ IF io_apic_find(HWIRQ_RISING) = 0 THEN stage' = "panic" /\ UNCHANGED isa_irq
       ELSE /\ isa_irq' = [i \in DOMAIN isa_irq |-> IsaRoute(DefaultCfg(i))]
            /\ stage' = NextStage(stage)

\* struct acpi_isa_source has one byte for the four of the interrupt's number,
\* and takes the next two for the flags.
SourceGsi(e)   == e.gsi % 256
SourceFlags(e) == (e.gsi \div 256) % 65536
Polarity(e)    == SourceFlags(e) % 4
Trigger(e)     == (SourceFlags(e) \div 4) % 4

\* Entries that acpi_handle_isa_source drops.
Useless(e) == e.source = SourceGsi(e) /\ Polarity(e) = 0 /\ Trigger(e) = 0

OverrideFlags(e) ==
    IF Trigger(e) = 3 THEN IF Polarity(e) \in {0, 1} THEN {HWIRQ_HIGH} ELSE {HWIRQ_LOW}
    ELSE IF Polarity(e) \in {0, 1} THEN {HWIRQ_RISING} ELSE {HWIRQ_FALLING}

acpi_handle_isa_source(e) ==
    LET cfg == [flags |-> OverrideFlags(e), isa |-> e.source, gsi |-> SourceGsi(e)]
    IN  /\ UNCHANGED <<space, io_apic, local_apic, local_apic_iospace>>
        /\ IF Useless(e) THEN UNCHANGED <<stage, isa_irq>>
           ELSE IF cfg.isa >= ISA_IRQ_COUNT \/ io_apic_find(cfg.gsi) = 0
           THEN stage' = "panic" /\ UNCHANGED isa_irq
           ELSE isa_irq' = [isa_irq EXCEPT ![cfg.isa] = IsaRoute(cfg)] /\ UNCHANGED stage

acpi_handle_local_apic(e) ==
    /\ UNCHANGED <<stage, space, io_apic, isa_irq, local_apic_iospace>>
    /\ local_apic' = IF Len(local_apic) = LOCAL_APIC_MAX_COUNT THEN local_apic
                     ELSE Append(local_apic, e.id)

\* acpi_parse_madt for the entries of one type, with the handler that setup_apic
\* passes for it; a step per entry.
acpi_parse_madt(type) ==
    /\ stage = type
    /\ UNCHANGED <<firmware, irqchip, chips, owned>>
    /\ IF ~acpi_available \/ ~HasMadt
       THEN stage' = "panic" /\ UNCHANGED <<space, hdr, tables>>
       ELSE IF hdr > Len(firmware.madt)
       THEN stage' = NextStage(stage) /\ hdr' = 1 /\ UNCHANGED <<space, tables>>
       ELSE LET e == firmware.madt[hdr]
            IN  /\ hdr' = hdr + 1
                /\ \/ e.type # type /\ UNCHANGED <<stage, space, tables>>
                   \/ e.type = type /\ type = "io_apic" /\ acpi_handle_io_apic(e)
                   \/ e.type = type /\ type = "isa_source" /\ acpi_handle_isa_source(e)
                   \/ e.type = type /\ type = "local_apic" /\ acpi_handle_local_apic(e)

\* The end of setup_local_apic_acpi and of setup_apic.
register_apic ==
    /\ stage = "register"
    /\ kmap(LocalApicFrame)
    /\ local_apic_iospace' = kmap_addr(LocalApicFrame)
    /\ irqchip' = "apic"
    /\ stage' = NextStage(stage)
    /\ UNCHANGED <<firmware, hdr, chips, io_apic, isa_irq, local_apic, owned>>

\* The processor's id is read, and the two registers written, through the mapping.
setup_local_apic ==
    /\ stage = "setup_local_apic"
    /\ \E f \in Frames(local_apic_iospace) :
        LET pid   == IF f = LocalApicFrame THEN BootCpu ELSE Absent
            found == {i \in DOMAIN local_apic : local_apic[i] = pid}
        IN  IF found = {} THEN stage' = "panic" /\ UNCHANGED lapic
            ELSE /\ lapic' = [id |-> (Min(found) - 1) % 8, enabled |-> TRUE]
                 /\ stage' = "ready"
    /\ UNCHANGED <<space, firmware, hdr, irqchip, pic_irq_mask, pic, redtbl, tables, owned>>

-----------------------------------------------------------------------------
(* apic.c, requests, and irq.c.                                            *)

\* The chip, pin and interrupt number for a request.
Route(irq) ==
    LET isa  == irq < ISA_IRQ_COUNT
        gsi  == IF isa THEN isa_irq[irq].gsi ELSE irq
    IN  IF isa /\ isa_irq[irq].io_apic # 0
        THEN isa_irq[irq]
        ELSE [io_apic |-> io_apic_find(gsi), gsi |-> gsi,
              pin |-> gsi - io_apic[io_apic_find(gsi)].gsi]

\* The chips that the request may reach through its mapping.
ReachedChips(irq) == Frames(io_apic[Route(irq).io_apic].iospace)

\* io_apic_write of the entry for irq.
WriteEntry(chip, irq, entry) ==
    /\ redtbl' = [redtbl EXCEPT ![chip][Route(irq).pin] = entry]
    /\ UNCHANGED <<pic_irq_mask, pic, lapic>>

\* Variant: numbered by the pin.
Vector_pin(irq) == (Route(irq).pin + HW_INTERRUPT_OFFSET) % 256

Vector(irq) == (Route(irq).gsi + HW_INTERRUPT_OFFSET) % 256

apic_setup(irq, flags) ==
    LET f == IF irq < ISA_IRQ_COUNT
             THEN isa_irq[irq].flags \cup (flags \cap {HWIRQ_DISABLED}) ELSE flags
    IN  \E chip \in ReachedChips(irq) :
            WriteEntry(chip, irq, [vector |-> Vector(irq), masked |-> HWIRQ_DISABLED \in f,
                                   low |-> f \cap {HWIRQ_FALLING, HWIRQ_LOW} # {},
                                   level |-> f \cap {HWIRQ_HIGH, HWIRQ_LOW} # {}])

apic_set_mask(irq, masked) ==
    \E chip \in ReachedChips(irq) :
        WriteEntry(chip, irq, [redtbl[chip][Route(irq).pin] EXCEPT !.masked = masked])

\* Interrupts that the registered chip has.
Known(irq) ==
    \/ irqchip = "i8259a" /\ irq < 16
    \/ irqchip = "apic" /\ (irq < ISA_IRQ_COUNT \/ io_apic_find(irq) # 0)

Request == UNCHANGED <<stage, space, firmware, hdr, irqchip, tables>> /\ stage # "panic"

irqchip_setup(irq, flags) ==
    /\ Request /\ Known(irq)
    /\ IF irqchip = "apic" THEN apic_setup(irq, flags) ELSE pic_setup(irq, flags)
    /\ owned' = owned \cup {<<irqchip, irq>>}

\* Drivers mask and unmask what they have set up.
irqchip_mask(irq) ==
    /\ Request /\ <<irqchip, irq>> \in owned
    /\ IF irqchip = "apic" THEN apic_set_mask(irq, TRUE) ELSE pic_mask(irq)
    /\ UNCHANGED owned

irqchip_unmask(irq) ==
    /\ Request /\ <<irqchip, irq>> \in owned
    /\ IF irqchip = "apic" THEN apic_set_mask(irq, FALSE) ELSE pic_unmask(irq)
    /\ UNCHANGED owned

\* Drivers map pages too, once set-up is over, and unmap them.
driver_kmap(p) ==
    /\ stage = "ready"
    /\ kmap(p)
    /\ UNCHANGED <<stage, firmware, hdr, irqchip, chips, tables, owned>>

driver_kunmap(m) ==
    /\ stage = "ready" /\ m[2] \in DriverFrames
    /\ kunmap(m[1])
    /\ UNCHANGED <<stage, firmware, hdr, irqchip, chips, tables, owned>>

Setup ==
    \/ boot \/ setup_i8259a \/ setup_acpi
    \/ \E type \in {"io_apic", "isa_source", "local_apic"} : acpi_parse_madt(type)
    \/ io_apic_isa_defaults
    \/ register_apic \/ setup_local_apic

Requests ==
    \E irq \in Irqs :
        \/ \E flags \in SetupFlags : irqchip_setup(irq, flags)
        \/ irqchip_mask(irq) \/ irqchip_unmask(irq)

Mappings == (\E p \in DriverFrames : driver_kmap(p)) \/ (\E m \in mapped : driver_kunmap(m))

Next == Setup \/ Requests \/ Mappings

Spec == Init /\ [][Next]_vars

\* Interrupts are off and there is one processor: set-up goes on.
FairSpec == Spec /\ WF_vars(Setup)

-----------------------------------------------------------------------------
(* Properties.                                                             *)

\* The positions of entries in the MADT; the entries there is room for.
Entries(type) == {n \in DOMAIN firmware.madt : firmware.madt[n].type = type}

Kept(type, count) ==
    {firmware.madt[n] : n \in {m \in Entries(type) :
                                Cardinality(Entries(type) \cap (1 .. m)) <= count}}

Overrides == {n \in Entries("isa_source") : ~Useless(firmware.madt[n])}

\* The pin that the firmware gives to interrupt gsi, as <<page frame, pin>>.
FirmwarePins(gsi) ==
    {<<e.paddr, gsi - e.gsi>> :
        e \in {x \in Kept("io_apic", IO_APIC_MAX_COUNT) :
                    gsi \in x.gsi .. x.gsi + IoApicPins[x.paddr] - 1}}

\* Firmware that set-up can cope with: it has the tables, a pin for interrupt 1,
\* where all ISA lines go at first, and for every override, and the boot processor.
Complete ==
    /\ acpi_available /\ HasMadt
    /\ FirmwarePins(HWIRQ_RISING) # {}
    /\ \A n \in Overrides : LET e == firmware.madt[n]
                             IN  e.source < ISA_IRQ_COUNT /\ FirmwarePins(SourceGsi(e)) # {}
    /\ \E e \in Kept("local_apic", LOCAL_APIC_MAX_COUNT) : e.id = BootCpu

\* Whatever the order of its entries, firmware that is complete is set up to the end.
SetupSucceeds == Complete => <>(stage = "ready")

IsaDone == stage \in {"local_apic", "register", "setup_local_apic", "ready"}

\* Pages in use that a driver mapped, through the window.
DriverPages == {m \in mapped : m[2] \in DriverFrames /\ m[1] >= KMAP_OFFSET}

\* Through the switches of the page tables and any sequence of kmap and kunmap,
\* the tables lead every page in use where its user takes it to be, and no window
\* entry is given to two users.  What set-up uses or has mapped, the processor
\* reaches too; a page that a driver mapped where another was unmapped, it need
\* not, for want of an invlpg.
AddressesReach ==
    \A u \in Used :
        /\ Frame(u[1]) = u[2]
        /\ u \notin DriverPages => Frames(u[1]) = {u[2]}

\* Once the MADT is read, every ISA line has a pin that exists on the chip it is
\* reached through, the pin of its interrupt; the last override of a line decides.
RoutesReachPins ==
    IsaDone =>
        \A i \in DOMAIN isa_irq :
            LET r    == isa_irq[i]
                mine == {n \in Overrides : firmware.madt[n].source = i}
            IN  /\ \A f \in Frames(io_apic[r.io_apic].iospace) :
                        <<f, r.pin>> \in FirmwarePins(r.gsi)
                /\ mine # {} => r.gsi = SourceGsi(firmware.madt[Max(mine)])

\* A pin that is unmasked delivers the vector of its own interrupt, which is
\* neither an exception's nor the spurious one, whichever lines share the pin and
\* whatever was set up, masked and unmasked before.
UnmaskedPinsDeliver ==
    \A f \in DOMAIN redtbl : \A p \in DOMAIN redtbl[f] :
        ~redtbl[f][p].masked =>
            /\ redtbl[f][p].vector \in 32 .. SPURIOUS_INTERRUPT_VECTOR - 1
            /\ <<f, p>> \in FirmwarePins(redtbl[f][p].vector - HW_INTERRUPT_OFFSET)

\* From pic_remap on, both 8259As wait for mask bytes, have their vectors, and
\* mask what the driver believes they do.
PicMatchesShadow ==
    irqchip # "none" =>
        \A c \in DOMAIN pic :
            /\ pic[c].next = "ocw1"
            /\ pic[c].offset = IF c = "master" THEN 32 ELSE 40
            /\ pic[c].imr = {i \in 0 .. 7 :
                                (IF c = "master" THEN i ELSE i + 8) \in pic_irq_mask}

\* apic.c:193 calls an override useless that gives a line the interrupt of its own
\* number: without it the line has that interrupt anyway.
UselessOverridesAreUseless ==
    IsaDone =>
        \A n \in Entries("isa_source") \ Overrides :
            LET e == firmware.madt[n]
            IN  (\A o \in Overrides : firmware.madt[o].source # e.source)
                    => isa_irq[e.source].gsi = SourceGsi(e)
=============================================================================
