----------------------------- MODULE MCIrqChips -----------------------------
(* An instance of IrqChips for TLC: 32 virtual pages, of which the kernel  *)
(* has 8, 3 of them for low memory; three I/O APICs, of which two fit.     *)
EXTENDS IrqChips

IoApic(p, g)    == [type |-> "io_apic", paddr |-> p, gsi |-> g]
IsaSource(s, g) == [type |-> "isa_source", source |-> s, gsi |-> g]
LocalApic(i)    == [type |-> "local_apic", id |-> i]

MCIoApicPins == (20 :> 4) @@ (21 :> 2) @@ (22 :> 1)

Found(madt) == [rsdp |-> "bios", tables |-> <<"FACP", "APIC">>, madt |-> madt]

MCFirmwares ==
    { Found(<<LocalApic(0), LocalApic(1), IoApic(20, 0), IoApic(21, 16),
              IsaSource(0, 2), IsaSource(9, 9)>>),
      \* Overrides before the chips they need, and two for one line.
      Found(<<IsaSource(0, 2), IsaSource(9, 17), IoApic(21, 16), LocalApic(1),
              IsaSource(0, 16), IoApic(20, 0), LocalApic(0)>>),
      \* More of everything than there is room for.
      Found(<<IoApic(20, 0), IoApic(21, 16), IoApic(22, 18), LocalApic(1),
              LocalApic(0), LocalApic(2), IsaSource(14, 3)>>),
      \* Interrupts up to the one with the last vector.
      Found(<<LocalApic(0), IoApic(20, 0), IoApic(21, 221)>>),
      \* Nothing at interrupt 1; an override to nowhere; no such line; no such processor.
      Found(<<LocalApic(0), IoApic(21, 16)>>),
      Found(<<LocalApic(0), IoApic(20, 0), IsaSource(3, 18)>>),
      Found(<<LocalApic(0), IoApic(20, 0), IsaSource(16, 2)>>),
      Found(<<LocalApic(1), LocalApic(2), LocalApic(0), IoApic(20, 0)>>),
      \* No tables, or no MADT.
      [Found(<<>>) EXCEPT !.rsdp = "ebda"],
      [Found(<<>>) EXCEPT !.tables = <<"FACP">>] }

MCSetupFlags == {{}, {HWIRQ_DISABLED}, {HWIRQ_LOW}}
=============================================================================
