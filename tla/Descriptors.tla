---------------------------- MODULE Descriptors ----------------------------
(***************************************************************************)
(* Segment descriptors as kernel/arch/x86/gdt.c packs them and as the      *)
(* processor reads them.  A word is the set of its bits that are set.      *)
(***************************************************************************)
EXTENDS Integers

Shift(word, n) == {b + n : b \in word}

GDT_TSS       == 8
GDT_BUSY      == 9          \* set by the processor
GDT_32SYSTEM  == 11
GDT_PRESENT   == 15
FREE_TSS_TYPE == {GDT_32SYSTEM, GDT_TSS, GDT_PRESENT}

High(limit, base, type) ==
    (base \cap 24 .. 31) \cup Shift(base \cap 16 .. 23, -16)
        \cup (limit \cap 16 .. 19) \cup (type \cap (8 .. 15 \cup 20 .. 23))

init_gdt_segment(limit, base, type) ==
    (limit \cap 0 .. 15) \cup Shift(base \cap 0 .. 15, 16) \cup Shift(High(limit, base, type), 32)

-----------------------------------------------------------------------------
(* The processor.                                                          *)

SegBase(d)  == Shift(d \cap 16 .. 39, -16) \cup Shift(d \cap 56 .. 63, -32)
SegLimit(d) == (d \cap 0 .. 15) \cup Shift(d \cap 48 .. 51, -32)
SegBusy(d)  == GDT_BUSY + 32 \in d

\* A task state segment that is present; granularity and privilege are clear.
IsTss(d) == d \cap Shift((8 .. 15 \ {GDT_BUSY}) \cup 20 .. 23, 32) = Shift(FREE_TSS_TYPE, 32)

MarkBusy(d) == d \cup {GDT_BUSY + 32}
MarkFree(d) == d \ {GDT_BUSY + 32}
=============================================================================
