----------------------------- MODULE SlabLayout -----------------------------
(***************************************************************************)
(* How kernel/slab_cache.c lays a slab out in its two pages: struct slab   *)
(* and its bitmap at the front, the objects at the back.                   *)
(***************************************************************************)
EXTENDS Integers

CONSTANTS PAGE_SIZE,
          SizeofSlab,     \* sizeof(struct slab), bitmap[] not included
          SizeofBitmap,   \* sizeof(bitmap_t)
          CHAR_BIT

ASSUME LayoutAssumption ==
    /\ PAGE_SIZE \in Nat \ {0}
    /\ SizeofSlab \in Nat
    /\ SizeofBitmap \in Nat \ {0}
    /\ CHAR_BIT \in Nat \ {0}
    /\ SizeofSlab + SizeofBitmap <= 2 * PAGE_SIZE

SLAB_ORDER == 1
SlabPages  == 2                         \* BITU(SLAB_ORDER)
space      == PAGE_SIZE * SlabPages

\* Sizes and alignments for which no product or sum wraps in 32 bits.
ObjectSizes == 1 .. space

(* A name with a suffix is its prefix with a bug, for the mutation runs.       *)

\* Variant: rounded down.
slab_object_size_floor(size, alignment) ==
    IF alignment >= size THEN alignment ELSE alignment * (size \div alignment)

slab_object_size(size, alignment) ==
    IF alignment >= size THEN alignment
    ELSE alignment * ((size + alignment - 1) \div alignment)

\* Variant: room for the bits, but not for the rest of the last word of them.
slab_object_count_bits(size) ==
    (CHAR_BIT * (space - SizeofSlab) + 1) \div (CHAR_BIT * size + 1)

\* Every object takes size bytes and one bit, next to struct slab and a word
\* that the bits may leave unfinished.
slab_object_count(size) ==
    (CHAR_BIT * (space - SizeofSlab - SizeofBitmap) + 1) \div (CHAR_BIT * size + 1)

\* Variant: the objects follow struct slab, over the bitmap.
object_offset_front(size) == SizeofSlab

object_offset(size) == space - size * slab_object_count(size)

-----------------------------------------------------------------------------
WordBits == SizeofBitmap * CHAR_BIT

\* Words of bitmap[] that slab_alloc and slab_free index.
BitmapWords(size) == (slab_object_count(size) + WordBits - 1) \div WordBits

HeaderSize(size) == SizeofSlab + SizeofBitmap * BitmapWords(size)

\* The bitmap ends before the first object begins.
BitmapFits(size) == HeaderSize(size) <= object_offset(size)

\* Objects are aligned as slab_cache_create was asked to align them, if the
\* alignment divides the size of a slab.
ObjectsAligned(size, alignment) ==
    LET s == slab_object_size(size, alignment)
    IN  /\ s >= size
        /\ space % alignment = 0 =>
                \A n \in 0 .. slab_object_count(s) :
                    (object_offset(s) + n * s) % alignment = 0
=============================================================================
