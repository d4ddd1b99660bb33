---------------------------- MODULE MCSlabLayout ----------------------------
(* Every object size and power-of-two alignment of SlabLayout, one a state. *)
EXTENDS SlabLayout

VARIABLES asked_size, asked_alignment

LayoutInit == asked_size = 1 /\ asked_alignment \in {1, 8, 64}

LayoutNext ==
    /\ asked_size + asked_alignment <= space - SizeofSlab - SizeofBitmap
    /\ asked_size' = asked_size + 1
    /\ UNCHANGED asked_alignment

LayoutSpec == LayoutInit /\ [][LayoutNext]_<<asked_size, asked_alignment>>

\* The bitmap never reaches into the objects (slab_cache.c:26-33), and objects
\* have the size and the alignment asked for (slab_cache.c:19-24).
LayoutSound ==
    /\ BitmapFits(slab_object_size(asked_size, asked_alignment))
    /\ ObjectsAligned(asked_size, asked_alignment)
=============================================================================
