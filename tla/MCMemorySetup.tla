--------------------------- MODULE MCMemorySetup ---------------------------
(* An instance of MemorySetup for TLC: pages of 4 addresses, 32 pages.     *)
EXTENDS MemorySetup

E(addr, len, type) == [addr |-> addr, len |-> len, type |-> type]

\* Conventional memory with its firmware hole, then a block that straddles the
\* 32-bit limit, and one above it; in every order of the first three.
PCMap == <<E(0, 7, 1), E(7, 1, 2), E(16, 116, 1)>>
Orderings == {<<1, 2, 3>>, <<1, 3, 2>>, <<2, 1, 3>>, <<2, 3, 1>>, <<3, 1, 2>>, <<3, 2, 1>>}
PCMaps == {Append([n \in 1 .. 3 |-> PCMap[o[n]]], E(136, 8, 1)) : o \in Orderings}

\* Small machines: none at all, page 0 reserved, no room for the page array, a
\* reserved entry that encloses another and overlaps available memory.
SmallMaps == {
    <<>>,
    <<E(16, 2, 1), E(40, 4, 3), E(20, 40, 1), E(64, 60, 1)>>,
    <<E(0, 4, 2), E(4, 36, 1)>>,
    <<E(0, 18, 1)>>,
    <<E(0, 44, 1), E(30, 2, 2), E(28, 7, 3)>>,
    <<E(30, 2, 2), E(28, 7, 3), E(4, 6, 1), E(10, 34, 1), E(0, 4, 1)>> }

MCMaps == PCMaps \cup SmallMaps

MCKernelImage == <<17, 22>>
=============================================================================
