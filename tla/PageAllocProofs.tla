-------------------------- MODULE PageAllocProofs --------------------------
(***************************************************************************)
(* The buddy allocator keeps every page frame in exactly one block, for    *)
(* every number of orders, every size of the two zones and every set of    *)
(* pages freed at boot.  And it is a pool of page frames: merging is       *)
(* complete after every call, so the free lists are a function of the free *)
(* pages and a request fails only when no block of its size is free; every *)
(* step of the allocator is a step of PageAllocSpec or changes nothing     *)
(* there.                                                                  *)
(***************************************************************************)
EXTENDS PageAlloc, BasicLemmas

-----------------------------------------------------------------------------
(* Blocks.                                                                 *)

\* Two aligned blocks that meet are nested.
LEMMA BlockNested ==
    ASSUME NEW p \in Nat, NEW q \in Nat, NEW j \in 0 .. 31, NEW k \in j .. 31,
           p % 2^k = 0, q % 2^j = 0,
           BlockPages(q, j) \cap BlockPages(p, k) # {}
    PROVE  BlockPages(q, j) \subseteq BlockPages(p, k)
<1>1. k \in 0 .. 31 /\ j \in 0 .. 31
  OBVIOUS
<1>2. 2^j \in Nat \ {0} /\ 2^k \in Nat \ {0}
  BY <1>1, PowPositive
<1>3. PICK c \in Nat \ {0} : 2^k = c * 2^j
  BY PowDivides
<1>4. PICK x \in BlockPages(q, j) : x \in BlockPages(p, k)
  OBVIOUS
<1>5. x \in Nat /\ p <= x /\ x < p + 2^k /\ q <= x /\ x < q + 2^j
  BY <1>2, <1>4 DEF BlockPages
<1>6. p <= q /\ q + 2^j <= p + 2^k
  <2> DEFINE s == 2^j
             S == 2^k
  <2>1. /\ s \in Nat \ {0} /\ S \in Nat \ {0} /\ S = c * s
        /\ p % S = 0 /\ q % s = 0
        /\ p <= x /\ x < p + S /\ q <= x /\ x < q + s
    BY <1>2, <1>3, <1>5
  <2> HIDE DEF s, S
  <2>2. p <= q /\ q + s <= p + S
    BY <1>5, <2>1, AlignedNested
  <2> QED BY <2>2 DEF s, S
<1> QED BY <1>2, <1>6 DEF BlockPages

\* BlockHead(p, k) is the head of an aligned block that holds p ...
LEMMA BlockHeadFacts ==
    ASSUME NEW p \in Nat, NEW k \in 0 .. 31
    PROVE  /\ BlockHead(p, k) \in Nat
           /\ BlockHead(p, k) % 2^k = 0
           /\ BlockHead(p, k) <= p
           /\ p \in BlockPages(BlockHead(p, k), k)
<1>1. 2^k \in Nat \ {0}
  BY PowPositive
<1> QED BY <1>1, RoundDown DEF BlockHead, BlockPages

\* ... and there is only one such block.
LEMMA BlockHeadUnique ==
    ASSUME NEW h \in Nat, NEW k \in 0 .. 31, h % 2^k = 0,
           NEW p \in BlockPages(h, k)
    PROVE  BlockHead(p, k) = h
<1>1. 2^k \in Nat \ {0}
  BY PowPositive
<1>2. p \in Nat
  BY <1>1 DEF BlockPages
<1> DEFINE g == BlockHead(p, k)
<1>3. g \in Nat /\ g % 2^k = 0 /\ p \in BlockPages(g, k)
  BY <1>2, BlockHeadFacts
<1> HIDE DEF g
<1>4. BlockPages(g, k) \subseteq BlockPages(h, k)
  BY <1>3, BlockNested, k \in k .. 31
<1>5. BlockPages(h, k) \subseteq BlockPages(g, k)
  BY <1>3, BlockNested, k \in k .. 31
<1>6. g \in BlockPages(g, k) /\ h \in BlockPages(h, k)
  BY <1>1, <1>3 DEF BlockPages
<1>7. g \in h .. h + 2^k - 1 /\ h \in g .. g + 2^k - 1
  BY <1>4, <1>5, <1>6 DEF BlockPages
<1>8. g = h
  BY <1>1, <1>3, <1>7
<1> QED BY <1>8 DEF g

\* An aligned block is found from its own head.
LEMMA BlockHeadAligned ==
    ASSUME NEW h \in Nat, NEW k \in 0 .. 31, h % 2^k = 0
    PROVE  BlockHead(h, k) = h /\ h \in BlockPages(h, k)
<1>1. 2^k \in Nat \ {0}
  BY PowPositive
<1>2. h \in BlockPages(h, k)
  BY <1>1 DEF BlockPages
<1> QED BY <1>2, BlockHeadUnique

\* Splitting: buddy_pfn of the head of a block of order j + 1 is the head of its
\* upper half.
LEMMA SplitBlock ==
    ASSUME NEW q \in Nat, NEW j \in 0 .. 30, q % 2^(j + 1) = 0
    PROVE  /\ buddy_pfn(q, j) = q + 2^j
           /\ q % 2^j = 0 /\ (q + 2^j) % 2^j = 0
           /\ BlockPages(q, j + 1) = BlockPages(q, j) \cup BlockPages(q + 2^j, j)
           /\ BlockPages(q, j) \cap BlockPages(q + 2^j, j) = {}
<1>1. 2^j \in Nat \ {0} /\ 2^(j + 1) = 2 * 2^j
  BY PowStep
<1>2. PICK a \in Nat : q = a * (2 * 2^j)
  BY <1>1, Quotient
<1>3. q = (2 * a) * 2^j /\ q + 2^j = (2 * a + 1) * 2^j
  BY <1>1, <1>2
<1>4. q % 2^j = 0 /\ q \div 2^j = 2 * a
  <2>1. 2 * a \in Nat
    OBVIOUS
  <2> QED BY <1>1, <1>3, <2>1, MultipleMod
<1>5. (q + 2^j) % 2^j = 0
  <2>1. 2 * a + 1 \in Nat
    OBVIOUS
  <2> QED BY <1>1, <1>3, <2>1, MultipleMod
<1>6. (2 * a) % 2 = 0
  OBVIOUS
<1> QED BY <1>1, <1>4, <1>5, <1>6 DEF buddy_pfn, BlockPages

\* Merging: the block of order k + 1 around p is the block of order k around p
\* and that block's buddy.
LEMMA MergeBlock ==
    ASSUME NEW p \in Nat, NEW k \in 0 .. 30
    PROVE  /\ Buddy(p, k) \in Nat /\ Buddy(p, k) % 2^k = 0
           /\ BlockPages(BlockHead(p, k + 1), k + 1) =
                BlockPages(BlockHead(p, k), k) \cup BlockPages(Buddy(p, k), k)
           /\ BlockPages(BlockHead(p, k), k) \cap BlockPages(Buddy(p, k), k) = {}
<1> DEFINE h == BlockHead(p, k)
           g == BlockHead(p, k + 1)
<1>1. /\ k \in 0 .. 31 /\ k + 1 \in 0 .. 31
      /\ 2^k \in Nat \ {0} /\ 2^(k + 1) = 2 * 2^k
  BY PowStep
<1>2. h \in Nat /\ h % 2^k = 0 /\ p \in BlockPages(h, k)
  BY <1>1, BlockHeadFacts
<1>3. Buddy(p, k) = buddy_pfn(h, k)
  BY DEF Buddy
<1> HIDE DEF h
<1>4. CASE (h \div 2^k) % 2 = 0
  <2>1. h % 2^(k + 1) = 0 /\ (h + 2^k) % 2^k = 0
    BY <1>1, <1>2, <1>4, Halves
  <2>2. Buddy(p, k) = h + 2^k
    BY <1>3, <1>4 DEF buddy_pfn
  <2>3. p \in BlockPages(h, k + 1)
    BY <1>1, <1>2 DEF BlockPages
  <2>4. g = h
    BY <1>1, <1>2, <2>1, <2>3, BlockHeadUnique
  <2>5. /\ BlockPages(h, k + 1) = BlockPages(h, k) \cup BlockPages(h + 2^k, k)
        /\ BlockPages(h, k) \cap BlockPages(h + 2^k, k) = {}
    BY <1>1, <1>2 DEF BlockPages
  <2> QED BY <1>1, <1>2, <2>1, <2>2, <2>4, <2>5 DEF h
<1>5. CASE (h \div 2^k) % 2 # 0
  <2>1. h - 2^k \in Nat /\ (h - 2^k) % 2^(k + 1) = 0 /\ (h - 2^k) % 2^k = 0
    <3> DEFINE s == 2^k
    <3>1. s \in Nat \ {0} /\ h % s = 0 /\ (h \div s) % 2 # 0
      BY <1>1, <1>2, <1>5
    <3> HIDE DEF s
    <3>2. h - s \in Nat /\ (h - s) % (2 * s) = 0 /\ (h - s) % s = 0
      BY <1>2, <3>1, Halves
    <3> QED BY <1>1, <3>2 DEF s
  <2>2. Buddy(p, k) = h - 2^k
    BY <1>3, <1>5 DEF buddy_pfn
  <2>3. p \in BlockPages(h - 2^k, k + 1)
    BY <1>1, <1>2, <2>1 DEF BlockPages
  <2>4. g = h - 2^k
    BY <1>1, <2>1, <2>3, BlockHeadUnique
  <2>5. /\ BlockPages(h - 2^k, k + 1) = BlockPages(h, k) \cup BlockPages(h - 2^k, k)
        /\ BlockPages(h, k) \cap BlockPages(h - 2^k, k) = {}
    BY <1>1, <1>2, <2>1 DEF BlockPages
  <2> QED BY <1>1, <1>2, <2>1, <2>2, <2>4, <2>5 DEF h
<1> QED BY <1>4, <1>5

-----------------------------------------------------------------------------
(* Zones, orders, blocks.                                                  *)

\* The two zones cut the page frames into two parts.
LEMMA ZoneFacts ==
    /\ \A p \in Pages : p \in Nat /\ page_zone(p) \in Zones /\ p \in ZonePages(page_zone(p))
    /\ \A z \in Zones : ZonePages(z) \subseteq Pages
    /\ \A z \in Zones : \A p \in ZonePages(z) : page_zone(p) = z
BY PageFramesAssumption DEF Pages, Zones, ZonePages, page_zone, start_pfn, end_pfn

\* Orders are small naturals and closed downwards.
LEMMA OrderFacts ==
    /\ 0 \in Orders /\ MAX_ORDER - 1 \in Orders
    /\ \A k \in Orders : k \in 0 .. 31 /\ k \in Nat
    /\ \A k \in Orders, m \in Orders : k < m => k \in 0 .. 30 /\ k + 1 \in Orders
    /\ \A k \in Orders, m \in Orders : \A j \in k .. m : j \in Orders
BY MaxOrderAssumption DEF Orders

\* A block that is aligned for a large order is aligned for a smaller one.
LEMMA AlignedSmaller ==
    ASSUME NEW q \in Nat, NEW j \in 0 .. 31, NEW k \in j .. 31, q % 2^k = 0
    PROVE  q % 2^j = 0
<1>1. 2^j \in Nat \ {0} /\ 2^k \in Nat \ {0}
  <2>1. k \in 0 .. 31
    OBVIOUS
  <2> QED BY <2>1, PowPositive
<1>2. PICK c \in Nat \ {0} : 2^k = c * 2^j
  BY PowDivides
<1>3. PICK a \in Nat : q = a * 2^k
  BY <1>1, Quotient
<1> DEFINE s == 2^j
<1>4. s \in Nat \ {0} /\ q = a * (c * s)
  BY <1>1, <1>2, <1>3
<1> HIDE DEF s
<1>5. q = (a * c) * s /\ a * c \in Nat
  BY <1>4
<1>6. q % s = 0
  BY <1>4, <1>5, MultipleMod
<1> QED BY <1>6 DEF s

\* A larger order has at least twice the pages.
LEMMA PowMonotone ==
    ASSUME NEW j \in 0 .. 31, NEW k \in 0 .. 31, j < k
    PROVE  2 * 2^j <= 2^k
<1>1. j \in 0 .. 30 /\ j + 1 \in 0 .. 31 /\ k \in j + 1 .. 31
  OBVIOUS
<1>2. 2^(j + 1) = 2 * 2^j /\ 2^(j + 1) \in Nat \ {0}
  BY <1>1, PowStep
<1>3. PICK c \in Nat \ {0} : 2^k = c * 2^(j + 1)
  BY <1>1, PowDivides
<1>4. 2^(j + 1) <= c * 2^(j + 1)
  BY <1>2
<1> QED BY <1>2, <1>3, <1>4

-----------------------------------------------------------------------------
(* Replacing blocks by blocks that cover the same pages.                   *)

PagesOf(S) == UNION {BlockPages(b[1], b[2]) : b \in S}

Disjoint(S) == \A b \in S, c \in S : Overlap(b, c) => b = c

\* Replacing blocks R of a partition by disjoint blocks N over the same pages
\* gives a partition of the same pages.
LEMMA ReplaceBlocks ==
    ASSUME NEW S, NEW R \in SUBSET S, NEW N,
           Disjoint(S), Disjoint(N), PagesOf(N) = PagesOf(R),
           \A b \in N : BlockPages(b[1], b[2]) # {}
    PROVE  /\ Disjoint((S \ R) \cup N)
           /\ PagesOf((S \ R) \cup N) = PagesOf(S)
           /\ (S \ R) \cap N = {}
<1>1. ASSUME NEW b \in S \ R, NEW c \in N, Overlap(b, c) PROVE FALSE
  <2>1. PICK x : x \in BlockPages(b[1], b[2]) /\ x \in BlockPages(c[1], c[2])
    BY <1>1 DEF Overlap
  <2>2. PICK r \in R : x \in BlockPages(r[1], r[2])
    BY <2>1 DEF PagesOf
  <2> QED BY <2>1, <2>2 DEF Disjoint, Overlap
<1>2. \A b \in S \ R, c \in N : ~ Overlap(b, c) /\ ~ Overlap(c, b)
  BY <1>1 DEF Overlap
<1>3. Disjoint((S \ R) \cup N)
  BY <1>2 DEF Disjoint
<1>4. PagesOf((S \ R) \cup N) = PagesOf(S)
  BY DEF PagesOf
<1>5. (S \ R) \cap N = {}
  BY <1>2 DEF Overlap
<1> QED BY <1>3, <1>4, <1>5

-----------------------------------------------------------------------------
(* Consequences of the invariant in one state.                             *)

\* The blocks of a typed state are pairs of a page and an order.
LEMMA BlocksTyped ==
    ASSUME TypeOK
    PROVE  /\ Blocks \subseteq Pages \X Orders
           /\ held \subseteq Blocks /\ FreeBlocks \subseteq Blocks
           /\ Reserved \X {0} \subseteq Blocks
           /\ \A p \in Pages, k \in Orders : <<p, k>> \in FreeBlocks <=> IsFree(p, k)
<1>1. Reserved \subseteq Pages /\ 0 \in Orders
  BY OrderFacts DEF Reserved
<1>2. \A p \in Pages, k \in Orders : <<p, k>> \in FreeBlocks <=> IsFree(p, k)
  BY DEF FreeBlocks
<1> QED BY <1>1, <1>2 DEF TypeOK, Blocks, FreeBlocks

\* The loop of free_pages_node stops.
LEMMA MergedOrderFacts ==
    ASSUME NEW z, NEW p, NEW k \in Orders
    PROVE  LET m == MergedOrder(z, p, k)
           IN  /\ m \in k .. MAX_ORDER - 1 /\ m \in Orders
               /\ ~ Merges(z, p, m)
               /\ \A j \in k .. m - 1 : Merges(z, p, j)
<1> DEFINE T == {j \in k .. MAX_ORDER - 1 : ~ Merges(z, p, j)}
<1>1. MAX_ORDER - 1 \in T
  BY OrderFacts DEF Merges, Orders
<1>2. T \in SUBSET Nat
  BY DEF Orders
<1>3. PICK m \in T : \A j \in T : m <= j
  <2> HIDE DEF T
  <2> QED BY <1>1, <1>2, LeastNat
<1>4. /\ m \in k .. MAX_ORDER - 1
      /\ ~ Merges(z, p, m)
      /\ \A j \in k .. m - 1 : Merges(z, p, j)
  <2>1. m \in k .. MAX_ORDER - 1 /\ ~ Merges(z, p, m) /\ m \in Int /\ k \in Int
    BY MaxOrderAssumption DEF Orders
  <2> HIDE DEF T
  <2>2. \A j \in k .. m - 1 : j \in k .. MAX_ORDER - 1 /\ ~ (m <= j)
    BY <2>1, MaxOrderAssumption
  <2> QED BY <1>3, <2>1, <2>2 DEF T
<1>5. /\ MergedOrder(z, p, k) \in k .. MAX_ORDER - 1
      /\ ~ Merges(z, p, MergedOrder(z, p, k))
      /\ \A j \in k .. MergedOrder(z, p, k) - 1 : Merges(z, p, j)
  BY <1>4 DEF MergedOrder
<1>6. \A j \in k .. MAX_ORDER - 1 : j \in Orders
  BY OrderFacts
<1> QED BY <1>5, <1>6

\* The block that the loop builds is the freed block and the buddies it met.
LEMMA MergeUnion ==
    ASSUME NEW p \in Nat, NEW k \in 0 .. 31, NEW m \in k .. 31, p % 2^k = 0
    PROVE  BlockPages(BlockHead(p, m), m) =
             BlockPages(p, k) \cup UNION {BlockPages(Buddy(p, j), j) : j \in k .. m - 1}
<1> DEFINE U(n) == UNION {BlockPages(Buddy(p, j), j) : j \in k .. n - 1}
           T == {n \in Nat : BlockPages(BlockHead(p, n), n) = BlockPages(p, k) \cup U(n)}
<1>1. k \in T
  <2>1. BlockHead(p, k) = p
    BY BlockHeadAligned
  <2>2. U(k) = {}
    OBVIOUS
  <2> QED BY <2>1, <2>2
<1>2. ASSUME NEW n \in k .. 31 - 1, n \in T PROVE n + 1 \in T
  <2>1. n \in 0 .. 30 /\ k .. (n + 1) - 1 = (k .. n - 1) \cup {n}
    OBVIOUS
  <2>2. U(n + 1) = U(n) \cup BlockPages(Buddy(p, n), n)
    BY <2>1
  <2>3. BlockPages(BlockHead(p, n + 1), n + 1) =
            BlockPages(BlockHead(p, n), n) \cup BlockPages(Buddy(p, n), n)
    BY <2>1, MergeBlock
  <2>4. BlockPages(BlockHead(p, n + 1), n + 1) = BlockPages(p, k) \cup U(n + 1)
    BY <1>2, <2>2, <2>3
  <2> QED BY <2>1, <2>4
<1>3. k .. 31 \subseteq T
  <2> HIDE DEF T
  <2> QED BY <1>1, <1>2, IntervalInduction
<1> QED BY <1>3

\* The central fact: a buddy in the zone whose page->order is j is a free block
\* of order j, whatever the orders left behind inside merged blocks.
LEMMA BuddyIsFree ==
    ASSUME BlocksInv,
           NEW p \in Pages, NEW k \in Orders,
           <<p, k>> \in held \cup (Reserved \X {0}),
           NEW j \in Orders, k <= j, Merges(page_zone(p), p, j)
    PROVE  IsFree(Buddy(p, j), j)
<1> DEFINE z == page_zone(p)
           b == Buddy(p, j)
           h == BlockHead(p, j + 1)
<1>1. /\ p \in Nat /\ z \in Zones /\ k \in Nat
      /\ j \in 0 .. 30 /\ j \in 0 .. 31 /\ j + 1 \in Orders /\ j + 1 \in 0 .. 31
  BY ZoneFacts, OrderFacts DEF Merges, Orders
<1>2. <<p, k>> \in Blocks
  BY DEF Blocks
<1>3. /\ p % 2^k = 0 /\ p \in BlockPages(p, k)
      /\ BlockPages(p, k) \subseteq ZonePages(z) /\ z \in ready
  <2>1. p % 2^k = 0 /\ BlockPages(p, k) \subseteq ZonePages(z) /\ z \in ready
    BY <1>2 DEF BlocksInv, BlocksShape
  <2> QED BY <1>1, <2>1, BlockHeadAligned, OrderFacts
<1>4. /\ b \in ZonePages(z) /\ order[b] = j /\ b \in Pages /\ page_zone(b) = z
  BY <1>1, ZoneFacts DEF Merges
<1>5. /\ b \in Nat /\ b % 2^j = 0 /\ b \in BlockPages(b, j)
      /\ h \in Nat /\ h % 2^(j + 1) = 0
      /\ b \in BlockPages(h, j + 1) /\ p \in BlockPages(h, j + 1)
  <2>1. /\ b \in Nat /\ b % 2^j = 0
        /\ BlockPages(h, j + 1) = BlockPages(BlockHead(p, j), j) \cup BlockPages(b, j)
    BY <1>1, MergeBlock
  <2>2. b \in BlockPages(b, j)
    BY <1>1, <2>1, BlockHeadAligned
  <2>3. h \in Nat /\ h % 2^(j + 1) = 0 /\ p \in BlockPages(h, j + 1)
    BY <1>1, BlockHeadFacts
  <2> QED BY <2>1, <2>2, <2>3
<1> HIDE DEF b, h, z
<1>6. PICK c \in Blocks : b \in BlockPages(c[1], c[2])
  BY <1>3, <1>4 DEF BlocksInv, BlocksPartitionPages
<1> DEFINE q == c[1]
           l == c[2]
<1>7. q \in Pages /\ l \in Orders /\ c = <<q, l>> /\ q \in Nat /\ l \in 0 .. 31
  BY BlocksTyped, ZoneFacts, OrderFacts DEF BlocksInv
<1>8. q % 2^l = 0 /\ q \in BlockPages(q, l)
  <2>1. q % 2^l = 0
    BY DEF BlocksInv, BlocksShape
  <2> QED BY <1>7, <2>1, BlockHeadAligned
<1> HIDE DEF q, l
<1>9. l <= j
  <2>1. SUFFICES ASSUME j < l PROVE FALSE
    BY <1>1, <1>7
  <2>2. l \in j + 1 .. 31
    BY <1>1, <1>7, <2>1
  <2>3. BlockPages(h, j + 1) \cap BlockPages(q, l) # {}
    BY <1>5, <1>6 DEF q, l
  <2>4. BlockPages(h, j + 1) \subseteq BlockPages(q, l)
    BY <1>1, <1>5, <1>7, <1>8, <2>2, <2>3, BlockNested
  <2>5. Overlap(c, <<p, k>>)
    BY <1>3, <1>5, <1>7, <2>4 DEF Overlap
  <2>6. c = <<p, k>>
    BY <1>2, <2>5 DEF BlocksInv, BlocksPartitionPages
  <2> QED BY <1>1, <1>7, <2>1, <2>6 DEF Orders
<1>10. q = b
  <2>1. j \in l .. 31
    BY <1>1, <1>7, <1>9
  <2>2. BlockPages(q, l) \cap BlockPages(b, j) # {}
    BY <1>5, <1>6 DEF q, l
  <2>3. BlockPages(q, l) \subseteq BlockPages(b, j)
    BY <1>5, <1>7, <1>8, <2>1, <2>2, BlockNested
  <2>4. 2^j \in Nat /\ 2^l \in Nat
    BY <1>1, <1>7, PowPositive
  <2>5. b <= q /\ q <= b
    <3>1. q \in BlockPages(b, j) /\ b \in BlockPages(q, l)
      BY <1>6, <1>8, <2>3 DEF q, l
    <3> QED BY <1>5, <1>7, <2>4, <3>1 DEF BlockPages
  <2> QED BY <1>5, <1>7, <2>5
<1>11. c \notin held
  <2>1. SUFFICES ASSUME c \in held PROVE FALSE
    OBVIOUS
  <2>2. order[q] < 0
    BY <1>7, <2>1 DEF BlocksInv, OrdersOK, FreeAssertHolds, FreeAssert, q, l
  <2> QED BY <1>1, <1>4, <1>10, <2>2
<1>12. c \notin Reserved \X {0}
  <2>1. SUFFICES ASSUME c \in Reserved \X {0} PROVE FALSE
    OBVIOUS
  <2>2. order[q] < 0
    BY <1>7, <2>1 DEF BlocksInv, OrdersOK, FreeAssertHolds, FreeAssert, q, l
  <2> QED BY <1>1, <1>4, <1>10, <2>2
<1>13. c \in FreeBlocks
  BY <1>11, <1>12 DEF Blocks
<1>14. order[q] = l /\ IsFree(q, l)
  BY <1>7, <1>13, BlocksTyped DEF BlocksInv, OrdersOK, q, l
<1>15. l = j
  BY <1>4, <1>10, <1>14
<1> QED BY <1>10, <1>14, <1>15 DEF b

-----------------------------------------------------------------------------
(* free_pages.                                                             *)

\* The blocks that free_pages(p, k) takes out of the partition: the one it is
\* given and the buddies it unlinks; and the one it puts in.
Unlinked(p, k) ==
    {<<Buddy(p, j), j>> : j \in k .. MergedOrder(page_zone(p), p, k) - 1}

MergedBlock(p, k) ==
    LET m == MergedOrder(page_zone(p), p, k) IN <<BlockHead(p, m), m>>

\* What the freed block becomes: a block of the same zone that consists of
\* whole blocks of the partition.
LEMMA MergedBlockFacts ==
    ASSUME BlocksInv,
           NEW p \in Pages, NEW k \in Orders,
           <<p, k>> \in held \cup (Reserved \X {0}),
           NEW m, m = MergedOrder(page_zone(p), p, k),
           NEW h, h = BlockHead(p, m)
    PROVE  /\ m \in Orders /\ m \in k .. MAX_ORDER - 1
           /\ h \in Pages /\ page_zone(h) = page_zone(p)
           /\ h % 2^m = 0
           /\ h \in BlockPages(h, m)
           /\ BlockPages(h, m) \subseteq ZonePages(page_zone(p))
           /\ page_zone(p) \in ready
           /\ BlockPages(h, m) = PagesOf({<<p, k>>} \cup Unlinked(p, k))
           /\ \A j \in k .. m - 1 : /\ j \in Orders
                                    /\ Buddy(p, j) \in ZonePages(page_zone(p))
                                    /\ IsFree(Buddy(p, j), j)
           /\ Unlinked(p, k) \subseteq FreeBlocks
<1> DEFINE z == page_zone(p)
<1>1. /\ m \in Orders /\ m \in k .. MAX_ORDER - 1
      /\ \A j \in k .. m - 1 : Merges(z, p, j)
  BY MergedOrderFacts
<1>2. /\ p \in Nat /\ z \in Zones /\ ZonePages(z) \subseteq Pages
      /\ k \in 0 .. 31 /\ m \in 0 .. 31 /\ m \in k .. 31
      /\ \A j \in k .. m - 1 : j \in Orders /\ k <= j
  <2>1. p \in Nat /\ z \in Zones /\ ZonePages(z) \subseteq Pages
    BY ZoneFacts
  <2>2. k \in 0 .. 31 /\ m \in 0 .. 31 /\ k <= m
    BY <1>1, OrderFacts
  <2>3. \A j \in k .. m - 1 : j \in k .. m /\ k <= j
    BY <2>2
  <2> QED BY <1>1, <2>1, <2>2, <2>3, OrderFacts
<1>3. <<p, k>> \in Blocks
  BY DEF Blocks
<1>4. /\ p % 2^k = 0 /\ BlockPages(p, k) \subseteq ZonePages(z) /\ z \in ready
  BY <1>3 DEF BlocksInv, BlocksShape
<1>5. \A j \in k .. m - 1 : Buddy(p, j) \in ZonePages(z) /\ IsFree(Buddy(p, j), j)
  <2> TAKE j \in k .. m - 1
  <2>1. Merges(z, p, j)
    BY <1>1
  <2>2. IsFree(Buddy(p, j), j)
    BY <1>2, <2>1, BuddyIsFree
  <2> QED BY <2>1, <2>2 DEF Merges
<1>6. Unlinked(p, k) \subseteq FreeBlocks
  <2>1. \A j \in k .. m - 1 : Buddy(p, j) \in Pages /\ j \in Orders
    BY <1>2, <1>5
  <2>2. \A j \in k .. m - 1 : <<Buddy(p, j), j>> \in FreeBlocks
    BY <1>5, <2>1 DEF FreeBlocks
  <2> QED BY <2>2 DEF Unlinked
<1>7. BlockPages(h, m) =
        BlockPages(p, k) \cup UNION {BlockPages(Buddy(p, j), j) : j \in k .. m - 1}
  BY <1>2, <1>4, MergeUnion
<1>8. BlockPages(h, m) = PagesOf({<<p, k>>} \cup Unlinked(p, k))
  <2>1. PagesOf(Unlinked(p, k)) = UNION {BlockPages(Buddy(p, j), j) : j \in k .. m - 1}
    <3>1. ASSUME NEW x \in PagesOf(Unlinked(p, k))
          PROVE  \E j \in k .. m - 1 : x \in BlockPages(Buddy(p, j), j)
      <4>1. PICK b \in Unlinked(p, k) : x \in BlockPages(b[1], b[2])
        BY DEF PagesOf
      <4>2. PICK j \in k .. m - 1 : b = <<Buddy(p, j), j>>
        BY DEF Unlinked
      <4> QED BY <4>1, <4>2
    <3>2. ASSUME NEW j \in k .. m - 1, NEW x \in BlockPages(Buddy(p, j), j)
          PROVE  x \in PagesOf(Unlinked(p, k))
      <4>1. <<Buddy(p, j), j>> \in Unlinked(p, k)
        BY DEF Unlinked
      <4> QED BY <4>1 DEF PagesOf
    <3> QED BY <3>1, <3>2
  <2>2. PagesOf({<<p, k>>} \cup Unlinked(p, k)) = BlockPages(p, k) \cup PagesOf(Unlinked(p, k))
    BY DEF PagesOf
  <2> QED BY <1>7, <2>1, <2>2
<1>9. BlockPages(h, m) \subseteq ZonePages(z)
  <2>1. ASSUME NEW j \in k .. m - 1 PROVE BlockPages(Buddy(p, j), j) \subseteq ZonePages(z)
    <3>1. <<Buddy(p, j), j>> \in Blocks /\ page_zone(Buddy(p, j)) = z
      BY <1>2, <1>5, <1>6, ZoneFacts DEF Unlinked, Blocks
    <3> QED BY <3>1 DEF BlocksInv, BlocksShape
  <2> QED BY <1>4, <1>7, <2>1
<1>10. h \in Nat /\ h % 2^m = 0 /\ h \in BlockPages(h, m)
  <2>1. h \in Nat /\ h % 2^m = 0
    BY <1>2, BlockHeadFacts
  <2> QED BY <1>2, <2>1, BlockHeadAligned
<1>11. h \in Pages /\ page_zone(h) = z
  BY <1>2, <1>9, <1>10, ZoneFacts
<1> QED BY <1>1, <1>2, <1>4, <1>5, <1>6, <1>8, <1>9, <1>10, <1>11

\* No other block touches the merged block.
LEMMA MergedBlockAlone ==
    ASSUME BlocksInv,
           NEW p \in Pages, NEW k \in Orders,
           <<p, k>> \in held \cup (Reserved \X {0}),
           NEW c \in Blocks, Overlap(c, MergedBlock(p, k))
    PROVE  c \in {<<p, k>>} \cup Unlinked(p, k)
<1> DEFINE m == MergedOrder(page_zone(p), p, k)
           h == BlockHead(p, m)
<1>1. /\ BlockPages(h, m) = PagesOf({<<p, k>>} \cup Unlinked(p, k))
      /\ Unlinked(p, k) \subseteq FreeBlocks
  BY MergedBlockFacts
<1>2. MergedBlock(p, k) = <<h, m>>
  BY DEF MergedBlock
<1>3. PICK x : x \in BlockPages(c[1], c[2]) /\ x \in BlockPages(h, m)
  BY <1>2 DEF Overlap
<1>4. PICK r \in {<<p, k>>} \cup Unlinked(p, k) : x \in BlockPages(r[1], r[2])
  BY <1>1, <1>3 DEF PagesOf
<1>5. r \in Blocks
  BY <1>1 DEF Blocks
<1>6. Overlap(c, r)
  BY <1>3, <1>4 DEF Overlap
<1>7. c = r
  BY <1>5, <1>6 DEF BlocksInv, BlocksPartitionPages
<1> QED BY <1>7

\* What free_pages(p, k) does to the free blocks.
ReturnsBlock(p, k) ==
    FreeBlocks' = (FreeBlocks \ ({<<p, k>>} \cup Unlinked(p, k))) \cup {MergedBlock(p, k)}

\* free_pages keeps the invariant, whoever it is called by: a caller that owned
\* the block, or init_zone for a page that was reserved.
LEMMA FreePagesStep ==
    ASSUME BlocksInv,
           NEW p \in Pages, NEW k \in Orders,
           <<p, k>> \in held \cup (Reserved \X {0}),
           free_pages(p, k),
           held' \subseteq held, Reserved' \subseteq Reserved,
           held' \cup (Reserved' \X {0}) = (held \cup (Reserved \X {0})) \ {<<p, k>>},
           ready' = ready, init_pfn' \in 0 .. page_frames
    PROVE  BlocksInv' /\ ReturnsBlock(p, k)
<1> DEFINE z == page_zone(p)
           m == MergedOrder(z, p, k)
           h == BlockHead(p, m)
           R == {<<p, k>>} \cup Unlinked(p, k)
           N == {<<h, m>>}
<1>1. /\ m \in Orders /\ m \in k .. MAX_ORDER - 1
      /\ h \in Pages /\ page_zone(h) = z /\ z \in ready
      /\ h % 2^m = 0 /\ h \in BlockPages(h, m)
      /\ BlockPages(h, m) \subseteq ZonePages(z)
      /\ BlockPages(h, m) = PagesOf(R)
      /\ \A j \in k .. m - 1 : j \in Orders /\ Buddy(p, j) \in ZonePages(z)
      /\ Unlinked(p, k) \subseteq FreeBlocks
  <2>1. m = MergedOrder(page_zone(p), p, k) /\ h = BlockHead(p, m)
    OBVIOUS
  <2> HIDE DEF m, h
  <2> QED BY <2>1, MergedBlockFacts
<1>2. z \in Zones /\ h \in ZonePages(z) /\ ZonePages(z) \subseteq Pages
  BY <1>1, ZoneFacts
<1>3. TypeOK /\ ListsOK /\ BlocksShape /\ OrdersOK /\ BlocksPartitionPages
  BY DEF BlocksInv
<1>4. /\ free_area' = [free_area EXCEPT ![z] =
            [j \in Orders |->
                IF j \in k .. m - 1 THEN RemoveFirst(@[j], Buddy(p, j))
                ELSE IF j = m THEN Append(@[j], h)
                ELSE @[j]]]
      /\ order' = [order EXCEPT ![h] = m]
  BY DEF free_pages, NewOrders
<1>5. \A c \in Blocks : Overlap(c, <<h, m>>) => c \in R
  BY MergedBlockAlone DEF MergedBlock
<1>6. R \subseteq Blocks /\ <<p, k>> \notin FreeBlocks
  BY <1>1, <1>3 DEF Blocks, BlocksPartitionPages
<1>7. h \notin ToSet(free_area[z][m])
  <2>1. SUFFICES ASSUME <<h, m>> \in FreeBlocks PROVE FALSE
    BY <1>1, <1>3, BlocksTyped DEF IsFree
  <2>2. <<h, m>> \in Blocks /\ Overlap(<<h, m>>, <<h, m>>)
    BY <1>1, <2>1 DEF Blocks, Overlap
  <2>3. <<h, m>> \in Unlinked(p, k)
    BY <1>5, <1>6, <2>1, <2>2
  <2>4. PICK j \in k .. m - 1 : m = j
    BY <2>3 DEF Unlinked
  <2> QED BY <1>1, <2>4 DEF Orders
<1> HIDE DEF z, m, h
<1>8. /\ \A y \in Zones, j \in Orders : y # z => free_area'[y][j] = free_area[y][j]
      /\ \A j \in Orders : j \in k .. m - 1 =>
            free_area'[z][j] = RemoveFirst(free_area[z][j], Buddy(p, j))
      /\ free_area'[z][m] = Append(free_area[z][m], h)
      /\ \A j \in Orders : j \notin k .. m => free_area'[z][j] = free_area[z][j]
      /\ DOMAIN free_area' = Zones
      /\ \A y \in Zones : DOMAIN free_area'[y] = Orders
  BY <1>1, <1>2, <1>3, <1>4 DEF TypeOK, Orders
<1>9. ASSUME NEW y \in Zones, NEW j \in Orders
      PROVE  /\ free_area'[y][j] \in Seq(Pages)
             /\ IsInjective(free_area'[y][j])
             /\ ToSet(free_area'[y][j]) =
                    IF y = z /\ j \in k .. m - 1
                    THEN ToSet(free_area[y][j]) \ {Buddy(p, j)}
                    ELSE IF y = z /\ j = m THEN ToSet(free_area[y][j]) \cup {h}
                    ELSE ToSet(free_area[y][j])
             /\ y \notin ready => free_area'[y][j] = <<>>
  <2>1. free_area[y][j] \in Seq(Pages) /\ IsInjective(free_area[y][j])
        /\ (y \notin ready => free_area[y][j] = <<>>)
    BY <1>3 DEF TypeOK, ListsOK
  <2>2. CASE y # z \/ j \notin k .. m
    <3>1. free_area'[y][j] = free_area[y][j]
      BY <1>8, <2>2
    <3>2. ~ (y = z /\ j \in k .. m - 1) /\ ~ (y = z /\ j = m)
      BY <1>1, <2>2 DEF Orders
    <3> QED BY <2>1, <3>1, <3>2
  <2>3. CASE y = z /\ j \in k .. m - 1
    BY <1>1, <1>8, <2>1, <2>3, RemoveFirstList
  <2>4. CASE y = z /\ j = m
    <3>1. ~ (j \in k .. m - 1)
      BY <1>1, <2>4 DEF Orders
    <3>2. free_area'[y][j] = Append(free_area[y][j], h) /\ h \in Pages /\ h \notin ToSet(free_area[y][j])
      BY <1>1, <1>7, <1>8, <2>4
    <3>3. /\ Append(free_area[y][j], h) \in Seq(Pages)
          /\ IsInjective(Append(free_area[y][j], h))
          /\ ToSet(Append(free_area[y][j], h)) = ToSet(free_area[y][j]) \cup {h}
      BY <2>1, <3>2, AppendList
    <3> QED BY <1>1, <2>4, <3>1, <3>2, <3>3
  <2> QED
    <3>1. j \in k .. m => j \in k .. m - 1 \/ j = m
      BY <1>1 DEF Orders
    <3> QED BY <2>2, <2>3, <2>4, <3>1
<1>10. TypeOK'
  <2>1. free_area' \in [Zones -> [Orders -> Seq(Pages)]]
    <3>1. \A y \in Zones : free_area'[y] \in [Orders -> Seq(Pages)]
      <4> TAKE y \in Zones
      <4>1. free_area'[y] = [j \in Orders |-> free_area'[y][j]]
        BY <1>3, <1>4, <1>2 DEF TypeOK
      <4>2. \A j \in Orders : free_area'[y][j] \in Seq(Pages)
        BY <1>9
      <4> QED BY <4>1, <4>2
    <3>2. free_area' = [y \in Zones |-> free_area'[y]]
      BY <1>3, <1>4 DEF TypeOK
    <3> QED BY <3>1, <3>2
  <2>2. order' \in [Pages -> Int]
    BY <1>1, <1>3, <1>4 DEF TypeOK, Orders
  <2> QED BY <1>3, <2>1, <2>2 DEF TypeOK
<1>11. ListsOK'
  <2>1. ASSUME NEW y \in Zones, NEW j \in Orders PROVE ToSet(free_area'[y][j]) \subseteq ZonePages(y)
    <3>1. ToSet(free_area[y][j]) \subseteq ZonePages(y)
      BY <1>3 DEF ListsOK
    <3>2. y = z => h \in ZonePages(y)
      BY <1>2
    <3>3. ToSet(free_area'[y][j]) \subseteq ToSet(free_area[y][j]) \cup (IF y = z THEN {h} ELSE {})
      <4>1. CASE y = z /\ j \in k .. m - 1
        BY <1>9, <4>1
      <4>2. CASE ~ (y = z /\ j \in k .. m - 1)
        BY <1>9, <4>2
      <4> QED BY <4>1, <4>2
    <3> QED BY <3>1, <3>2, <3>3
  <2> QED BY <1>9, <2>1 DEF ListsOK
<1>12. FreeBlocks' = (FreeBlocks \ R) \cup N
  <2>1. ASSUME NEW q \in Pages, NEW j \in Orders
        PROVE  <<q, j>> \in FreeBlocks' <=> <<q, j>> \in (FreeBlocks \ R) \cup N
    <3>1. page_zone(q) \in Zones
      BY ZoneFacts
    <3>2. <<q, j>> \in FreeBlocks <=> q \in ToSet(free_area[page_zone(q)][j])
      BY DEF FreeBlocks, IsFree
    <3>3. <<q, j>> \in FreeBlocks' <=> q \in ToSet(free_area'[page_zone(q)][j])
      BY DEF FreeBlocks, IsFree
    <3>4. <<q, j>> \in Unlinked(p, k) <=> j \in k .. m - 1 /\ q = Buddy(p, j)
      BY DEF Unlinked, m, z
    <3>5. <<q, j>> \in N <=> q = h /\ j = m
      OBVIOUS
    <3>6. j \in k .. m - 1 => j # m
      BY <1>1 DEF Orders
    <3>7. \A i \in k .. m - 1 : page_zone(Buddy(p, i)) = z
      BY <1>1, <1>2, ZoneFacts
    <3>8. <<q, j>> \in (FreeBlocks \ R) \cup N <=>
            \/ <<q, j>> \in FreeBlocks /\ ~ (j \in k .. m - 1 /\ q = Buddy(p, j))
            \/ q = h /\ j = m
      BY <1>6, <3>4, <3>5
    <3> HIDE DEF R, N
    <3>9. CASE page_zone(q) = z /\ j \in k .. m - 1
      <4>1. ToSet(free_area'[page_zone(q)][j]) = ToSet(free_area[page_zone(q)][j]) \ {Buddy(p, j)}
        BY <1>9, <3>1, <3>9
      <4> QED BY <3>2, <3>3, <3>6, <3>8, <3>9, <4>1
    <3>10. CASE page_zone(q) = z /\ j = m
      <4>1. j \notin k .. m - 1
        BY <3>6, <3>10
      <4>2. ToSet(free_area'[page_zone(q)][j]) = ToSet(free_area[page_zone(q)][j]) \cup {h}
        BY <1>9, <3>1, <3>10, <4>1
      <4> QED BY <3>2, <3>3, <3>8, <3>10, <4>1, <4>2
    <3>11. CASE page_zone(q) = z /\ j \notin k .. m - 1 /\ j # m
      <4>1. ToSet(free_area'[page_zone(q)][j]) = ToSet(free_area[page_zone(q)][j])
        BY <1>9, <3>1, <3>11
      <4> QED BY <3>2, <3>3, <3>8, <3>11, <4>1
    <3>12. CASE page_zone(q) # z
      <4>1. q # h /\ ~ (j \in k .. m - 1 /\ q = Buddy(p, j))
        BY <1>1, <3>7, <3>12
      <4>2. ToSet(free_area'[page_zone(q)][j]) = ToSet(free_area[page_zone(q)][j])
        BY <1>9, <3>1, <3>12
      <4> QED BY <3>2, <3>3, <3>8, <4>1, <4>2
    <3> QED BY <3>9, <3>10, <3>11, <3>12
  <2>2. (FreeBlocks \ R) \cup N \subseteq Pages \X Orders
    BY <1>1 DEF FreeBlocks
  <2>3. FreeBlocks' \subseteq Pages \X Orders
    BY DEF FreeBlocks
  <2> QED BY <2>1, <2>2, <2>3
<1>13. held' \cup (Reserved' \X {0}) = (held \cup (Reserved \X {0})) \ R
  <2>1. Unlinked(p, k) \cap (held \cup (Reserved \X {0})) = {}
    BY <1>1, <1>3 DEF BlocksPartitionPages
  <2> QED BY <2>1
<1>14. Blocks' = (Blocks \ R) \cup N
  BY <1>12, <1>13 DEF Blocks
<1>15. /\ Disjoint((Blocks \ R) \cup N)
       /\ PagesOf((Blocks \ R) \cup N) = PagesOf(Blocks)
       /\ (Blocks \ R) \cap N = {}
  <2>1. Disjoint(Blocks) /\ Disjoint(N)
    BY <1>3 DEF Disjoint, BlocksPartitionPages
  <2>2. PagesOf(N) = PagesOf(R)
    <3>1. PagesOf(N) = BlockPages(h, m)
      BY DEF PagesOf
    <3> QED BY <1>1, <3>1
  <2>3. \A b \in N : BlockPages(b[1], b[2]) # {}
    BY <1>1
  <2> QED BY <1>6, <2>1, <2>2, <2>3, ReplaceBlocks
<1>16. BlocksShape'
  <2>1. ASSUME NEW b \in Blocks'
        PROVE  /\ b[1] % 2^b[2] = 0
               /\ BlockPages(b[1], b[2]) \subseteq ZonePages(page_zone(b[1]))
               /\ page_zone(b[1]) \in ready'
    <3>1. CASE b = <<h, m>>
      BY <1>1, <3>1
    <3>2. CASE b \in Blocks
      BY <1>3, <3>2 DEF BlocksShape
    <3> QED BY <1>14, <3>1, <3>2
  <2> QED BY <2>1 DEF BlocksShape
<1>17. ASSUME NEW b \in Blocks \ R PROVE b[1] # h /\ order'[b[1]] = order[b[1]]
  <2>1. b[1] \in Pages /\ b[2] \in Orders /\ b[1] \in BlockPages(b[1], b[2])
    <3>1. b[1] \in Pages /\ b[2] \in Orders
      BY <1>3, BlocksTyped
    <3>2. b[1] % 2^b[2] = 0
      BY <1>3 DEF BlocksShape
    <3> QED BY <3>1, <3>2, BlockHeadAligned, ZoneFacts, OrderFacts
  <2>2. b[1] # h
    <3>1. SUFFICES ASSUME b[1] = h PROVE FALSE
      OBVIOUS
    <3>2. Overlap(b, <<h, m>>)
      BY <1>1, <2>1, <3>1 DEF Overlap
    <3> QED BY <1>5, <3>2
  <2> QED BY <1>3, <1>4, <2>1, <2>2 DEF TypeOK
<1>18. OrdersOK'
  <2>1. ASSUME NEW b \in FreeBlocks' PROVE order'[b[1]] = b[2]
    <3>1. CASE b = <<h, m>>
      BY <1>1, <1>3, <1>4, <3>1 DEF TypeOK
    <3>2. CASE b \in FreeBlocks \ R
      BY <1>3, <1>17, <3>2 DEF OrdersOK, Blocks
    <3> QED BY <1>12, <3>1, <3>2
  <2>2. ASSUME NEW b \in held' PROVE FreeAssert(b[1], b[2])'
    <3>1. b \in held /\ b \in Blocks \ R
      BY <1>13 DEF Blocks
    <3>2. FreeAssert(b[1], b[2])
      BY <1>3, <3>1 DEF OrdersOK, FreeAssertHolds
    <3> QED BY <1>17, <3>1, <3>2 DEF FreeAssert
  <2>3. ASSUME NEW q \in Reserved' PROVE FreeAssert(q, 0)'
    <3>1. q \in Reserved /\ <<q, 0>> \in Blocks \ R
      BY <1>13 DEF Blocks
    <3>2. FreeAssert(q, 0)
      BY <1>3, <3>1 DEF OrdersOK, FreeAssertHolds
    <3>3. order'[q] = order[q]
      BY <1>17, <3>1
    <3> QED BY <3>2, <3>3 DEF FreeAssert
  <2> QED BY <2>1, <2>2, <2>3 DEF OrdersOK, FreeAssertHolds
<1>19. BlocksPartitionPages'
  <2>1. \A b \in Blocks', c \in Blocks' : Overlap(b, c) => b = c
    BY <1>14, <1>15 DEF Disjoint
  <2>2. held' \cap FreeBlocks' = {}
    <3>1. held' \subseteq held /\ held' \subseteq Blocks \ R
      BY <1>13 DEF Blocks
    <3> QED BY <1>3, <1>12, <1>15, <3>1 DEF BlocksPartitionPages
  <2>3. (Reserved' \X {0}) \cap (held' \cup FreeBlocks') = {}
    <3>1. /\ Reserved' \X {0} \subseteq Reserved \X {0}
          /\ Reserved' \X {0} \subseteq Blocks \ R
      BY <1>13 DEF Blocks
    <3> QED BY <1>3, <1>12, <1>15, <3>1 DEF BlocksPartitionPages
  <2>4. ASSUME NEW q \in Pages, page_zone(q) \in ready'
        PROVE  \E b \in Blocks' : q \in BlockPages(b[1], b[2])
    <3>1. q \in PagesOf(Blocks)
      BY <1>3, <2>4 DEF BlocksPartitionPages, PagesOf
    <3>2. q \in PagesOf(Blocks')
      BY <1>14, <1>15, <3>1
    <3> QED BY <3>2 DEF PagesOf
  <2> QED BY <2>1, <2>2, <2>3, <2>4 DEF BlocksPartitionPages
<1>20. ReturnsBlock(p, k)
  BY <1>12 DEF ReturnsBlock, MergedBlock, z, m, h
<1> QED BY <1>10, <1>11, <1>16, <1>18, <1>19, <1>20 DEF BlocksInv

-----------------------------------------------------------------------------
(* The other actions.                                                      *)

\* The invariant holds before any zone is initialised.
LEMMA InitBlocksInv == Init => BlocksInv
<1> SUFFICES ASSUME Init PROVE BlocksInv
  OBVIOUS
<1>1. TypeOK
  <2>1. free_area \in [Zones -> [Orders -> Seq(Pages)]]
    <3>1. <<>> \in Seq(Pages)
      OBVIOUS
    <3> QED BY <3>1 DEF Init
  <2>2. order \in [Pages -> Int]
    BY BootAssumption DEF Init
  <2> QED BY <2>1, <2>2, PageFramesAssumption DEF Init, TypeOK
<1>2. /\ \A z \in Zones, k \in Orders : free_area[z][k] = <<>>
      /\ Reserved = {} /\ held = {} /\ ready = {}
  BY DEF Init, Reserved
<1>3. FreeBlocks = {}
  <2>1. ToSet(<<>>) = {}
    BY DEF ToSet
  <2> QED BY <1>2, <2>1, ZoneFacts DEF FreeBlocks, IsFree
<1>4. Blocks = {}
  BY <1>2, <1>3 DEF Blocks
<1>5. ListsOK
  <2>1. IsInjective(<<>>) /\ ToSet(<<>>) = {}
    BY DEF IsInjective, ToSet
  <2> QED BY <1>2, <2>1 DEF ListsOK
<1>6. BlocksShape /\ OrdersOK /\ BlocksPartitionPages
  BY <1>2, <1>3, <1>4 DEF BlocksShape, OrdersOK, FreeAssertHolds, BlocksPartitionPages
<1> QED BY <1>1, <1>5, <1>6 DEF BlocksInv

\* The first loop of init_zone makes every page of the zone a reserved block
\* of order 0.
LEMMA InitZoneStep ==
    ASSUME BlocksInv, NEW z \in Zones, InitZone(z)
    PROVE  BlocksInv' /\ FreeBlocks' = FreeBlocks /\ held' = held
<1>1. TypeOK /\ ListsOK /\ BlocksShape /\ OrdersOK /\ BlocksPartitionPages
  BY DEF BlocksInv
<1>2. free_area' = free_area
  <2>1. free_area[z] = [k \in Orders |-> <<>>]
    <3>1. \A k \in Orders : free_area[z][k] = <<>>
      BY <1>1 DEF ListsOK, InitZone
    <3>2. free_area[z] = [k \in Orders |-> free_area[z][k]]
      BY <1>1 DEF TypeOK
    <3> QED BY <3>1, <3>2
  <2> QED BY <1>1, <2>1 DEF InitZone, TypeOK
<1>3. FreeBlocks' = FreeBlocks
  BY <1>2 DEF FreeBlocks, IsFree
<1>4. /\ held' = held /\ init_pfn' = init_pfn /\ ready' = ready \cup {z} /\ z \notin ready
      /\ order' = [p \in Pages |-> IF p \in ZonePages(z) THEN -1 ELSE order[p]]
      /\ init_pfn = start_pfn(z)
  BY DEF InitZone
<1>5. Reserved' = Reserved \cup ZonePages(z)
  <2>1. \A p \in ZonePages(z) : p \in Pages /\ page_zone(p) = z /\ ~ (p < init_pfn)
    <3>1. \A p \in ZonePages(z) : p >= start_pfn(z) /\ p \in Int /\ start_pfn(z) \in Int
      BY PageFramesAssumption DEF ZonePages, start_pfn
    <3> QED BY <1>4, <3>1, ZoneFacts
  <2>2. \A p \in Pages : page_zone(p) = z => p \in ZonePages(z)
    BY ZoneFacts
  <2> QED BY <1>4, <2>1, <2>2 DEF Reserved
<1>6. Blocks' = Blocks \cup (ZonePages(z) \X {0})
  BY <1>3, <1>4, <1>5 DEF Blocks
<1>7. \A p \in Nat : BlockPages(p, 0) = {p}
  BY PowTable DEF BlockPages
<1>8. ASSUME NEW p \in ZonePages(z)
      PROVE  p \in Pages /\ p \in Nat /\ page_zone(p) = z /\ BlockPages(p, 0) = {p}
  BY <1>7, ZoneFacts
<1>9. ASSUME NEW b \in Blocks
      PROVE  /\ BlockPages(b[1], b[2]) \cap ZonePages(z) = {}
             /\ b[1] \in Pages /\ b[1] \notin ZonePages(z)
  <2>1. b[1] \in Pages /\ page_zone(b[1]) \in ready /\ page_zone(b[1]) # z /\ page_zone(b[1]) \in Zones
    BY <1>1, <1>4, BlocksTyped, ZoneFacts DEF BlocksShape
  <2>2. BlockPages(b[1], b[2]) \subseteq ZonePages(page_zone(b[1]))
    BY <1>1 DEF BlocksShape
  <2>3. ZonePages(page_zone(b[1])) \cap ZonePages(z) = {}
    BY <2>1, ZoneFacts
  <2> QED BY <1>8, <2>1, <2>2, <2>3
<1>10. TypeOK'
  <2>1. order' \in [Pages -> Int]
    BY <1>1, <1>4 DEF TypeOK
  <2> QED BY <1>1, <1>2, <1>4, <2>1 DEF TypeOK
<1>11. ListsOK'
  BY <1>1, <1>2, <1>4 DEF ListsOK
<1>12. BlocksShape'
  <2>1. ASSUME NEW p \in ZonePages(z)
        PROVE  p % 2^0 = 0 /\ BlockPages(p, 0) \subseteq ZonePages(page_zone(p))
    BY <1>8, PowTable
  <2>2. ASSUME NEW b \in Blocks'
        PROVE  /\ b[1] % 2^b[2] = 0
               /\ BlockPages(b[1], b[2]) \subseteq ZonePages(page_zone(b[1]))
               /\ page_zone(b[1]) \in ready'
    <3>1. CASE b \in Blocks
      BY <1>1, <1>4, <3>1 DEF BlocksShape
    <3>2. CASE b \in ZonePages(z) \X {0}
      <4>1. b[1] \in ZonePages(z) /\ b[2] = 0
        BY <3>2
      <4> QED BY <1>4, <1>8, <2>1, <4>1
    <3> QED BY <1>6, <3>1, <3>2
  <2> QED BY <2>2 DEF BlocksShape
<1>13. OrdersOK'
  <2>1. ASSUME NEW b \in Blocks PROVE order'[b[1]] = order[b[1]]
    BY <1>4, <1>9
  <2>2. \A b \in FreeBlocks' : order'[b[1]] = b[2]
    BY <1>1, <1>3, <2>1 DEF OrdersOK, Blocks
  <2>3. ASSUME NEW b \in held' PROVE FreeAssert(b[1], b[2])'
    BY <1>1, <1>4, <2>1 DEF OrdersOK, FreeAssertHolds, FreeAssert, Blocks
  <2>4. ASSUME NEW p \in Reserved' PROVE FreeAssert(p, 0)'
    <3>1. CASE p \in ZonePages(z)
      <4>1. order'[p] = -1
        BY <1>4, <1>8, <3>1
      <4>2. order'[p] \in Int /\ order'[p] + 0 + 1 = 0
        BY <4>1
      <4>3. order'[p] < 0 /\ (-order'[p]) - 1 = 0
        BY <4>2, NegOrder
      <4> QED BY <4>3 DEF FreeAssert
    <3>2. CASE p \in Reserved
      <4>1. <<p, 0>> \in Blocks
        BY <3>2 DEF Blocks
      <4>2. order'[p] = order[p]
        BY <2>1, <4>1
      <4> QED BY <1>1, <3>2, <4>2 DEF OrdersOK, FreeAssertHolds, FreeAssert
    <3> QED BY <1>5, <3>1, <3>2
  <2> QED BY <2>2, <2>3, <2>4 DEF OrdersOK, FreeAssertHolds
<1>14. BlocksPartitionPages'
  <2>1. ASSUME NEW b \in Blocks', NEW c \in Blocks', Overlap(b, c) PROVE b = c
    <3>1. PICK x : x \in BlockPages(b[1], b[2]) /\ x \in BlockPages(c[1], c[2])
      BY <2>1 DEF Overlap
    <3>2. ASSUME NEW d \in ZonePages(z) \X {0}
          PROVE  d = <<d[1], 0>> /\ d[1] \in ZonePages(z) /\ BlockPages(d[1], d[2]) = {d[1]}
      BY <1>8
    <3>3. CASE b \in Blocks /\ c \in Blocks
      BY <1>1, <2>1, <3>3 DEF BlocksPartitionPages
    <3>4. CASE b \in Blocks /\ c \in ZonePages(z) \X {0}
      BY <1>9, <3>1, <3>2, <3>4
    <3>5. CASE b \in ZonePages(z) \X {0} /\ c \in Blocks
      BY <1>9, <3>1, <3>2, <3>5
    <3>6. CASE b \in ZonePages(z) \X {0} /\ c \in ZonePages(z) \X {0}
      <4>1. b = <<x, 0>> /\ c = <<x, 0>>
        BY <3>1, <3>2, <3>6
      <4> QED BY <4>1
    <3> QED BY <1>6, <3>3, <3>4, <3>5, <3>6
  <2>2. held' \cap FreeBlocks' = {}
    BY <1>1, <1>3, <1>4 DEF BlocksPartitionPages
  <2>3. (Reserved' \X {0}) \cap (held' \cup FreeBlocks') = {}
    <3>1. \A b \in held \cup FreeBlocks : b \notin ZonePages(z) \X {0}
      BY <1>9 DEF Blocks
    <3>2. (Reserved \X {0}) \cap (held \cup FreeBlocks) = {}
      BY <1>1 DEF BlocksPartitionPages
    <3> QED BY <1>3, <1>4, <1>5, <3>1, <3>2
  <2>4. ASSUME NEW p \in Pages, page_zone(p) \in ready'
        PROVE  \E b \in Blocks' : p \in BlockPages(b[1], b[2])
    <3>1. CASE page_zone(p) = z
      <4>1. p \in ZonePages(z)
        BY <3>1, ZoneFacts
      <4>2. <<p, 0>> \in Blocks' /\ p \in BlockPages(p, 0)
        BY <1>6, <1>8, <4>1
      <4> QED BY <4>2
    <3>2. CASE page_zone(p) \in ready
      BY <1>1, <1>6, <3>2 DEF BlocksPartitionPages
    <3> QED BY <1>4, <2>4, <3>1, <3>2
  <2> QED BY <2>1, <2>2, <2>3, <2>4 DEF BlocksPartitionPages
<1> QED BY <1>3, <1>4, <1>10, <1>11, <1>12, <1>13, <1>14 DEF BlocksInv

\* init_zone's second loop frees a reserved page, or passes it by.
LEMMA InitZonePageStep ==
    ASSUME BlocksInv, InitZonePage
    PROVE  /\ BlocksInv'
           /\ held' = held
           /\ \/ FreeBlocks' = FreeBlocks
              \/ /\ init_pfn \in BootFree /\ init_pfn \in Reserved
                 /\ ReturnsBlock(init_pfn, 0)
<1>1. /\ init_pfn \in Pages /\ init_pfn \in Nat /\ init_pfn' = init_pfn + 1
      /\ init_pfn' \in 0 .. page_frames
      /\ page_zone(init_pfn) \in ready
      /\ ready' = ready /\ held' = held
  BY PageFramesAssumption DEF BlocksInv, TypeOK, InitZonePage, MorePages, Pages
<1>2. \A p \in Pages : p < init_pfn' <=> (p < init_pfn \/ p = init_pfn)
  BY <1>1 DEF Pages
<1>3. CASE init_pfn \in BootFree
  <2>1. free_pages(init_pfn, 0)
    BY <1>3 DEF InitZonePage
  <2>2. init_pfn \in Reserved
    BY <1>1 DEF Reserved
  <2>3. ASSUME NEW q \in Pages
        PROVE  q \in Reserved' <=> q \in Reserved /\ q # init_pfn
    BY <1>1, <1>2, <1>3 DEF Reserved
  <2>4. Reserved' = Reserved \ {init_pfn}
    <3>1. Reserved' \subseteq Pages /\ Reserved \subseteq Pages
      BY DEF Reserved
    <3> QED BY <2>3, <3>1
  <2>5. <<init_pfn, 0>> \notin held
    BY <2>2 DEF BlocksInv, BlocksPartitionPages
  <2>6. held' \cup (Reserved' \X {0}) = (held \cup (Reserved \X {0})) \ {<<init_pfn, 0>>}
    BY <1>1, <2>4, <2>5
  <2>7. /\ 0 \in Orders /\ <<init_pfn, 0>> \in held \cup (Reserved \X {0})
        /\ held' \subseteq held /\ Reserved' \subseteq Reserved
    BY <1>1, <2>2, <2>4, OrderFacts
  <2> QED BY <1>1, <1>3, <2>1, <2>2, <2>6, <2>7, FreePagesStep
<1>4. CASE init_pfn \notin BootFree
  <2>1. free_area' = free_area /\ order' = order
    BY <1>4 DEF InitZonePage
  <2>2. Reserved' = Reserved
    BY <1>1, <1>2, <1>4 DEF Reserved
  <2>3. FreeBlocks' = FreeBlocks
    BY <2>1 DEF FreeBlocks, IsFree
  <2>4. Blocks' = Blocks
    BY <1>1, <2>2, <2>3 DEF Blocks
  <2>5. TypeOK' /\ ListsOK'
    BY <1>1, <2>1 DEF BlocksInv, TypeOK, ListsOK
  <2>6. BlocksShape' /\ BlocksPartitionPages'
    BY <1>1, <2>2, <2>3, <2>4 DEF BlocksInv, BlocksShape, BlocksPartitionPages
  <2>7. OrdersOK'
    BY <1>1, <2>1, <2>2, <2>3 DEF BlocksInv, OrdersOK, FreeAssertHolds, FreeAssert
  <2> QED BY <1>1, <2>3, <2>5, <2>6, <2>7 DEF BlocksInv
<1> QED BY <1>3, <1>4

\* A caller that owns a block and frees it keeps the invariant.
LEMMA FreeStep ==
    ASSUME BlocksInv, NEW b \in held, FreePages(b[1], b[2])
    PROVE  BlocksInv' /\ ReturnsBlock(b[1], b[2]) /\ held' = held \ {b}
<1> DEFINE p == b[1]
           k == b[2]
<1>1. p \in Pages /\ k \in Orders /\ b = <<p, k>>
  BY DEF BlocksInv, TypeOK
<1>2. /\ free_pages(p, k) /\ held' = held \ {<<p, k>>}
      /\ ready' = ready /\ init_pfn' = init_pfn
  BY DEF FreePages
<1>3. Reserved' = Reserved
  BY <1>2 DEF Reserved
<1>4. <<p, k>> \notin Reserved \X {0}
  BY <1>1 DEF BlocksInv, BlocksPartitionPages
<1>5. held' \cup (Reserved' \X {0}) = (held \cup (Reserved \X {0})) \ {<<p, k>>}
  BY <1>2, <1>3, <1>4
<1>6. init_pfn' \in 0 .. page_frames
  BY <1>2 DEF BlocksInv, TypeOK
<1> HIDE DEF p, k
<1>7. <<p, k>> \in held \cup (Reserved \X {0})
  BY <1>1
<1>8. BlocksInv' /\ ReturnsBlock(p, k)
  BY <1>1, <1>2, <1>3, <1>5, <1>6, <1>7, FreePagesStep
<1> QED BY <1>1, <1>2, <1>8 DEF p, k

-----------------------------------------------------------------------------
(* alloc_pages.                                                            *)

\* Cutting a block of order c down to order k leaves the block's first part and
\* one upper half of every order in between.
Halved(q, k, c) == {<<q + 2^j, j>> : j \in k .. c - 1}

\* A block of order c is its first part of order k and the upper halves between.
LEMMA SplitUnion ==
    ASSUME NEW q \in Nat, NEW k \in 0 .. 31, NEW c \in k .. 31, q % 2^c = 0
    PROVE  BlockPages(q, c) =
             BlockPages(q, k) \cup UNION {BlockPages(q + 2^j, j) : j \in k .. c - 1}
<1> DEFINE U(n) == UNION {BlockPages(q + 2^j, j) : j \in k .. n - 1}
           T == {n \in Nat : BlockPages(q, n) = BlockPages(q, k) \cup U(n)}
<1>1. k \in T
  <2>1. U(k) = {}
    OBVIOUS
  <2> QED BY <2>1
<1>2. ASSUME NEW n \in k .. c - 1, n \in T PROVE n + 1 \in T
  <2>1. n \in 0 .. 30 /\ n + 1 \in 0 .. 31 /\ c \in n + 1 .. 31 /\ k .. (n + 1) - 1 = (k .. n - 1) \cup {n}
    OBVIOUS
  <2>2. U(n + 1) = U(n) \cup BlockPages(q + 2^n, n)
    BY <2>1
  <2>3. q % 2^(n + 1) = 0
    BY <2>1, AlignedSmaller
  <2>4. BlockPages(q, n + 1) = BlockPages(q, n) \cup BlockPages(q + 2^n, n)
    BY <2>1, <2>3, SplitBlock
  <2>5. BlockPages(q, n + 1) = BlockPages(q, k) \cup U(n + 1)
    BY <1>2, <2>2, <2>4
  <2> QED BY <2>1, <2>5
<1>3. k .. c \subseteq T
  <2> HIDE DEF T
  <2>1. k \in Nat /\ c \in Nat
    OBVIOUS
  <2> QED BY <1>1, <1>2, <2>1, IntervalInduction
<1> QED BY <1>3

\* The pieces of a block of order c, in the form alloc_pages_node makes them.
LEMMA SplitFacts ==
    ASSUME NEW q \in Pages, NEW c \in Orders, NEW k \in Orders, k <= c, q % 2^c = 0,
           BlockPages(q, c) \subseteq Pages
    PROVE  /\ q % 2^k = 0
           /\ \A j \in k .. c - 1 :
                /\ j \in Orders /\ j < c
                /\ buddy_pfn(q, j) = q + 2^j
                /\ q + 2^j \in Pages /\ q + 2^j \in Nat /\ q + 2^j # q
                /\ (q + 2^j) % 2^j = 0
                /\ BlockPages(q + 2^j, j) \subseteq BlockPages(q, c)
                /\ q + 2^j \in BlockPages(q + 2^j, j)
           /\ \A i, j \in k .. c - 1 : q + 2^i = q + 2^j => i = j
           /\ q \in BlockPages(q, k) /\ BlockPages(q, k) \subseteq BlockPages(q, c)
           /\ Disjoint({<<q, k>>} \cup Halved(q, k, c))
           /\ PagesOf({<<q, k>>} \cup Halved(q, k, c)) = BlockPages(q, c)
<1>1. /\ q \in Nat /\ k \in 0 .. 31 /\ c \in 0 .. 31 /\ c \in k .. 31
      /\ \A j \in k .. c - 1 : /\ j \in Orders /\ j < c /\ j \in 0 .. 30 /\ j \in 0 .. 31
                               /\ j + 1 \in 0 .. 31 /\ c \in j + 1 .. 31 /\ k <= j
  <2>1. q \in Nat /\ k \in 0 .. 31 /\ c \in 0 .. 31
    BY ZoneFacts, OrderFacts
  <2>2. \A j \in k .. c - 1 : j \in k .. c
    BY <2>1
  <2>3. \A j \in k .. c - 1 : j \in Orders
    BY <2>2, OrderFacts
  <2> QED BY <2>1, <2>3
<1>2. q % 2^k = 0
  BY <1>1, AlignedSmaller
<1>3. BlockPages(q, c) =
        BlockPages(q, k) \cup UNION {BlockPages(q + 2^j, j) : j \in k .. c - 1}
  BY <1>1, SplitUnion
<1>4. ASSUME NEW j \in k .. c - 1
      PROVE  /\ buddy_pfn(q, j) = q + 2^j
             /\ (q + 2^j) % 2^j = 0
             /\ 2^j \in Nat \ {0} /\ q + 2^j \in Nat /\ q + 2^j # q
             /\ q + 2^j \in BlockPages(q + 2^j, j)
             /\ BlockPages(q + 2^j, j) \subseteq BlockPages(q, c)
             /\ q + 2^j \in Pages
  <2>1. q % 2^(j + 1) = 0
    BY <1>1, AlignedSmaller
  <2>2. buddy_pfn(q, j) = q + 2^j /\ (q + 2^j) % 2^j = 0
    BY <1>1, <2>1, SplitBlock
  <2>3. 2^j \in Nat \ {0}
    BY <1>1, PowPositive
  <2>4. q + 2^j \in Nat /\ q + 2^j # q
    BY <1>1, <2>3
  <2>5. q + 2^j \in BlockPages(q + 2^j, j)
    BY <1>1, <2>2, <2>4, BlockHeadAligned
  <2>6. BlockPages(q + 2^j, j) \subseteq BlockPages(q, c)
    BY <1>3
  <2> QED BY <2>2, <2>3, <2>4, <2>5, <2>6
<1>5. ASSUME NEW i \in k .. c - 1, NEW j \in k .. c - 1, i < j
      PROVE  /\ q + 2^i # q + 2^j
             /\ BlockPages(q + 2^i, i) \cap BlockPages(q + 2^j, j) = {}
  <2>1. 2 * 2^i <= 2^j
    BY <1>1, <1>5, PowMonotone
  <2> QED BY <1>1, <1>4, <2>1 DEF BlockPages
<1>6. ASSUME NEW j \in k .. c - 1
      PROVE  BlockPages(q, k) \cap BlockPages(q + 2^j, j) = {}
  <2>1. 2^k \in Nat \ {0} /\ 2^k <= 2^j
    <3>1. 2^k \in Nat \ {0}
      BY <1>1, PowPositive
    <3>2. CASE k = j
      BY <3>1, <3>2
    <3>3. CASE k < j
      <4>1. 2 * 2^k <= 2^j
        BY <1>1, <3>3, PowMonotone
      <4> QED BY <1>4, <3>1, <4>1
    <3> QED BY <1>1, <3>1, <3>2, <3>3
  <2> QED BY <1>1, <1>4, <2>1 DEF BlockPages
<1>7. \A i, j \in k .. c - 1 : q + 2^i = q + 2^j => i = j
  <2> TAKE i, j \in k .. c - 1
  <2>1. i < j \/ j < i \/ i = j
    BY <1>1
  <2> QED BY <1>5, <2>1
<1>8. q \in BlockPages(q, k)
  BY <1>1, <1>2, BlockHeadAligned
<1>9. Disjoint({<<q, k>>} \cup Halved(q, k, c))
  <2>1. ASSUME NEW i \in k .. c - 1, NEW j \in k .. c - 1,
               Overlap(<<q + 2^i, i>>, <<q + 2^j, j>>)
        PROVE  i = j
    <3>1. BlockPages(q + 2^i, i) \cap BlockPages(q + 2^j, j) # {}
      BY <2>1 DEF Overlap
    <3>2. ~ (i < j) /\ ~ (j < i)
      BY <1>5, <3>1
    <3> QED BY <1>1, <3>2
  <2>2. ASSUME NEW j \in k .. c - 1
        PROVE  ~ Overlap(<<q, k>>, <<q + 2^j, j>>) /\ ~ Overlap(<<q + 2^j, j>>, <<q, k>>)
    BY <1>6 DEF Overlap
  <2>3. \A b \in Halved(q, k, c) : \E j \in k .. c - 1 : b = <<q + 2^j, j>>
    BY DEF Halved
  <2>4. ASSUME NEW a \in {<<q, k>>} \cup Halved(q, k, c),
               NEW b \in {<<q, k>>} \cup Halved(q, k, c), Overlap(a, b)
        PROVE  a = b
    <3>1. CASE a = <<q, k>> /\ b = <<q, k>>
      BY <3>1
    <3>2. CASE a = <<q, k>> /\ b \in Halved(q, k, c)
      BY <2>2, <2>3, <2>4, <3>2
    <3>3. CASE a \in Halved(q, k, c) /\ b = <<q, k>>
      BY <2>2, <2>3, <2>4, <3>3
    <3>4. CASE a \in Halved(q, k, c) /\ b \in Halved(q, k, c)
      <4>1. PICK i \in k .. c - 1 : a = <<q + 2^i, i>>
        BY <2>3, <3>4
      <4>2. PICK j \in k .. c - 1 : b = <<q + 2^j, j>>
        BY <2>3, <3>4
      <4>3. i = j
        BY <2>1, <2>4, <4>1, <4>2
      <4> QED BY <4>1, <4>2, <4>3
    <3> QED BY <3>1, <3>2, <3>3, <3>4
  <2> QED BY <2>4 DEF Disjoint
<1>10. PagesOf({<<q, k>>} \cup Halved(q, k, c)) = BlockPages(q, c)
  <2>1. PagesOf(Halved(q, k, c)) = UNION {BlockPages(q + 2^j, j) : j \in k .. c - 1}
    <3>1. ASSUME NEW x \in PagesOf(Halved(q, k, c))
          PROVE  \E j \in k .. c - 1 : x \in BlockPages(q + 2^j, j)
      <4>1. PICK b \in Halved(q, k, c) : x \in BlockPages(b[1], b[2])
        BY DEF PagesOf
      <4>2. PICK j \in k .. c - 1 : b = <<q + 2^j, j>>
        BY DEF Halved
      <4> QED BY <4>1, <4>2
    <3>2. ASSUME NEW j \in k .. c - 1, NEW x \in BlockPages(q + 2^j, j)
          PROVE  x \in PagesOf(Halved(q, k, c))
      <4>1. <<q + 2^j, j>> \in Halved(q, k, c)
        BY DEF Halved
      <4> QED BY <4>1 DEF PagesOf
    <3> QED BY <3>1, <3>2
  <2>2. PagesOf({<<q, k>>}) = BlockPages(q, k)
    BY DEF PagesOf
  <2>3. \A A, B : PagesOf(A \cup B) = PagesOf(A) \cup PagesOf(B)
    BY DEF PagesOf
  <2> QED BY <1>3, <2>1, <2>2, <2>3
<1> QED BY <1>1, <1>2, <1>3, <1>4, <1>7, <1>8, <1>9, <1>10

\* What alloc_pages(k) does to the blocks.
TakesBlock(k) ==
    \E q \in Pages, c \in Orders :
        /\ k <= c
        /\ <<q, c>> \in FreeBlocks
        /\ page_zone(q) = "ZONE_NORMAL"
        /\ held' = held \cup {<<q, k>>}
        /\ FreeBlocks' = (FreeBlocks \ {<<q, c>>}) \cup Halved(q, k, c)

\* alloc_pages keeps the invariant: the block it takes is replaced by the block
\* that the caller gets and by the upper halves that go back to the lists.
LEMMA AllocStep ==
    ASSUME BlocksInv, NEW k \in Orders, alloc_pages(k)
    PROVE  BlocksInv' /\ TakesBlock(k)
<1> DEFINE Z == "ZONE_NORMAL"
<1>1. TypeOK /\ ListsOK /\ BlocksShape /\ OrdersOK /\ BlocksPartitionPages
  BY DEF BlocksInv
<1>2. PICK c \in Available(k) :
        LET p == Head(free_area["ZONE_NORMAL"][c])
        IN  /\ \A j \in Available(k) : c <= j
            /\ free_area' = [free_area EXCEPT !["ZONE_NORMAL"] =
                    [j \in Orders |->
                        IF j = c THEN Tail(@[j])
                        ELSE IF j \in k .. c - 1
                             THEN Append(@[j], buddy_pfn(p, j))
                        ELSE @[j]]]
            /\ order' = [q \in Pages |->
                    IF q = p THEN UsedOrder(k)
                    ELSE IF \E j \in k .. c - 1 : q = buddy_pfn(p, j)
                         THEN CHOOSE j \in k .. c - 1 : q = buddy_pfn(p, j)
                    ELSE order[q]]
            /\ held' = held \cup {<<p, k>>}
  BY DEF alloc_pages
<1> DEFINE q == Head(free_area["ZONE_NORMAL"][c])
           H == Halved(q, k, c)
           R == {<<q, c>>}
           N == {<<q, k>>} \cup H
<1>3. c \in Orders /\ k <= c /\ free_area[Z][c] # <<>> /\ Z \in Zones
  <2>1. c \in k .. MAX_ORDER - 1 /\ free_area[Z][c] # <<>>
    BY DEF Available
  <2> QED BY <2>1, OrderFacts, MaxOrderAssumption DEF Orders, Zones
<1>4. /\ q \in ToSet(free_area[Z][c]) /\ q \in Pages /\ page_zone(q) = Z
      /\ <<q, c>> \in FreeBlocks
  <2>1. free_area[Z][c] \in Seq(Pages) /\ IsInjective(free_area[Z][c])
        /\ ToSet(free_area[Z][c]) \subseteq ZonePages(Z)
    BY <1>1, <1>3 DEF TypeOK, ListsOK
  <2>2. q \in ToSet(free_area[Z][c])
    BY <1>3, <2>1, TailList
  <2>3. q \in Pages /\ page_zone(q) = Z
    BY <1>3, <2>1, <2>2, ZoneFacts
  <2> QED BY <1>3, <2>2, <2>3 DEF FreeBlocks, IsFree
<1>5. <<q, c>> \in Blocks /\ q % 2^c = 0 /\ BlockPages(q, c) \subseteq ZonePages(Z) /\ Z \in ready
  <2>1. <<q, c>> \in Blocks
    BY <1>4 DEF Blocks
  <2> QED BY <1>1, <1>4, <2>1 DEF BlocksShape
<1>6. ZonePages(Z) \subseteq Pages
  BY <1>3, ZoneFacts
<1> HIDE DEF q
<1>7. /\ q % 2^k = 0
      /\ \A j \in k .. c - 1 :
           /\ j \in Orders /\ j < c
           /\ buddy_pfn(q, j) = q + 2^j
           /\ q + 2^j \in Pages /\ q + 2^j \in Nat /\ q + 2^j # q
           /\ (q + 2^j) % 2^j = 0
           /\ BlockPages(q + 2^j, j) \subseteq BlockPages(q, c)
           /\ q + 2^j \in BlockPages(q + 2^j, j)
      /\ \A i, j \in k .. c - 1 : q + 2^i = q + 2^j => i = j
      /\ q \in BlockPages(q, k) /\ BlockPages(q, k) \subseteq BlockPages(q, c)
      /\ Disjoint(N)
      /\ PagesOf(N) = BlockPages(q, c)
  BY <1>3, <1>4, <1>5, <1>6, SplitFacts
<1>8. \A j \in k .. c - 1 : q + 2^j \in ZonePages(Z) /\ page_zone(q + 2^j) = Z
  BY <1>3, <1>5, <1>7, ZoneFacts
\* No other block touches the one that is split.
<1>9. \A b \in Blocks : Overlap(b, <<q, c>>) => b = <<q, c>>
  BY <1>1, <1>5 DEF BlocksPartitionPages
<1>10. ASSUME NEW b \in Blocks, b # <<q, c>>
       PROVE  /\ b[1] # q /\ b[1] \in Pages
              /\ \A j \in k .. c - 1 : b[1] # q + 2^j
  <2>1. b[1] \in Pages /\ b[2] \in Orders /\ b[1] \in BlockPages(b[1], b[2])
    <3>1. b[1] \in Pages /\ b[2] \in Orders
      BY <1>1, BlocksTyped
    <3>2. b[1] % 2^b[2] = 0
      BY <1>1 DEF BlocksShape
    <3> QED BY <3>1, <3>2, BlockHeadAligned, ZoneFacts, OrderFacts
  <2>2. b[1] \notin BlockPages(q, c)
    <3>1. SUFFICES ASSUME b[1] \in BlockPages(q, c) PROVE FALSE
      OBVIOUS
    <3>2. Overlap(b, <<q, c>>)
      BY <2>1, <3>1 DEF Overlap
    <3> QED BY <1>9, <1>10, <3>2
  <2>3. q \in BlockPages(q, c) /\ \A j \in k .. c - 1 : q + 2^j \in BlockPages(q, c)
    BY <1>7
  <2> QED BY <2>1, <2>2, <2>3
<1>11. \A j \in k .. c - 1 : q + 2^j \notin ToSet(free_area[Z][j])
  <2> SUFFICES ASSUME NEW j \in k .. c - 1, q + 2^j \in ToSet(free_area[Z][j]) PROVE FALSE
    OBVIOUS
  <2>1. <<q + 2^j, j>> \in Blocks
    BY <1>7, <1>8 DEF FreeBlocks, IsFree, Blocks
  <2>2. <<q + 2^j, j>> # <<q, c>>
    BY <1>7
  <2> QED BY <1>10, <2>1, <2>2
<1>12. /\ \A y \in Zones, j \in Orders : y # Z => free_area'[y][j] = free_area[y][j]
       /\ \A j \in k .. c - 1 : free_area'[Z][j] = Append(free_area[Z][j], q + 2^j)
       /\ free_area'[Z][c] = Tail(free_area[Z][c])
       /\ \A j \in Orders : j \notin k .. c => free_area'[Z][j] = free_area[Z][j]
       /\ \A y \in Zones : free_area'[y] = [j \in Orders |-> free_area'[y][j]]
       /\ free_area' = [y \in Zones |-> free_area'[y]]
  <2>1. free_area' = [free_area EXCEPT ![Z] =
            [j \in Orders |->
                IF j = c THEN Tail(@[j])
                ELSE IF j \in k .. c - 1 THEN Append(@[j], buddy_pfn(q, j))
                ELSE @[j]]]
    BY <1>2 DEF q
  <2>2. free_area' = [free_area EXCEPT ![Z] =
            [j \in Orders |->
                IF j = c THEN Tail(free_area[Z][j])
                ELSE IF j \in k .. c - 1 THEN Append(free_area[Z][j], buddy_pfn(q, j))
                ELSE free_area[Z][j]]]
    BY <1>1, <1>3, <2>1 DEF TypeOK
  <2>3. /\ free_area'[Z] =
            [j \in Orders |->
                IF j = c THEN Tail(free_area[Z][j])
                ELSE IF j \in k .. c - 1 THEN Append(free_area[Z][j], buddy_pfn(q, j))
                ELSE free_area[Z][j]]
        /\ \A y \in Zones : y # Z => free_area'[y] = free_area[y]
        /\ free_area' = [y \in Zones |-> free_area'[y]]
    BY <1>1, <1>3, <2>2 DEF TypeOK
  <2>4. \A y \in Zones : free_area'[y] = [j \in Orders |-> free_area'[y][j]]
    <3> TAKE y \in Zones
    <3>1. CASE y = Z
      BY <2>3, <3>1
    <3>2. CASE y # Z
      BY <1>1, <2>3, <3>2 DEF TypeOK
    <3> QED BY <3>1, <3>2
  <2>5. \A j \in k .. c - 1 : j \in Orders /\ j # c
    BY <1>7
  <2>6. \A j \in k .. c - 1 : free_area'[Z][j] = Append(free_area[Z][j], q + 2^j)
    BY <1>7, <2>3, <2>5
  <2>7. k \in Int /\ c \in Int
    BY <1>3 DEF Orders
  <2>8. \A j \in Orders : j \notin k .. c => j # c /\ j \notin k .. c - 1
    BY <1>3, <2>7 DEF Orders
  <2> QED BY <1>3, <2>3, <2>4, <2>6, <2>8
<1>13. /\ order' \in [Pages -> Int]
       /\ order'[q] = (-k) - 1
       /\ \A j \in k .. c - 1 : order'[q + 2^j] = j
       /\ \A x \in Pages : x # q /\ (\A j \in k .. c - 1 : x # q + 2^j) => order'[x] = order[x]
  <2>1. order' = [x \in Pages |->
            IF x = q THEN (-k) - 1
            ELSE IF \E j \in k .. c - 1 : x = buddy_pfn(q, j)
                 THEN CHOOSE j \in k .. c - 1 : x = buddy_pfn(q, j)
            ELSE order[x]]
    BY <1>2 DEF q, UsedOrder
  <2>2. order'[q] = (-k) - 1 /\ (-k) - 1 \in Int
    BY <1>4, <2>1, EncodeOrder, OrderFacts
  <2>3. ASSUME NEW j \in k .. c - 1 PROVE order'[q + 2^j] = j
    <3>1. order'[q + 2^j] = CHOOSE i \in k .. c - 1 : q + 2^j = buddy_pfn(q, i)
      BY <1>7, <2>1
    <3>2. \A i \in k .. c - 1 : q + 2^j = buddy_pfn(q, i) <=> i = j
      BY <1>7
    <3> QED BY <3>1, <3>2
  <2>4. \A x \in Pages : x # q /\ (\A j \in k .. c - 1 : x # q + 2^j) => order'[x] = order[x]
    BY <1>7, <2>1
  <2>5. \A x \in Pages : order'[x] \in Int
    <3> TAKE x \in Pages
    <3>1. CASE x = q
      BY <2>2, <3>1
    <3>2. CASE \E j \in k .. c - 1 : x = q + 2^j
      <4>1. \A j \in k .. c - 1 : j \in Int
        BY <1>7 DEF Orders
      <4> QED BY <2>3, <3>2, <4>1
    <3>3. CASE x # q /\ \A j \in k .. c - 1 : x # q + 2^j
      BY <1>1, <2>4, <3>3 DEF TypeOK
    <3> QED BY <3>1, <3>2, <3>3
  <2> QED BY <2>1, <2>2, <2>3, <2>4, <2>5
<1>14. /\ held' = held \cup {<<q, k>>} /\ ready' = ready /\ init_pfn' = init_pfn
       /\ Reserved' = Reserved
  BY <1>2 DEF q, alloc_pages, Reserved
<1>15. ASSUME NEW y \in Zones, NEW j \in Orders
       PROVE  /\ free_area'[y][j] \in Seq(Pages)
              /\ IsInjective(free_area'[y][j])
              /\ ToSet(free_area'[y][j]) =
                     IF y = Z /\ j = c THEN ToSet(free_area[y][j]) \ {q}
                     ELSE IF y = Z /\ j \in k .. c - 1
                          THEN ToSet(free_area[y][j]) \cup {q + 2^j}
                     ELSE ToSet(free_area[y][j])
              /\ y \notin ready => free_area'[y][j] = <<>>
  <2>1. free_area[y][j] \in Seq(Pages) /\ IsInjective(free_area[y][j])
        /\ (y \notin ready => free_area[y][j] = <<>>)
    BY <1>1 DEF TypeOK, ListsOK
  <2>2. CASE y = Z /\ j = c
    <3>1. free_area'[y][j] = Tail(free_area[y][j]) /\ q = Head(free_area[y][j])
      BY <1>12, <2>2 DEF q
    <3>2. /\ Tail(free_area[y][j]) \in Seq(Pages)
          /\ IsInjective(Tail(free_area[y][j]))
          /\ ToSet(Tail(free_area[y][j])) = ToSet(free_area[y][j]) \ {q}
      BY <1>3, <2>1, <2>2, <3>1, TailList
    <3> QED BY <1>5, <2>2, <3>1, <3>2
  <2>3. CASE y = Z /\ j \in k .. c - 1
    <3>1. j # c /\ q + 2^j \in Pages /\ q + 2^j \notin ToSet(free_area[y][j])
      BY <1>7, <1>11, <2>3
    <3>2. free_area'[y][j] = Append(free_area[y][j], q + 2^j)
      BY <1>12, <2>3
    <3> DEFINE e == q + 2^j
    <3>3. e \in Pages /\ e \notin ToSet(free_area[y][j])
      BY <3>1
    <3> HIDE DEF e
    <3>4. /\ Append(free_area[y][j], e) \in Seq(Pages)
          /\ IsInjective(Append(free_area[y][j], e))
          /\ ToSet(Append(free_area[y][j], e)) = ToSet(free_area[y][j]) \cup {e}
      BY <2>1, <3>3, AppendList
    <3> QED BY <1>5, <2>3, <3>1, <3>2, <3>4 DEF e
  <2>4. CASE y # Z \/ (j # c /\ j \notin k .. c - 1)
    <3>1. j # c /\ j \notin k .. c - 1 => j \notin k .. c
      BY <1>3 DEF Orders
    <3>2. free_area'[y][j] = free_area[y][j]
      BY <1>12, <2>4, <3>1
    <3> QED BY <2>1, <2>4, <3>2
  <2> QED BY <2>2, <2>3, <2>4
<1>16. TypeOK'
  <2>1. free_area' \in [Zones -> [Orders -> Seq(Pages)]]
    <3>1. \A y \in Zones : free_area'[y] \in [Orders -> Seq(Pages)]
      <4> TAKE y \in Zones
      <4>1. free_area'[y] = [j \in Orders |-> free_area'[y][j]]
        BY <1>12
      <4>2. \A j \in Orders : free_area'[y][j] \in Seq(Pages)
        BY <1>15
      <4> QED BY <4>1, <4>2
    <3>2. free_area' = [y \in Zones |-> free_area'[y]]
      BY <1>12
    <3> QED BY <3>1, <3>2
  <2>2. held' \subseteq Pages \X Orders
    BY <1>1, <1>4, <1>14 DEF TypeOK
  <2> QED BY <1>1, <1>13, <1>14, <2>1, <2>2 DEF TypeOK
<1>17. ListsOK'
  <2>1. ASSUME NEW y \in Zones, NEW j \in Orders PROVE ToSet(free_area'[y][j]) \subseteq ZonePages(y)
    <3>1. ToSet(free_area[y][j]) \subseteq ZonePages(y)
      BY <1>1 DEF ListsOK
    <3>2. CASE y = Z /\ j \in k .. c - 1
      <4>1. ToSet(free_area'[y][j]) \subseteq ToSet(free_area[y][j]) \cup {q + 2^j}
        BY <1>15
      <4> QED BY <1>8, <3>1, <3>2, <4>1
    <3>3. CASE ~ (y = Z /\ j \in k .. c - 1)
      <4>1. ToSet(free_area'[y][j]) \subseteq ToSet(free_area[y][j])
        BY <1>15, <3>3
      <4> QED BY <3>1, <4>1
    <3> QED BY <3>2, <3>3
  <2> QED BY <1>14, <1>15, <2>1 DEF ListsOK
<1>18. FreeBlocks' = (FreeBlocks \ R) \cup H
  <2>1. ASSUME NEW x \in Pages, NEW j \in Orders
        PROVE  <<x, j>> \in FreeBlocks' <=> <<x, j>> \in (FreeBlocks \ R) \cup H
    <3>1. page_zone(x) \in Zones
      BY ZoneFacts
    <3>2. <<x, j>> \in FreeBlocks <=> x \in ToSet(free_area[page_zone(x)][j])
      BY DEF FreeBlocks, IsFree
    <3>3. <<x, j>> \in FreeBlocks' <=> x \in ToSet(free_area'[page_zone(x)][j])
      BY DEF FreeBlocks, IsFree
    <3>4. <<x, j>> \in H <=> j \in k .. c - 1 /\ x = q + 2^j
      BY DEF Halved
    <3>5. <<x, j>> \in R <=> x = q /\ j = c
      OBVIOUS
    <3>6. <<x, j>> \in (FreeBlocks \ R) \cup H <=>
            \/ x \in ToSet(free_area[page_zone(x)][j]) /\ ~ (x = q /\ j = c)
            \/ j \in k .. c - 1 /\ x = q + 2^j
      BY <3>2, <3>4, <3>5
    <3> HIDE DEF R, H
    <3>7. CASE page_zone(x) = Z /\ j = c
      <4>1. j \notin k .. c - 1
        BY <1>3, <3>7 DEF Orders
      <4>2. ToSet(free_area'[page_zone(x)][j]) = ToSet(free_area[page_zone(x)][j]) \ {q}
        BY <1>15, <3>1, <3>7
      <4> QED BY <3>3, <3>6, <3>7, <4>1, <4>2
    <3>8. CASE page_zone(x) = Z /\ j \in k .. c - 1
      <4>1. j # c
        BY <1>7, <3>8
      <4>2. ToSet(free_area'[page_zone(x)][j]) = ToSet(free_area[page_zone(x)][j]) \cup {q + 2^j}
        BY <1>15, <3>1, <3>8, <4>1
      <4> QED BY <3>3, <3>6, <3>8, <4>1, <4>2
    <3>9. CASE page_zone(x) = Z /\ j # c /\ j \notin k .. c - 1
      <4>1. ToSet(free_area'[page_zone(x)][j]) = ToSet(free_area[page_zone(x)][j])
        BY <1>15, <3>1, <3>9
      <4> QED BY <3>3, <3>6, <3>9, <4>1
    <3>10. CASE page_zone(x) # Z
      <4>1. x # q /\ ~ (j \in k .. c - 1 /\ x = q + 2^j)
        BY <1>4, <1>8, <3>10
      <4>2. ToSet(free_area'[page_zone(x)][j]) = ToSet(free_area[page_zone(x)][j])
        BY <1>15, <3>1, <3>10
      <4> QED BY <3>3, <3>6, <4>1, <4>2
    <3> QED BY <3>7, <3>8, <3>9, <3>10
  <2>2. (FreeBlocks \ R) \cup H \subseteq Pages \X Orders
    <3>1. H \subseteq Pages \X Orders
      BY <1>7 DEF Halved
    <3> QED BY <3>1 DEF FreeBlocks
  <2>3. FreeBlocks' \subseteq Pages \X Orders
    BY DEF FreeBlocks
  <2> HIDE DEF R, H
  <2> QED BY <2>1, <2>2, <2>3
<1>19. <<q, c>> \notin held /\ <<q, c>> \notin Reserved \X {0}
  BY <1>1, <1>4 DEF BlocksPartitionPages
<1>20. Blocks' = (Blocks \ R) \cup N
  <2> HIDE DEF H
  <2> QED BY <1>14, <1>18, <1>19 DEF Blocks
<1>21. /\ Disjoint((Blocks \ R) \cup N)
       /\ PagesOf((Blocks \ R) \cup N) = PagesOf(Blocks)
       /\ (Blocks \ R) \cap N = {}
  <2>1. Disjoint(Blocks) /\ R \in SUBSET Blocks
    BY <1>1, <1>5 DEF Disjoint, BlocksPartitionPages
  <2>2. PagesOf(N) = PagesOf(R)
    <3>1. PagesOf(R) = BlockPages(q, c)
      BY DEF PagesOf
    <3> QED BY <1>7, <3>1
  <2>3. \A b \in N : BlockPages(b[1], b[2]) # {}
    BY <1>7 DEF Halved
  <2> HIDE DEF N, R
  <2> QED BY <1>7, <2>1, <2>2, <2>3, ReplaceBlocks
<1>22. BlocksShape'
  <2>1. ASSUME NEW b \in Blocks'
        PROVE  /\ b[1] % 2^b[2] = 0
               /\ BlockPages(b[1], b[2]) \subseteq ZonePages(page_zone(b[1]))
               /\ page_zone(b[1]) \in ready'
    <3>1. CASE b = <<q, k>>
      BY <1>4, <1>5, <1>7, <1>14, <3>1
    <3>2. CASE b \in H
      <4>1. PICK j \in k .. c - 1 : b = <<q + 2^j, j>>
        BY <3>2 DEF Halved
      <4>2. b[1] = q + 2^j /\ b[2] = j
        BY <4>1
      <4>3. page_zone(b[1]) = Z /\ b[1] % 2^b[2] = 0
            /\ BlockPages(b[1], b[2]) \subseteq BlockPages(q, c)
        BY <1>7, <1>8, <4>2
      <4> QED BY <1>5, <1>14, <4>3
    <3>3. CASE b \in Blocks
      BY <1>1, <1>14, <3>3 DEF BlocksShape
    <3> HIDE DEF H
    <3> QED BY <1>20, <3>1, <3>2, <3>3
  <2> QED BY <2>1 DEF BlocksShape
<1>23. \A b \in Blocks \ R : order'[b[1]] = order[b[1]]
  BY <1>10, <1>13
<1>24. OrdersOK'
  <2>1. ASSUME NEW b \in FreeBlocks' PROVE order'[b[1]] = b[2]
    <3>1. CASE b \in H
      <4>1. PICK j \in k .. c - 1 : b = <<q + 2^j, j>>
        BY <3>1 DEF Halved
      <4>2. b[1] = q + 2^j /\ b[2] = j
        BY <4>1
      <4> QED BY <1>13, <4>2
    <3>2. CASE b \in FreeBlocks \ R
      BY <1>1, <1>23, <3>2 DEF OrdersOK, Blocks
    <3> HIDE DEF H
    <3> QED BY <1>18, <3>1, <3>2
  <2>2. ASSUME NEW b \in held' PROVE FreeAssert(b[1], b[2])'
    <3>1. CASE b = <<q, k>>
      <4>1. /\ k \in Nat /\ order'[q] \in Int /\ order'[q] = (-k) - 1
        BY <1>4, <1>13, OrderFacts
      <4>2. order'[q] + k + 1 = 0
        BY <4>1, EncodeOrder
      <4>3. order'[q] < 0 /\ (-order'[q]) - 1 = k
        BY <4>1, <4>2, NegOrder
      <4>4. b[1] = q /\ b[2] = k
        BY <3>1
      <4> QED BY <4>3, <4>4 DEF FreeAssert
    <3>2. CASE b \in held
      <4>1. b \in Blocks \ R
        BY <1>19, <3>2 DEF Blocks
      <4> QED BY <1>1, <1>23, <3>2, <4>1 DEF OrdersOK, FreeAssertHolds, FreeAssert
    <3> QED BY <1>14, <3>1, <3>2
  <2>3. ASSUME NEW x \in Reserved' PROVE FreeAssert(x, 0)'
    <3>1. x \in Reserved /\ <<x, 0>> \in Blocks \ R
      BY <1>14, <1>19 DEF Blocks
    <3>2. order'[x] = order[x]
      BY <1>23, <3>1
    <3> QED BY <1>1, <3>1, <3>2 DEF OrdersOK, FreeAssertHolds, FreeAssert
  <2> QED BY <2>1, <2>2, <2>3 DEF OrdersOK, FreeAssertHolds
<1>25. BlocksPartitionPages'
  <2>1. \A b \in Blocks', d \in Blocks' : Overlap(b, d) => b = d
    BY <1>20, <1>21 DEF Disjoint
  <2>2. <<q, k>> \notin H
    <3>1. \A j \in k .. c - 1 : <<q, k>> # <<q + 2^j, j>>
      BY <1>7
    <3> QED BY <3>1 DEF Halved
  <2>3. held \subseteq Blocks \ R /\ Reserved \X {0} \subseteq Blocks \ R
    BY <1>19 DEF Blocks
  <2>4. held' \cap FreeBlocks' = {}
    <3>1. FreeBlocks \ R \subseteq Blocks \ R
      BY DEF Blocks
    <3>2. held \cap FreeBlocks = {}
      BY <1>1 DEF BlocksPartitionPages
    <3> HIDE DEF H
    <3> QED BY <1>14, <1>18, <1>21, <2>2, <2>3, <3>1, <3>2
  <2>5. (Reserved' \X {0}) \cap (held' \cup FreeBlocks') = {}
    <3>1. (Reserved \X {0}) \cap (held \cup FreeBlocks) = {}
      BY <1>1 DEF BlocksPartitionPages
    <3> HIDE DEF H
    <3> QED BY <1>14, <1>18, <1>21, <2>3, <3>1
  <2>6. ASSUME NEW x \in Pages, page_zone(x) \in ready'
        PROVE  \E b \in Blocks' : x \in BlockPages(b[1], b[2])
    <3>1. x \in PagesOf(Blocks)
      BY <1>1, <1>14, <2>6 DEF BlocksPartitionPages, PagesOf
    <3>2. x \in PagesOf(Blocks')
      BY <1>20, <1>21, <3>1
    <3> QED BY <3>2 DEF PagesOf
  <2> QED BY <2>1, <2>4, <2>5, <2>6 DEF BlocksPartitionPages
<1>26. TakesBlock(k)
  BY <1>3, <1>4, <1>14, <1>18 DEF TakesBlock
<1> QED BY <1>16, <1>17, <1>22, <1>24, <1>25, <1>26 DEF BlocksInv

\* A step that changes nothing, alloc_pages failing among them.
LEMMA StutterStep ==
    ASSUME BlocksInv, UNCHANGED vars
    PROVE  BlocksInv'
<1>1. Reserved' = Reserved /\ FreeBlocks' = FreeBlocks
  BY DEF vars, Reserved, FreeBlocks, IsFree
<1>2. Blocks' = Blocks
  BY <1>1 DEF vars, Blocks
<1>3. TypeOK' /\ ListsOK'
  BY DEF vars, BlocksInv, TypeOK, ListsOK
<1>4. BlocksShape' /\ BlocksPartitionPages'
  BY <1>1, <1>2 DEF vars, BlocksInv, BlocksShape, BlocksPartitionPages
<1>5. OrdersOK'
  BY <1>1 DEF vars, BlocksInv, OrdersOK, FreeAssertHolds, FreeAssert
<1> QED BY <1>3, <1>4, <1>5 DEF BlocksInv

-----------------------------------------------------------------------------
(* The theorems.                                                           *)

\* The inductive invariant holds in every state of every allocator.
THEOREM Invariance == Spec => []BlocksInv
<1>1. ASSUME BlocksInv, [Next]_vars PROVE BlocksInv'
  <2>1. ASSUME NEW z \in Zones, InitZone(z) PROVE BlocksInv'
    BY <1>1, <2>1, InitZoneStep
  <2>2. CASE InitZonePage
    BY <1>1, <2>2, InitZonePageStep
  <2>3. ASSUME NEW k \in Orders, alloc_pages(k) PROVE BlocksInv'
    BY <1>1, <2>3, AllocStep
  <2>4. ASSUME NEW k \in Orders, alloc_pages_fails(k) PROVE BlocksInv'
    BY <1>1, <2>4, StutterStep DEF alloc_pages_fails
  <2>5. ASSUME NEW b \in held, FreePages(b[1], b[2]) PROVE BlocksInv'
    BY <1>1, <2>5, FreeStep
  <2>6. CASE UNCHANGED vars
    BY <1>1, <2>6, StutterStep
  <2> QED BY <1>1, <2>1, <2>2, <2>3, <2>4, <2>5, <2>6 DEF Next
<1> QED BY InitBlocksInv, <1>1, PTL DEF Spec

\* Every value the allocator stores has its type: in particular every buddy
\* that free_pages_node or alloc_pages_node computes and links is a page frame.
THEOREM TypeCorrect == Spec => []TypeOK
<1>1. BlocksInv => TypeOK
  BY DEF BlocksInv
<1> QED BY <1>1, Invariance, PTL

\* No two blocks share a page frame and no page frame of an initialised zone is
\* lost: page_alloc.c never hands out memory twice and never leaks it.
THEOREM Partition == Spec => []BlocksPartitionPages
<1>1. BlocksInv => BlocksPartitionPages
  BY DEF BlocksInv
<1> QED BY <1>1, Invariance, PTL

\* The assertion at page_alloc.c:42 holds whenever the owner of a block gives it
\* back and whenever init_zone frees a page.
THEOREM AssertionHolds == Spec => []FreeAssertHolds
<1>1. BlocksInv => FreeAssertHolds
  BY DEF BlocksInv, OrdersOK
<1> QED BY <1>1, Invariance, PTL

\* free_pages_node only ever unlinks buddies that are whole free blocks, on the
\* list of their own order, though page->order goes stale inside merged blocks.
THEOREM MergeSound == Spec => []MergesOnlyFreeBuddies
<1>1. ASSUME BlocksInv PROVE MergesOnlyFreeBuddies
  <2>1. SUFFICES ASSUME NEW b \in held \cup (Reserved \X {0}),
                        NEW k \in b[2] .. MAX_ORDER - 2,
                        \A j \in b[2] .. k : Merges(page_zone(b[1]), b[1], j)
                 PROVE  IsFree(Buddy(b[1], k), k)
    BY DEF MergesOnlyFreeBuddies
  <2>2. b[1] \in Pages /\ b[2] \in Orders /\ b = <<b[1], b[2]>>
    <3>1. b \in Blocks
      BY DEF Blocks
    <3> QED BY <1>1, <3>1, BlocksTyped DEF BlocksInv
  <2>3. k \in Orders /\ b[2] <= k /\ k \in b[2] .. k
    BY <2>2, MaxOrderAssumption DEF Orders
  <2> QED BY <1>1, <2>1, <2>2, <2>3, BuddyIsFree
<1> QED BY <1>1, Invariance, PTL

-----------------------------------------------------------------------------
(* Blocks.                                                                 *)

\* What the invariant says of one block.
LEMMA BlockFacts ==
    ASSUME BlocksInv, NEW b \in Blocks
    PROVE  /\ b = <<b[1], b[2]>> /\ b[1] \in Pages /\ b[1] \in Nat
           /\ b[2] \in Orders /\ b[2] \in 0 .. 31 /\ b[2] \in Nat
           /\ b[1] % 2^b[2] = 0
           /\ b[1] \in BlockPages(b[1], b[2])
           /\ BlockPages(b[1], b[2]) \subseteq ZonePages(page_zone(b[1]))
           /\ page_zone(b[1]) \in Zones
           /\ \A p \in BlockPages(b[1], b[2]) : p \in Pages /\ page_zone(p) = page_zone(b[1])
<1>1. b \in Pages \X Orders
  BY BlocksTyped DEF BlocksInv
<1>2. b = <<b[1], b[2]>> /\ b[1] \in Pages /\ b[2] \in Orders
  BY <1>1
<1>3. /\ b[1] \in Nat /\ page_zone(b[1]) \in Zones
      /\ b[2] \in 0 .. 31 /\ b[2] \in Nat
  BY <1>2, ZoneFacts, OrderFacts
<1>4. /\ b[1] % 2^b[2] = 0
      /\ BlockPages(b[1], b[2]) \subseteq ZonePages(page_zone(b[1]))
  BY DEF BlocksInv, BlocksShape
<1>5. b[1] \in BlockPages(b[1], b[2])
  BY <1>3, <1>4, BlockHeadAligned
<1>6. \A p \in BlockPages(b[1], b[2]) : p \in Pages /\ page_zone(p) = page_zone(b[1])
  BY <1>3, <1>4, ZoneFacts
<1> QED BY <1>2, <1>3, <1>4, <1>5, <1>6

\* The two halves of a block are each other's buddies.
LEMMA SiblingIsBuddy ==
    ASSUME NEW h \in Nat, NEW x \in Nat, NEW m \in 0 .. 30,
           h % 2^m = 0, x % 2^m = 0, x # h,
           BlockHead(x, m + 1) = BlockHead(h, m + 1)
    PROVE  x = Buddy(h, m)
<1>1. m \in 0 .. 31 /\ m + 1 \in 0 .. 31
  OBVIOUS
<1>2. BlockHead(h, m) = h /\ BlockHead(x, m) = x
  BY <1>1, BlockHeadAligned
<1>3. /\ Buddy(h, m) \in Nat /\ Buddy(h, m) % 2^m = 0
      /\ BlockPages(BlockHead(h, m + 1), m + 1) = BlockPages(h, m) \cup BlockPages(Buddy(h, m), m)
  BY <1>2, MergeBlock
<1>4. x \in BlockPages(BlockHead(x, m + 1), m + 1)
  BY <1>1, BlockHeadFacts
<1>5. CASE x \in BlockPages(h, m)
  <2>1. BlockHead(x, m) = h
    BY <1>1, <1>5, BlockHeadUnique
  <2> QED BY <1>2, <2>1
<1>6. CASE x \in BlockPages(Buddy(h, m), m)
  <2> DEFINE g == Buddy(h, m)
  <2>1. g \in Nat /\ g % 2^m = 0 /\ x \in BlockPages(g, m)
    BY <1>3, <1>6
  <2> HIDE DEF g
  <2>2. BlockHead(x, m) = g
    BY <1>1, <2>1, BlockHeadUnique
  <2> QED BY <1>2, <2>2 DEF g
<1> QED BY <1>3, <1>4, <1>5, <1>6

\* A page of a block of order k is in the block of order k of its head, and an
\* aligned block that shares a page with a larger one lies inside it.
LEMMA Nested ==
    ASSUME NEW p \in Nat, NEW q \in Nat, NEW j \in 0 .. 31, NEW k \in 0 .. 31, j <= k,
           p % 2^k = 0, q % 2^j = 0,
           NEW x, x \in BlockPages(q, j), x \in BlockPages(p, k)
    PROVE  BlockPages(q, j) \subseteq BlockPages(p, k)
<1>1. k \in j .. 31 /\ BlockPages(q, j) \cap BlockPages(p, k) # {}
  OBVIOUS
<1> QED BY <1>1, BlockNested

-----------------------------------------------------------------------------
(* Merging stays complete.                                                 *)

\* Giving back a block leaves no two siblings free: the loop of free_pages_node
\* stops at a level whose buddy is not a free block of that order.
LEMMA ReturnMerges ==
    ASSUME BlocksInv, SiblingsMerged, NEW p \in Pages, NEW k \in Orders,
           <<p, k>> \in held \cup (Reserved \X {0}), ReturnsBlock(p, k)
    PROVE  SiblingsMerged'
<1> DEFINE z == page_zone(p)
           m == MergedOrder(z, p, k)
           h == BlockHead(p, m)
<1>1. /\ m \in Orders /\ h \in Pages /\ page_zone(h) = z /\ h % 2^m = 0
      /\ ~ Merges(z, p, m)
  <2>1. m = MergedOrder(page_zone(p), p, k) /\ h = BlockHead(p, m)
    OBVIOUS
  <2>2. ~ Merges(z, p, m)
    BY MergedOrderFacts
  <2> HIDE DEF m, h
  <2> QED BY <2>1, <2>2, MergedBlockFacts
<1>2. \A b \in FreeBlocks' : b \in FreeBlocks \/ b = <<h, m>>
  BY DEF ReturnsBlock, MergedBlock
<1>3. h = BlockHead(p, m)
  OBVIOUS
<1> HIDE DEF z, m, h
<1>4. /\ h \in Nat /\ p \in Nat /\ m \in 0 .. 31 /\ m \in Nat /\ z \in Zones
  BY <1>1, ZoneFacts, OrderFacts DEF z
<1>5. ASSUME NEW c \in FreeBlocks, c[2] = m, m < MAX_ORDER - 1, page_zone(c[1]) = z,
             BlockHead(c[1], m + 1) = BlockHead(h, m + 1)
      PROVE  c = <<h, m>>
  <2>1. SUFFICES ASSUME c[1] # h PROVE FALSE
    BY <1>5, BlockFacts DEF Blocks
  <2>2. /\ c[1] \in Nat /\ c[1] \in Pages /\ c[1] % 2^m = 0
    BY <1>5, BlockFacts DEF Blocks
  <2>3. m \in 0 .. 30
    BY <1>4, <1>5, MaxOrderAssumption
  <2>4. c[1] = Buddy(h, m)
    BY <1>1, <1>4, <1>5, <2>1, <2>2, <2>3, SiblingIsBuddy
  <2>5. BlockHead(h, m) = h
    BY <1>1, <1>4, BlockHeadAligned
  <2>6. c[1] = Buddy(p, m)
    BY <1>3, <2>4, <2>5 DEF Buddy
  <2>7. c[1] \in ZonePages(z)
    BY <1>5, <2>2, ZoneFacts
  <2>8. order[c[1]] = m
    BY <1>5 DEF BlocksInv, OrdersOK
  <2>9. Merges(z, p, m)
    BY <1>5, <2>6, <2>7, <2>8 DEF Merges
  <2> QED BY <1>1, <2>9
<1>6. SUFFICES ASSUME NEW b \in FreeBlocks', NEW c \in FreeBlocks',
                      b[2] = c[2], b[2] < MAX_ORDER - 1, page_zone(b[1]) = page_zone(c[1]),
                      BlockHead(b[1], b[2] + 1) = BlockHead(c[1], c[2] + 1)
               PROVE  b = c
  BY DEF SiblingsMerged
<1>7. <<h, m>>[1] = h /\ <<h, m>>[2] = m
  OBVIOUS
<1>8. CASE b \in FreeBlocks /\ c \in FreeBlocks
  BY <1>6, <1>8 DEF SiblingsMerged
<1>9. CASE b = <<h, m>> /\ c \in FreeBlocks
  BY <1>1, <1>5, <1>6, <1>7, <1>9
<1>10. CASE b \in FreeBlocks /\ c = <<h, m>>
  BY <1>1, <1>5, <1>6, <1>7, <1>10
<1> QED BY <1>2, <1>8, <1>9, <1>10

\* Splitting a block leaves the siblings of its free parts in use.
LEMMA TakeMerges ==
    ASSUME BlocksInv, SiblingsMerged, NEW k \in Orders, TakesBlock(k)
    PROVE  SiblingsMerged'
<1>1. PICK q \in Pages, n \in Orders :
        /\ k <= n
        /\ <<q, n>> \in FreeBlocks
        /\ FreeBlocks' = (FreeBlocks \ {<<q, n>>}) \cup Halved(q, k, n)
  BY DEF TakesBlock
<1>2. <<q, n>> \in Blocks /\ <<q, n>>[1] = q /\ <<q, n>>[2] = n
  BY <1>1 DEF Blocks
<1>3. /\ q \in Nat /\ n \in 0 .. 31 /\ k \in 0 .. 31 /\ q % 2^n = 0
      /\ BlockPages(q, n) \subseteq Pages
  BY <1>1, <1>2, BlockFacts, ZoneFacts, OrderFacts
<1>4. ASSUME NEW j \in k .. n - 1
      PROVE  /\ j \in 0 .. 30 /\ j \in Nat
             /\ BlockHead(q + 2^j, j + 1) = q
             /\ BlockPages(q, j + 1) \subseteq BlockPages(q, n)
  <2>1. j \in 0 .. 30 /\ j + 1 \in 0 .. 31 /\ j \in 0 .. 31 /\ n \in j + 1 .. 31 /\ j + 1 <= n
    BY <1>3
  <2>2. q % 2^(j + 1) = 0
    BY <1>3, <2>1, AlignedSmaller
  <2>3. /\ (q + 2^j) % 2^j = 0
        /\ BlockPages(q, j + 1) = BlockPages(q, j) \cup BlockPages(q + 2^j, j)
    BY <1>3, <2>1, <2>2, SplitBlock
  <2>4. 2^j \in Nat \ {0} /\ q + 2^j \in Nat
    <3>1. 2^j \in Nat \ {0}
      BY <2>1, PowPositive
    <3> QED BY <1>3, <3>1
  <2>5. q + 2^j \in BlockPages(q + 2^j, j)
    BY <2>1, <2>3, <2>4, BlockHeadAligned
  <2>6. BlockHead(q + 2^j, j + 1) = q
    BY <1>3, <2>1, <2>2, <2>3, <2>5, BlockHeadUnique
  <2>7. q \in BlockPages(q, j + 1) /\ q \in BlockPages(q, n)
    BY <1>3, <2>1, <2>2, BlockHeadAligned
  <2>8. BlockPages(q, j + 1) \subseteq BlockPages(q, n)
    BY <1>3, <2>1, <2>2, <2>7, Nested
  <2> QED BY <2>1, <2>6, <2>8
<1>5. ASSUME NEW d \in FreeBlocks, d # <<q, n>>, NEW j \in k .. n - 1, d[2] = j,
             BlockHead(d[1], j + 1) = BlockHead(q + 2^j, j + 1)
      PROVE  FALSE
  <2>1. d \in Blocks /\ d[1] \in Nat /\ d[1] \in BlockPages(d[1], d[2])
    BY <1>5, BlockFacts DEF Blocks
  <2>2. j + 1 \in 0 .. 31
    BY <1>4
  <2>3. d[1] \in BlockPages(BlockHead(d[1], j + 1), j + 1)
    BY <2>1, <2>2, BlockHeadFacts
  <2>4. d[1] \in BlockPages(q, n)
    BY <1>4, <1>5, <2>3
  <2>5. Overlap(d, <<q, n>>)
    BY <1>2, <2>1, <2>4 DEF Overlap
  <2> QED BY <1>2, <1>5, <2>1, <2>5 DEF BlocksInv, BlocksPartitionPages
<1>6. SUFFICES ASSUME NEW b \in FreeBlocks', NEW c \in FreeBlocks',
                      b[2] = c[2], b[2] < MAX_ORDER - 1, page_zone(b[1]) = page_zone(c[1]),
                      BlockHead(b[1], b[2] + 1) = BlockHead(c[1], c[2] + 1)
               PROVE  b = c
  BY DEF SiblingsMerged
<1>7. \A d \in FreeBlocks' : \/ d \in FreeBlocks /\ d # <<q, n>>
                             \/ \E j \in k .. n - 1 : d = <<q + 2^j, j>>
  BY <1>1 DEF Halved
<1>8. CASE b \in FreeBlocks /\ c \in FreeBlocks
  BY <1>6, <1>8 DEF SiblingsMerged
<1>9. CASE b \in FreeBlocks /\ b # <<q, n>> /\ \E j \in k .. n - 1 : c = <<q + 2^j, j>>
  <2>1. PICK j \in k .. n - 1 : c = <<q + 2^j, j>>
    BY <1>9
  <2>2. c[1] = q + 2^j /\ c[2] = j
    BY <2>1
  <2> QED BY <1>5, <1>6, <1>9, <2>2
<1>10. CASE c \in FreeBlocks /\ c # <<q, n>> /\ \E j \in k .. n - 1 : b = <<q + 2^j, j>>
  <2>1. PICK j \in k .. n - 1 : b = <<q + 2^j, j>>
    BY <1>10
  <2>2. b[1] = q + 2^j /\ b[2] = j
    BY <2>1
  <2> QED BY <1>5, <1>6, <1>10, <2>2
<1>11. CASE (\E j \in k .. n - 1 : b = <<q + 2^j, j>>) /\ \E j \in k .. n - 1 : c = <<q + 2^j, j>>
  <2>1. PICK i \in k .. n - 1 : b = <<q + 2^i, i>>
    BY <1>11
  <2>2. PICK j \in k .. n - 1 : c = <<q + 2^j, j>>
    BY <1>11
  <2> QED BY <1>6, <2>1, <2>2
<1> QED BY <1>7, <1>8, <1>9, <1>10, <1>11

-----------------------------------------------------------------------------
(* The inductive invariant.                                                *)

\* No block is free or held before set-up.
LEMMA InitEmpty ==
    ASSUME Init
    PROVE  FreeBlocks = {} /\ held = {}
<1>1. \A z \in Zones, k \in Orders : free_area[z][k] = <<>>
  BY DEF Init
<1>2. \A p \in Pages, k \in Orders : ~ IsFree(p, k)
  BY <1>1, ZoneFacts DEF IsFree, ToSet
<1> QED BY <1>2 DEF Init, FreeBlocks

\* So the invariant holds there.
LEMMA InitIInv == Init => IInv
<1>1. ASSUME Init PROVE HeldInLowMemory /\ SiblingsMerged
  BY <1>1, InitEmpty DEF HeldInLowMemory, SiblingsMerged
<1> QED BY <1>1, InitBlocksInv DEF IInv

\* What a step does to the free blocks, and who owns them after it.
PoolStep ==
    \/ FreeBlocks' = FreeBlocks /\ held' = held
    \/ \E p \in Reserved \cap BootFree : ReturnsBlock(p, 0) /\ held' = held
    \/ \E k \in Orders : TakesBlock(k)
    \/ \E b \in held : ReturnsBlock(b[1], b[2]) /\ held' = held \ {b}

\* Every step of the allocator does one of these things to the pool.
LEMMA StepIsPoolStep ==
    ASSUME BlocksInv, [Next]_vars
    PROVE  BlocksInv' /\ PoolStep
<1>1. ASSUME NEW z \in Zones, InitZone(z) PROVE BlocksInv' /\ PoolStep
  BY <1>1, InitZoneStep DEF PoolStep
<1>2. CASE InitZonePage
  BY <1>2, InitZonePageStep DEF PoolStep
<1>3. ASSUME NEW k \in Orders, alloc_pages(k) PROVE BlocksInv' /\ PoolStep
  BY <1>3, AllocStep DEF PoolStep
<1>4. CASE UNCHANGED vars
  <2>1. FreeBlocks' = FreeBlocks /\ held' = held
    BY <1>4 DEF vars, FreeBlocks, IsFree
  <2> QED BY <1>4, <2>1, StutterStep DEF PoolStep
<1>5. ASSUME NEW k \in Orders, alloc_pages_fails(k) PROVE BlocksInv' /\ PoolStep
  BY <1>4, <1>5 DEF alloc_pages_fails
<1>6. ASSUME NEW b \in held, FreePages(b[1], b[2]) PROVE BlocksInv' /\ PoolStep
  BY <1>6, FreeStep DEF PoolStep
<1> QED BY <1>1, <1>2, <1>3, <1>4, <1>5, <1>6 DEF Next

\* Callers own low memory, and no siblings are free, after every step.
LEMMA StepIInv ==
    ASSUME IInv, PoolStep, BlocksInv'
    PROVE  IInv'
<1>1. BlocksInv /\ HeldInLowMemory /\ SiblingsMerged
  BY DEF IInv
<1>2. CASE FreeBlocks' = FreeBlocks /\ held' = held
  BY <1>1, <1>2 DEF IInv, HeldInLowMemory, SiblingsMerged
<1>3. CASE \E p \in Reserved \cap BootFree : ReturnsBlock(p, 0) /\ held' = held
  <2>1. PICK p \in Reserved : ReturnsBlock(p, 0) /\ held' = held
    BY <1>3
  <2>2. p \in Pages /\ 0 \in Orders /\ <<p, 0>> \in held \cup (Reserved \X {0})
    BY OrderFacts DEF Reserved
  <2>3. SiblingsMerged'
    BY <1>1, <2>1, <2>2, ReturnMerges
  <2> QED BY <1>1, <2>1, <2>3 DEF IInv, HeldInLowMemory
<1>4. CASE \E k \in Orders : TakesBlock(k)
  <2>1. PICK k \in Orders : TakesBlock(k)
    BY <1>4
  <2>2. SiblingsMerged'
    BY <1>1, <2>1, TakeMerges
  <2>3. HeldInLowMemory'
    BY <1>1, <2>1 DEF TakesBlock, HeldInLowMemory
  <2> QED BY <2>2, <2>3 DEF IInv
<1>5. CASE \E b \in held : ReturnsBlock(b[1], b[2]) /\ held' = held \ {b}
  <2>1. PICK b \in held : ReturnsBlock(b[1], b[2]) /\ held' = held \ {b}
    BY <1>5
  <2>2. b[1] \in Pages /\ b[2] \in Orders /\ <<b[1], b[2]>> \in held \cup (Reserved \X {0})
    BY <1>1, BlockFacts DEF Blocks
  <2>3. SiblingsMerged'
    BY <1>1, <2>1, <2>2, ReturnMerges
  <2> QED BY <1>1, <2>1, <2>3 DEF IInv, HeldInLowMemory
<1> QED BY <1>2, <1>3, <1>4, <1>5 DEF PoolStep

\* The inductive invariant holds in every state of every allocator: on top of
\* the blocks, page_alloc.c never leaves two halves of a block free.
THEOREM InvariantHolds == Spec => []IInv
<1>1. ASSUME IInv, [Next]_vars PROVE IInv'
  BY <1>1, StepIsPoolStep, StepIInv DEF IInv
<1> QED BY InitIInv, <1>1, PTL DEF Spec

-----------------------------------------------------------------------------
(* The free lists are a function of the free pages.                        *)

\* Free pages that form an aligned block are inside one free block.
LEMMA CoveringBlock ==
    ASSUME IInv, NEW p \in Pages, NEW k \in Orders, FreeAligned(p, k)
    PROVE  \E b \in FreeBlocks : b[2] >= k /\ BlockPages(p, k) \subseteq BlockPages(b[1], b[2])
<1>1. BlocksInv /\ SiblingsMerged
  BY DEF IInv
<1>2. /\ p \in Nat /\ k \in 0 .. 31 /\ k \in Nat /\ p % 2^k = 0 /\ p \in BlockPages(p, k)
      /\ \A x \in BlockPages(p, k) : /\ x \in ZonePages(page_zone(p))
                                     /\ \E b \in FreeBlocks : x \in BlockPages(b[1], b[2])
  <2>1. p \in Nat /\ k \in 0 .. 31 /\ k \in Nat
    BY ZoneFacts, OrderFacts
  <2>2. p % 2^k = 0 /\ BlockPages(p, k) \subseteq ZonePages(page_zone(p)) \cap FreePageSet
    BY DEF FreeAligned
  <2> QED BY <2>1, <2>2, BlockHeadAligned DEF FreePageSet
<1>3. SUFFICES ASSUME \A b \in FreeBlocks :
                        b[2] >= k => ~ (BlockPages(p, k) \subseteq BlockPages(b[1], b[2]))
               PROVE  FALSE
  OBVIOUS
\* So every free block in it is smaller, and lies inside it.
<1>4. ASSUME NEW b \in FreeBlocks, NEW x \in BlockPages(p, k), x \in BlockPages(b[1], b[2])
      PROVE  b[2] < k /\ BlockPages(b[1], b[2]) \subseteq BlockPages(p, k)
  <2> DEFINE q == b[1]
             i == b[2]
  <2>1. q \in Nat /\ i \in 0 .. 31 /\ q % 2^i = 0 /\ x \in BlockPages(q, i)
    BY <1>1, <1>4, BlockFacts DEF Blocks
  <2>2. i >= k => ~ (BlockPages(p, k) \subseteq BlockPages(q, i))
    BY <1>3
  <2> HIDE DEF q, i
  <2>3. ~ (k <= i)
    <3>1. ASSUME k <= i PROVE BlockPages(p, k) \subseteq BlockPages(q, i)
      BY <1>2, <2>1, <3>1, Nested
    <3> QED BY <1>2, <2>1, <2>2, <3>1
  <2>4. i < k /\ i <= k
    BY <1>2, <2>1, <2>3
  <2>5. BlockPages(q, i) \subseteq BlockPages(p, k)
    BY <1>2, <2>1, <2>4, Nested
  <2> QED BY <2>4, <2>5 DEF q, i
\* Take one of the smallest.
<1> DEFINE Within(b) == \E x \in BlockPages(p, k) : x \in BlockPages(b[1], b[2])
           T == {b[2] : b \in {c \in FreeBlocks : Within(c)}}
<1>5. PICK b \in FreeBlocks : Within(b) /\ \A c \in FreeBlocks : Within(c) => b[2] <= c[2]
  <2>1. T \in SUBSET Nat
    BY <1>1, BlockFacts DEF Blocks
  <2>2. T # {}
    BY <1>2
  <2>3. PICK j \in T : \A i \in T : j <= i
    <3> HIDE DEF T
    <3> QED BY <2>1, <2>2, LeastNat
  <2>4. PICK b \in FreeBlocks : Within(b) /\ j = b[2]
    OBVIOUS
  <2>5. \A c \in FreeBlocks : Within(c) => c[2] \in T
    OBVIOUS
  <2> HIDE DEF T
  <2> QED BY <2>3, <2>4, <2>5
<1> DEFINE j == b[2]
           h == BlockHead(b[1], j + 1)
           s == Buddy(b[1], j)
<1>6. /\ j < k /\ BlockPages(b[1], j) \subseteq BlockPages(p, k)
      /\ b[1] \in Nat /\ b[1] % 2^j = 0 /\ b[1] \in BlockPages(b[1], j)
      /\ j \in 0 .. 31 /\ b \in Blocks /\ b[1] \in BlockPages(p, k)
  BY <1>1, <1>4, <1>5, BlockFacts DEF Blocks
<1>7. j \in 0 .. 30 /\ j \in Nat /\ j + 1 \in 0 .. 31 /\ j + 1 <= k /\ j < MAX_ORDER - 1
  BY <1>2, <1>6, MaxOrderAssumption DEF Orders
<1> HIDE DEF j
\* Its buddy is in the aligned block as well.
<1>8. /\ s \in Nat /\ s % 2^j = 0 /\ s \in BlockPages(s, j)
      /\ h \in Nat /\ h % 2^(j + 1) = 0
      /\ b[1] \in BlockPages(h, j + 1) /\ s \in BlockPages(h, j + 1)
      /\ BlockPages(b[1], j) \cap BlockPages(s, j) = {}
  <2>1. /\ s \in Nat /\ s % 2^j = 0
        /\ BlockPages(h, j + 1) = BlockPages(BlockHead(b[1], j), j) \cup BlockPages(s, j)
        /\ BlockPages(BlockHead(b[1], j), j) \cap BlockPages(s, j) = {}
    BY <1>6, <1>7, MergeBlock
  <2>2. BlockHead(b[1], j) = b[1]
    BY <1>6, BlockHeadAligned
  <2>3. h \in Nat /\ h % 2^(j + 1) = 0
    BY <1>6, <1>7, BlockHeadFacts
  <2> HIDE DEF s, h
  <2>4. s \in BlockPages(s, j)
    BY <1>6, <2>1, BlockHeadAligned
  <2> QED BY <1>6, <2>1, <2>2, <2>3, <2>4
<1>9. h = BlockHead(b[1], j + 1)
  OBVIOUS
<1> HIDE DEF s, h
<1>10. BlockPages(h, j + 1) \subseteq BlockPages(p, k)
  <2>1. /\ p \in Nat /\ h \in Nat /\ j + 1 \in 0 .. 31 /\ k \in 0 .. 31 /\ j + 1 <= k
        /\ p % 2^k = 0 /\ h % 2^(j + 1) = 0
        /\ b[1] \in BlockPages(h, j + 1) /\ b[1] \in BlockPages(p, k)
    BY <1>2, <1>6, <1>7, <1>8
  <2> QED BY ONLY <2>1, Nested
<1>11. PICK c \in FreeBlocks : s \in BlockPages(c[1], c[2])
  BY <1>2, <1>8, <1>10
<1>12. /\ c \in Blocks /\ c = <<c[1], c[2]>> /\ c[1] \in Nat /\ c[2] \in 0 .. 31
       /\ c[1] % 2^c[2] = 0 /\ j <= c[2]
  <2>1. Within(c)
    BY <1>8, <1>10, <1>11
  <2> QED BY <1>1, <1>5, <2>1, BlockFacts DEF Blocks, j
\* A larger block around the buddy would contain the smallest one.
<1>13. CASE j < c[2]
  <2>1. j + 1 <= c[2]
    BY <1>7, <1>12, <1>13
  <2>2. BlockPages(h, j + 1) \subseteq BlockPages(c[1], c[2])
    <3> DEFINE q == c[1]
               i == c[2]
               n == j + 1
    <3>1. /\ q \in Nat /\ i \in 0 .. 31 /\ q % 2^i = 0 /\ s \in BlockPages(q, i)
          /\ h \in Nat /\ n \in 0 .. 31 /\ n <= i /\ h % 2^n = 0 /\ s \in BlockPages(h, n)
      BY <1>7, <1>8, <1>11, <1>12, <2>1
    <3> HIDE DEF q, i, n
    <3>2. BlockPages(h, n) \subseteq BlockPages(q, i)
      BY <3>1, Nested
    <3> QED BY <3>2 DEF q, i, n
  <2>3. b[1] \in BlockPages(c[1], c[2]) /\ b[1] \in BlockPages(b[1], b[2])
    BY <1>6, <1>8, <2>2 DEF j
  <2>4. Overlap(b, c)
    BY <2>3 DEF Overlap
  <2>5. b = c
    BY <1>1, <1>6, <1>12, <2>4 DEF BlocksInv, BlocksPartitionPages
  <2> QED BY <1>7, <1>13, <2>5 DEF j
\* And the buddy itself would have been merged with it.
<1>14. CASE j = c[2]
  <2>1. BlockHead(s, j) = c[1] /\ BlockHead(s, j) = s
    <3> DEFINE q == c[1]
    <3>1. q \in Nat /\ j \in 0 .. 31 /\ q % 2^j = 0 /\ s \in BlockPages(q, j)
      BY <1>6, <1>11, <1>12, <1>14
    <3> HIDE DEF q
    <3>2. BlockHead(s, j) = q
      BY <3>1, BlockHeadUnique
    <3>3. BlockHead(s, j) = s
      BY <1>8, <3>1, BlockHeadAligned
    <3> QED BY <3>2, <3>3 DEF q
  <2>2. BlockHead(s, j + 1) = h
    BY <1>7, <1>8, BlockHeadUnique
  <2>3. page_zone(b[1]) = page_zone(p) /\ page_zone(s) = page_zone(p)
    <3>1. b[1] \in ZonePages(page_zone(p)) /\ s \in ZonePages(page_zone(p))
      BY <1>2, <1>6, <1>8, <1>10
    <3> QED BY <3>1, ZoneFacts
  <2>4. b = c
    BY <1>1, <1>7, <1>9, <1>14, <2>1, <2>2, <2>3 DEF SiblingsMerged, j
  <2> QED BY <1>6, <1>8, <2>1, <2>4
<1> QED BY <1>7, <1>12, <1>13, <1>14

\* alloc_pages fails only if ZONE_NORMAL has no aligned block of the requested
\* size left: memory is never lost to fragments that could have been merged.
THEOREM ExhaustionIsReal == Spec => []NoFalseExhaustion
<1>1. ASSUME IInv PROVE NoFalseExhaustion
  <2>1. SUFFICES ASSUME NEW k \in Orders, NEW p \in ZonePages("ZONE_NORMAL"), FreeAligned(p, k)
                 PROVE  Available(k) # {}
    BY DEF NoFalseExhaustion
  <2>2. p \in Pages /\ page_zone(p) = "ZONE_NORMAL" /\ p \in Nat /\ k \in 0 .. 31
    BY ZoneFacts, OrderFacts DEF Zones
  <2>3. PICK b \in FreeBlocks : b[2] >= k /\ BlockPages(p, k) \subseteq BlockPages(b[1], b[2])
    BY <1>1, <2>1, <2>2, CoveringBlock
  <2>4. p \in BlockPages(b[1], b[2])
    <3>1. p % 2^k = 0
      BY <2>1 DEF FreeAligned
    <3> QED BY <2>2, <2>3, <3>1, BlockHeadAligned
  <2>5. b[1] \in Pages /\ b[2] \in Orders /\ page_zone(b[1]) = "ZONE_NORMAL"
    BY <1>1, <2>2, <2>4, BlockFacts DEF Blocks, IInv
  <2>6. b[1] \in ToSet(free_area["ZONE_NORMAL"][b[2]])
    BY <2>5 DEF FreeBlocks, IsFree
  <2>7. free_area["ZONE_NORMAL"][b[2]] # <<>>
    BY <2>6 DEF ToSet
  <2>8. b[2] \in k .. MAX_ORDER - 1
    BY <2>1, <2>3, <2>5, MaxOrderAssumption DEF Orders
  <2> QED BY <2>7, <2>8 DEF Available
<1> QED BY <1>1, InvariantHolds, PTL

\* The free lists hold exactly the largest aligned blocks of the set of free
\* pages, whatever sequence of allocations and frees led to it.
THEOREM FreeListsAreCanonical == Spec => []FreeListsCanonical
<1>1. ASSUME IInv PROVE FreeListsCanonical
  <2>1. BlocksInv
    BY <1>1 DEF IInv
  <2> DEFINE Parent(b) == BlockHead(b[1], b[2] + 1)
             Whole(b) == FreeAligned(Parent(b), b[2] + 1)
  <2>2. ASSUME NEW b \in FreeBlocks
        PROVE  FreeAligned(b[1], b[2]) /\ (b[2] < MAX_ORDER - 1 => ~ Whole(b))
    <3>1. /\ b \in Blocks /\ b[1] \in Pages /\ b[1] \in Nat /\ b[2] \in Orders /\ b[2] \in 0 .. 31
          /\ b[1] % 2^b[2] = 0 /\ b[1] \in BlockPages(b[1], b[2])
          /\ BlockPages(b[1], b[2]) \subseteq ZonePages(page_zone(b[1]))
      BY <2>1, BlockFacts DEF Blocks
    <3>2. FreeAligned(b[1], b[2])
      BY <3>1 DEF FreeAligned, FreePageSet
    <3>3. ASSUME b[2] < MAX_ORDER - 1, Whole(b) PROVE FALSE
      <4>1. b[2] + 1 \in 0 .. 31 /\ b[2] + 1 \in Orders
        BY <3>1, <3>3, MaxOrderAssumption DEF Orders
      <4>2. /\ Parent(b) \in Nat /\ Parent(b) % 2^(b[2] + 1) = 0
            /\ b[1] \in BlockPages(Parent(b), b[2] + 1)
        BY <3>1, <4>1, BlockHeadFacts
      <4>3. Parent(b) \in Pages
        <5>1. Parent(b) \in BlockPages(Parent(b), b[2] + 1)
          BY <4>1, <4>2, BlockHeadAligned
        <5>2. Parent(b) \in FreePageSet
          BY <3>3, <5>1 DEF FreeAligned
        <5>3. PICK c \in FreeBlocks : Parent(b) \in BlockPages(c[1], c[2])
          BY <5>2 DEF FreePageSet
        <5> QED BY <2>1, <5>3, BlockFacts DEF Blocks
      <4> HIDE DEF Parent
      <4>4. PICK c \in FreeBlocks : /\ c[2] >= b[2] + 1
                                    /\ BlockPages(Parent(b), b[2] + 1) \subseteq BlockPages(c[1], c[2])
        BY <1>1, <3>3, <4>1, <4>3, CoveringBlock
      <4>5. Overlap(b, c)
        BY <3>1, <4>2, <4>4 DEF Overlap
      <4>6. b = c
        BY <2>1, <3>1, <4>5 DEF BlocksInv, BlocksPartitionPages, Blocks
      <4> QED BY <3>1, <4>4, <4>6
    <3> QED BY <3>2, <3>3
  <2>3. ASSUME NEW b \in Pages \X Orders, FreeAligned(b[1], b[2]),
               b[2] < MAX_ORDER - 1 => ~ Whole(b)
        PROVE  b \in FreeBlocks
    <3> DEFINE p == b[1]
               k == b[2]
    <3>1. p \in Pages /\ k \in Orders /\ b = <<p, k>>
      OBVIOUS
    <3>2. FreeAligned(p, k) /\ p % 2^k = 0
      BY <2>3 DEF FreeAligned
    <3>3. k < MAX_ORDER - 1 => ~ FreeAligned(BlockHead(p, k + 1), k + 1)
      BY <2>3
    <3> HIDE DEF p, k
    <3>4. p \in Nat /\ k \in 0 .. 31 /\ k \in Nat
      BY <3>1, ZoneFacts, OrderFacts
    <3>5. PICK c \in FreeBlocks : c[2] >= k /\ BlockPages(p, k) \subseteq BlockPages(c[1], c[2])
      BY <1>1, <3>1, <3>2, CoveringBlock
    <3> DEFINE q == c[1]
               n == c[2]
    <3>6. /\ q \in Nat /\ n \in Orders /\ n \in 0 .. 31 /\ n \in Nat /\ c = <<q, n>>
          /\ q % 2^n = 0 /\ BlockPages(q, n) \subseteq ZonePages(page_zone(q))
          /\ \A x \in BlockPages(q, n) : x \in Pages /\ page_zone(x) = page_zone(q)
          /\ BlockPages(q, n) \subseteq FreePageSet
          /\ n >= k /\ BlockPages(p, k) \subseteq BlockPages(q, n)
      BY <2>1, <3>5, BlockFacts DEF Blocks, FreePageSet
    <3> HIDE DEF q, n
    <3>7. p \in BlockPages(p, k) /\ p \in BlockPages(q, n) /\ BlockHead(p, k) = p
      BY <3>2, <3>4, <3>6, BlockHeadAligned
    <3>8. CASE n = k
      <4>1. BlockHead(p, k) = q
        BY <3>4, <3>6, <3>7, <3>8, BlockHeadUnique
      <4> QED BY <3>1, <3>6, <3>7, <3>8, <4>1
    <3>9. CASE k < n
      <4> DEFINE h == BlockHead(p, k + 1)
                 i == k + 1
      <4>1. k < MAX_ORDER - 1 /\ i \in 0 .. 31 /\ i <= n
        BY <3>4, <3>6, <3>9, MaxOrderAssumption DEF Orders
      <4>2. h \in Nat /\ h % 2^i = 0 /\ p \in BlockPages(h, i)
        BY <3>4, <4>1, BlockHeadFacts
      <4> HIDE DEF h, i
      <4>3. BlockPages(h, i) \subseteq BlockPages(q, n)
        BY <3>6, <3>7, <4>1, <4>2, Nested
      <4>4. h \in BlockPages(h, i)
        BY <4>1, <4>2, BlockHeadAligned
      <4>5. FreeAligned(h, i)
        BY <3>6, <4>2, <4>3, <4>4 DEF FreeAligned
      <4> QED BY <3>3, <4>1, <4>5 DEF h, i
    <3> QED BY <3>4, <3>6, <3>8, <3>9
  <2>4. FreeBlocks \subseteq Pages \X Orders
    BY DEF FreeBlocks
  <2> QED BY <2>2, <2>3, <2>4 DEF FreeListsCanonical
<1> QED BY <1>1, InvariantHolds, PTL

-----------------------------------------------------------------------------
(* The pool.                                                               *)

\* A block that comes back makes its own pages free, and no other: merging
\* moves pages between free blocks only.
LEMMA ReturnedPages ==
    ASSUME BlocksInv, NEW p \in Pages, NEW k \in Orders,
           <<p, k>> \in held \cup (Reserved \X {0}), ReturnsBlock(p, k)
    PROVE  FreePageSet' = FreePageSet \cup BlockPages(p, k)
<1> DEFINE m == MergedOrder(page_zone(p), p, k)
           h == BlockHead(p, m)
           U == Unlinked(p, k)
<1>1. U \subseteq FreeBlocks /\ BlockPages(h, m) = PagesOf({<<p, k>>} \cup U)
  <2>1. m = MergedOrder(page_zone(p), p, k) /\ h = BlockHead(p, m)
    OBVIOUS
  <2> HIDE DEF m, h
  <2> QED BY <2>1, MergedBlockFacts
<1>2. <<p, k>> \notin FreeBlocks
  BY DEF BlocksInv, BlocksPartitionPages
<1>3. FreeBlocks' = (FreeBlocks \ U) \cup {<<h, m>>}
  BY <1>2 DEF ReturnsBlock, MergedBlock
<1> HIDE DEF m, h, U
<1>4. FreePageSet' = PagesOf(FreeBlocks \ U) \cup BlockPages(h, m)
  <2>1. FreePageSet' = PagesOf((FreeBlocks \ U) \cup {<<h, m>>})
    BY <1>3 DEF FreePageSet, PagesOf
  <2>2. PagesOf({<<h, m>>}) = BlockPages(h, m)
    BY DEF PagesOf
  <2>3. \A A, B : PagesOf(A \cup B) = PagesOf(A) \cup PagesOf(B)
    BY DEF PagesOf
  <2> QED BY <2>1, <2>2, <2>3
<1>5. BlockPages(h, m) = BlockPages(p, k) \cup PagesOf(U)
  BY <1>1 DEF PagesOf
<1>6. FreePageSet = PagesOf(FreeBlocks \ U) \cup PagesOf(U)
  BY <1>1 DEF FreePageSet, PagesOf
<1> QED BY <1>4, <1>5, <1>6

\* The pages of a block that is not free are not free.
LEMMA UsedPages ==
    ASSUME BlocksInv, NEW b \in Blocks, b \notin FreeBlocks
    PROVE  BlockPages(b[1], b[2]) \cap FreePageSet = {}
<1>1. ASSUME NEW c \in FreeBlocks, NEW x \in BlockPages(b[1], b[2]), x \in BlockPages(c[1], c[2])
      PROVE  FALSE
  <2>1. Overlap(b, c)
    BY <1>1 DEF Overlap
  <2> QED BY <2>1 DEF BlocksInv, BlocksPartitionPages, Blocks
<1> QED BY <1>1 DEF FreePageSet

\* The block a caller gets was free and is the only part that no longer is.
LEMMA TakenPages ==
    ASSUME BlocksInv, NEW k \in Orders, TakesBlock(k)
    PROVE  \E q \in Pages :
              /\ page_zone(q) = "ZONE_NORMAL" /\ q % 2^k = 0
              /\ BlockPages(q, k) \subseteq FreePageSet \cap ZonePages("ZONE_NORMAL")
              /\ FreePageSet' = FreePageSet \ BlockPages(q, k)
              /\ held' = held \cup {<<q, k>>}
<1>1. PICK q \in Pages, n \in Orders :
        /\ k <= n
        /\ <<q, n>> \in FreeBlocks
        /\ page_zone(q) = "ZONE_NORMAL"
        /\ held' = held \cup {<<q, k>>}
        /\ FreeBlocks' = (FreeBlocks \ {<<q, n>>}) \cup Halved(q, k, n)
  BY DEF TakesBlock
<1>2. <<q, n>> \in Blocks /\ <<q, n>>[1] = q /\ <<q, n>>[2] = n
  BY <1>1 DEF Blocks
<1>3. /\ q % 2^n = 0 /\ BlockPages(q, n) \subseteq ZonePages("ZONE_NORMAL")
      /\ BlockPages(q, n) \subseteq Pages
  BY <1>1, <1>2, BlockFacts
<1> DEFINE H == Halved(q, k, n)
           rest == PagesOf(FreeBlocks \ {<<q, n>>})
<1>4. /\ q % 2^k = 0 /\ BlockPages(q, k) \subseteq BlockPages(q, n)
      /\ \A j \in k .. n - 1 : q + 2^j # q
      /\ Disjoint({<<q, k>>} \cup H)
      /\ PagesOf({<<q, k>>} \cup H) = BlockPages(q, n)
  BY <1>1, <1>3, SplitFacts
<1>5. <<q, k>> \notin H
  BY <1>4 DEF Halved
<1>6. FreePageSet' = rest \cup PagesOf(H)
  BY <1>1 DEF FreePageSet, PagesOf
<1> HIDE DEF H
<1>7. FreePageSet = rest \cup BlockPages(q, n)
  BY <1>1, <1>2 DEF FreePageSet, PagesOf
<1>8. BlockPages(q, n) = BlockPages(q, k) \cup PagesOf(H)
  BY <1>4 DEF PagesOf
<1>9. BlockPages(q, k) \cap PagesOf(H) = {}
  <2>1. ASSUME NEW c \in H, NEW x \in BlockPages(q, k), x \in BlockPages(c[1], c[2]) PROVE FALSE
    <3>1. Overlap(<<q, k>>, c)
      BY <2>1 DEF Overlap
    <3> QED BY <1>4, <1>5, <3>1 DEF Disjoint
  <2> QED BY <2>1 DEF PagesOf
<1>10. BlockPages(q, n) \cap rest = {}
  <2>1. ASSUME NEW c \in FreeBlocks \ {<<q, n>>}, NEW x \in BlockPages(q, n),
               x \in BlockPages(c[1], c[2])
        PROVE  FALSE
    <3>1. Overlap(<<q, n>>, c) /\ c \in Blocks
      BY <1>2, <2>1 DEF Overlap, Blocks
    <3> QED BY <1>2, <2>1, <3>1 DEF BlocksInv, BlocksPartitionPages
  <2> QED BY <2>1 DEF PagesOf
<1> HIDE DEF rest
<1>11. FreePageSet' = FreePageSet \ BlockPages(q, k)
  BY <1>4, <1>6, <1>7, <1>8, <1>9, <1>10
<1> QED BY <1>1, <1>3, <1>4, <1>7, <1>11

\* Every step of the allocator is one of the pool, or changes nothing there.
LEMMA StepImplementsPool ==
    ASSUME IInv, PoolStep
    PROVE  [Pool!Next]_<<FreePageSet, held>>
<1>1. BlocksInv /\ HeldInLowMemory
  BY DEF IInv
<1>2. \A p, k : Pool!BlockPages(p, k) = BlockPages(p, k)
  BY DEF Pool!BlockPages, BlockPages
<1>3. Pool!Orders = Orders
  BY DEF Pool!Orders, Orders
<1>4. \A p \in Pages : page_zone(p) = "ZONE_NORMAL" => p \in 0 .. lowmem_page_frames - 1
  BY PageFramesAssumption DEF Pages, page_zone
<1>5. ZonePages("ZONE_NORMAL") = 0 .. lowmem_page_frames - 1
  BY DEF ZonePages, start_pfn, end_pfn
<1>6. CASE FreeBlocks' = FreeBlocks /\ held' = held
  BY <1>6 DEF FreePageSet
<1>7. CASE \E p \in Reserved \cap BootFree : ReturnsBlock(p, 0) /\ held' = held
  <2>1. PICK p \in Reserved \cap BootFree : ReturnsBlock(p, 0) /\ held' = held
    BY <1>7
  <2>2. /\ p \in Pages /\ p \in Nat /\ 0 \in Orders
        /\ <<p, 0>> \in held \cup (Reserved \X {0})
        /\ <<p, 0>> \in Blocks /\ <<p, 0>>[1] = p /\ <<p, 0>>[2] = 0
        /\ <<p, 0>> \notin FreeBlocks /\ <<p, 0>> \notin held
    BY <1>1, <2>1, OrderFacts, ZoneFacts DEF Reserved, Blocks, BlocksInv, BlocksPartitionPages
  <2>3. BlockPages(p, 0) = {p}
    BY <2>2, PowTable DEF BlockPages
  <2>4. FreePageSet' = FreePageSet \cup {p}
    BY <1>1, <2>1, <2>2, <2>3, ReturnedPages
  <2>5. p \notin FreePageSet
    BY <1>1, <2>2, <2>3, UsedPages
  <2>6. p \notin Pool!HeldPages
    <3>1. ASSUME NEW b \in held, p \in BlockPages(b[1], b[2]) PROVE FALSE
      <4>1. Overlap(<<p, 0>>, b) /\ b \in Blocks
        BY <2>2, <2>3, <3>1 DEF Overlap, Blocks
      <4> QED BY <1>1, <2>2, <4>1 DEF BlocksInv, BlocksPartitionPages
    <3> QED BY <1>2, <3>1 DEF Pool!HeldPages
  <2>7. Pool!Donate(p)
    BY <2>1, <2>4, <2>5, <2>6 DEF Pool!Donate
  <2> QED BY <2>1, <2>7 DEF Pool!Next
<1>8. CASE \E k \in Orders : TakesBlock(k)
  <2>1. PICK k \in Orders : TakesBlock(k)
    BY <1>8
  <2>2. PICK q \in Pages :
              /\ page_zone(q) = "ZONE_NORMAL" /\ q % 2^k = 0
              /\ BlockPages(q, k) \subseteq FreePageSet \cap ZonePages("ZONE_NORMAL")
              /\ FreePageSet' = FreePageSet \ BlockPages(q, k)
              /\ held' = held \cup {<<q, k>>}
    BY <1>1, <2>1, TakenPages
  <2>3. Pool!Alloc(q, k)
    BY <1>2, <1>5, <2>2 DEF Pool!Alloc
  <2> QED BY <1>3, <1>4, <2>2, <2>3 DEF Pool!Next
<1>9. CASE \E b \in held : ReturnsBlock(b[1], b[2]) /\ held' = held \ {b}
  <2>1. PICK b \in held : ReturnsBlock(b[1], b[2]) /\ held' = held \ {b}
    BY <1>9
  <2>2. /\ b = <<b[1], b[2]>> /\ b[1] \in Pages /\ b[2] \in Orders
        /\ <<b[1], b[2]>> \in held \cup (Reserved \X {0})
        /\ page_zone(b[1]) = "ZONE_NORMAL"
    BY <1>1, BlockFacts DEF Blocks, HeldInLowMemory
  <2>3. FreePageSet' = FreePageSet \cup BlockPages(b[1], b[2])
    BY <1>1, <2>1, <2>2, ReturnedPages
  <2>4. Pool!Free(b[1], b[2])
    BY <1>2, <2>1, <2>2, <2>3 DEF Pool!Free
  <2> QED BY <1>3, <1>4, <2>2, <2>4 DEF Pool!Next
<1> QED BY <1>6, <1>7, <1>8, <1>9 DEF PoolStep

\* The allocator implements the pool: whatever it splits and merges, callers
\* only ever see naturally aligned blocks of free low memory handed out and
\* exactly the block they give back become free.
THEOREM AllocatorImplementsPool == Spec => ImplementsPool
<1>1. Init => Pool!Init
  BY InitEmpty DEF Pool!Init, FreePageSet
<1>2. ASSUME IInv, [Next]_vars PROVE [Pool!Next]_<<FreePageSet, held>>
  BY <1>2, StepIsPoolStep, StepImplementsPool DEF IInv
<1>3. IInv /\ [Next]_vars => [Pool!Next]_(Pool!vars)
  BY <1>2 DEF Pool!vars
<1> QED BY <1>1, <1>3, InvariantHolds, PTL DEF Spec, ImplementsPool, Pool!Spec
=============================================================================
