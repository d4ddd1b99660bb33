-------------------------- MODULE SlabCacheProofs --------------------------
(***************************************************************************)
(* The slab caches hand out disjoint objects, find the slab of an object   *)
(* that comes back and give every block back to the page allocator, for    *)
(* every number of caches, object sizes, alignments and sizes of memory;   *)
(* and the layout of a slab leaves room for struct slab and its bitmap.    *)
(***************************************************************************)
EXTENDS SlabCache, MCSlabLayout, BasicLemmas, FiniteSetTheorems

-----------------------------------------------------------------------------
(* The layout of a slab.                                                   *)

\* The quotient and remainder of a division.
LEMMA DivMod ==
    ASSUME NEW x \in Nat, NEW d \in Nat \ {0}
    PROVE  /\ x \div d \in Nat
           /\ d * (x \div d) <= x
           /\ x < d * (x \div d) + d
OBVIOUS

\* c objects of s bytes and c bits fit in r bytes, up to less than one bit; then
\* the w words that hold c bits fit beside the objects in r bytes and one word.
LEMMA WordsFit ==
    ASSUME NEW n \in Nat \ {0}, NEW b \in Nat \ {0}, NEW s \in Nat, NEW r \in Nat,
           NEW c \in Nat, NEW w \in Nat,
           (n * s + 1) * c <= n * r + 1,
           (b * n) * w <= c + b * n - 1
    PROVE  b * w <= r + b - s * c
<1> DEFINE sc == s * c
           bw == b * w
           t  == r + b - sc
<1>1. sc \in Int /\ bw \in Int /\ t \in Int
  OBVIOUS
<1>2. n * sc + c <= n * r + 1
  OBVIOUS
<1>3. n * bw <= c + n * b - 1
  <2>1. (b * n) * w = n * bw
    OBVIOUS
  <2> QED BY <2>1
<1> HIDE DEF sc, bw, t
<1>4. n * bw <= n * t
  <2>1. n * t = n * r + n * b - n * sc
    BY <1>1 DEF t
  <2>2. n * sc \in Int /\ n * bw \in Int /\ n * r \in Int /\ n * b \in Int /\ n * t \in Int
    BY <1>1
  <2> QED BY <1>2, <1>3, <2>1, <2>2
<1>5. bw <= t
  BY <1>1, <1>4
<1> QED BY <1>5 DEF t, bw, sc

\* No object of any size shares a byte with struct slab or with the bitmap that
\* says which objects are in use: slab_cache.c:26-33 with 45-48.
THEOREM BitmapNeverReachesObjects ==
    \A size \in Nat \ {0} : BitmapFits(size)
<1> SUFFICES ASSUME NEW size \in Nat \ {0} PROVE BitmapFits(size)
  OBVIOUS
<1> DEFINE n == CHAR_BIT
           b == SizeofBitmap
           r == space - SizeofSlab - SizeofBitmap
           c == slab_object_count(size)
           w == BitmapWords(size)
           x == n * r + 1
           d == n * size + 1
           y == c + b * n - 1
<1>1. /\ n \in Nat \ {0} /\ b \in Nat \ {0} /\ size \in Nat /\ r \in Nat /\ space \in Nat
      /\ SizeofSlab \in Nat
  BY LayoutAssumption DEF space, SlabPages
<1>2. x \in Nat /\ d \in Nat \ {0}
  <2> HIDE DEF n, r
  <2> QED BY <1>1
<1>3. c = x \div d
  BY DEF slab_object_count
<1> HIDE DEF x, d, c
<1>4. c \in Nat /\ d * c <= x
  BY <1>2, <1>3, DivMod
<1>5. b * n \in Nat \ {0}
  BY <1>1
<1>6. w = (c + b * n - 1) \div (b * n)
  BY DEF c, BitmapWords, WordBits
<1>7. y \in Nat
  <2> DEFINE bn == b * n
  <2>1. bn \in Nat \ {0}
    BY <1>5
  <2> HIDE DEF bn
  <2>2. c + bn - 1 \in Nat
    BY <1>4, <2>1
  <2> QED BY <2>2 DEF bn
<1> HIDE DEF w, y
<1>8. w \in Nat /\ (b * n) * w <= y
  <2>1. w = y \div (b * n)
    BY <1>6 DEF y
  <2> QED BY <1>5, <1>7, <2>1, DivMod
<1>9. b * w <= r + b - size * c
  <2>1. (n * size + 1) * c <= n * r + 1
    BY <1>4 DEF d, x
  <2>2. (b * n) * w <= c + b * n - 1
    BY <1>8 DEF y
  <2> HIDE DEF n, b, r
  <2> QED BY <1>1, <1>4, <1>8, <2>1, <2>2, WordsFit
<1>10. size * c \in Int /\ b * w \in Int
  <2> HIDE DEF b
  <2> QED BY <1>1, <1>4, <1>8
<1>11. SizeofSlab + b * w <= space - size * c
  BY <1>1, <1>9, <1>10
<1> QED BY <1>11 DEF BitmapFits, HeaderSize, object_offset, c, w

\* The objects fit behind struct slab and a word of the bitmap.
LEMMA CountFits ==
    ASSUME NEW size \in Nat \ {0}
    PROVE  /\ slab_object_count(size) \in Nat
           /\ size * slab_object_count(size) <= space - SizeofSlab - SizeofBitmap
           /\ space \in Nat /\ space - SizeofSlab - SizeofBitmap \in Nat
<1> DEFINE n == CHAR_BIT
           r == space - SizeofSlab - SizeofBitmap
           c == slab_object_count(size)
           x == n * r + 1
           d == n * size + 1
<1>1. n \in Nat \ {0} /\ r \in Nat /\ space \in Nat /\ size \in Nat
  BY LayoutAssumption DEF space, SlabPages
<1>2. x \in Nat /\ d \in Nat \ {0}
  <2> HIDE DEF n, r
  <2> QED BY <1>1
<1>3. c = x \div d
  BY DEF slab_object_count
<1> HIDE DEF x, d, c
<1>4. c \in Nat /\ d * c <= x
  BY <1>2, <1>3, DivMod
<1> DEFINE sc == size * c
<1>5. sc \in Nat /\ n * sc + c <= n * r + 1
  <2>1. d * c = n * (size * c) + c
    <3> HIDE DEF n
    <3> QED BY <1>1, <1>4 DEF d
  <2> QED BY <1>1, <1>4, <2>1 DEF x
<1>6. sc <= r
  <2>1. CASE c = 0
    BY <1>1, <2>1
  <2>2. CASE c # 0
    <3> HIDE DEF n, r, sc
    <3>1. n * sc \in Nat /\ n * r \in Nat
      BY <1>1, <1>5
    <3>2. n * sc <= n * r
      BY <1>4, <1>5, <2>2, <3>1
    <3> QED BY <1>1, <1>5, <3>2
  <2> QED BY <2>1, <2>2
<1> QED BY <1>1, <1>4, <1>6 DEF c, sc

\* slab_object_size rounds up to a multiple of the alignment.
LEMMA ObjectSizeFacts ==
    ASSUME NEW size \in Nat \ {0}, NEW alignment \in Nat \ {0}
    PROVE  /\ slab_object_size(size, alignment) \in Nat \ {0}
           /\ slab_object_size(size, alignment) >= size
           /\ \E t \in Nat : slab_object_size(size, alignment) = t * alignment
<1>1. size \in Nat \ {0} /\ alignment \in Nat \ {0}
  OBVIOUS
<1>2. CASE alignment >= size
  <2>1. alignment = 1 * alignment
    BY <1>1
  <2> QED BY <1>1, <1>2, <2>1 DEF slab_object_size
<1>3. CASE ~ (alignment >= size)
  <2> DEFINE x == size + alignment - 1
             q == x \div alignment
  <2>1. x \in Nat
    BY <1>1
  <2>2. slab_object_size(size, alignment) = alignment * q
    BY <1>3 DEF slab_object_size
  <2> HIDE DEF x
  <2>3. q \in Nat /\ x < alignment * q + alignment
    BY <1>1, <2>1, DivMod
  <2> HIDE DEF q
  <2>4. alignment * q \in Nat /\ q * alignment = alignment * q
    BY <1>1, <2>3
  <2>5. size <= alignment * q
    BY <1>1, <2>3, <2>4 DEF x
  <2> QED BY <1>1, <2>2, <2>3, <2>4, <2>5
<1> QED BY <1>2, <1>3

\* Every object is as large and as aligned as slab_cache_create was asked to
\* make it, and behind the bitmap: slab_cache.c:19-33 for all sizes.
THEOREM LayoutIsSound ==
    \A size \in Nat \ {0}, alignment \in Nat \ {0} :
        /\ ObjectsAligned(size, alignment)
        /\ BitmapFits(slab_object_size(size, alignment))
<1> SUFFICES ASSUME NEW size \in Nat \ {0}, NEW alignment \in Nat \ {0}
             PROVE  ObjectsAligned(size, alignment)
  BY BitmapNeverReachesObjects, ObjectSizeFacts
<1> DEFINE s == slab_object_size(size, alignment)
           c == slab_object_count(s)
<1>1. s \in Nat \ {0} /\ s >= size /\ alignment \in Nat \ {0}
  BY ObjectSizeFacts
<1>2. PICK t \in Nat : s = t * alignment
  BY ObjectSizeFacts
<1>3. c \in Nat /\ s * c <= space /\ space \in Nat
  <2> HIDE DEF s
  <2>1. /\ c \in Nat /\ space \in Nat /\ s * c <= space - SizeofSlab - SizeofBitmap
    BY <1>1, CountFits
  <2>2. SizeofSlab \in Nat /\ SizeofBitmap \in Nat /\ s * c \in Nat
    BY <1>1, <2>1, LayoutAssumption
  <2> QED BY <2>1, <2>2
<1>4. object_offset(s) = space - s * c
  BY DEF object_offset
<1> HIDE DEF s, c
<1>5. ASSUME space % alignment = 0, NEW n \in 0 .. c
      PROVE  (object_offset(s) + n * s) % alignment = 0
  <2>1. PICK k \in Nat : space = k * alignment
    BY <1>1, <1>3, <1>5, Quotient
  <2> DEFINE a == alignment
             g == k - t * c + t * n
  <2>2. n \in Nat /\ a \in Nat \ {0}
    BY <1>1, <1>3, <1>5
  <2>3. object_offset(s) + n * s = g * a
    <3>1. object_offset(s) + n * s = k * a - (t * a) * c + n * (t * a)
      BY <1>2, <1>4, <2>1
    <3> HIDE DEF a
    <3> QED BY <1>2, <1>3, <2>1, <2>2, <3>1
  <2>4. g * a >= 0
    <3>1. s * c \in Nat /\ n * s \in Nat
      BY <1>1, <1>3, <2>2
    <3> QED BY <1>3, <1>4, <2>3, <3>1
  <2>5. g \in Int
    BY <1>2, <1>3, <2>1, <2>2
  <2> HIDE DEF g, a
  <2>6. g \in Nat
    BY <2>2, <2>4, <2>5
  <2>7. (g * a) % a = 0
    BY <2>2, <2>6, MultipleMod
  <2> QED BY <2>3, <2>7 DEF a
<1> QED BY <1>1, <1>5 DEF ObjectsAligned, s, c

\* Whatever size and alignment a cache is created with, the bitmap of a slab ends
\* before its objects, and these are as large and as aligned as was asked for:
\* slab_cache.c:19-55, for the sizes that MCSlabLayout counts through and any
\* sizes of a page, of the headers and of a byte.
THEOREM LayoutAlwaysSound == LayoutSpec => []LayoutSound
<1> DEFINE Inv == asked_size \in Nat \ {0} /\ asked_alignment \in Nat \ {0}
<1>1. LayoutInit => Inv
  BY DEF LayoutInit
<1>2. Inv /\ [LayoutNext]_<<asked_size, asked_alignment>> => Inv'
  BY DEF LayoutNext
<1>3. Inv => LayoutSound
  BY LayoutIsSound DEF LayoutSound
<1> QED BY <1>1, <1>2, <1>3, PTL DEF LayoutSpec

-----------------------------------------------------------------------------
(* Objects and addresses.                                                  *)

\* The objects of a cache fill a slab from the end.
LEMMA SizeFacts ==
    ASSUME NEW c \in Caches
    PROVE  /\ object_size(c) \in ObjectSizes /\ object_size(c) \in Nat \ {0}
           /\ object_count(c) \in Nat \ {0} /\ object_count(c) \in Counters
           /\ offset(c) \in Nat /\ HeaderSize(object_size(c)) <= offset(c)
           /\ object_size(c) * object_count(c) \in Nat
           /\ offset(c) + object_size(c) * object_count(c) = 2 * PAGE_SIZE
           /\ PAGE_SIZE \in Nat \ {0}
<1> DEFINE s == object_size(c)
           n == object_count(c)
<1>1. s \in Nat \ {0} /\ n > 0 /\ n = slab_object_count(s)
  <2>1. ObjectSize[c] \in Nat \ {0} /\ Alignment[c] \in Nat \ {0}
    BY SlabAssumption, LayoutAssumption DEF ObjectSizes, space, SlabPages
  <2>2. n > 0 /\ n = slab_object_count(s)
    BY SlabAssumption DEF object_size, object_count
  <2> QED BY <2>1, <2>2, ObjectSizeFacts DEF object_size
<1>2. PAGE_SIZE \in Nat \ {0} /\ space = 2 * PAGE_SIZE
      /\ SizeofSlab \in Nat /\ SizeofBitmap \in Nat
  BY LayoutAssumption DEF space, SlabPages
<1>3. offset(c) = space - s * n
  BY DEF offset, object_offset, object_count
<1> HIDE DEF s, n
<1>4. n \in Nat /\ s * n <= space - SizeofSlab - SizeofBitmap
  BY <1>1, CountFits
<1> DEFINE sn == s * n
<1>5. sn \in Nat /\ s <= sn /\ n <= sn
  BY <1>1, <1>4
<1> HIDE DEF sn
<1>6. sn <= space
  BY <1>2, <1>4, <1>5 DEF sn
<1>7. s \in ObjectSizes /\ n \in Counters
  BY <1>1, <1>2, <1>4, <1>5, <1>6 DEF ObjectSizes, Counters
<1>8. BitmapFits(s)
  BY <1>7, BitmapNeverReachesObjects DEF ObjectSizes
<1>9. HeaderSize(s) <= offset(c)
  BY <1>8 DEF BitmapFits, offset, s
<1>10. offset(c) \in Nat /\ offset(c) + sn = 2 * PAGE_SIZE
  BY <1>2, <1>3, <1>5, <1>6 DEF sn
<1> QED BY <1>1, <1>2, <1>4, <1>5, <1>7, <1>9, <1>10 DEF s, n, sn

\* A quotient is the multiple of the divisor below.
LEMMA QuotientBetween ==
    ASSUME NEW x \in Nat, NEW d \in Nat \ {0}, NEW q \in Nat, q * d <= x, x < (q + 1) * d
    PROVE  x \div d = q
<1> DEFINE p == x \div d
<1>1. p \in Nat /\ d * p <= x /\ x < d * p + d
  BY DivMod
<1> HIDE DEF p
<1>2. d * p \in Nat /\ q * d \in Nat /\ (q + 1) * d = q * d + d /\ d * p = p * d
  BY <1>1
<1>3. p * d < (q + 1) * d /\ q * d < (p + 1) * d
  <2>1. (p + 1) * d = p * d + d
    BY <1>1
  <2> QED BY <1>1, <1>2, <2>1
<1>4. p < q + 1 /\ q < p + 1
  BY <1>1, <1>3
<1> QED BY <1>1, <1>4 DEF p

\* Where the bytes of object n of a slab are; slab_cache_free finds its slab and
\* its bit from its address.
LEMMA AddressFacts ==
    ASSUME NEW c \in Caches, NEW s \in PageFrames, s + 1 \in PageFrames,
           NEW n \in 0 .. object_count(c) - 1,
           NEW a, a = object_address(c, s, n)
    PROVE  /\ a \in Nat /\ a \in 0 .. lowmem_page_frames * PAGE_SIZE - 1
           /\ s * PAGE_SIZE \in Nat
           /\ s * PAGE_SIZE + offset(c) <= a
           /\ a + object_size(c) <= s * PAGE_SIZE + 2 * PAGE_SIZE
           /\ a \div PAGE_SIZE \in {s, s + 1}
           /\ (a - (s * PAGE_SIZE + offset(c))) \div object_size(c) = n
           /\ a = s * PAGE_SIZE + offset(c) + n * object_size(c)
<1> DEFINE z == object_size(c)
           k == object_count(c)
           o == offset(c)
           P == PAGE_SIZE
           L == lowmem_page_frames
           sp == s * P
           nz == n * z
<1>1. /\ z \in Nat \ {0} /\ k \in Nat \ {0} /\ o \in Nat /\ P \in Nat \ {0}
      /\ z * k \in Nat /\ o + z * k = 2 * P
  BY SizeFacts
<1>2. n \in Nat /\ n + 1 <= k
  BY <1>1
<1>3. s \in Nat /\ L \in Nat /\ s + 2 <= L
  BY SlabAssumption DEF PageFrames
<1>4. a = sp + o + nz
  BY DEF object_address
<1> HIDE DEF z, k, o, P, L
<1>5. sp \in Nat /\ nz \in Nat /\ nz + z <= z * k
  <2>1. nz \in Nat /\ nz + z = z * (n + 1)
    BY <1>1, <1>2
  <2>2. z * (n + 1) <= z * k
    BY <1>1, <1>2
  <2> QED BY <1>1, <1>3, <2>1, <2>2
<1>6. (s + 1) * P = sp + P /\ (s + 1 + 1) * P = sp + 2 * P
  BY <1>1, <1>3
<1>7. L * P \in Nat /\ sp + 2 * P <= L * P
  <2>1. (s + 2) * P <= L * P
    BY <1>1, <1>3
  <2>2. (s + 2) * P = sp + 2 * P
    BY <1>1, <1>3
  <2> QED BY <1>1, <1>3, <2>1, <2>2
<1>8. nz \div z = n
  BY <1>1, <1>2, MultipleMod
<1>9. a - (sp + o) = nz
  <2> HIDE DEF sp, nz
  <2> QED BY <1>1, <1>4, <1>5
<1> HIDE DEF nz
<1>10. a \in Nat /\ sp + o <= a /\ a + z <= sp + 2 * P /\ a \in 0 .. L * P - 1
  <2> HIDE DEF sp
  <2> DEFINE zk == z * k
             lp == L * P
  <2>1. zk \in Nat /\ o + zk = 2 * P /\ nz + z <= zk /\ lp \in Nat /\ sp + 2 * P <= lp
    BY <1>1, <1>5, <1>7
  <2> HIDE DEF zk, lp
  <2>2. a \in Nat /\ sp + o <= a /\ a + z <= sp + 2 * P /\ a \in 0 .. lp - 1
    BY <1>1, <1>4, <1>5, <2>1
  <2> QED BY <2>2 DEF lp
<1>11. a \div P \in {s, s + 1}
  <2>1. CASE a < sp + P
    <3>1. s * P <= a /\ a < (s + 1) * P
      BY <1>1, <1>5, <1>6, <1>10, <2>1
    <3> QED BY <1>1, <1>3, <1>10, <3>1, QuotientBetween
  <2>2. CASE a >= sp + P
    <3>1. s + 1 \in Nat /\ (s + 1) * P <= a /\ a < (s + 1 + 1) * P
      BY <1>1, <1>3, <1>5, <1>6, <1>10, <2>2
    <3> DEFINE t == s + 1
    <3>2. t \in Nat /\ t * P <= a /\ a < (t + 1) * P
      BY <3>1
    <3> HIDE DEF t
    <3>3. a \div P = t
      BY <1>1, <1>10, <3>2, QuotientBetween
    <3> QED BY <3>3 DEF t
  <2> QED BY <1>1, <1>5, <1>10, <2>1, <2>2
<1>12. a = sp + o + nz /\ sp \in Nat
  BY <1>4, <1>5
<1>13. (a - (sp + o)) \div z = n
  BY <1>8, <1>9 DEF nz
<1> QED BY <1>10, <1>11, <1>12, <1>13 DEF z, o, P, L, nz

-----------------------------------------------------------------------------
(* The inductive invariant.                                                *)

\* The pool and the blocks taken from it share no page, and blocks are aligned.
PoolOK ==
    /\ free \subseteq BootFree
    /\ \A b \in held : /\ b[1] % 2 = 0
                       /\ b[1] \in BootFree \ free
                       /\ b[1] + 1 \in BootFree \ free

\* A block is a task, or has its slab destroyed, or belongs to a cache.
OwnersApart ==
    /\ IsInjective(fini)
    /\ tasks \cap ToSet(fini) = {}
    /\ \A c \in created : Slabs(c) \cap (tasks \cup ToSet(fini)) = {}

\* SlabsOnRightList, for the two lists of a cache instead of for both in one.
ListsApart ==
    \A c \in created :
        /\ IsInjective(partial[c]) /\ IsInjective(full[c])
        /\ ToSet(partial[c]) \cap ToSet(full[c]) = {}
        /\ \A s \in ToSet(partial[c]) : slab_free[s] > 0
        /\ \A s \in ToSet(full[c]) : slab_free[s] = 0
        /\ \A d \in created : c # d => Slabs(c) \cap Slabs(d) = {}

\* The bits are those of objects of the slab, and slab->free counts the others.
BitsMatchCounter ==
    \A c \in created : \A s \in Slabs(c) :
        /\ bitmap[s] \subseteq 0 .. object_count(c) - 1
        /\ slab_free[s] + Cardinality(bitmap[s]) = object_count(c)

\* Both pages of a slab lead back to it.
PagesFindSlab ==
    \A c \in created : \A s \in Slabs(c) : page_slab[s] = s /\ page_slab[s + 1] = s

Addresses == 0 .. lowmem_page_frames * PAGE_SIZE - 1

\* A client owns the object at a if and only if its bit is set.
ObjectsExact ==
    \A c \in created, a \in Addresses :
        <<c, a>> \in objects <=>
            \E s \in Slabs(c) : \E n \in bitmap[s] : a = object_address(c, s, n)

\* A cache that is destroyed has no object left.
ObjectsOfCaches == \A o \in objects : o[1] \in created

IInv ==
    /\ TypeOK /\ PoolOK /\ NoBlockLeaked /\ OwnersApart
    /\ ListsApart /\ BitsMatchCounter /\ PagesFindSlab
    /\ ObjectsExact /\ ObjectsOfCaches

-----------------------------------------------------------------------------
(* What the invariant says of one slab and of one object.                  *)

\* A block of order 1 is two pages.
LEMMA TwoPages ==
    ASSUME NEW p \in Nat
    PROVE  /\ Pool!BlockPages(p, 1) = {p, p + 1}
           /\ p % 2^1 = p % 2
<1>1. 2^1 = 2
  BY PowTable
<1> QED BY <1>1 DEF Pool!BlockPages

\* Page frames are natural numbers.
LEMMA FramesAreNat == lowmem_page_frames \in Nat /\ PageFrames \subseteq Nat /\ BootFree \subseteq PageFrames
BY SlabAssumption DEF PageFrames

\* The ranges of the lists.
LEMMA ListTypes ==
    ASSUME TypeOK, NEW c \in Caches
    PROVE  /\ partial[c] \in Seq(PageFrames) /\ full[c] \in Seq(PageFrames)
           /\ ToSet(partial[c]) \subseteq PageFrames /\ ToSet(full[c]) \subseteq PageFrames
           /\ Slabs(c) \subseteq PageFrames
<1>1. partial[c] \in Seq(PageFrames) /\ full[c] \in Seq(PageFrames)
  BY DEF TypeOK
<1>2. ASSUME NEW l \in Seq(PageFrames) PROVE ToSet(l) \subseteq PageFrames
  BY DEF ToSet
<1> QED BY <1>1, <1>2 DEF Slabs

\* A slab of a cache is two pages of memory that nobody else has.
LEMMA SlabFacts ==
    ASSUME IInv, NEW c \in created, NEW s \in Slabs(c)
    PROVE  /\ c \in Caches /\ s \in PageFrames /\ s + 1 \in PageFrames /\ s \in Nat
           /\ s % 2 = 0 /\ <<s, 1>> \in held
           /\ s \notin free /\ s + 1 \notin free
           /\ s \notin tasks /\ s \notin ToSet(fini)
           /\ page_slab[s] = s /\ page_slab[s + 1] = s
           /\ bitmap[s] \subseteq 0 .. object_count(c) - 1
           /\ slab_free[s] + Cardinality(bitmap[s]) = object_count(c)
           /\ IsFiniteSet(bitmap[s]) /\ Cardinality(bitmap[s]) \in Nat
           /\ slab_free[s] \in Nat
           /\ object_count(c) \in Nat
<1>1. c \in Caches /\ s \in PageFrames
  BY ListTypes DEF IInv, TypeOK
<1>2. <<s, 1>> \in held
  <2>1. s \in UNION {Slabs(d) : d \in Caches}
    BY <1>1
  <2> QED BY <2>1 DEF IInv, NoBlockLeaked, SLAB_ORDER
<1>3. s % 2 = 0 /\ s \in BootFree \ free /\ s + 1 \in BootFree \ free
  <2>1. <<s, 1>>[1] = s
    OBVIOUS
  <2> QED BY <1>2, <2>1 DEF IInv, PoolOK
<1>4. s \notin tasks /\ s \notin ToSet(fini)
  BY DEF IInv, OwnersApart
<1>5. page_slab[s] = s /\ page_slab[s + 1] = s
  BY DEF IInv, PagesFindSlab
<1>6. /\ bitmap[s] \subseteq 0 .. object_count(c) - 1
      /\ slab_free[s] + Cardinality(bitmap[s]) = object_count(c)
  BY DEF IInv, BitsMatchCounter
<1>7. object_count(c) \in Nat
  BY <1>1, SizeFacts
<1>8. IsFiniteSet(bitmap[s]) /\ Cardinality(bitmap[s]) \in Nat
  <2> DEFINE k == object_count(c)
  <2>1. k \in Nat /\ bitmap[s] \subseteq 0 .. k - 1
    BY <1>6, <1>7
  <2> HIDE DEF k
  <2>2. IsFiniteSet(0 .. k - 1)
    BY <2>1, FS_Interval
  <2>3. IsFiniteSet(bitmap[s])
    BY <2>1, <2>2, FS_Subset
  <2> QED BY <2>3, FS_CardinalityType
<1>9. slab_free[s] \in Nat
  <2>1. slab_free[s] \in Counters /\ space \in Nat
    BY <1>1, LayoutAssumption DEF IInv, TypeOK, space, SlabPages
  <2> QED BY <2>1 DEF Counters
<1>10. s + 1 \in PageFrames /\ s \in Nat
  BY <1>1, <1>3, FramesAreNat
<1> QED BY <1>1, <1>2, <1>3, <1>4, <1>5, <1>6, <1>7, <1>8, <1>9, <1>10

\* slab_cache_free finds the slab and the bit of every object of every slab.
LEMMA ObjectFound ==
    ASSUME IInv, NEW c \in created, NEW s \in Slabs(c), NEW n \in 0 .. object_count(c) - 1,
           NEW a, a = object_address(c, s, n)
    PROVE  /\ a \in Addresses /\ a \in Nat
           /\ page_slab[a \div PAGE_SIZE] = s
           /\ (a - (s * PAGE_SIZE + offset(c))) \div object_size(c) = n
<1>1. c \in Caches /\ s \in PageFrames /\ s + 1 \in PageFrames
      /\ page_slab[s] = s /\ page_slab[s + 1] = s
  BY SlabFacts
<1>2. /\ a \in Addresses /\ a \in Nat /\ a \div PAGE_SIZE \in {s, s + 1}
      /\ (a - (s * PAGE_SIZE + offset(c))) \div object_size(c) = n
  BY <1>1, AddressFacts DEF Addresses
<1> QED BY <1>1, <1>2

\* The slab and the bit of an object that a client owns.
LEMMA OwnedObject ==
    ASSUME IInv, NEW o \in objects
    PROVE  /\ o[1] \in created /\ o[2] \in Addresses /\ o = <<o[1], o[2]>>
           /\ \E s \in Slabs(o[1]) : \E n \in bitmap[s] : o[2] = object_address(o[1], s, n)
<1>1. o \in Caches \X Addresses
  BY DEF IInv, TypeOK, Addresses
<1>2. o[1] \in created /\ o[2] \in Addresses /\ o = <<o[1], o[2]>>
  BY <1>1 DEF IInv, ObjectsOfCaches
<1> QED BY <1>2 DEF IInv, ObjectsExact

-----------------------------------------------------------------------------
(* What follows from the invariant.                                        *)

\* The invariant gives the property of the lists,
LEMMA IInvImpliesLists == IInv => SlabsOnRightList
<1> SUFFICES ASSUME IInv, NEW c \in created
             PROVE  IsInjective(partial[c] \o full[c])
  BY DEF IInv, ListsApart, SlabsOnRightList
<1>1. c \in Caches
  BY DEF IInv, TypeOK
<1>2. partial[c] \in Seq(PageFrames) /\ full[c] \in Seq(PageFrames)
  BY <1>1, ListTypes DEF IInv
<1> QED BY <1>2, ConcatList DEF IInv, ListsApart

\* of the bitmaps,
LEMMA IInvImpliesBitmaps == IInv => BitmapsMatchObjects
<1> SUFFICES ASSUME IInv, NEW c \in created
             PROVE  {o \in objects : o[1] = c} =
                        UNION {{<<c, object_address(c, s, n)>> : n \in bitmap[s]} : s \in Slabs(c)}
  BY DEF IInv, BitsMatchCounter, BitmapsMatchObjects
<1> DEFINE Own == UNION {{<<c, object_address(c, s, n)>> : n \in bitmap[s]} : s \in Slabs(c)}
<1>1. ASSUME NEW o \in objects, o[1] = c PROVE o \in Own
  <2>1. PICK s \in Slabs(c) : \E n \in bitmap[s] : o = <<c, object_address(c, s, n)>>
    BY <1>1, OwnedObject
  <2> QED BY <2>1
<1>2. ASSUME NEW o \in Own PROVE o \in objects /\ o[1] = c
  <2>1. PICK s \in Slabs(c) : \E n \in bitmap[s] : o = <<c, object_address(c, s, n)>>
    OBVIOUS
  <2>2. PICK n \in bitmap[s] : o = <<c, object_address(c, s, n)>>
    BY <2>1
  <2>3. n \in 0 .. object_count(c) - 1
    BY SlabFacts
  <2> DEFINE a == object_address(c, s, n)
  <2>4. a \in Addresses
    BY <2>3, ObjectFound
  <2>5. <<c, a>> \in objects
    BY <2>4 DEF IInv, ObjectsExact
  <2> QED BY <2>2, <2>5
<1> QED BY <1>1, <1>2

\* of page->slab,
LEMMA IInvImpliesFound == IInv => FreeFindsSlab
<1> SUFFICES ASSUME IInv, NEW o \in objects
             PROVE  LET s == page_slab[o[2] \div PAGE_SIZE]
                    IN  s \in Slabs(o[1]) /\ \E n \in bitmap[s] : o[2] = object_address(o[1], s, n)
  BY DEF FreeFindsSlab
<1>1. PICK s \in Slabs(o[1]) : \E n \in bitmap[s] : o[2] = object_address(o[1], s, n)
  BY OwnedObject
<1>2. PICK n \in bitmap[s] : o[2] = object_address(o[1], s, n)
  BY <1>1
<1>3. o[1] \in created /\ n \in 0 .. object_count(o[1]) - 1
  BY OwnedObject, SlabFacts
<1>4. page_slab[o[2] \div PAGE_SIZE] = s
  BY <1>2, <1>3, ObjectFound
<1> QED BY <1>2, <1>4

\* A cache all of whose objects are free has all its slabs on partial.
LEMMA IInvImpliesAsserts == IInv => DestroyAssertsHold
<1> SUFFICES ASSUME IInv, NEW c \in created, \A o \in objects : o[1] # c
             PROVE  FiniAsserts(c)
  BY DEF DestroyAssertsHold
<1>1. ASSUME NEW s \in Slabs(c) PROVE slab_free[s] = object_count(c) /\ object_count(c) > 0
  <2>1. ASSUME NEW n \in bitmap[s] PROVE FALSE
    <3> DEFINE a == object_address(c, s, n)
    <3>1. n \in 0 .. object_count(c) - 1
      BY SlabFacts
    <3>2. a \in Addresses
      BY <3>1, ObjectFound
    <3>3. <<c, a>> \in objects /\ <<c, a>>[1] = c
      BY <3>2 DEF IInv, ObjectsExact
    <3> QED BY <3>3
  <2>2. Cardinality(bitmap[s]) = 0
    BY <2>1, FS_EmptySet
  <2>3. c \in Caches /\ slab_free[s] + Cardinality(bitmap[s]) = object_count(c) /\ slab_free[s] \in Nat
    BY SlabFacts
  <2>4. object_count(c) \in Nat \ {0}
    BY <2>3, SizeFacts
  <2> QED BY <2>2, <2>3, <2>4
<1>2. /\ c \in Caches /\ partial[c] \in Seq(PageFrames) /\ full[c] \in Seq(PageFrames)
      /\ ToSet(partial[c]) \subseteq Slabs(c) /\ ToSet(full[c]) \subseteq Slabs(c)
  BY ListTypes DEF IInv, TypeOK, Slabs
<1>3. full[c] = <<>>
  <2>1. ToSet(full[c]) = {}
    BY <1>1, <1>2 DEF IInv, ListsApart
  <2>2. \A n \in 1 .. Len(full[c]) : full[c][n] \in ToSet(full[c])
    BY <1>2 DEF ToSet
  <2>3. Len(full[c]) = 0
    BY <1>2, <2>1, <2>2
  <2> QED BY <1>2, <2>3
<1>4. \A n \in 1 .. Len(partial[c]) : slab_free[partial[c][n]] = object_count(c)
  <2>1. \A n \in 1 .. Len(partial[c]) : partial[c][n] \in ToSet(partial[c])
    BY <1>2 DEF ToSet
  <2> QED BY <1>1, <1>2, <2>1
<1> QED BY <1>3, <1>4 DEF FiniAsserts

\* The bytes of two slabs that start at different even frames do not meet.
LEMMA SlabsApart ==
    ASSUME NEW s \in Nat, NEW t \in Nat, s % 2 = 0, t % 2 = 0, s < t, NEW P \in Nat
    PROVE  s * P + 2 * P <= t * P /\ s * P \in Nat /\ t * P \in Nat
<1>1. s + 2 <= t
  BY Z3
<1>2. (s + 2) * P <= t * P
  BY <1>1
<1>3. (s + 2) * P = s * P + 2 * P
  OBVIOUS
<1> QED BY <1>2, <1>3

\* Two objects of one slab have different bits and do not overlap.
LEMMA BitsApart ==
    ASSUME NEW z \in Nat, NEW n \in Nat, NEW m \in Nat, n < m
    PROVE  n * z + z <= m * z /\ n * z \in Nat /\ m * z \in Nat
<1>1. (n + 1) * z <= m * z
  OBVIOUS
<1>2. (n + 1) * z = n * z + z
  OBVIOUS
<1> QED BY <1>1, <1>2

\* Objects at different addresses, or of different caches, do not overlap.
LEMMA ObjectBytesApart ==
    ASSUME IInv, NEW c \in created, NEW d \in created,
           NEW s \in Slabs(c), NEW t \in Slabs(d),
           NEW n \in 0 .. object_count(c) - 1, NEW m \in 0 .. object_count(d) - 1,
           NEW a, NEW b, a = object_address(c, s, n), b = object_address(d, t, m),
           c # d \/ a # b
    PROVE  a + object_size(c) <= b \/ b + object_size(d) <= a
<1> DEFINE P == PAGE_SIZE
<1>1. /\ c \in Caches /\ s \in PageFrames /\ s + 1 \in PageFrames /\ s % 2 = 0 /\ s \in Nat
      /\ d \in Caches /\ t \in PageFrames /\ t + 1 \in PageFrames /\ t % 2 = 0 /\ t \in Nat
  BY SlabFacts
<1>2. /\ a \in Nat /\ s * P \in Nat /\ s * P + offset(c) <= a
      /\ a + object_size(c) <= s * P + 2 * P
      /\ a = s * P + offset(c) + n * object_size(c)
  BY <1>1, AddressFacts
<1>3. /\ b \in Nat /\ t * P \in Nat /\ t * P + offset(d) <= b
      /\ b + object_size(d) <= t * P + 2 * P
      /\ b = t * P + offset(d) + m * object_size(d)
  BY <1>1, AddressFacts
<1>4. /\ offset(c) \in Nat /\ object_size(c) \in Nat /\ object_count(c) \in Nat
      /\ offset(d) \in Nat /\ object_size(d) \in Nat /\ object_count(d) \in Nat /\ P \in Nat
  BY <1>1, SizeFacts
<1> DEFINE sp == s * P
           tp == t * P
           zc == object_size(c)
           zd == object_size(d)
           oc == offset(c)
           od == offset(d)
<1>5. CASE s < t
  <2>1. sp + 2 * P <= tp
    BY <1>1, <1>4, <1>5, SlabsApart
  <2>2. /\ sp \in Nat /\ tp \in Nat /\ a \in Nat /\ b \in Nat /\ zc \in Nat /\ od \in Nat
        /\ a + zc <= sp + 2 * P /\ tp + od <= b /\ P \in Nat
    BY <1>2, <1>3, <1>4
  <2> HIDE DEF sp, tp, zc, od, P
  <2>3. a + zc <= b
    BY <2>1, <2>2
  <2> QED BY <2>3 DEF zc
<1>6. CASE t < s
  <2>1. tp + 2 * P <= sp
    BY <1>1, <1>4, <1>6, SlabsApart
  <2>2. /\ sp \in Nat /\ tp \in Nat /\ a \in Nat /\ b \in Nat /\ zd \in Nat /\ oc \in Nat
        /\ b + zd <= tp + 2 * P /\ sp + oc <= a /\ P \in Nat
    BY <1>2, <1>3, <1>4
  <2> HIDE DEF sp, tp, zd, oc, P
  <2>3. b + zd <= a
    BY <2>1, <2>2
  <2> QED BY <2>3 DEF zd
<1>7. CASE s = t
  <2>1. c = d
    BY <1>7 DEF IInv, ListsApart
  <2>2. n # m /\ n \in Nat /\ m \in Nat
    BY <1>1, <1>2, <1>3, <1>4, <1>7, <2>1
  <2> DEFINE nz == n * zc
             mz == m * zc
  <2>3. /\ sp \in Nat /\ oc \in Nat /\ zc \in Nat
        /\ a = sp + oc + nz /\ b = sp + oc + mz
    BY <1>2, <1>3, <1>4, <1>7, <2>1
  <2>4. (nz + zc <= mz \/ mz + zc <= nz) /\ nz \in Nat /\ mz \in Nat
    <3>1. CASE n < m
      BY <2>2, <2>3, <3>1, BitsApart
    <3>2. CASE m < n
      BY <2>2, <2>3, <3>2, BitsApart
    <3> QED BY <2>2, <3>1, <3>2
  <2> HIDE DEF sp, oc, nz, mz, zc
  <2>5. a + zc <= b \/ b + zc <= a
    BY <2>3, <2>4
  <2> QED BY <2>1, <2>5 DEF zc
<1> QED BY <1>1, <1>5, <1>6, <1>7

\* and of the objects.
LEMMA IInvImpliesDisjoint == IInv => ObjectsDisjoint
<1> SUFFICES ASSUME IInv PROVE ObjectsDisjoint
  OBVIOUS
<1>1. ASSUME NEW o \in objects
      PROVE  \E s \in Slabs(o[1]) : \E n \in 0 .. object_count(o[1]) - 1 :
                  o[2] = object_address(o[1], s, n)
  <2>1. PICK s \in Slabs(o[1]) : \E n \in bitmap[s] : o[2] = object_address(o[1], s, n)
    BY OwnedObject
  <2>2. bitmap[s] \subseteq 0 .. object_count(o[1]) - 1
    BY OwnedObject, SlabFacts
  <2> QED BY <2>1, <2>2
<1>2. ASSUME NEW o \in objects, NEW q \in objects, o # q
      PROVE  ObjectBytes(o) \cap ObjectBytes(q) = {}
  <2> DEFINE a == o[2]
             b == q[2]
             c == o[1]
             d == q[1]
  <2>1. c \in created /\ d \in created /\ (c # d \/ a # b)
    BY <1>2, OwnedObject
  <2>2. PICK s \in Slabs(c) : \E n \in 0 .. object_count(c) - 1 : a = object_address(c, s, n)
    BY <1>1
  <2>3. PICK n \in 0 .. object_count(c) - 1 : a = object_address(c, s, n)
    BY <2>2
  <2>4. PICK t \in Slabs(d) : \E m \in 0 .. object_count(d) - 1 : b = object_address(d, t, m)
    BY <1>1
  <2>5. PICK m \in 0 .. object_count(d) - 1 : b = object_address(d, t, m)
    BY <2>4
  <2> HIDE DEF a, b, c, d
  <2>6. a + object_size(c) <= b \/ b + object_size(d) <= a
    BY <2>1, <2>3, <2>5, ObjectBytesApart
  <2>7. a \in Nat /\ b \in Nat
    BY <2>1, <2>3, <2>5, ObjectFound
  <2>8. object_size(c) \in Nat /\ object_size(d) \in Nat
    BY <2>1, SizeFacts DEF IInv, TypeOK
  <2> DEFINE zc == object_size(c)
             zd == object_size(d)
  <2>9. ObjectBytes(o) = a .. a + zc - 1 /\ ObjectBytes(q) = b .. b + zd - 1
    BY DEF ObjectBytes, a, b, c, d
  <2> HIDE DEF zc, zd
  <2>10. a \in Nat /\ b \in Nat /\ zc \in Nat /\ zd \in Nat /\ (a + zc <= b \/ b + zd <= a)
    BY <2>6, <2>7, <2>8 DEF zc, zd
  <2> QED BY <2>9, <2>10
<1>3. ASSUME NEW o \in objects
      PROVE  \E s \in Slabs(o[1]) :
                /\ ObjectBytes(o) \subseteq
                      s * PAGE_SIZE + HeaderSize(object_size(o[1])) .. (s + SlabPages) * PAGE_SIZE - 1
                /\ s \notin tasks
                /\ Pool!BlockPages(s, SLAB_ORDER) \cap free = {}
  <2> DEFINE a == o[2]
             c == o[1]
             h == HeaderSize(object_size(c))
             z == object_size(c)
  <2>1. PICK s \in Slabs(c) : \E n \in 0 .. object_count(c) - 1 : a = object_address(c, s, n)
    BY <1>1
  <2>2. PICK n \in 0 .. object_count(c) - 1 : a = object_address(c, s, n)
    BY <2>1
  <2>3. c \in created
    BY OwnedObject
  <2>4. ObjectBytes(o) = a .. a + z - 1
    BY DEF ObjectBytes
  <2> HIDE DEF a, c
  <2>5. /\ c \in Caches /\ s \in PageFrames /\ s + 1 \in PageFrames /\ s \in Nat
        /\ s \notin free /\ s + 1 \notin free /\ s \notin tasks
    BY <2>3, SlabFacts
  <2>6. Pool!BlockPages(s, SLAB_ORDER) \cap free = {}
    BY <2>5, TwoPages DEF SLAB_ORDER
  <2> DEFINE sp == s * PAGE_SIZE
             P == PAGE_SIZE
             of == offset(c)
  <2>7. a \in Nat /\ sp \in Nat /\ sp + of <= a /\ a + z <= sp + 2 * P
    BY <2>2, <2>5, AddressFacts
  <2>8. h <= of /\ of \in Nat /\ z \in Nat /\ P \in Nat
    BY <2>5, SizeFacts
  <2>9. h \in Int
    <3>1. z \in ObjectSizes
      BY <2>5, SizeFacts
    <3>2. slab_object_count(z) \in Nat
      BY <2>5, SizeFacts DEF object_count
    <3>3. WordBits \in Nat \ {0} /\ SizeofSlab \in Nat /\ SizeofBitmap \in Nat
      BY LayoutAssumption DEF WordBits
    <3> DEFINE w == WordBits
               k == slab_object_count(z)
    <3> HIDE DEF w, k
    <3>4. w \in Nat \ {0} /\ k \in Nat
      BY <3>2, <3>3 DEF w, k
    <3>5. (k + w - 1) \div w \in Int
      BY <3>4
    <3>6. BitmapWords(z) \in Int
      BY <3>5 DEF BitmapWords, w, k
    <3>7. h = SizeofSlab + SizeofBitmap * BitmapWords(z)
      BY DEF HeaderSize
    <3> QED BY <3>3, <3>6, <3>7
  <2>10. (s + SlabPages) * PAGE_SIZE = sp + 2 * P
    BY <2>5, <2>8 DEF SlabPages
  <2> HIDE DEF h, z, sp, P, of
  <2>11. a .. a + z - 1 \subseteq sp + h .. (sp + 2 * P) - 1
    BY <2>7, <2>8, <2>9
  <2>12. ObjectBytes(o) \subseteq
            s * PAGE_SIZE + HeaderSize(object_size(c)) .. (s + SlabPages) * PAGE_SIZE - 1
    <3> DEFINE lo == sp + h
               hi == sp + 2 * P
    <3>1. ObjectBytes(o) \subseteq lo .. hi - 1
      BY <2>4, <2>11
    <3>2. s * PAGE_SIZE + HeaderSize(object_size(c)) = lo
      BY DEF sp, h, z
    <3>3. (s + SlabPages) * PAGE_SIZE = hi
      BY <2>10
    <3> HIDE DEF lo, hi
    <3> QED BY <3>1, <3>2, <3>3, Zenon
  <2> QED BY <2>5, <2>6, <2>12, Zenon DEF c
<1> QED BY <1>2, <1>3 DEF ObjectsDisjoint

-----------------------------------------------------------------------------
(* Every step keeps the invariant.                                         *)

\* A slab with free objects has a clear bit for one of them, and slab_alloc
\* finds the first.
LEMMA FreeBitFacts ==
    ASSUME NEW c \in Caches, NEW bits, bits \subseteq 0 .. object_count(c) - 1,
           NEW n \in Nat, n > 0, n + Cardinality(bits) = object_count(c)
    PROVE  /\ FreeBit(c, bits) \in 0 .. object_count(c) - 1
           /\ FreeBit(c, bits) \notin bits
<1> DEFINE k == object_count(c)
           off == FreeBit(c, bits)
           Clear == (0 .. k) \ bits
<1>1. k \in Nat /\ bits \subseteq 0 .. k - 1
  BY SizeFacts
<1>2. off = CHOOSE x \in 0 .. k : x \notin bits /\ \A m \in 0 .. x - 1 : m \in bits
  BY DEF FreeBit
<1>3. bits # 0 .. k - 1
  <2>1. Cardinality(0 .. k - 1) = k /\ IsFiniteSet(0 .. k - 1)
    <3> HIDE DEF k
    <3> QED BY <1>1, FS_Interval
  <2>2. Cardinality(bits) # k
    <3>1. Cardinality(bits) \in Nat
      <4> HIDE DEF k
      <4> QED BY <1>1, <2>1, FS_Subset, FS_CardinalityType
    <3> QED BY <3>1
  <2> HIDE DEF k
  <2> QED BY <2>1, <2>2
<1> HIDE DEF k, off
<1>4. \E x \in 0 .. k : x \notin bits /\ \A m \in 0 .. x - 1 : m \in bits
  <2>1. Clear \in SUBSET Nat /\ k \in Clear
    BY <1>1
  <2> HIDE DEF Clear
  <2>2. PICK x \in Clear : \A y \in Clear : x <= y
    BY <2>1, LeastNat
  <2> USE DEF Clear
  <2>3. x \in 0 .. k /\ x \notin bits
    BY <2>2
  <2>4. ASSUME NEW m \in 0 .. x - 1 PROVE m \in bits
    BY <1>1, <2>2, <2>3
  <2> QED BY <2>3, <2>4
<1>5. off \in 0 .. k /\ off \notin bits /\ \A m \in 0 .. off - 1 : m \in bits
  BY <1>2, <1>4
<1>6. off # k
  BY <1>1, <1>3, <1>5
<1> QED BY <1>1, <1>5, <1>6 DEF k, off

\* What slab_alloc does to a slab s that has room, whether it was the first on
\* partial or was just made.
LEMMA TakeStep ==
    ASSUME IInv, NEW c \in created,
           NEW s \in PageFrames, s + 1 \in PageFrames,
           NEW list \in Seq(PageFrames), list # <<>>, IsInjective(list), Head(list) = s,
           ToSet(list) = ToSet(partial[c]) \cup {s}, s \notin ToSet(full[c]),
           \A d \in created : d # c => s \notin Slabs(d),
           NEW bits, bits \subseteq 0 .. object_count(c) - 1,
           NEW n \in Nat, n > 0, n + Cardinality(bits) = object_count(c),
           \A a \in Addresses :
                <<c, a>> \in objects <=>
                    \/ \E t \in Slabs(c) \ {s} : \E m \in bitmap[t] : a = object_address(c, t, m)
                    \/ \E m \in bits : a = object_address(c, s, m),
           TakeObject(c, list, bits, n), created' = created
    PROVE  /\ Slabs(c)' = Slabs(c) \cup {s}
           /\ \A d \in Caches : d # c => Slabs(d)' = Slabs(d)
           /\ partial' \in [Caches -> Seq(PageFrames)] /\ full' \in [Caches -> Seq(PageFrames)]
           /\ bitmap' \in [PageFrames -> SUBSET Counters]
           /\ slab_free' \in [PageFrames -> Counters]
           /\ objects' \subseteq Caches \X Addresses
           /\ ListsApart' /\ BitsMatchCounter' /\ ObjectsExact' /\ ObjectsOfCaches'
<1> DEFINE off == FreeBit(c, bits)
           k == object_count(c)
           new == object_address(c, s, off)
<1> USE DEF IInv
<1>1. /\ c \in Caches /\ created \subseteq Caches
      /\ partial \in [Caches -> Seq(PageFrames)] /\ full \in [Caches -> Seq(PageFrames)]
      /\ bitmap \in [PageFrames -> SUBSET Counters] /\ slab_free \in [PageFrames -> Counters]
      /\ objects \subseteq Caches \X Addresses
  BY DEF TypeOK, Addresses
<1>2. off \in 0 .. k - 1 /\ off \notin bits /\ k \in Nat /\ k \in Counters
  BY <1>1, FreeBitFacts, SizeFacts
<1>3. /\ bitmap' = [bitmap EXCEPT ![s] = bits \cup {off}]
      /\ slab_free' = [slab_free EXCEPT ![s] = n - 1]
      /\ objects' = objects \cup {<<c, new>>}
      /\ n - 1 = 0 => /\ partial' = [partial EXCEPT ![c] = Tail(list)]
                      /\ full' = [full EXCEPT ![c] = <<s>> \o full[c]]
      /\ n - 1 # 0 => /\ partial' = [partial EXCEPT ![c] = list]
                      /\ full' = full
  <2>1. /\ bitmap' = [bitmap EXCEPT ![s] = bits \cup {off}]
        /\ slab_free' = [slab_free EXCEPT ![s] = n - 1]
        /\ objects' = objects \cup {<<c, new>>}
    BY DEF TakeObject
  <2>2. full' = [full EXCEPT ![c] = <<s>> \o @] <=> full' = [full EXCEPT ![c] = <<s>> \o full[c]]
    OBVIOUS
  <2>3. ASSUME n - 1 = 0
        PROVE  /\ partial' = [partial EXCEPT ![c] = Tail(list)]
               /\ full' = [full EXCEPT ![c] = <<s>> \o full[c]]
    BY <2>3 DEF TakeObject, Exhausted
  <2>4. ASSUME n - 1 # 0
        PROVE  partial' = [partial EXCEPT ![c] = list] /\ full' = full
    BY <2>4 DEF TakeObject, Exhausted
  <2> QED BY <2>1, <2>3, <2>4
<1> HIDE DEF off, k, new
<1>4. /\ full[c] \in Seq(PageFrames) /\ IsInjective(full[c])
      /\ ToSet(partial[c]) \cap ToSet(full[c]) = {}
  BY <1>1 DEF ListsApart
<1>5. /\ Tail(list) \in Seq(PageFrames) /\ IsInjective(Tail(list))
      /\ ToSet(Tail(list)) = ToSet(list) \ {s}
  BY TailList
<1>6. /\ <<s>> \o full[c] \in Seq(PageFrames) /\ IsInjective(<<s>> \o full[c])
      /\ ToSet(<<s>> \o full[c]) = {s} \cup ToSet(full[c])
  <2> DEFINE one == <<s>>
             all == full[c]
  <2>1. one \in Seq(PageFrames) /\ IsInjective(one) /\ ToSet(one) = {s}
    BY OneElementList
  <2>2. ToSet(one) \cap ToSet(all) = {} /\ all \in Seq(PageFrames) /\ IsInjective(all)
    BY <1>4, <2>1
  <2> HIDE DEF one, all
  <2>3. /\ one \o all \in Seq(PageFrames) /\ IsInjective(one \o all)
        /\ ToSet(one \o all) = ToSet(one) \cup ToSet(all)
    BY <2>1, <2>2, ConcatList
  <2>4. /\ one \o all \in Seq(PageFrames) /\ IsInjective(one \o all)
        /\ ToSet(one \o all) = {s} \cup ToSet(all)
    BY <2>1, <2>3, Zenon
  <2> QED BY <2>4 DEF one, all
<1>7. /\ partial' \in [Caches -> Seq(PageFrames)] /\ full' \in [Caches -> Seq(PageFrames)]
      /\ \A d \in Caches : d # c => partial'[d] = partial[d] /\ full'[d] = full[d]
      /\ n - 1 = 0 => partial'[c] = Tail(list) /\ full'[c] = <<s>> \o full[c]
      /\ n - 1 # 0 => partial'[c] = list /\ full'[c] = full[c]
  <2> DEFINE rest == Tail(list)
             all == <<s>> \o full[c]
  <2>1. list \in Seq(PageFrames) /\ rest \in Seq(PageFrames) /\ all \in Seq(PageFrames)
    BY <1>5, <1>6
  <2>2. /\ n - 1 = 0 => partial' = [partial EXCEPT ![c] = rest] /\ full' = [full EXCEPT ![c] = all]
        /\ n - 1 # 0 => partial' = [partial EXCEPT ![c] = list] /\ full' = full
    BY <1>3
  <2> HIDE DEF rest, all
  <2>3. CASE n - 1 = 0
    <3>1. partial' = [partial EXCEPT ![c] = rest] /\ full' = [full EXCEPT ![c] = all]
      BY <2>2, <2>3
    <3>2. /\ partial' \in [Caches -> Seq(PageFrames)] /\ partial'[c] = rest
          /\ \A d \in Caches : d # c => partial'[d] = partial[d]
      BY <1>1, <2>1, <3>1
    <3>3. /\ full' \in [Caches -> Seq(PageFrames)] /\ full'[c] = all
          /\ \A d \in Caches : d # c => full'[d] = full[d]
      BY <1>1, <2>1, <3>1
    <3> QED BY <2>3, <3>2, <3>3 DEF rest, all
  <2>4. CASE n - 1 # 0
    BY <1>1, <2>1, <2>2, <2>4
  <2> QED BY <2>3, <2>4
<1>8. /\ IsInjective(partial'[c]) /\ IsInjective(full'[c])
      /\ ToSet(partial'[c]) \cap ToSet(full'[c]) = {}
      /\ ToSet(partial'[c]) \cup ToSet(full'[c]) = ToSet(partial[c]) \cup ToSet(full[c]) \cup {s}
      /\ n - 1 = 0 => s \notin ToSet(partial'[c])
      /\ n - 1 # 0 => s \notin ToSet(full'[c])
      /\ ToSet(partial'[c]) \ {s} \subseteq ToSet(partial[c])
      /\ ToSet(full'[c]) \ {s} \subseteq ToSet(full[c])
  <2>1. CASE n - 1 = 0
    BY <1>4, <1>5, <1>6, <1>7, <2>1
  <2>2. CASE n - 1 # 0
    BY <1>4, <1>7, <2>2
  <2> QED BY <2>1, <2>2
<1>9. /\ Slabs(c)' = Slabs(c) \cup {s}
      /\ \A d \in Caches : d # c => Slabs(d)' = Slabs(d)
  BY <1>7, <1>8 DEF Slabs
<1>10. /\ bitmap' \in [PageFrames -> SUBSET Counters] /\ slab_free' \in [PageFrames -> Counters]
       /\ bitmap'[s] = bits \cup {off} /\ slab_free'[s] = n - 1
       /\ \A t \in PageFrames : t # s => bitmap'[t] = bitmap[t] /\ slab_free'[t] = slab_free[t]
  <2>1. bits \cup {off} \subseteq Counters /\ n - 1 \in Counters
    <3>1. space \in Nat
      BY LayoutAssumption DEF space, SlabPages
    <3>2. Cardinality(bits) \in Nat
      <4>1. IsFiniteSet(0 .. k - 1) /\ bits \subseteq 0 .. k - 1
        BY <1>2, FS_Interval DEF k
      <4> QED BY <4>1, FS_Subset, FS_CardinalityType
    <3>3. bits \subseteq 0 .. k - 1 /\ n + Cardinality(bits) = k
      BY DEF k
    <3> QED BY <1>2, <3>1, <3>2, <3>3 DEF Counters
  <2> QED BY <1>1, <1>3, <2>1
<1>11. ListsApart'
  <2>1. ASSUME NEW d \in created
        PROVE  /\ IsInjective(partial'[d]) /\ IsInjective(full'[d])
               /\ ToSet(partial'[d]) \cap ToSet(full'[d]) = {}
               /\ \A t \in ToSet(partial'[d]) : slab_free'[t] > 0
               /\ \A t \in ToSet(full'[d]) : slab_free'[t] = 0
    <3>1. CASE d = c
      <4>1. ASSUME NEW t \in ToSet(partial'[c]) PROVE slab_free'[t] > 0
        <5>1. CASE t = s
          BY <1>8, <1>10, <4>1, <5>1
        <5>2. CASE t # s
          <6>1. t \in ToSet(partial[c]) /\ t \in PageFrames
            BY <1>1, <1>8, <4>1, <5>2, ListTypes
          <6> QED BY <1>10, <5>2, <6>1 DEF ListsApart
        <5> QED BY <5>1, <5>2
      <4>2. ASSUME NEW t \in ToSet(full'[c]) PROVE slab_free'[t] = 0
        <5>1. CASE t = s
          BY <1>8, <1>10, <4>2, <5>1
        <5>2. CASE t # s
          <6>1. t \in ToSet(full[c]) /\ t \in PageFrames
            BY <1>1, <1>8, <4>2, <5>2, ListTypes
          <6> QED BY <1>10, <5>2, <6>1 DEF ListsApart
        <5> QED BY <5>1, <5>2
      <4> QED BY <1>8, <3>1, <4>1, <4>2
    <3>2. CASE d # c
      <4>1. d \in Caches /\ partial'[d] = partial[d] /\ full'[d] = full[d]
        BY <1>1, <1>7, <3>2
      <4>2. ASSUME NEW t \in ToSet(partial[d]) \cup ToSet(full[d])
            PROVE  slab_free'[t] = slab_free[t]
        <5>1. t \in Slabs(d) /\ t # s /\ t \in PageFrames
          BY <3>2, <4>1, <4>2, ListTypes DEF Slabs
        <5> QED BY <1>10, <5>1
      <4> QED BY <4>1, <4>2 DEF ListsApart
    <3> QED BY <3>1, <3>2
  <2>2. ASSUME NEW d \in created, NEW e \in created, d # e
        PROVE  Slabs(d)' \cap Slabs(e)' = {}
    <3>1. Slabs(d) \cap Slabs(e) = {} /\ d \in Caches /\ e \in Caches
      BY <1>1, <2>2 DEF ListsApart
    <3>2. CASE d = c
      BY <1>9, <2>2, <3>1, <3>2
    <3>3. CASE e = c
      BY <1>9, <2>2, <3>1, <3>3
    <3>4. CASE d # c /\ e # c
      BY <1>9, <3>1, <3>4
    <3> QED BY <3>2, <3>3, <3>4
  <2> QED BY <2>1, <2>2 DEF ListsApart
<1>12. BitsMatchCounter'
  <2>1. ASSUME NEW d \in created, NEW t \in Slabs(d)'
        PROVE  /\ bitmap'[t] \subseteq 0 .. object_count(d) - 1
               /\ slab_free'[t] + Cardinality(bitmap'[t]) = object_count(d)
    <3>1. CASE t = s
      <4>1. d = c
        BY <1>1, <1>9, <2>1, <3>1
      <4>2. bitmap'[s] \subseteq 0 .. k - 1
        BY <1>2, <1>10 DEF k
      <4>3. IsFiniteSet(bits) /\ Cardinality(bits) \in Nat
        <5>1. IsFiniteSet(0 .. k - 1) /\ bits \subseteq 0 .. k - 1
          BY <1>2, FS_Interval DEF k
        <5> QED BY <5>1, FS_Subset, FS_CardinalityType
      <4>4. Cardinality(bitmap'[s]) = Cardinality(bits) + 1
        <5>1. Cardinality(bits \cup {off}) = Cardinality(bits) + 1
          BY <1>2, <4>3, FS_AddElement
        <5> QED BY <1>10, <5>1
      <4>5. slab_free'[s] + Cardinality(bitmap'[s]) = k
        BY <1>10, <4>3, <4>4 DEF k
      <4> QED BY <3>1, <4>1, <4>2, <4>5 DEF k
    <3>2. CASE t # s
      <4>1. t \in Slabs(d) /\ d \in Caches
        BY <1>1, <1>9, <2>1, <3>2
      <4>2. t \in PageFrames
        BY <4>1, ListTypes
      <4> QED BY <1>10, <3>2, <4>1, <4>2 DEF BitsMatchCounter
    <3> QED BY <3>1, <3>2
  <2> QED BY <2>1 DEF BitsMatchCounter
<1>13. new \in Addresses
  BY <1>1, <1>2, AddressFacts DEF k, new, Addresses
<1>14. ObjectsExact'
  <2>1. ASSUME NEW d \in created, NEW a \in Addresses
        PROVE  <<d, a>> \in objects' <=>
                    \E t \in Slabs(d)' : \E m \in bitmap'[t] : a = object_address(d, t, m)
    <3>1. CASE d = c
      <4>1. <<c, a>> \in objects' <=> <<c, a>> \in objects \/ a = new
        BY <1>3
      <4>2. ASSUME a = new
            PROVE  \E t \in Slabs(c)' : \E m \in bitmap'[t] : a = object_address(c, t, m)
        BY <1>9, <1>10, <4>2 DEF new
      <4>3. ASSUME NEW t \in Slabs(c) \ {s}, NEW m \in bitmap[t], a = object_address(c, t, m)
            PROVE  \E u \in Slabs(c)' : \E v \in bitmap'[u] : a = object_address(c, u, v)
        <5>1. t \in PageFrames /\ t # s /\ t \in Slabs(c)'
          BY <1>1, <1>9, ListTypes
        <5>2. m \in bitmap'[t]
          BY <1>10, <5>1
        <5> QED BY <4>3, <5>1, <5>2
      <4>4. ASSUME NEW m \in bits, a = object_address(c, s, m)
            PROVE  \E u \in Slabs(c)' : \E v \in bitmap'[u] : a = object_address(c, u, v)
        BY <1>9, <1>10, <4>4
      <4>5. ASSUME NEW t \in Slabs(c)', NEW m \in bitmap'[t], a = object_address(c, t, m)
            PROVE  <<c, a>> \in objects \/ a = new
        <5>1. CASE t = s
          <6>1. m \in bits \/ m = off
            BY <1>10, <5>1
          <6> QED BY <4>5, <5>1, <6>1 DEF new
        <5>2. CASE t # s
          <6>1. t \in Slabs(c) \ {s}
            BY <1>9, <5>2
          <6>2. t \in PageFrames
            BY <1>1, <6>1, ListTypes
          <6>3. m \in bitmap[t]
            BY <1>10, <5>2, <6>2
          <6> QED BY <4>5, <6>1, <6>3
        <5> QED BY <5>1, <5>2
      <4>6. ASSUME <<c, a>> \in objects
            PROVE  \E u \in Slabs(c)' : \E v \in bitmap'[u] : a = object_address(c, u, v)
        BY <4>3, <4>4, <4>6
      <4> QED BY <3>1, <4>1, <4>2, <4>5, <4>6
    <3>2. CASE d # c
      <4>1. <<d, a>> \in objects' <=> <<d, a>> \in objects
        BY <1>3, <3>2
      <4>2. Slabs(d)' = Slabs(d) /\ s \notin Slabs(d) /\ Slabs(d) \subseteq PageFrames
        BY <1>1, <1>9, <3>2, ListTypes
      <4>3. \A t \in Slabs(d) : bitmap'[t] = bitmap[t]
        BY <1>10, <4>2
      <4> QED BY <4>1, <4>2, <4>3 DEF ObjectsExact
    <3> QED BY <3>1, <3>2
  <2> QED BY <2>1 DEF ObjectsExact
<1>15. ObjectsOfCaches'
  BY <1>3 DEF ObjectsOfCaches
<1>16. objects' \subseteq Caches \X Addresses
  BY <1>1, <1>3, <1>13
<1> QED BY <1>7, <1>9, <1>10, <1>11, <1>12, <1>14, <1>15, <1>16

\* What is said of lists, bits and objects depends on nothing else.
LEMMA SameLists ==
    ASSUME IInv, UNCHANGED <<created, partial, full, bitmap, slab_free, objects>>
    PROVE  /\ \A c \in Caches : Slabs(c)' = Slabs(c)
           /\ ListsApart' /\ BitsMatchCounter' /\ ObjectsExact' /\ ObjectsOfCaches'
<1>1. \A c \in Caches : Slabs(c)' = Slabs(c)
  BY DEF Slabs
<1>2. created \subseteq Caches
  BY DEF IInv, TypeOK
<1>3. ListsApart'
  BY <1>1, <1>2 DEF IInv, ListsApart
<1>4. BitsMatchCounter'
  BY <1>1, <1>2 DEF IInv, BitsMatchCounter
<1>5. ObjectsExact'
  <2>1. ASSUME NEW c \in created, NEW a \in Addresses
        PROVE  <<c, a>> \in objects <=>
                    \E s \in Slabs(c)' : \E n \in bitmap[s] : a = object_address(c, s, n)
    <3>1. Slabs(c)' = Slabs(c)
      BY <1>1, <1>2
    <3> QED BY <3>1 DEF IInv, ObjectsExact
  <2> QED BY <2>1 DEF ObjectsExact
<1>6. ObjectsOfCaches'
  BY DEF IInv, ObjectsOfCaches
<1> QED BY <1>1, <1>3, <1>4, <1>5, <1>6

\* Blocks in use, seen from the pool.
LEMMA HeldFacts ==
    ASSUME IInv, NEW b \in held
    PROVE  /\ b = <<b[1], 1>> /\ b[1] \in PageFrames /\ b[1] \in Nat
           /\ b[1] % 2 = 0
           /\ b[1] \in BootFree \ free /\ b[1] + 1 \in BootFree \ free
<1>1. b \in PageFrames \X {1}
  BY DEF IInv, TypeOK, SLAB_ORDER
<1>2. b = <<b[1], 1>> /\ b[1] \in PageFrames
  BY <1>1
<1> QED BY <1>2, FramesAreNat DEF IInv, PoolOK

\* Who holds a block: NoBlockLeaked, block by block.
LEMMA HeldIsOwned ==
    ASSUME IInv, NEW s
    PROVE  <<s, 1>> \in held <=>
              s \in tasks \/ s \in ToSet(fini) \/ \E c \in created : s \in Slabs(c)
<1>1. created \subseteq Caches /\ \A c \in Caches : c \notin created => Slabs(c) = {}
  BY DEF IInv, TypeOK, Slabs
<1>2. (s \in UNION {Slabs(c) : c \in Caches}) <=> \E c \in created : s \in Slabs(c)
  BY <1>1
<1> QED BY <1>2 DEF IInv, NoBlockLeaked, SLAB_ORDER

\* A block leaves the pool.
LEMMA PoolTake ==
    ASSUME IInv, NEW p \in PageFrames, Pool!Alloc(p, 1)
    PROVE  /\ p % 2 = 0 /\ p \in Nat /\ p + 1 \in PageFrames
           /\ p \in free /\ p + 1 \in free
           /\ p \notin tasks /\ p \notin ToSet(fini)
           /\ \A c \in created : p \notin Slabs(c)
           /\ held' = held \cup {<<p, 1>>}
           /\ free' \subseteq PageFrames /\ held' \subseteq PageFrames \X {SLAB_ORDER}
           /\ PoolOK'
<1>1. p \in Nat /\ BootFree \subseteq PageFrames /\ free \subseteq BootFree
  BY FramesAreNat DEF IInv, PoolOK
<1>2. /\ p % 2 = 0 /\ p \in free /\ p + 1 \in free
      /\ free' = free \ {p, p + 1} /\ held' = held \cup {<<p, 1>>}
  BY <1>1, TwoPages DEF Pool!Alloc
<1>3. <<p, 1>> \notin held
  <2>1. <<p, 1>>[1] = p
    OBVIOUS
  <2> QED BY <1>2, <2>1 DEF IInv, PoolOK
<1>4. p \notin tasks /\ p \notin ToSet(fini) /\ \A c \in created : p \notin Slabs(c)
  BY <1>3, HeldIsOwned
<1>5. PoolOK'
  <2>1. ASSUME NEW b \in held'
        PROVE  b[1] % 2 = 0 /\ b[1] \in BootFree \ free' /\ b[1] + 1 \in BootFree \ free'
    <3>1. CASE b \in held
      BY <1>2, <3>1 DEF IInv, PoolOK
    <3>2. CASE b = <<p, 1>>
      BY <1>1, <1>2, <3>2
    <3> QED BY <1>2, <2>1, <3>1, <3>2
  <2> QED BY <1>1, <1>2, <2>1 DEF PoolOK
<1>6. free' \subseteq PageFrames /\ held' \subseteq PageFrames \X {SLAB_ORDER}
  BY <1>1, <1>2 DEF IInv, TypeOK, SLAB_ORDER
<1> QED BY <1>1, <1>2, <1>4, <1>5, <1>6

\* A block goes back to the pool.
LEMMA PoolGive ==
    ASSUME IInv, NEW h, Pool!Free(h, 1)
    PROVE  /\ <<h, 1>> \in held /\ held' = held \ {<<h, 1>>}
           /\ free' \subseteq PageFrames /\ held' \subseteq PageFrames \X {SLAB_ORDER}
           /\ PoolOK'
<1>1. <<h, 1>> \in held /\ held' = held \ {<<h, 1>>}
  BY DEF Pool!Free
<1>2. /\ h \in Nat /\ h % 2 = 0
      /\ h \in BootFree \ free /\ h + 1 \in BootFree \ free
  <2>1. <<h, 1>>[1] = h
    OBVIOUS
  <2> QED BY <1>1, <2>1, HeldFacts
<1>3. free' = free \cup {h, h + 1}
  BY <1>2, TwoPages DEF Pool!Free
<1>4. free' \subseteq BootFree
  BY <1>2, <1>3 DEF IInv, PoolOK
<1>5. ASSUME NEW b \in held'
      PROVE  b[1] % 2 = 0 /\ b[1] \in BootFree \ free' /\ b[1] + 1 \in BootFree \ free'
  <2> DEFINE x == b[1]
  <2>1. b \in held /\ b # <<h, 1>>
    BY <1>1
  <2>2. /\ b = <<x, 1>> /\ x \in Nat /\ x % 2 = 0
        /\ x \in BootFree \ free /\ x + 1 \in BootFree \ free
    BY <2>1, HeldFacts
  <2>3. x # h
    BY <2>1, <2>2
  <2> HIDE DEF x
  <2>4. x # h + 1 /\ x + 1 # h /\ x + 1 # h + 1
    BY <1>2, <2>2, <2>3, Z3
  <2>5. x \notin free' /\ x + 1 \notin free'
    BY <1>3, <2>2, <2>3, <2>4
  <2> QED BY <2>2, <2>5 DEF x
<1>6. PoolOK'
  BY <1>4, <1>5 DEF PoolOK
<1>7. free' \subseteq PageFrames /\ held' \subseteq PageFrames \X {SLAB_ORDER}
  BY <1>1, <1>4, FramesAreNat DEF IInv, TypeOK
<1> QED BY <1>1, <1>6, <1>7

\* NoBlockLeaked after a step, from what it did to the owners.
LEMMA OwnersNext ==
    ASSUME created' \subseteq Caches,
           \A b \in held' : b = <<b[1], 1>>,
           \A s : <<s, 1>> \in held' <=>
              s \in tasks' \/ s \in ToSet(fini') \/ \E c \in created' : s \in Slabs(c)'
    PROVE  NoBlockLeaked'
<1>1. \A c \in Caches : c \notin created' => Slabs(c)' = {}
  BY DEF Slabs
<1> DEFINE Own == tasks' \cup ToSet(fini') \cup UNION {Slabs(c)' : c \in Caches}
<1>2. \A s : s \in Own <=> <<s, 1>> \in held'
  BY <1>1
<1> HIDE DEF Own
<1>3. held' = {<<s, 1>> : s \in Own}
  <2>1. \A b \in held' : b[1] \in Own /\ b = <<b[1], 1>>
    BY <1>2
  <2>2. \A s \in Own : <<s, 1>> \in held'
    BY <1>2
  <2> QED BY <2>1, <2>2
<1> QED BY <1>3 DEF NoBlockLeaked, SLAB_ORDER, Own

\* The invariant holds before the pool is filled.
LEMMA InitStep == Init => IInv
<1> SUFFICES ASSUME Init PROVE IInv
  OBVIOUS
<1>1. free = {} /\ held = {} /\ created = {} /\ objects = {} /\ tasks = {} /\ fini = <<>>
  BY DEF Init, Pool!Init
<1>2. ToSet(fini) = {} /\ IsInjective(fini)
  BY <1>1 DEF ToSet, IsInjective
<1>3. \A c \in Caches : Slabs(c) = {}
  BY <1>1 DEF Slabs
<1>4. TypeOK
  <2>1. \A s \in PageFrames : 0 \in PageFrames
    BY SlabAssumption DEF PageFrames
  <2>2. 0 \in Counters
    BY LayoutAssumption DEF Counters, space, SlabPages
  <2>3. /\ partial \in [Caches -> Seq(PageFrames)] /\ full \in [Caches -> Seq(PageFrames)]
        /\ bitmap \in [PageFrames -> SUBSET Counters]
        /\ slab_free \in [PageFrames -> Counters]
        /\ page_slab \in [PageFrames -> PageFrames]
    BY <2>1, <2>2 DEF Init
  <2> QED BY <1>1, <2>3 DEF TypeOK
<1>5. NoBlockLeaked
  BY <1>1, <1>2, <1>3 DEF NoBlockLeaked
<1>6. PoolOK /\ OwnersApart
  BY <1>1, <1>2 DEF PoolOK, OwnersApart
<1>7. ListsApart /\ BitsMatchCounter /\ PagesFindSlab /\ ObjectsExact /\ ObjectsOfCaches
  BY <1>1 DEF ListsApart, BitsMatchCounter, PagesFindSlab, ObjectsExact, ObjectsOfCaches
<1> QED BY <1>4, <1>5, <1>6, <1>7 DEF IInv

\* It is kept by the set-up of the pool,
LEMMA BootStep == ASSUME IInv, Boot PROVE IInv'
<1> DEFINE p == CHOOSE p \in BootFree \ free : TRUE
<1>1. /\ created = {} /\ tasks = {} /\ fini = <<>>
      /\ UNCHANGED <<created, partial, full, bitmap, slab_free, page_slab, fini, objects, tasks>>
      /\ held' = held /\ free' = free \cup {p}
  BY DEF Boot, Pool!Donate
<1>2. p \in BootFree
  <2>1. free # BootFree /\ free \subseteq BootFree
    BY DEF Boot, IInv, PoolOK
  <2> QED BY <2>1
<1> HIDE DEF p
<1>3. held = {}
  <2>1. ToSet(fini) = {} /\ \A c \in Caches : Slabs(c) = {}
    BY <1>1 DEF ToSet, Slabs
  <2> QED BY <1>1, <2>1 DEF IInv, NoBlockLeaked
<1>4. /\ \A c \in Caches : Slabs(c)' = Slabs(c)
      /\ ListsApart' /\ BitsMatchCounter' /\ ObjectsExact' /\ ObjectsOfCaches'
  BY <1>1, SameLists
<1>5. TypeOK'
  BY <1>1, <1>2, FramesAreNat DEF IInv, TypeOK
<1>6. PoolOK'
  BY <1>1, <1>2, <1>3 DEF IInv, PoolOK
<1>7. NoBlockLeaked'
  BY <1>1, <1>4 DEF IInv, NoBlockLeaked
<1>8. OwnersApart' /\ PagesFindSlab'
  BY <1>1 DEF IInv, OwnersApart, PagesFindSlab
<1> QED BY <1>4, <1>5, <1>6, <1>7, <1>8 DEF IInv

\* by slab_cache_create,
LEMMA CreateStep == ASSUME IInv, NEW c \in Caches, slab_cache_create(c) PROVE IInv'
<1>1. /\ c \notin created /\ created' = created \cup {c}
      /\ partial' = [partial EXCEPT ![c] = <<>>] /\ full' = [full EXCEPT ![c] = <<>>]
      /\ free' = free /\ held' = held /\ bitmap' = bitmap /\ slab_free' = slab_free
      /\ page_slab' = page_slab /\ fini' = fini /\ objects' = objects /\ tasks' = tasks
  BY DEF slab_cache_create, pool
<1>2. /\ created \subseteq Caches
      /\ partial \in [Caches -> Seq(PageFrames)] /\ full \in [Caches -> Seq(PageFrames)]
  BY DEF IInv, TypeOK
<1>3. /\ partial' \in [Caches -> Seq(PageFrames)] /\ full' \in [Caches -> Seq(PageFrames)]
      /\ partial'[c] = <<>> /\ full'[c] = <<>>
      /\ \A d \in Caches : d # c => partial'[d] = partial[d] /\ full'[d] = full[d]
  BY <1>1, <1>2
<1>4. ToSet(<<>>) = {} /\ IsInjective(<<>>)
  BY DEF ToSet, IsInjective
<1>5. /\ Slabs(c) = {} /\ Slabs(c)' = {}
      /\ \A d \in Caches : Slabs(d)' = Slabs(d)
  BY <1>1, <1>3, <1>4 DEF Slabs
<1>6. TypeOK'
  BY <1>1, <1>3 DEF IInv, TypeOK
<1>7. PoolOK'
  BY <1>1 DEF IInv, PoolOK
<1>8. NoBlockLeaked'
  BY <1>1, <1>5 DEF IInv, NoBlockLeaked
<1>9. OwnersApart'
  BY <1>1, <1>2, <1>5 DEF IInv, OwnersApart
<1>10. ListsApart'
  <2>1. ASSUME NEW d \in created'
        PROVE  /\ IsInjective(partial'[d]) /\ IsInjective(full'[d])
               /\ ToSet(partial'[d]) \cap ToSet(full'[d]) = {}
               /\ \A s \in ToSet(partial'[d]) : slab_free'[s] > 0
               /\ \A s \in ToSet(full'[d]) : slab_free'[s] = 0
    <3>1. CASE d = c
      BY <1>3, <1>4, <3>1
    <3>2. CASE d # c
      <4>1. d \in created /\ partial'[d] = partial[d] /\ full'[d] = full[d]
        BY <1>1, <1>2, <1>3, <2>1, <3>2
      <4> QED BY <1>1, <4>1 DEF IInv, ListsApart
    <3> QED BY <3>1, <3>2
  <2>2. ASSUME NEW d \in created', NEW e \in created', d # e PROVE Slabs(d)' \cap Slabs(e)' = {}
    BY <1>1, <1>2, <1>5, <2>2 DEF IInv, ListsApart
  <2> QED BY <2>1, <2>2 DEF ListsApart
<1>11. BitsMatchCounter' /\ PagesFindSlab'
  BY <1>1, <1>2, <1>5 DEF IInv, BitsMatchCounter, PagesFindSlab
<1>12. ObjectsExact'
  <2>1. ASSUME NEW d \in created', NEW a \in Addresses
        PROVE  <<d, a>> \in objects' <=>
                    \E s \in Slabs(d)' : \E n \in bitmap'[s] : a = object_address(d, s, n)
    <3>1. CASE d = c
      <4>1. <<c, a>>[1] = c
        OBVIOUS
      <4>2. <<c, a>> \notin objects
        BY <1>1, <4>1 DEF IInv, ObjectsOfCaches
      <4> QED BY <1>1, <1>5, <3>1, <4>2
    <3>2. CASE d # c
      <4>1. d \in created /\ Slabs(d)' = Slabs(d)
        BY <1>1, <1>2, <1>5, <3>2
      <4> QED BY <1>1, <4>1 DEF IInv, ObjectsExact
    <3> QED BY <3>1, <3>2
  <2> QED BY <2>1 DEF ObjectsExact
<1>13. ObjectsOfCaches'
  BY <1>1 DEF IInv, ObjectsOfCaches
<1> QED BY <1>6, <1>7, <1>8, <1>9, <1>10, <1>11, <1>12, <1>13 DEF IInv

\* slab_cache_alloc from the first slab that has room.
LEMMA AllocStep == ASSUME IInv, NEW c \in Caches, slab_cache_alloc(c) PROVE IInv'
<1> DEFINE l == partial[c]
           s == Head(l)
           bits == bitmap[s]
           n == slab_free[s]
<1>1. /\ c \in created /\ l # <<>> /\ TakeObject(c, l, bits, n)
      /\ free' = free /\ held' = held /\ created' = created /\ page_slab' = page_slab
      /\ fini' = fini /\ tasks' = tasks
  BY DEF slab_cache_alloc, pool
<1>2. l \in Seq(PageFrames) /\ IsInjective(l)
  BY <1>1, ListTypes DEF IInv, ListsApart
<1>3. s \in ToSet(l)
  <2> HIDE DEF l
  <2> QED BY <1>1, <1>2, TailList
<1>4. s \in Slabs(c) /\ s \notin ToSet(full[c]) /\ slab_free[s] > 0
  BY <1>1, <1>3 DEF IInv, ListsApart, Slabs
<1>5. /\ s \in PageFrames /\ s + 1 \in PageFrames /\ n \in Nat
      /\ bits \subseteq 0 .. object_count(c) - 1
      /\ n + Cardinality(bits) = object_count(c)
  BY <1>1, <1>4, SlabFacts
<1>6. \A d \in created : d # c => s \notin Slabs(d)
  BY <1>1, <1>4 DEF IInv, ListsApart
<1>7. ToSet(l) = ToSet(partial[c]) \cup {s}
  BY <1>3
<1>8. \A a \in Addresses :
          <<c, a>> \in objects <=>
              \/ \E t \in Slabs(c) \ {s} : \E m \in bitmap[t] : a = object_address(c, t, m)
              \/ \E m \in bits : a = object_address(c, s, m)
  BY <1>1, <1>4 DEF IInv, ObjectsExact
<1>10. /\ Slabs(c)' = Slabs(c) \cup {s}
       /\ \A d \in Caches : d # c => Slabs(d)' = Slabs(d)
       /\ partial' \in [Caches -> Seq(PageFrames)] /\ full' \in [Caches -> Seq(PageFrames)]
       /\ bitmap' \in [PageFrames -> SUBSET Counters]
       /\ slab_free' \in [PageFrames -> Counters]
       /\ objects' \subseteq Caches \X Addresses
       /\ ListsApart' /\ BitsMatchCounter' /\ ObjectsExact' /\ ObjectsOfCaches'
  BY <1>1, <1>2, <1>4, <1>5, <1>6, <1>7, <1>8, TakeStep
<1>11. created \subseteq Caches /\ \A d \in Caches : Slabs(d)' = Slabs(d)
  BY <1>4, <1>10 DEF IInv, TypeOK
<1> HIDE DEF l, s, bits, n
<1>12. TypeOK'
  BY <1>1, <1>10 DEF IInv, TypeOK, Addresses
<1>13. PoolOK'
  BY <1>1 DEF IInv, PoolOK
<1>14. NoBlockLeaked'
  BY <1>1, <1>11 DEF IInv, NoBlockLeaked
<1>15. OwnersApart' /\ PagesFindSlab'
  BY <1>1, <1>11 DEF IInv, OwnersApart, PagesFindSlab
<1> QED BY <1>10, <1>12, <1>13, <1>14, <1>15 DEF IInv

\* slab_cache_alloc with a new slab.
LEMMA GrowStep == ASSUME IInv, NEW c \in Caches, slab_cache_grow(c) PROVE IInv'
<1>1. PICK p \in PageFrames :
        /\ Pool!Alloc(p, SLAB_ORDER)
        /\ page_slab' = [q \in PageFrames |-> IF q \in GrownPages(p) THEN p ELSE page_slab[q]]
        /\ TakeObject(c, <<p>>, {}, object_count(c))
  BY DEF slab_cache_grow
<1>2. /\ c \in created /\ partial[c] = <<>>
      /\ created' = created /\ fini' = fini /\ tasks' = tasks
  BY DEF slab_cache_grow
<1>3. /\ p % 2 = 0 /\ p \in Nat /\ p + 1 \in PageFrames
      /\ p \in free /\ p + 1 \in free
      /\ p \notin tasks /\ p \notin ToSet(fini)
      /\ \A d \in created : p \notin Slabs(d)
      /\ held' = held \cup {<<p, 1>>}
      /\ free' \subseteq PageFrames /\ held' \subseteq PageFrames \X {SLAB_ORDER}
      /\ PoolOK'
  BY <1>1, PoolTake DEF SLAB_ORDER
<1>4. GrownPages(p) = {p, p + 1}
  BY <1>3 DEF GrownPages, SlabPages
<1>5. /\ page_slab' \in [PageFrames -> PageFrames]
      /\ page_slab'[p] = p /\ page_slab'[p + 1] = p
      /\ \A q \in PageFrames : q # p /\ q # p + 1 => page_slab'[q] = page_slab[q]
  BY <1>1, <1>3, <1>4 DEF IInv, TypeOK
<1> DEFINE l == <<p>>
           n == object_count(c)
           none == {}
<1>6. /\ l \in Seq(PageFrames) /\ l # <<>> /\ IsInjective(l) /\ Head(l) = p /\ ToSet(l) = {p}
  BY OneElementList
<1>7. ToSet(partial[c]) = {} /\ p \notin ToSet(full[c])
  BY <1>2, <1>3 DEF ToSet, Slabs
<1>8. n \in Nat /\ n > 0 /\ n + Cardinality(none) = n
  BY SizeFacts, FS_EmptySet
<1>9. \A a \in Addresses :
          <<c, a>> \in objects <=>
              \/ \E t \in Slabs(c) \ {p} : \E m \in bitmap[t] : a = object_address(c, t, m)
              \/ \E m \in none : a = object_address(c, p, m)
  <2>1. Slabs(c) \ {p} = Slabs(c)
    BY <1>2, <1>3
  <2> QED BY <1>2, <2>1 DEF IInv, ObjectsExact
<1>10. TakeObject(c, l, none, n) /\ none \subseteq 0 .. object_count(c) - 1
       /\ ToSet(l) = ToSet(partial[c]) \cup {p} /\ n + Cardinality(none) = object_count(c)
  BY <1>1, <1>6, <1>7, <1>8
<1> HIDE DEF l, n, none
<1>11. /\ Slabs(c)' = Slabs(c) \cup {p}
       /\ \A d \in Caches : d # c => Slabs(d)' = Slabs(d)
       /\ partial' \in [Caches -> Seq(PageFrames)] /\ full' \in [Caches -> Seq(PageFrames)]
       /\ bitmap' \in [PageFrames -> SUBSET Counters]
       /\ slab_free' \in [PageFrames -> Counters]
       /\ objects' \subseteq Caches \X Addresses
       /\ ListsApart' /\ BitsMatchCounter' /\ ObjectsExact' /\ ObjectsOfCaches'
  <2>1. \A d \in created : d # c => p \notin Slabs(d)
    BY <1>3
  <2>2. /\ p + 1 \in PageFrames /\ n \in Nat /\ n > 0
        /\ c \in created /\ created' = created
    BY <1>2, <1>3, <1>8
  <2>3. /\ l \in Seq(PageFrames) /\ l # <<>> /\ IsInjective(l) /\ Head(l) = p
        /\ p \notin ToSet(full[c])
    BY <1>6, <1>7
  <2> DEFINE h == Head(l)
  <2>4. h = p
    BY <2>3
  <2>5. /\ h \in PageFrames /\ h + 1 \in PageFrames /\ h \notin ToSet(full[c])
        /\ ToSet(l) = ToSet(partial[c]) \cup {h}
        /\ \A d \in created : d # c => h \notin Slabs(d)
        /\ \A a \in Addresses :
              <<c, a>> \in objects <=>
                  \/ \E t \in Slabs(c) \ {h} : \E m \in bitmap[t] : a = object_address(c, t, m)
                  \/ \E m \in none : a = object_address(c, h, m)
    <3> HIDE DEF h
    <3> QED BY <1>9, <1>10, <2>1, <2>2, <2>3, <2>4
  <2>6. /\ Slabs(c)' = Slabs(c) \cup {h}
        /\ \A d \in Caches : d # c => Slabs(d)' = Slabs(d)
        /\ partial' \in [Caches -> Seq(PageFrames)] /\ full' \in [Caches -> Seq(PageFrames)]
        /\ bitmap' \in [PageFrames -> SUBSET Counters]
        /\ slab_free' \in [PageFrames -> Counters]
        /\ objects' \subseteq Caches \X Addresses
        /\ ListsApart' /\ BitsMatchCounter' /\ ObjectsExact' /\ ObjectsOfCaches'
    BY <1>10, <2>2, <2>3, <2>5, TakeStep
  <2> HIDE DEF h
  <2> QED BY <2>4, <2>6
<1>12. created \subseteq Caches
  BY DEF IInv, TypeOK
<1>13. TypeOK'
  BY <1>2, <1>3, <1>5, <1>11 DEF IInv, TypeOK, Addresses
<1>14. NoBlockLeaked'
  <2>1. \A b \in held' : b = <<b[1], 1>>
    BY <1>3, HeldFacts
  <2>2. ASSUME NEW s
        PROVE  <<s, 1>> \in held' <=>
                  s \in tasks' \/ s \in ToSet(fini') \/ \E d \in created' : s \in Slabs(d)'
    <3>1. <<s, 1>> \in held' <=> <<s, 1>> \in held \/ s = p
      BY <1>3
    <3>2. (\E d \in created' : s \in Slabs(d)') <=> (\E d \in created : s \in Slabs(d)) \/ s = p
      BY <1>2, <1>11, <1>12
    <3> QED BY <1>2, <3>1, <3>2, HeldIsOwned
  <2> QED BY <1>2, <1>12, <2>1, <2>2, OwnersNext
<1>15. OwnersApart'
  <2>1. ASSUME NEW d \in created PROVE Slabs(d)' \cap (tasks \cup ToSet(fini)) = {}
    <3>1. Slabs(d)' \subseteq Slabs(d) \cup {p}
      BY <1>11, <1>12
    <3> QED BY <1>3, <3>1 DEF IInv, OwnersApart
  <2> QED BY <1>2, <2>1 DEF IInv, OwnersApart
<1>16. PagesFindSlab'
  <2>1. ASSUME NEW d \in created, NEW s \in Slabs(d)'
        PROVE  page_slab'[s] = s /\ page_slab'[s + 1] = s
    <3>1. CASE s = p
      BY <1>5, <3>1
    <3>2. CASE s # p
      <4>1. s \in Slabs(d)
        BY <1>11, <1>12, <2>1, <3>2
      <4>2. /\ s \in PageFrames /\ s + 1 \in PageFrames /\ s \notin free /\ s + 1 \notin free
            /\ page_slab[s] = s /\ page_slab[s + 1] = s
        BY <4>1, SlabFacts
      <4> QED BY <1>3, <1>5, <4>2
    <3> QED BY <3>1, <3>2
  <2> QED BY <1>2, <2>1 DEF PagesFindSlab
<1> QED BY <1>3, <1>11, <1>13, <1>14, <1>15, <1>16 DEF IInv

\* slab_cache_free finds the slab and the bit it has to clear.
LEMMA FreeStep == ASSUME IInv, NEW o \in objects, slab_cache_free(o[1], o[2]) PROVE IInv'
<1> DEFINE c == o[1]
           addr == o[2]
           slab == page_slab[addr \div PAGE_SIZE]
           bit == (addr - (slab * PAGE_SIZE + offset(c))) \div object_size(c)
<1>1. c \in created /\ addr \in Addresses /\ o = <<c, addr>>
  BY OwnedObject
<1>2. PICK s \in Slabs(c) : \E n \in bitmap[s] : addr = object_address(c, s, n)
  BY OwnedObject
<1>3. PICK n \in bitmap[s] : addr = object_address(c, s, n)
  BY <1>2
<1>4. /\ c \in Caches /\ s \in PageFrames /\ s + 1 \in PageFrames
      /\ page_slab[s] = s /\ page_slab[s + 1] = s
      /\ bitmap[s] \subseteq 0 .. object_count(c) - 1
      /\ slab_free[s] + Cardinality(bitmap[s]) = object_count(c)
      /\ IsFiniteSet(bitmap[s]) /\ Cardinality(bitmap[s]) \in Nat
      /\ slab_free[s] \in Nat /\ object_count(c) \in Nat
  BY <1>1, SlabFacts
<1>5. slab = s /\ bit = n
  BY <1>1, <1>3, <1>4, ObjectFound
<1>6. /\ free' = free /\ held' = held /\ created' = created /\ page_slab' = page_slab
      /\ fini' = fini /\ tasks' = tasks
      /\ objects' = objects \ {<<c, addr>>}
      /\ bitmap' = [bitmap EXCEPT ![slab] = @ \ {bit}]
      /\ slab_free' = [slab_free EXCEPT ![slab] = @ + 1]
      /\ IF WasFull(slab)
         THEN /\ full' = [full EXCEPT ![c] = RemoveFirst(@, slab)]
              /\ partial' = [partial EXCEPT ![c] = Append(@, slab)]
         ELSE partial' = partial /\ full' = full
  BY DEF slab_cache_free, pool
<1> HIDE DEF c, addr, slab, bit
<1>7. /\ created \subseteq Caches
      /\ partial \in [Caches -> Seq(PageFrames)] /\ full \in [Caches -> Seq(PageFrames)]
      /\ bitmap \in [PageFrames -> SUBSET Counters] /\ slab_free \in [PageFrames -> Counters]
      /\ objects \subseteq Caches \X Addresses
  BY DEF IInv, TypeOK, Addresses
<1>8. /\ bitmap' \in [PageFrames -> SUBSET Counters] /\ slab_free' \in [PageFrames -> Counters]
      /\ bitmap'[s] = bitmap[s] \ {n} /\ slab_free'[s] = slab_free[s] + 1
      /\ \A t \in PageFrames : t # s => bitmap'[t] = bitmap[t] /\ slab_free'[t] = slab_free[t]
      /\ Cardinality(bitmap'[s]) = Cardinality(bitmap[s]) - 1
  <2>1. bitmap[s] \ {n} \subseteq Counters
    BY <1>4, <1>7
  <2>2. Cardinality(bitmap[s] \ {n}) = Cardinality(bitmap[s]) - 1
        /\ Cardinality(bitmap[s] \ {n}) \in Nat
    <3>1. IsFiniteSet(bitmap[s] \ {n})
          /\ Cardinality(bitmap[s] \ {n}) = Cardinality(bitmap[s]) - 1
      BY <1>3, <1>4, FS_RemoveElement
    <3> QED BY <3>1, FS_CardinalityType
  <2>3. slab_free[s] + 1 \in Counters
    <3>1. object_count(c) \in Counters /\ space \in Nat
      BY <1>4, SizeFacts, LayoutAssumption DEF space, SlabPages
    <3> QED BY <1>4, <2>2, <3>1 DEF Counters
  <2>4. /\ bitmap' = [bitmap EXCEPT ![s] = bitmap[s] \ {n}]
        /\ slab_free' = [slab_free EXCEPT ![s] = slab_free[s] + 1]
    BY <1>5, <1>6
  <2> QED BY <1>4, <1>7, <2>1, <2>2, <2>3, <2>4
<1> DEFINE P == partial[c]
           F == full[c]
<1>9. /\ P \in Seq(PageFrames) /\ IsInjective(P)
      /\ F \in Seq(PageFrames) /\ IsInjective(F)
      /\ ToSet(P) \cap ToSet(F) = {} /\ s \in ToSet(P) \cup ToSet(F)
      /\ s \in ToSet(P) => slab_free[s] > 0
      /\ s \in ToSet(F) => slab_free[s] = 0
  BY <1>1, <1>4, ListTypes DEF IInv, ListsApart, Slabs
<1>10. /\ partial' \in [Caches -> Seq(PageFrames)] /\ full' \in [Caches -> Seq(PageFrames)]
       /\ \A d \in Caches : d # c => partial'[d] = partial[d] /\ full'[d] = full[d]
       /\ IsInjective(partial'[c]) /\ IsInjective(full'[c])
       /\ ToSet(partial'[c]) = ToSet(P) \cup {s} /\ ToSet(full'[c]) = ToSet(F) \ {s}
  <2>1. CASE slab_free[s] = 0
    <3>1. /\ full' = [full EXCEPT ![c] = RemoveFirst(F, s)]
          /\ partial' = [partial EXCEPT ![c] = Append(P, s)]
      BY <1>5, <1>6, <2>1 DEF WasFull
    <3>2. s \notin ToSet(P)
      BY <1>9, <2>1
    <3> HIDE DEF P, F
    <3>3. /\ Append(P, s) \in Seq(PageFrames) /\ IsInjective(Append(P, s))
          /\ ToSet(Append(P, s)) = ToSet(P) \cup {s}
      BY <1>4, <1>9, <3>2, AppendList
    <3>4. /\ RemoveFirst(F, s) \in Seq(PageFrames) /\ IsInjective(RemoveFirst(F, s))
          /\ ToSet(RemoveFirst(F, s)) = ToSet(F) \ {s}
      BY <1>9, RemoveFirstList
    <3>5. partial'[c] = Append(P, s) /\ full'[c] = RemoveFirst(F, s)
      BY <1>4, <1>7, <3>1
    <3> QED BY <1>4, <1>7, <3>1, <3>3, <3>4, <3>5
  <2>2. CASE slab_free[s] # 0
    <3>1. partial' = partial /\ full' = full
      BY <1>5, <1>6, <2>2 DEF WasFull
    <3>2. s \in ToSet(P) /\ s \notin ToSet(F)
      BY <1>9, <2>2
    <3> QED BY <1>7, <1>9, <3>1, <3>2
  <2> QED BY <2>1, <2>2
<1>11. /\ Slabs(c) = ToSet(P) \cup ToSet(F) /\ Slabs(c)' = Slabs(c)
       /\ \A d \in Caches : Slabs(d)' = Slabs(d)
  <2>1. Slabs(c) = ToSet(P) \cup ToSet(F) /\ Slabs(c)' = ToSet(partial'[c]) \cup ToSet(full'[c])
    BY <1>1, <1>6 DEF Slabs
  <2>2. Slabs(c)' = Slabs(c)
    BY <1>9, <1>10, <2>1
  <2>3. ASSUME NEW d \in Caches, d # c PROVE Slabs(d)' = Slabs(d)
    BY <1>6, <1>10, <2>3 DEF Slabs
  <2> QED BY <2>1, <2>2, <2>3
<1>12. ListsApart'
  <2>1. ASSUME NEW d \in created
        PROVE  /\ IsInjective(partial'[d]) /\ IsInjective(full'[d])
               /\ ToSet(partial'[d]) \cap ToSet(full'[d]) = {}
               /\ \A t \in ToSet(partial'[d]) : slab_free'[t] > 0
               /\ \A t \in ToSet(full'[d]) : slab_free'[t] = 0
    <3>1. CASE d = c
      <4>1. ASSUME NEW t \in ToSet(partial'[c]) PROVE slab_free'[t] > 0
        <5>1. CASE t = s
          BY <1>4, <1>8, <5>1
        <5>2. CASE t # s
          <6>1. t \in ToSet(P) /\ t \in PageFrames
            BY <1>4, <1>10, <4>1, <5>2, ListTypes DEF IInv
          <6> QED BY <1>1, <1>8, <5>2, <6>1 DEF IInv, ListsApart
        <5> QED BY <5>1, <5>2
      <4>2. ASSUME NEW t \in ToSet(full'[c]) PROVE slab_free'[t] = 0
        <5>1. t \in ToSet(F) /\ t # s /\ t \in PageFrames
          BY <1>4, <1>10, <4>2, ListTypes DEF IInv
        <5> QED BY <1>1, <1>8, <5>1 DEF IInv, ListsApart
      <4>3. ToSet(partial'[c]) \cap ToSet(full'[c]) = {}
        BY <1>9, <1>10
      <4> QED BY <1>10, <3>1, <4>1, <4>2, <4>3
    <3>2. CASE d # c
      <4>1. d \in Caches /\ partial'[d] = partial[d] /\ full'[d] = full[d]
        BY <1>7, <1>10, <3>2
      <4>2. ASSUME NEW t \in ToSet(partial[d]) \cup ToSet(full[d])
            PROVE  slab_free'[t] = slab_free[t]
        <5>1. t \in Slabs(d) /\ t \in PageFrames
          BY <4>1, <4>2, ListTypes DEF IInv, Slabs
        <5>2. t # s
          BY <1>1, <3>2, <5>1 DEF IInv, ListsApart
        <5> QED BY <1>8, <5>1, <5>2
      <4> QED BY <4>1, <4>2 DEF IInv, ListsApart
    <3> QED BY <3>1, <3>2
  <2>2. \A d, e \in created : d # e => Slabs(d)' \cap Slabs(e)' = {}
    BY <1>7, <1>11 DEF IInv, ListsApart
  <2> QED BY <1>6, <2>1, <2>2 DEF ListsApart
<1>13. BitsMatchCounter'
  <2>1. ASSUME NEW d \in created, NEW t \in Slabs(d)
        PROVE  /\ bitmap'[t] \subseteq 0 .. object_count(d) - 1
               /\ slab_free'[t] + Cardinality(bitmap'[t]) = object_count(d)
    <3>1. CASE t = s
      <4>1. d = c
        BY <1>1, <2>1, <3>1 DEF IInv, ListsApart
      <4>2. bitmap'[s] \subseteq 0 .. object_count(c) - 1
        BY <1>4, <1>8
      <4> DEFINE x == slab_free[s]
                 y == Cardinality(bitmap[s])
                 z == Cardinality(bitmap'[s])
      <4>3. x \in Nat /\ y \in Nat /\ slab_free'[s] = x + 1 /\ z = y - 1 /\ x + y = object_count(c)
        BY <1>4, <1>8
      <4> HIDE DEF x, y, z
      <4>4. slab_free'[s] + z = object_count(c)
        BY <4>3
      <4> QED BY <3>1, <4>1, <4>2, <4>4 DEF z
    <3>2. CASE t # s
      <4>1. t \in PageFrames
        BY <1>7, <2>1, ListTypes DEF IInv
      <4> QED BY <1>8, <2>1, <3>2, <4>1 DEF IInv, BitsMatchCounter
    <3> QED BY <3>1, <3>2
  <2>2. \A d \in created : Slabs(d)' = Slabs(d)
    BY <1>7, <1>11
  <2> QED BY <1>6, <2>1, <2>2 DEF BitsMatchCounter
<1>14. ObjectsExact'
  <2>1. ASSUME NEW d \in created, NEW a \in Addresses
        PROVE  <<d, a>> \in objects' <=>
                    \E t \in Slabs(d) : \E m \in bitmap'[t] : a = object_address(d, t, m)
    <3>1. CASE d = c
      <4>1. <<c, a>> \in objects' <=> <<c, a>> \in objects /\ a # addr
        BY <1>6
      <4>2. ASSUME NEW t \in Slabs(c), NEW m \in bitmap'[t], a = object_address(c, t, m)
            PROVE  <<c, a>> \in objects /\ a # addr
        <5>1. t \in PageFrames /\ m \in bitmap[t] /\ (t = s => m # n)
          <6>1. t \in PageFrames
            BY <1>4, ListTypes DEF IInv
          <6> QED BY <1>8, <6>1
        <5>2. <<c, a>> \in objects
          BY <1>1, <4>2, <5>1 DEF IInv, ObjectsExact
        <5>3. m \in 0 .. object_count(c) - 1
          BY <1>1, <5>1, SlabFacts
        <5>4. /\ page_slab[a \div PAGE_SIZE] = t
              /\ (a - (t * PAGE_SIZE + offset(c))) \div object_size(c) = m
          BY <1>1, <4>2, <5>3, ObjectFound
        <5>5. a = addr => t = s /\ m = n
          BY <1>5, <5>4 DEF slab, bit
        <5> QED BY <5>1, <5>2, <5>5
      <4>3. ASSUME <<c, a>> \in objects, a # addr
            PROVE  \E t \in Slabs(c) : \E m \in bitmap'[t] : a = object_address(c, t, m)
        <5>1. PICK t \in Slabs(c) : \E m \in bitmap[t] : a = object_address(c, t, m)
          BY <1>1, <4>3 DEF IInv, ObjectsExact
        <5>2. PICK m \in bitmap[t] : a = object_address(c, t, m)
          BY <5>1
        <5>3. t = s => m # n
          BY <1>3, <4>3, <5>2
        <5>4. t \in PageFrames
          BY <1>4, ListTypes DEF IInv
        <5>5. m \in bitmap'[t]
          BY <1>8, <5>3, <5>4
        <5> QED BY <5>2, <5>5
      <4> QED BY <3>1, <4>1, <4>2, <4>3
    <3>2. CASE d # c
      <4>1. <<d, a>> \in objects' <=> <<d, a>> \in objects
        BY <1>6, <3>2
      <4>2. Slabs(d) \subseteq PageFrames
        BY <1>7, ListTypes DEF IInv
      <4>3. s \notin Slabs(d)
        BY <1>1, <3>2 DEF IInv, ListsApart
      <4>4. \A t \in Slabs(d) : bitmap'[t] = bitmap[t]
        BY <1>8, <4>2, <4>3
      <4> QED BY <4>1, <4>4 DEF IInv, ObjectsExact
    <3> QED BY <3>1, <3>2
  <2>2. \A d \in created : Slabs(d)' = Slabs(d)
    BY <1>7, <1>11
  <2>3. ASSUME NEW d \in created', NEW a \in Addresses
        PROVE  <<d, a>> \in objects' <=>
                    \E t \in Slabs(d)' : \E m \in bitmap'[t] : a = object_address(d, t, m)
    <3>1. d \in created /\ Slabs(d)' = Slabs(d)
      BY <1>6, <2>2
    <3> QED BY <2>1, <3>1
  <2> QED BY <2>3 DEF ObjectsExact
<1>15. ObjectsOfCaches'
  BY <1>6 DEF IInv, ObjectsOfCaches
<1>16. TypeOK'
  <2>1. objects' \subseteq Caches \X Addresses
    BY <1>6, <1>7
  <2> QED BY <1>6, <1>8, <1>10, <2>1 DEF IInv, TypeOK, Addresses
<1>17. PoolOK'
  BY <1>6 DEF IInv, PoolOK
<1>18. NoBlockLeaked'
  BY <1>6, <1>11 DEF IInv, NoBlockLeaked
<1>19. OwnersApart' /\ PagesFindSlab'
  BY <1>6, <1>7, <1>11 DEF IInv, OwnersApart, PagesFindSlab
<1> QED BY <1>12, <1>13, <1>14, <1>15, <1>16, <1>17, <1>18, <1>19 DEF IInv

\* slab_cache_destroy passes the slabs of the cache to slab_cache_fini.
LEMMA DestroyStep == ASSUME IInv, NEW c \in Caches, slab_cache_destroy(c) PROVE IInv'
<1>1. /\ c \in created /\ created' = created \ {c} /\ fini = <<>> /\ fini' = partial[c]
      /\ full[c] = <<>> /\ \A o \in objects : o[1] # c
      /\ free' = free /\ held' = held /\ partial' = partial /\ full' = full
      /\ bitmap' = bitmap /\ slab_free' = slab_free /\ page_slab' = page_slab
      /\ objects' = objects /\ tasks' = tasks
  BY DEF slab_cache_destroy, pool, Ready, FiniList, FiniAsserts
<1>2. created \subseteq Caches /\ partial[c] \in Seq(PageFrames)
  BY ListTypes DEF IInv, TypeOK
<1>3. ToSet(<<>>) = {}
  BY DEF ToSet
<1>4. /\ Slabs(c) = ToSet(fini') /\ Slabs(c)' = {}
      /\ \A d \in Caches : d # c => Slabs(d)' = Slabs(d)
  BY <1>1, <1>3 DEF Slabs
<1>5. TypeOK'
  BY <1>1, <1>2 DEF IInv, TypeOK
<1>6. PoolOK'
  BY <1>1 DEF IInv, PoolOK
<1>7. NoBlockLeaked'
  <2>1. \A b \in held' : b = <<b[1], 1>>
    BY <1>1, HeldFacts
  <2>2. ASSUME NEW s
        PROVE  <<s, 1>> \in held' <=>
                  s \in tasks' \/ s \in ToSet(fini') \/ \E d \in created' : s \in Slabs(d)'
    <3>1. (\E d \in created : s \in Slabs(d)) <=>
                s \in ToSet(fini') \/ \E d \in created' : s \in Slabs(d)'
      BY <1>1, <1>2, <1>4
    <3> QED BY <1>1, <1>3, <3>1, HeldIsOwned
  <2>3. created' \subseteq Caches
    BY <1>1, <1>2
  <2> QED BY <2>1, <2>2, <2>3, OwnersNext
<1>8. OwnersApart'
  <2>1. IsInjective(fini')
    BY <1>1 DEF IInv, ListsApart
  <2>2. tasks' \cap ToSet(fini') = {}
    BY <1>1, <1>4 DEF IInv, OwnersApart
  <2>3. ASSUME NEW d \in created' PROVE Slabs(d)' \cap (tasks' \cup ToSet(fini')) = {}
    <3>1. d \in created /\ d # c /\ Slabs(d)' = Slabs(d)
      BY <1>1, <1>2, <1>4
    <3>2. Slabs(d) \cap Slabs(c) = {}
      BY <1>1, <3>1 DEF IInv, ListsApart
    <3> QED BY <1>1, <1>4, <3>1, <3>2 DEF IInv, OwnersApart
  <2> QED BY <2>1, <2>2, <2>3 DEF OwnersApart
<1>9. \A d \in created' : d \in created /\ Slabs(d)' = Slabs(d)
  BY <1>1, <1>2, <1>4
<1>10. ListsApart'
  BY <1>1, <1>9 DEF IInv, ListsApart
<1>11. BitsMatchCounter' /\ PagesFindSlab'
  BY <1>1, <1>9 DEF IInv, BitsMatchCounter, PagesFindSlab
<1>12. ObjectsExact'
  <2>1. ASSUME NEW d \in created', NEW a \in Addresses
        PROVE  <<d, a>> \in objects' <=>
                    \E s \in Slabs(d)' : \E n \in bitmap'[s] : a = object_address(d, s, n)
    <3>1. d \in created /\ Slabs(d)' = Slabs(d)
      BY <1>9
    <3> QED BY <1>1, <3>1 DEF IInv, ObjectsExact
  <2> QED BY <2>1 DEF ObjectsExact
<1>13. ObjectsOfCaches'
  BY <1>1 DEF IInv, ObjectsOfCaches
<1> QED BY <1>5, <1>6, <1>7, <1>8, <1>10, <1>11, <1>12, <1>13 DEF IInv

\* The loop of slab_cache_fini gives one slab back.
LEMMA FiniStep == ASSUME IInv, slab_cache_fini PROVE IInv'
<1> DEFINE h == Head(fini)
<1>1. /\ fini # <<>> /\ fini' = Tail(fini) /\ Pool!Free(h, 1)
      /\ UNCHANGED <<created, partial, full, bitmap, slab_free, page_slab, objects, tasks>>
  BY DEF slab_cache_fini, SLAB_ORDER
<1>2. fini \in Seq(PageFrames) /\ IsInjective(fini)
  BY DEF IInv, TypeOK, OwnersApart
<1>3. /\ h \in ToSet(fini) /\ fini' \in Seq(PageFrames) /\ IsInjective(fini')
      /\ ToSet(fini') = ToSet(fini) \ {h}
  BY <1>1, <1>2, TailList
<1>4. /\ \A c \in Caches : Slabs(c)' = Slabs(c)
      /\ ListsApart' /\ BitsMatchCounter' /\ ObjectsExact' /\ ObjectsOfCaches'
  BY <1>1, SameLists
<1> HIDE DEF h
<1>5. /\ held' = held \ {<<h, 1>>}
      /\ free' \subseteq PageFrames /\ held' \subseteq PageFrames \X {SLAB_ORDER} /\ PoolOK'
  BY <1>1, PoolGive
<1>6. TypeOK'
  BY <1>1, <1>3, <1>5 DEF IInv, TypeOK
<1>7. created \subseteq Caches
  BY DEF IInv, TypeOK
<1>8. h \notin tasks /\ \A c \in created : h \notin Slabs(c)
  BY <1>3 DEF IInv, OwnersApart
<1>9. NoBlockLeaked'
  <2>1. \A b \in held' : b = <<b[1], 1>>
    BY <1>5, HeldFacts
  <2>2. ASSUME NEW s
        PROVE  <<s, 1>> \in held' <=>
                  s \in tasks' \/ s \in ToSet(fini') \/ \E c \in created' : s \in Slabs(c)'
    <3>1. <<s, 1>> \in held' <=> <<s, 1>> \in held /\ s # h
      BY <1>5
    <3>2. (\E c \in created' : s \in Slabs(c)') <=> \E c \in created : s \in Slabs(c)
      BY <1>1, <1>4, <1>7
    <3> QED BY <1>1, <1>3, <1>8, <3>1, <3>2, HeldIsOwned
  <2> QED BY <1>1, <1>7, <2>1, <2>2, OwnersNext
<1>10. OwnersApart'
  BY <1>1, <1>3, <1>4, <1>7 DEF IInv, OwnersApart
<1>11. PagesFindSlab'
  BY <1>1, <1>4, <1>7 DEF IInv, PagesFindSlab
<1> QED BY <1>4, <1>5, <1>6, <1>9, <1>10, <1>11 DEF IInv

\* by alloc_task,
LEMMA AllocTaskStep == ASSUME IInv, alloc_task PROVE IInv'
<1>1. PICK p \in PageFrames : Pool!Alloc(p, 1) /\ tasks' = tasks \cup {p}
  BY DEF alloc_task, KERNEL_STACK_ORDER
<1>2. UNCHANGED <<created, partial, full, bitmap, slab_free, page_slab, fini, objects>>
  BY DEF alloc_task
<1>3. /\ p \notin tasks /\ p \notin ToSet(fini)
      /\ \A c \in created : p \notin Slabs(c)
      /\ held' = held \cup {<<p, 1>>}
      /\ free' \subseteq PageFrames /\ held' \subseteq PageFrames \X {SLAB_ORDER} /\ PoolOK'
  BY <1>1, PoolTake
<1>4. /\ \A c \in Caches : Slabs(c)' = Slabs(c)
      /\ ListsApart' /\ BitsMatchCounter' /\ ObjectsExact' /\ ObjectsOfCaches'
  BY <1>2, SameLists
<1>5. created \subseteq Caches
  BY DEF IInv, TypeOK
<1>6. TypeOK'
  BY <1>1, <1>2, <1>3 DEF IInv, TypeOK
<1>7. NoBlockLeaked'
  <2>1. \A b \in held' : b = <<b[1], 1>>
    BY <1>3, HeldFacts
  <2>2. ASSUME NEW s
        PROVE  <<s, 1>> \in held' <=>
                  s \in tasks' \/ s \in ToSet(fini') \/ \E c \in created' : s \in Slabs(c)'
    <3>1. <<s, 1>> \in held' <=> <<s, 1>> \in held \/ s = p
      BY <1>3
    <3>2. (\E c \in created' : s \in Slabs(c)') <=> \E c \in created : s \in Slabs(c)
      BY <1>2, <1>4, <1>5
    <3> QED BY <1>1, <1>2, <3>1, <3>2, HeldIsOwned
  <2> QED BY <1>2, <1>5, <2>1, <2>2, OwnersNext
<1>8. OwnersApart'
  BY <1>1, <1>2, <1>3, <1>4, <1>5 DEF IInv, OwnersApart
<1>9. PagesFindSlab'
  BY <1>2, <1>4, <1>5 DEF IInv, PagesFindSlab
<1> QED BY <1>3, <1>4, <1>6, <1>7, <1>8, <1>9 DEF IInv

\* by free_task,
LEMMA FreeTaskStep == ASSUME IInv, NEW t \in tasks, free_task(t) PROVE IInv'
<1>1. /\ Pool!Free(t, 1) /\ tasks' = tasks \ {t}
      /\ UNCHANGED <<created, partial, full, bitmap, slab_free, page_slab, fini, objects>>
  BY DEF free_task, KERNEL_STACK_ORDER
<1>2. /\ held' = held \ {<<t, 1>>}
      /\ free' \subseteq PageFrames /\ held' \subseteq PageFrames \X {SLAB_ORDER} /\ PoolOK'
  BY <1>1, PoolGive
<1>3. /\ \A c \in Caches : Slabs(c)' = Slabs(c)
      /\ ListsApart' /\ BitsMatchCounter' /\ ObjectsExact' /\ ObjectsOfCaches'
  BY <1>1, SameLists
<1>4. created \subseteq Caches
  BY DEF IInv, TypeOK
<1>5. t \notin ToSet(fini) /\ \A c \in created : t \notin Slabs(c)
  BY DEF IInv, OwnersApart
<1>6. TypeOK'
  BY <1>1, <1>2 DEF IInv, TypeOK
<1>7. NoBlockLeaked'
  <2>1. \A b \in held' : b = <<b[1], 1>>
    BY <1>2, HeldFacts
  <2>2. ASSUME NEW s
        PROVE  <<s, 1>> \in held' <=>
                  s \in tasks' \/ s \in ToSet(fini') \/ \E c \in created' : s \in Slabs(c)'
    <3>1. <<s, 1>> \in held' <=> <<s, 1>> \in held /\ s # t
      BY <1>2
    <3>2. (\E c \in created' : s \in Slabs(c)') <=> \E c \in created : s \in Slabs(c)
      BY <1>1, <1>3, <1>4
    <3> QED BY <1>1, <1>5, <3>1, <3>2, HeldIsOwned
  <2> QED BY <1>1, <1>4, <2>1, <2>2, OwnersNext
<1>8. OwnersApart'
  BY <1>1, <1>3, <1>4 DEF IInv, OwnersApart
<1>9. PagesFindSlab'
  BY <1>1, <1>3, <1>4 DEF IInv, PagesFindSlab
<1> QED BY <1>2, <1>3, <1>6, <1>7, <1>8, <1>9 DEF IInv

\* and by a step that changes nothing.
LEMMA StutterStep == ASSUME IInv, UNCHANGED vars PROVE IInv'
<1>1. /\ UNCHANGED <<created, partial, full, bitmap, slab_free, objects>>
      /\ free' = free /\ held' = held /\ page_slab' = page_slab /\ fini' = fini /\ tasks' = tasks
      /\ created' = created /\ partial' = partial /\ full' = full
      /\ bitmap' = bitmap /\ slab_free' = slab_free /\ objects' = objects
  BY DEF vars
<1>2. /\ \A c \in Caches : Slabs(c)' = Slabs(c)
      /\ ListsApart' /\ BitsMatchCounter' /\ ObjectsExact' /\ ObjectsOfCaches'
  BY <1>1, SameLists
<1>3. created \subseteq Caches
  BY DEF IInv, TypeOK
<1>4. TypeOK' /\ PoolOK'
  BY <1>1 DEF IInv, TypeOK, PoolOK
<1>5. NoBlockLeaked'
  BY <1>1, <1>2 DEF IInv, NoBlockLeaked
<1>6. OwnersApart' /\ PagesFindSlab'
  BY <1>1, <1>2, <1>3 DEF IInv, OwnersApart, PagesFindSlab
<1> QED BY <1>2, <1>4, <1>5, <1>6 DEF IInv

-----------------------------------------------------------------------------
(* The theorems of the slab caches.                                        *)

\* Blocks, lists, bits, counters and objects agree in every reachable state.
THEOREM InvariantHolds == Spec => []IInv
<1>1. Init => IInv
  BY InitStep
<1>2. IInv /\ [Next]_vars => IInv'
  <2> SUFFICES ASSUME IInv, [Next]_vars PROVE IInv'
    OBVIOUS
  <2>1. CASE Boot
    BY <2>1, BootStep
  <2>2. ASSUME NEW c \in Caches,
               \/ slab_cache_create(c) \/ slab_cache_destroy(c)
               \/ slab_cache_alloc(c) \/ slab_cache_grow(c)
        PROVE  IInv'
    BY <2>2, CreateStep, DestroyStep, AllocStep, GrowStep
  <2>3. ASSUME NEW c \in Caches, slab_cache_alloc_fails(c) PROVE IInv'
    <3>1. UNCHANGED vars
      BY <2>3 DEF slab_cache_alloc_fails
    <3> QED BY <3>1, StutterStep
  <2>4. ASSUME NEW o \in objects, slab_cache_free(o[1], o[2]) PROVE IInv'
    BY <2>4, FreeStep
  <2>5. CASE slab_cache_fini
    BY <2>5, FiniStep
  <2>6. CASE alloc_task
    BY <2>6, AllocTaskStep
  <2>7. ASSUME NEW t \in tasks, free_task(t) PROVE IInv'
    BY <2>7, FreeTaskStep
  <2>8. CASE UNCHANGED vars
    BY <2>8, StutterStep
  <2> QED BY <2>1, <2>2, <2>3, <2>4, <2>5, <2>6, <2>7, <2>8 DEF Next
<1> QED BY <1>1, <1>2, PTL DEF Spec

\* Every variable keeps its type.
THEOREM TypeCorrect == Spec => []TypeOK
<1>1. IInv => TypeOK
  BY DEF IInv
<1> QED BY <1>1, InvariantHolds, PTL

\* A slab is on one list of one cache, the one its counter says: what
\* slab_cache_free relies on when it moves a slab from full to partial.
THEOREM SlabsStayOnTheirList == Spec => []SlabsOnRightList
BY InvariantHolds, IInvImpliesLists, PTL

\* The set bits of slab_alloc and slab_free are the objects that clients own.
THEOREM NoObjectIsLost == Spec => []BitmapsMatchObjects
BY InvariantHolds, IInvImpliesBitmaps, PTL

\* No two objects that slab_cache_alloc returned share a byte, and none reaches
\* into a task, a free page or the header of its slab.
THEOREM ObjectsStayDisjoint == Spec => []ObjectsDisjoint
BY InvariantHolds, IInvImpliesDisjoint, PTL

\* slab_cache_free finds the slab of every object through page->slab.
THEOREM FreeIsSound == Spec => []FreeFindsSlab
BY InvariantHolds, IInvImpliesFound, PTL

\* Every block taken from the page allocator has one owner that gives it back.
THEOREM BlocksAreReturned == Spec => []NoBlockLeaked
<1>1. IInv => NoBlockLeaked
  BY DEF IInv
<1> QED BY <1>1, InvariantHolds, PTL

\* The assertions of slab_cache_fini hold when every object came back.
THEOREM DestroyNeverAsserts == Spec => []DestroyAssertsHold
BY InvariantHolds, IInvImpliesAsserts, PTL
=============================================================================
