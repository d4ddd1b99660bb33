---------------------------- MODULE BasicLemmas ----------------------------
(***************************************************************************)
(* What the proofs share: induction stated over sets, powers of two and    *)
(* the division facts that blocks aligned to their size obey, and what     *)
(* adding to and removing from a list without repetitions does to its      *)
(* elements (struct list_head can only hold a node once).                  *)
(***************************************************************************)
EXTENDS Integers, Sequences, SequencesExt, NaturalsInduction, WellFoundedInduction,
        SequenceTheorems, TLAPS

-----------------------------------------------------------------------------
(* Induction.                                                              *)

\* Every non-empty set of natural numbers has a least element.
LEMMA LeastNat ==
    ASSUME NEW T \in SUBSET Nat, T # {}
    PROVE  \E x \in T : \A y \in T : x <= y
<1>1. PICK x \in T : \A y \in T : ~ (<<y, x>> \in OpToRel(<, Nat))
  BY NatLessThanWellFounded, WFMin
<1>2. \A y \in T : y \in Nat /\ x \in Nat /\ <<y, x>> \in Nat \X Nat
  OBVIOUS
<1>3. ASSUME NEW y \in T PROVE <<y, x>>[1] = y /\ <<y, x>>[2] = x
  OBVIOUS
<1>4. ASSUME NEW y \in T PROVE ~ (y < x)
  BY <1>1, <1>2, <1>3, Zenon DEF OpToRel
<1> QED BY <1>4

\* A set that holds a and, with every n below b, also n + 1, holds a .. b.
LEMMA IntervalInduction ==
    ASSUME NEW T, NEW a \in Nat, NEW b \in Nat,
           a \in T,
           \A n \in a .. b - 1 : n \in T => n + 1 \in T
    PROVE  a .. b \subseteq T
<1> DEFINE Missing == (a .. b) \ T
<1>1. SUFFICES ASSUME Missing # {} PROVE FALSE
  OBVIOUS
<1>2. PICK x \in Missing : \A y \in Missing : x <= y
  <2>1. Missing \in SUBSET Nat
    OBVIOUS
  <2> HIDE DEF Missing
  <2> QED BY <1>1, <2>1, LeastNat
<1>3. x \in a .. b /\ x # a /\ x \notin T
  OBVIOUS
<1>4. x - 1 \in a .. b - 1 /\ x - 1 \notin Missing
  BY <1>2, <1>3
<1> QED BY <1>3, <1>4

-----------------------------------------------------------------------------
(* Powers of two.                                                          *)

\* The powers that a 32-bit int shift can produce.
LEMMA PowTable ==
    /\ 2^0 = 1  /\ 2^1 = 2  /\ 2^2 = 4  /\ 2^3 = 8
    /\ 2^4 = 16  /\ 2^5 = 32  /\ 2^6 = 64  /\ 2^7 = 128
    /\ 2^8 = 256  /\ 2^9 = 512  /\ 2^10 = 1024  /\ 2^11 = 2048
    /\ 2^12 = 4096  /\ 2^13 = 8192  /\ 2^14 = 16384  /\ 2^15 = 32768
    /\ 2^16 = 65536  /\ 2^17 = 131072  /\ 2^18 = 262144  /\ 2^19 = 524288
    /\ 2^20 = 1048576  /\ 2^21 = 2097152  /\ 2^22 = 4194304  /\ 2^23 = 8388608
    /\ 2^24 = 16777216  /\ 2^25 = 33554432  /\ 2^26 = 67108864  /\ 2^27 = 134217728
    /\ 2^28 = 268435456  /\ 2^29 = 536870912  /\ 2^30 = 1073741824  /\ 2^31 = 2147483648
OBVIOUS

\* One order up, a block is twice as large.
LEMMA PowDouble ==
    ASSUME NEW k \in 0 .. 30
    PROVE  2^(k + 1) = 2 * 2^k
<1>0. CASE k = 0
  BY <1>0, PowTable
<1>1. CASE k = 1
  BY <1>1, PowTable
<1>2. CASE k = 2
  BY <1>2, PowTable
<1>3. CASE k = 3
  BY <1>3, PowTable
<1>4. CASE k = 4
  BY <1>4, PowTable
<1>5. CASE k = 5
  BY <1>5, PowTable
<1>6. CASE k = 6
  BY <1>6, PowTable
<1>7. CASE k = 7
  BY <1>7, PowTable
<1>8. CASE k = 8
  BY <1>8, PowTable
<1>9. CASE k = 9
  BY <1>9, PowTable
<1>10. CASE k = 10
  BY <1>10, PowTable
<1>11. CASE k = 11
  BY <1>11, PowTable
<1>12. CASE k = 12
  BY <1>12, PowTable
<1>13. CASE k = 13
  BY <1>13, PowTable
<1>14. CASE k = 14
  BY <1>14, PowTable
<1>15. CASE k = 15
  BY <1>15, PowTable
<1>16. CASE k = 16
  BY <1>16, PowTable
<1>17. CASE k = 17
  BY <1>17, PowTable
<1>18. CASE k = 18
  BY <1>18, PowTable
<1>19. CASE k = 19
  BY <1>19, PowTable
<1>20. CASE k = 20
  BY <1>20, PowTable
<1>21. CASE k = 21
  BY <1>21, PowTable
<1>22. CASE k = 22
  BY <1>22, PowTable
<1>23. CASE k = 23
  BY <1>23, PowTable
<1>24. CASE k = 24
  BY <1>24, PowTable
<1>25. CASE k = 25
  BY <1>25, PowTable
<1>26. CASE k = 26
  BY <1>26, PowTable
<1>27. CASE k = 27
  BY <1>27, PowTable
<1>28. CASE k = 28
  BY <1>28, PowTable
<1>29. CASE k = 29
  BY <1>29, PowTable
<1>30. CASE k = 30
  BY <1>30, PowTable
<1> QED
  BY <1>0, <1>1, <1>2, <1>3, <1>4, <1>5, <1>6, <1>7, <1>8, <1>9, <1>10, <1>11, <1>12, <1>13, <1>14, <1>15, <1>16, <1>17, <1>18, <1>19, <1>20, <1>21, <1>22, <1>23, <1>24, <1>25, <1>26, <1>27, <1>28, <1>29, <1>30

\* A block has at least one page.
LEMMA PowPositive ==
    \A k \in 0 .. 31 : 2^k \in Nat \ {0}
<1> DEFINE T == {k \in Nat : 2^k \in Nat \ {0}}
<1>1. 0 \in T
  BY PowTable
<1>2. ASSUME NEW n \in 0 .. 31 - 1, n \in T PROVE n + 1 \in T
  <2>1. n \in 0 .. 30 /\ 2^n \in Nat \ {0}
    BY <1>2
  <2>2. 2^(n + 1) = 2 * 2^n
    BY <2>1, PowDouble
  <2> QED BY <2>1, <2>2
<1>3. 0 .. 31 \subseteq T
  <2> HIDE DEF T
  <2> QED BY <1>1, <1>2, IntervalInduction
<1> QED BY <1>3

\* The facts about an order and the next one that the block lemmas need.
LEMMA PowStep ==
    ASSUME NEW k \in 0 .. 30
    PROVE  /\ k \in 0 .. 31 /\ k + 1 \in 0 .. 31
           /\ 2^k \in Nat \ {0} /\ 2^(k + 1) \in Nat \ {0}
           /\ 2^(k + 1) = 2 * 2^k
<1>1. k \in 0 .. 31 /\ k + 1 \in 0 .. 31
  OBVIOUS
<1>2. 2^k \in Nat \ {0} /\ 2^(k + 1) \in Nat \ {0}
  BY <1>1, PowPositive
<1>3. 2^(k + 1) = 2 * 2^k
  BY PowDouble
<1> QED BY <1>1, <1>2, <1>3

\* The size of a small block divides the size of a larger one.
LEMMA PowDivides ==
    ASSUME NEW j \in 0 .. 31, NEW k \in j .. 31
    PROVE  \E c \in Nat \ {0} : 2^k = c * 2^j
<1> DEFINE T == {n \in Nat : \E c \in Nat \ {0} : 2^n = c * 2^j}
<1>1. j \in T
  <2>1. 2^j = 1 * 2^j
    BY PowPositive
  <2> QED BY <2>1
<1>2. ASSUME NEW n \in j .. 31 - 1, n \in T PROVE n + 1 \in T
  <2>1. PICK c \in Nat \ {0} : 2^n = c * 2^j
    BY <1>2
  <2>2. n \in 0 .. 30 /\ 2^j \in Nat
    <3>1. j \in 0 .. 31 /\ n \in 0 .. 30
      OBVIOUS
    <3>2. 2^j \in Nat \ {0}
      BY <3>1, PowPositive
    <3> QED BY <3>1, <3>2
  <2>3. 2^(n + 1) = 2 * (c * 2^j)
    BY <2>1, <2>2, PowDouble
  <2>4. \A x, y \in Nat : 2 * (x * y) = (2 * x) * y
    OBVIOUS
  <2>5. 2 * c \in Nat \ {0} /\ 2^(n + 1) = (2 * c) * 2^j
    BY <2>2, <2>3, <2>4
  <2>6. n + 1 \in Nat
    OBVIOUS
  <2> QED BY <2>5, <2>6
<1>3. j .. 31 \subseteq T
  <2> HIDE DEF T
  <2> QED BY <1>1, <1>2, IntervalInduction
<1> QED BY <1>3

-----------------------------------------------------------------------------
(* Division.                                                               *)

\* A multiple of q, written as one.
LEMMA Quotient ==
    ASSUME NEW p \in Nat, NEW q \in Nat \ {0}, p % q = 0
    PROVE  \E a \in Nat : p = a * q
OBVIOUS

\* A written multiple of q has remainder 0 and its factor as quotient.
LEMMA MultipleMod ==
    ASSUME NEW q \in Nat \ {0}, NEW a \in Nat
    PROVE  (a * q) % q = 0 /\ (a * q) \div q = a
OBVIOUS

\* A block of size s that meets a block of size c * s lies inside it.
LEMMA AlignedNested ==
    ASSUME NEW p \in Nat, NEW q \in Nat, NEW x \in Nat,
           NEW s \in Nat \ {0}, NEW c \in Nat \ {0}, NEW S \in Nat \ {0}, S = c * s,
           p % S = 0, q % s = 0,
           p <= x, x < p + S, q <= x, x < q + s
    PROVE  p <= q /\ q + s <= p + S
<1>1. PICK a \in Nat : p = a * S
  BY Quotient
<1>2. PICK b \in Nat : q = b * s
  BY Quotient
<1>3. (a * c) * s < (b + 1) * s
  BY <1>1, <1>2
<1>4. b * s < (a * c + c) * s
  BY <1>1, <1>2
<1>5. a * c < b + 1
  BY <1>3
<1>6. b < a * c + c
  BY <1>4
<1> QED BY <1>1, <1>2, <1>5, <1>6

\* Rounding down to a multiple of s.
LEMMA RoundDown ==
    ASSUME NEW p \in Nat, NEW s \in Nat \ {0}
    PROVE  /\ p - (p % s) \in Nat
           /\ (p - (p % s)) % s = 0
           /\ p - (p % s) <= p
           /\ p < p - (p % s) + s
<1>1. p \div s \in Nat /\ p % s \in 0 .. s - 1 /\ p = s * (p \div s) + (p % s)
  OBVIOUS
<1>2. p - (p % s) = (p \div s) * s
  BY <1>1
<1>3. ((p \div s) * s) % s = 0
  BY <1>1, MultipleMod
<1> QED BY <1>1, <1>2, <1>3

\* A block of size 2s is its lower and its upper half: which half h is follows
\* from the parity of h / s.
LEMMA Halves ==
    ASSUME NEW h \in Nat, NEW s \in Nat \ {0}, h % s = 0
    PROVE  /\ (h \div s) % 2 = 0 => h % (2 * s) = 0 /\ (h + s) % s = 0
           /\ (h \div s) % 2 # 0 => /\ h - s \in Nat
                                    /\ (h - s) % (2 * s) = 0
                                    /\ (h - s) % s = 0
<1>1. PICK a \in Nat : h = a * s
  BY Quotient
<1>2. h \div s = a
  BY <1>1, MultipleMod
<1>3. CASE a % 2 = 0
  <2>1. PICK b \in Nat : a = 2 * b
    BY <1>3
  <2>2. h = b * (2 * s) /\ h + s = (a + 1) * s
    BY <1>1, <2>1
  <2>3. h % (2 * s) = 0
    <3>1. 2 * s \in Nat \ {0}
      OBVIOUS
    <3>2. (b * (2 * s)) % (2 * s) = 0
      BY <3>1, MultipleMod
    <3> QED BY <2>2, <3>2
  <2>4. (h + s) % s = 0
    BY <1>1, <2>2, MultipleMod, a + 1 \in Nat
  <2> QED BY <1>2, <1>3, <2>3, <2>4
<1>4. CASE a % 2 # 0
  <2>1. PICK b \in Nat : a = 2 * b + 1
    BY <1>4
  <2>2. h - s = b * (2 * s) /\ h - s = (2 * b) * s
    BY <1>1, <2>1
  <2>3. h - s \in Nat /\ (h - s) % (2 * s) = 0
    BY <2>1, <2>2, MultipleMod, 2 * s \in Nat \ {0}
  <2>4. (h - s) % s = 0
    BY <2>1, <2>2, MultipleMod, 2 * b \in Nat
  <2> QED BY <1>2, <1>4, <2>3, <2>4
<1> QED BY <1>3, <1>4

-----------------------------------------------------------------------------
(* The encoding -order - 1 of an order in use.                             *)

\* What free_pages' assertion sees in a page->order that is -(k + 1).
LEMMA NegOrder ==
    ASSUME NEW k \in Nat, NEW y \in Int, y + k + 1 = 0
    PROVE  y < 0 /\ (-y) - 1 = k
<1>1. (-y) = 0 - y
  OBVIOUS
<1> QED BY <1>1

\* What alloc_pages stores in page->order for an order k is -(k + 1).
LEMMA EncodeOrder ==
    ASSUME NEW k \in Nat
    PROVE  (-k) - 1 \in Int /\ (-k) - 1 + k + 1 = 0
OBVIOUS

\* More pages take no fewer bytes.
LEMMA ProductOrder ==
    ASSUME NEW a \in Nat, NEW b \in Nat, NEW k \in Nat, a <= b
    PROVE  a * k \in Nat /\ b * k \in Nat /\ a * k <= b * k
<1>1. PICK d \in Nat : b = a + d
  <2>1. b - a \in Nat /\ b = a + (b - a)
    OBVIOUS
  <2> QED BY <2>1
<1>2. b * k = a * k + d * k
  BY <1>1
<1>3. a * k \in Nat /\ d * k \in Nat
  OBVIOUS
<1> QED BY <1>2, <1>3

\* The quotient is the greatest factor that fits.
LEMMA QuotientBounds ==
    ASSUME NEW p \in Nat, NEW s \in Nat \ {0}
    PROVE  /\ p \div s \in Nat
           /\ (p \div s) * s <= p
           /\ \A a \in Nat : a * s <= p => a <= p \div s
<1>1. PICK d \in Nat : d = p \div s
  OBVIOUS
<1>2. d * s <= p /\ p < d * s + s
  BY <1>1
<1>3. ASSUME NEW a \in Nat, a * s <= p, d < a PROVE FALSE
  <2>1. (d + 1) * s <= a * s
    BY <1>3, ProductOrder
  <2>2. (d + 1) * s = d * s + s
    OBVIOUS
  <2>3. d * s \in Nat /\ a * s \in Nat
    OBVIOUS
  <2> QED BY <1>2, <1>3, <2>1, <2>2, <2>3
<1> QED BY <1>1, <1>2, <1>3

-----------------------------------------------------------------------------
(* Lists.                                                                  *)

\* list_insert_before(&head, x) on a list that does not hold x.
LEMMA AppendList ==
    ASSUME NEW S, NEW s \in Seq(S), NEW e \in S, IsInjective(s), e \notin ToSet(s)
    PROVE  /\ Append(s, e) \in Seq(S)
           /\ IsInjective(Append(s, e))
           /\ ToSet(Append(s, e)) = ToSet(s) \cup {e}
<1> DEFINE t == Append(s, e)
<1>1. /\ t \in Seq(S) /\ Len(t) = Len(s) + 1
      /\ \A i \in 1 .. Len(s) : t[i] = s[i]
      /\ t[Len(s) + 1] = e
  BY AppendProperties
<1>2. DOMAIN s = 1 .. Len(s) /\ DOMAIN t = 1 .. Len(t) /\ Len(s) \in Nat
  BY <1>1
<1> HIDE DEF t
<1>3. \A i \in DOMAIN t : i \in DOMAIN s \/ i = Len(s) + 1
  BY <1>1, <1>2
<1>4. ToSet(t) = ToSet(s) \cup {e}
  BY <1>1, <1>2, <1>3 DEF ToSet
<1>5. \A i \in DOMAIN s : s[i] # e
  BY DEF ToSet
<1>6. IsInjective(t)
  BY <1>1, <1>2, <1>3, <1>5 DEF IsInjective
<1> QED BY <1>1, <1>4, <1>6 DEF t

\* list_remove of the first element.
LEMMA TailList ==
    ASSUME NEW S, NEW s \in Seq(S), IsInjective(s), s # <<>>
    PROVE  /\ Head(s) \in ToSet(s)
           /\ Tail(s) \in Seq(S)
           /\ IsInjective(Tail(s))
           /\ ToSet(Tail(s)) = ToSet(s) \ {Head(s)}
<1> DEFINE t == Tail(s)
<1>1. /\ t \in Seq(S) /\ Len(t) = Len(s) - 1
      /\ \A i \in 1 .. Len(t) : t[i] = s[i + 1]
  BY HeadTailProperties
<1>2. /\ DOMAIN s = 1 .. Len(s) /\ DOMAIN t = 1 .. Len(t) /\ Len(s) \in Nat \ {0}
      /\ Head(s) = s[1]
  BY <1>1
<1> HIDE DEF t
<1>3. Head(s) \in ToSet(s)
  BY <1>2 DEF ToSet
<1>4. IsInjective(t)
  BY <1>1, <1>2 DEF IsInjective
<1>5. \A i \in DOMAIN s : i = 1 \/ (i - 1 \in DOMAIN t /\ t[i - 1] = s[i])
  BY <1>1, <1>2
<1>6. \A i \in DOMAIN t : i + 1 \in DOMAIN s /\ t[i] = s[i + 1] /\ s[i + 1] # s[1]
  BY <1>1, <1>2 DEF IsInjective
<1>7. ToSet(t) = ToSet(s) \ {s[1]}
  BY <1>5, <1>6 DEF ToSet
<1> QED BY <1>1, <1>2, <1>3, <1>4, <1>7 DEF t

\* list_remove of any element.
LEMMA RemoveFirstList ==
    ASSUME NEW S, NEW s \in Seq(S), NEW e, IsInjective(s)
    PROVE  /\ RemoveFirst(s, e) \in Seq(S)
           /\ IsInjective(RemoveFirst(s, e))
           /\ ToSet(RemoveFirst(s, e)) = ToSet(s) \ {e}
<1>1. CASE \E i \in 1 .. Len(s) : s[i] = e
  <2> DEFINE I == {i \in 1 .. Len(s) : s[i] = e}
             n == Min(I)
             t == RemoveAt(s, n)
             a == SubSeq(s, 1, n - 1)
             b == SubSeq(s, n + 1, Len(s))
  <2>1. RemoveFirst(s, e) = t
    BY <1>1 DEF RemoveFirst, SelectInSeq
  <2>2. n \in 1 .. Len(s) /\ s[n] = e
    <3>1. I \in SUBSET Nat /\ I # {}
      BY <1>1
    <3> HIDE DEF I
    <3>2. \E x \in I : \A y \in I : x <= y
      BY <3>1, LeastNat
    <3>3. n \in I
      BY <3>2 DEF Min
    <3> QED BY <3>3 DEF I
  <2> HIDE DEF n
  <2>3. /\ Len(s) \in Nat /\ DOMAIN s = 1 .. Len(s) /\ n \in Int
        /\ \A i \in 1 .. Len(s) : s[i] \in S
    BY <2>2
  <2>4. /\ a \in Seq(S) /\ Len(a) = n - 1
        /\ \A i \in 1 .. n - 1 : a[i] = s[i]
    <3>1. \A i \in 1 .. n - 1 : s[i] \in S
      BY <2>2, <2>3
    <3>2. /\ a \in Seq(S)
          /\ Len(a) = IF 1 <= n - 1 THEN (n - 1) - 1 + 1 ELSE 0
          /\ \A i \in 1 .. (n - 1) - 1 + 1 : a[i] = s[1 + i - 1]
      BY <2>3, <3>1, SubSeqProperties, 1 \in Int, n - 1 \in Int
    <3> QED BY <2>2, <2>3, <3>2
  <2>5. /\ b \in Seq(S) /\ Len(b) = Len(s) - n
        /\ \A i \in 1 .. Len(s) - n : b[i] = s[n + i]
    <3>1. \A i \in n + 1 .. Len(s) : s[i] \in S
      BY <2>2, <2>3
    <3>2. /\ b \in Seq(S)
          /\ Len(b) = IF n + 1 <= Len(s) THEN Len(s) - (n + 1) + 1 ELSE 0
          /\ \A i \in 1 .. Len(s) - (n + 1) + 1 : b[i] = s[(n + 1) + i - 1]
      BY <2>3, <3>1, SubSeqProperties, n + 1 \in Int, Len(s) \in Int
    <3> HIDE DEF b
    <3>3. Len(b) = Len(s) - n
      <4>1. Len(b) = IF n + 1 <= Len(s) THEN Len(s) - (n + 1) + 1 ELSE 0
        BY <3>2
      <4>2. n \in Int /\ Len(s) \in Int /\ n <= Len(s)
        BY <2>2, <2>3
      <4> QED BY <4>1, <4>2
    <3>4. ASSUME NEW i \in 1 .. Len(s) - n PROVE b[i] = s[n + i]
      <4>1. i \in 1 .. Len(s) - (n + 1) + 1 /\ (n + 1) + i - 1 = n + i
        BY <2>2, <2>3
      <4> QED BY <3>2, <4>1
    <3> QED BY <3>2, <3>3, <3>4
  <2>6. t = a \o b
    BY DEF RemoveAt
  <2> HIDE DEF t, a, b
  <2>7. /\ t \in Seq(S) /\ Len(t) = Len(s) - 1 /\ DOMAIN t = 1 .. Len(s) - 1
        /\ \A i \in 1 .. Len(s) - 1 : t[i] = IF i <= n - 1 THEN a[i] ELSE b[i - (n - 1)]
    <3>1. /\ t \in Seq(S) /\ Len(t) = Len(a) + Len(b)
          /\ \A i \in 1 .. Len(a) + Len(b) : t[i] = IF i <= Len(a) THEN a[i] ELSE b[i - Len(a)]
      BY <2>4, <2>5, <2>6, ConcatProperties
    <3>2. Len(a) = n - 1 /\ Len(a) + Len(b) = Len(s) - 1
      BY <2>2, <2>3, <2>4, <2>5
    <3> QED BY <3>1, <3>2
  <2>8. \A i \in 1 .. Len(s) - 1 : t[i] = IF i < n THEN s[i] ELSE s[i + 1]
    <3> TAKE i \in 1 .. Len(s) - 1
    <3>1. CASE i < n
      BY <2>2, <2>3, <2>4, <2>7, <3>1
    <3>2. CASE ~ (i < n)
      <4>1. i - (n - 1) \in 1 .. Len(s) - n /\ n + (i - (n - 1)) = i + 1 /\ ~ (i <= n - 1)
        BY <2>2, <2>3, <3>2
      <4> QED BY <2>5, <2>7, <3>2, <4>1
    <3> QED BY <3>1, <3>2
  <2>9. \A i \in 1 .. Len(s) : i # n => s[i] # e
    BY <2>2, <2>3 DEF IsInjective
  <2>10. IsInjective(t)
    <3>1. \A x, y \in 1 .. Len(s) : s[x] = s[y] => x = y
      BY <2>3 DEF IsInjective
    <3>2. ASSUME NEW x \in 1 .. Len(s) - 1, NEW y \in 1 .. Len(s) - 1, t[x] = t[y]
          PROVE  x = y
      <4>1. \A z \in 1 .. Len(s) - 1 : z \in 1 .. Len(s) /\ z + 1 \in 1 .. Len(s)
        BY <2>3
      <4>2. CASE x < n /\ y < n
        BY <2>8, <3>1, <3>2, <4>1, <4>2
      <4>3. CASE x < n /\ ~ (y < n)
        BY <2>2, <2>8, <3>1, <3>2, <4>1, <4>3
      <4>4. CASE ~ (x < n) /\ y < n
        BY <2>2, <2>8, <3>1, <3>2, <4>1, <4>4
      <4>5. CASE ~ (x < n) /\ ~ (y < n)
        BY <2>8, <3>1, <3>2, <4>1, <4>5
      <4> QED BY <4>2, <4>3, <4>4, <4>5
    <3> QED BY <2>7, <3>2 DEF IsInjective
  <2>11. ToSet(t) \subseteq ToSet(s) \ {e}
    <3>1. ASSUME NEW i \in 1 .. Len(s) - 1 PROVE t[i] \in ToSet(s) \ {e}
      <4>1. PICK x \in 1 .. Len(s) : x # n /\ t[i] = s[x]
        <5>1. i \in 1 .. Len(s) /\ i + 1 \in 1 .. Len(s) /\ (i < n => i # n) /\ (~ (i < n) => i + 1 # n)
          BY <2>2, <2>3
        <5> QED BY <2>8, <5>1
      <4> QED BY <2>3, <2>9, <4>1 DEF ToSet
    <3> QED BY <2>7, <3>1 DEF ToSet
  <2>12. ASSUME NEW i \in 1 .. Len(s), s[i] # e PROVE s[i] \in ToSet(t)
    <3>1. CASE i < n
      <4>1. i \in 1 .. Len(s) - 1 /\ t[i] = s[i]
        BY <2>2, <2>3, <2>8, <3>1
      <4> QED BY <2>7, <4>1 DEF ToSet
    <3>2. CASE i > n
      <4>1. i - 1 \in 1 .. Len(s) - 1 /\ t[i - 1] = s[i]
        BY <2>2, <2>3, <2>8, <3>2
      <4> QED BY <2>7, <4>1 DEF ToSet
    <3> QED BY <2>2, <2>12, <3>1, <3>2
  <2>13. ToSet(s) \ {e} \subseteq ToSet(t)
    BY <2>3, <2>12 DEF ToSet
  <2> QED BY <2>1, <2>7, <2>10, <2>11, <2>13
<1>2. CASE ~ \E i \in 1 .. Len(s) : s[i] = e
  <2>1. RemoveFirst(s, e) = s
    BY <1>2 DEF RemoveFirst
  <2>2. e \notin ToSet(s)
    BY <1>2 DEF ToSet
  <2> QED BY <2>1, <2>2
<1> QED BY <1>1, <1>2

\* Two lists, one after the other.
LEMMA ConcatList ==
    ASSUME NEW S, NEW s \in Seq(S), NEW t \in Seq(S)
    PROVE  /\ s \o t \in Seq(S)
           /\ ToSet(s \o t) = ToSet(s) \cup ToSet(t)
           /\ IsInjective(s \o t) <=>
                /\ IsInjective(s) /\ IsInjective(t)
                /\ ToSet(s) \cap ToSet(t) = {}
<1> DEFINE u == s \o t
           k == Len(s)
           n == Len(t)
<1>1. /\ u \in Seq(S) /\ Len(u) = k + n
      /\ \A i \in 1 .. k + n : u[i] = IF i <= k THEN s[i] ELSE t[i - k]
  BY ConcatProperties
<1>2. /\ k \in Nat /\ n \in Nat
      /\ DOMAIN s = 1 .. k /\ DOMAIN t = 1 .. n /\ DOMAIN u = 1 .. k + n
  BY <1>1
<1> HIDE DEF u, k, n
<1>3. /\ \A i \in 1 .. k : i \in 1 .. k + n /\ u[i] = s[i]
      /\ \A i \in 1 .. n : k + i \in 1 .. k + n /\ u[k + i] = t[i]
      /\ \A i \in 1 .. k + n : i \in 1 .. k \/ (i - k \in 1 .. n /\ k + (i - k) = i)
  <2>1. \A i \in 1 .. k : i \in 1 .. k + n /\ i <= k
    BY <1>2
  <2>2. \A i \in 1 .. n : k + i \in 1 .. k + n /\ ~ (k + i <= k) /\ (k + i) - k = i
    BY <1>2
  <2>3. \A i \in 1 .. k + n : i \in 1 .. k \/ (i - k \in 1 .. n /\ k + (i - k) = i)
    BY <1>2
  <2> QED BY <1>1, <2>1, <2>2, <2>3
<1>4. ToSet(u) = ToSet(s) \cup ToSet(t)
  <2>1. ASSUME NEW i \in 1 .. k + n PROVE u[i] \in ToSet(s) \cup ToSet(t)
    <3>1. CASE i \in 1 .. k
      BY <1>2, <1>3, <3>1 DEF ToSet
    <3>2. CASE i - k \in 1 .. n /\ k + (i - k) = i
      <4>1. u[k + (i - k)] = t[i - k]
        BY <1>3, <3>2
      <4> QED BY <1>2, <3>2, <4>1 DEF ToSet
    <3> QED BY <1>3, <3>1, <3>2
  <2>2. \A i \in 1 .. k : s[i] \in ToSet(u)
    <3> TAKE i \in 1 .. k
    <3>1. i \in DOMAIN u /\ s[i] = u[i]
      BY <1>2, <1>3
    <3> QED BY <3>1 DEF ToSet
  <2>3. \A i \in 1 .. n : t[i] \in ToSet(u)
    <3> TAKE i \in 1 .. n
    <3>1. k + i \in DOMAIN u /\ t[i] = u[k + i]
      BY <1>2, <1>3
    <3> QED BY <3>1 DEF ToSet
  <2>4. ToSet(u) \subseteq ToSet(s) \cup ToSet(t)
    BY <1>2, <2>1 DEF ToSet
  <2>5. ToSet(s) \subseteq ToSet(u) /\ ToSet(t) \subseteq ToSet(u)
    BY <1>2, <2>2, <2>3 DEF ToSet
  <2> QED BY <2>4, <2>5
<1>5. ASSUME IsInjective(u)
      PROVE  IsInjective(s) /\ IsInjective(t) /\ ToSet(s) \cap ToSet(t) = {}
  <2>1. \A i, j \in 1 .. k + n : u[i] = u[j] => i = j
    BY <1>2, <1>5 DEF IsInjective
  <2>2. ASSUME NEW i \in 1 .. k, NEW j \in 1 .. k, s[i] = s[j] PROVE i = j
    BY <1>3, <2>1, <2>2
  <2>3. ASSUME NEW i \in 1 .. n, NEW j \in 1 .. n, t[i] = t[j] PROVE i = j
    <3>1. k + i = k + j
      BY <1>3, <2>1, <2>3
    <3> QED BY <1>2, <3>1
  <2>4. ASSUME NEW i \in 1 .. k, NEW j \in 1 .. n, s[i] = t[j] PROVE FALSE
    <3>1. i = k + j
      BY <1>3, <2>1, <2>4
    <3> QED BY <1>2, <3>1
  <2> QED BY <1>2, <2>2, <2>3, <2>4 DEF IsInjective, ToSet
<1>6. ASSUME IsInjective(s), IsInjective(t), ToSet(s) \cap ToSet(t) = {}
      PROVE  IsInjective(u)
  <2>1. /\ \A i, j \in 1 .. k : s[i] = s[j] => i = j
        /\ \A i, j \in 1 .. n : t[i] = t[j] => i = j
        /\ \A i \in 1 .. k, j \in 1 .. n : s[i] # t[j]
    <3>1. /\ \A i, j \in 1 .. k : s[i] = s[j] => i = j
          /\ \A i, j \in 1 .. n : t[i] = t[j] => i = j
      BY <1>2, <1>6 DEF IsInjective
    <3>2. ASSUME NEW i \in 1 .. k, NEW j \in 1 .. n PROVE s[i] # t[j]
      <4>1. s[i] \in ToSet(s) /\ t[j] \in ToSet(t)
        BY <1>2 DEF ToSet
      <4> QED BY <1>6, <4>1
    <3> QED BY <3>1, <3>2
  <2>2. ASSUME NEW i \in 1 .. k + n, NEW j \in 1 .. k + n, u[i] = u[j] PROVE i = j
    <3>1. CASE i \in 1 .. k /\ j \in 1 .. k
      BY <1>3, <2>1, <2>2, <3>1
    <3>2. CASE i \in 1 .. k /\ (j - k \in 1 .. n /\ k + (j - k) = j)
      <4>1. u[i] = s[i] /\ u[k + (j - k)] = t[j - k]
        BY <1>3, <3>2
      <4> QED BY <2>1, <2>2, <3>2, <4>1
    <3>3. CASE j \in 1 .. k /\ (i - k \in 1 .. n /\ k + (i - k) = i)
      <4>1. u[j] = s[j] /\ u[k + (i - k)] = t[i - k]
        BY <1>3, <3>3
      <4> QED BY <2>1, <2>2, <3>3, <4>1
    <3>4. CASE (i - k \in 1 .. n /\ k + (i - k) = i) /\ (j - k \in 1 .. n /\ k + (j - k) = j)
      <4>1. u[k + (i - k)] = t[i - k] /\ u[k + (j - k)] = t[j - k]
        BY <1>3, <3>4
      <4>2. i - k = j - k
        BY <2>1, <2>2, <3>4, <4>1
      <4> QED BY <3>4, <4>2
    <3> QED BY <1>3, <3>1, <3>2, <3>3, <3>4
  <2> QED BY <1>2, <2>2 DEF IsInjective
<1> QED BY <1>1, <1>4, <1>5, <1>6 DEF u

\* A list of one element.
LEMMA OneElementList ==
    ASSUME NEW S, NEW e \in S
    PROVE  /\ <<e>> \in Seq(S) /\ <<e>> # <<>> /\ Head(<<e>>) = e /\ Tail(<<e>>) = <<>>
           /\ IsInjective(<<e>>) /\ ToSet(<<e>>) = {e}
BY DEF IsInjective, ToSet
=============================================================================
