--------------------------- MODULE BootMemProofs ---------------------------
(***************************************************************************)
(* The boot-time allocator keeps its lists in order, covers exactly what   *)
(* it was given, finds the lowest address that fits, and gives no address  *)
(* to two callers: for every capacity of the lists, every firmware map of  *)
(* disjoint pieces, and reserved ranges that overlap in any way.  Every    *)
(* search comes to an end.  Over it, the memory set-up places the array of *)
(* descriptors clear of what is reserved, frees exactly the pages that the *)
(* test in boot_mem_is_free lets through, and never goes back to an        *)
(* earlier stage.                                                          *)
(***************************************************************************)
EXTENDS MemorySetup, BasicLemmas

Ranges == Addresses \X Addresses

-----------------------------------------------------------------------------
(* Adding a range to a list.                                               *)

\* The bounds of a range are addresses, and it is the pair of them.
LEMMA RangeFacts ==
    \A r \in Ranges : /\ r[1] \in Nat /\ r[2] \in Nat /\ r[1] \in Addresses /\ r[2] \in Addresses
                      /\ r = <<r[1], r[2]>>
BY BootMemAssumption DEF Ranges, Addresses

\* The search of boot_mem_add_range always ends at one position.
LEMMA InsertPositionFacts ==
    ASSUME NEW s \in Seq(Ranges), NEW r \in Ranges
    PROVE  LET n == InsertPosition(s, r)
           IN  /\ n \in 1 .. Len(s) + 1
               /\ \A m \in 1 .. n - 1 : s[m][2] < r[1]
               /\ n <= Len(s) => s[n][2] >= r[1]
<1> DEFINE T == {n \in 1 .. Len(s) + 1 : n <= Len(s) => s[n][2] >= r[1]}
<1>1. Len(s) \in Nat
  OBVIOUS
<1>2. PICK x \in T : \A y \in T : x <= y
  <2>1. T \in SUBSET Nat
    BY <1>1
  <2>2. Len(s) + 1 \in T
    BY <1>1
  <2> HIDE DEF T
  <2> QED BY <2>1, <2>2, LeastNat
<1>3. \A m \in 1 .. x - 1 : m \in 1 .. Len(s) /\ s[m][2] < r[1]
  <2> TAKE m \in 1 .. x - 1
  <2>1. m \in 1 .. Len(s) /\ m \notin T
    BY <1>1, <1>2
  <2>2. s[m] \in Ranges
    BY <2>1
  <2> QED BY <2>1, <2>2, RangeFacts
<1>4. \E n \in 1 .. Len(s) + 1 :
        /\ \A m \in 1 .. n - 1 : s[m][2] < r[1]
        /\ n <= Len(s) => s[n][2] >= r[1]
  BY <1>2, <1>3
<1> QED BY <1>4 DEF InsertPosition

\* The three ways in which boot_mem_add_range changes list s into t, at n.
Extended(s, t, r, n) ==
    /\ n \in 1 .. Len(s) /\ boot_mem_overlap(s[n], r)
    /\ Len(t) = Len(s)
    /\ t[n] = boot_mem_merge(s[n], r)
    /\ n + 1 <= Len(s) => boot_mem_merge(s[n], r)[2] < s[n + 1][1]
    /\ \A m \in 1 .. Len(s) : m # n => t[m] = s[m]

Absorbed(s, t, r, n) ==
    /\ n \in 1 .. Len(s) - 1 /\ boot_mem_overlap(s[n], r)
    /\ Len(t) = Len(s) - 1
    /\ s[n + 1][1] <= boot_mem_merge(s[n], r)[2]
    /\ t[n] = boot_mem_merge(boot_mem_merge(s[n], r), s[n + 1])
    /\ \A m \in 1 .. n - 1 : t[m] = s[m]
    /\ \A m \in n + 1 .. Len(s) - 1 : t[m] = s[m + 1]

Inserted(s, t, r, n) ==
    /\ n \in 1 .. Len(s) + 1
    /\ n <= Len(s) => r[1] < s[n][1] /\ ~ boot_mem_overlap(s[n], r)
    /\ Len(t) = Len(s) + 1
    /\ t[n] = r
    /\ \A m \in 1 .. n - 1 : t[m] = s[m]
    /\ \A m \in n + 1 .. Len(s) + 1 : t[m] = s[m - 1]

Changed(s, t, r, n) ==
    /\ r[1] < r[2]
    /\ \A m \in 1 .. n - 1 : m <= Len(s) => s[m][2] < r[1]
    /\ Extended(s, t, r, n) \/ Absorbed(s, t, r, n) \/ Inserted(s, t, r, n)

\* boot_mem_merge takes the lower beginning and the higher end.
LEMMA MergeFacts ==
    ASSUME NEW q \in Ranges, NEW r \in Ranges
    PROVE  LET d == boot_mem_merge(q, r)
           IN  /\ d \in Ranges
               /\ d[1] = (IF r[1] < q[1] THEN r[1] ELSE q[1])
               /\ d[2] = (IF r[2] > q[2] THEN r[2] ELSE q[2])
BY RangeFacts DEF boot_mem_merge, min, max, Ranges

\* A list given by its elements.
LEMMA FunctionList ==
    ASSUME NEW k \in Nat, NEW t, t \in [1 .. k -> Ranges]
    PROVE  t \in Seq(Ranges) /\ Len(t) = k
OBVIOUS

\* What boot_mem_add_range does, by cases.
LEMMA AddRangeShape ==
    ASSUME NEW s \in RangeList, SortedList(s), NEW r \in Ranges
    PROVE  LET t == boot_mem_add_range(s, r)
           IN  /\ t \in RangeList
               /\ IF r[2] <= r[1] \/ AddRangeFails(s, r) THEN t = s
                  ELSE Changed(s, t, r, InsertPosition(s, r))
<1> DEFINE t == boot_mem_add_range(s, r)
           n == InsertPosition(s, r)
           d == boot_mem_merge(s[n], r)
<1>1. /\ s \in Seq(Ranges) /\ Len(s) \in Nat /\ Len(s) <= BOOT_MEM_RANGES
      /\ BOOT_MEM_RANGES \in Nat /\ DOMAIN s = 1 .. Len(s)
      /\ \A m \in 1 .. Len(s) : s[m] \in Ranges
  BY BootMemAssumption DEF RangeList, Ranges
<1>2. /\ n \in 1 .. Len(s) + 1
      /\ \A m \in 1 .. n - 1 : s[m][2] < r[1]
      /\ n <= Len(s) => s[n][2] >= r[1]
  BY <1>1, InsertPositionFacts
<1>3. r[1] \in Nat /\ r[2] \in Nat /\ \A m \in 1 .. Len(s) : s[m][1] \in Nat /\ s[m][2] \in Nat
  BY <1>1, RangeFacts
<1>4. \A m \in 1 .. Len(s) : s[m][1] < s[m][2]
  BY DEF SortedList
<1>5. \A l, m \in 1 .. Len(s) : l < m => s[l][1] < s[m][1]
  BY DEF SortedList
<1>6. n \in 1 .. Len(s) => d \in Ranges /\ d[1] \in Nat /\ d[2] \in Nat
  BY <1>1, MergeFacts, RangeFacts
<1> HIDE DEF n, d
<1>7. CASE r[2] <= r[1] \/ AddRangeFails(s, r)
  BY <1>7 DEF boot_mem_add_range
<1>8. CASE ~ (r[2] <= r[1] \/ AddRangeFails(s, r))
  <2>0. r[1] < r[2]
    BY <1>3, <1>8
  <2>1. CASE /\ n <= Len(s) /\ boot_mem_overlap(s[n], r)
             /\ n + 1 <= Len(s) /\ boot_mem_overlap(d, s[n + 1])
    <3> DEFINE u == [s EXCEPT ![n] = boot_mem_merge(d, s[n + 1])]
    <3>1. t = boot_mem_remove(u, n + 1)
      BY <1>8, <2>1 DEF boot_mem_add_range, n, d
    <3>2. boot_mem_merge(d, s[n + 1]) \in Ranges
      <4>1. n + 1 \in 1 .. Len(s) /\ n \in 1 .. Len(s)
        BY <1>1, <1>2, <2>1
      <4> QED BY <1>1, <1>6, <4>1, MergeFacts
    <3>3. Len(u) = Len(s) /\ \A m \in 1 .. Len(s) : u[m] = IF m = n THEN boot_mem_merge(d, s[n + 1]) ELSE s[m]
      BY <1>1
    <3> HIDE DEF u
    <3>4. t = [m \in 1 .. Len(s) - 1 |-> IF m < n + 1 THEN u[m] ELSE u[m + 1]]
      BY <3>1, <3>3 DEF boot_mem_remove
    <3>5. \A m \in 1 .. Len(s) : u[m] \in Ranges
      BY <1>1, <3>2, <3>3
    <3>6. t \in [1 .. Len(s) - 1 -> Ranges] /\ Len(s) - 1 \in Nat
      <4>1. ASSUME NEW m \in 1 .. Len(s) - 1
            PROVE  (IF m < n + 1 THEN u[m] ELSE u[m + 1]) \in Ranges
        <5>1. m \in 1 .. Len(s) /\ m + 1 \in 1 .. Len(s)
          BY <1>1
        <5> QED BY <3>5, <5>1
      <4>2. Len(s) - 1 \in Nat
        BY <1>1, <1>2, <2>1
      <4> QED BY <3>4, <4>1, <4>2
    <3> HIDE DEF t
    <3>7. t \in Seq(Ranges) /\ Len(t) = Len(s) - 1
      BY <3>6, FunctionList
    <3>8. t[n] = boot_mem_merge(d, s[n + 1])
      <4>1. n \in 1 .. Len(s) - 1 /\ n \in 1 .. Len(s) /\ n < n + 1
        BY <1>1, <1>2, <2>1
      <4> QED BY <3>3, <3>4, <4>1
    <3>9. \A m \in 1 .. n - 1 : t[m] = s[m]
      <4> TAKE m \in 1 .. n - 1
      <4>1. m \in 1 .. Len(s) - 1 /\ m \in 1 .. Len(s) /\ m < n + 1 /\ m # n
        BY <1>1, <1>2, <2>1
      <4> QED BY <3>3, <3>4, <4>1
    <3>10. \A m \in n + 1 .. Len(s) - 1 : t[m] = s[m + 1]
      <4> TAKE m \in n + 1 .. Len(s) - 1
      <4>1. m \in 1 .. Len(s) - 1 /\ m + 1 \in 1 .. Len(s) /\ ~ (m < n + 1) /\ m + 1 # n
        BY <1>1, <1>2, <2>1
      <4> QED BY <3>3, <3>4, <4>1
    <3>11. s[n + 1][1] <= d[2]
      <4>1. n \in 1 .. Len(s) /\ n + 1 \in 1 .. Len(s)
        BY <1>1, <1>2, <2>1
      <4> QED BY <1>3, <1>4, <1>6, <2>1, <4>1 DEF boot_mem_overlap
    <3>12. Absorbed(s, t, r, n)
      <4>1. n \in 1 .. Len(s) - 1
        BY <1>1, <1>2, <2>1
      <4> QED BY <2>1, <3>7, <3>8, <3>9, <3>10, <3>11, <4>1 DEF Absorbed, d
    <3>13. t \in RangeList
      BY <1>1, <3>7 DEF RangeList, Ranges
    <3> QED BY <1>2, <1>8, <2>0, <3>12, <3>13 DEF Changed, t, n
  <2>2. CASE /\ n <= Len(s) /\ boot_mem_overlap(s[n], r)
             /\ ~ (n + 1 <= Len(s) /\ boot_mem_overlap(d, s[n + 1]))
    <3>1. t = [s EXCEPT ![n] = d]
      BY <1>8, <2>2 DEF boot_mem_add_range, n, d
    <3>2. n \in 1 .. Len(s)
      BY <1>1, <1>2, <2>2
    <3>3. t \in Seq(Ranges) /\ Len(t) = Len(s)
      BY <1>1, <1>6, <3>1, <3>2
    <3>4. t[n] = d /\ \A m \in 1 .. Len(s) : m # n => t[m] = s[m]
      BY <1>1, <3>1, <3>2
    <3>5. n + 1 <= Len(s) => d[2] < s[n + 1][1]
      <4> HAVE n + 1 <= Len(s)
      <4>1. n + 1 \in 1 .. Len(s)
        BY <1>1, <1>2
      <4>2. d[1] <= s[n][1]
        BY <1>1, <1>3, <3>2, MergeFacts DEF d
      <4>3. s[n][1] < s[n + 1][1]
        BY <1>1, <1>5, <3>2, <4>1
      <4> QED BY <1>3, <1>6, <2>2, <3>2, <4>1, <4>2, <4>3 DEF boot_mem_overlap
    <3> HIDE DEF t
    <3>6. Extended(s, t, r, n)
      BY <2>2, <3>2, <3>3, <3>4, <3>5 DEF Extended, d
    <3>7. t \in RangeList
      BY <1>1, <3>3 DEF RangeList, Ranges
    <3> QED BY <1>2, <1>8, <2>0, <3>6, <3>7 DEF Changed, t, n
  <2>3. CASE ~ (n <= Len(s) /\ boot_mem_overlap(s[n], r))
    <3>1. t = boot_mem_insert(s, r, n)
      BY <1>8, <2>3 DEF boot_mem_add_range, n
    <3>2. Len(s) < BOOT_MEM_RANGES
      <4>1. Len(s) # BOOT_MEM_RANGES
        BY <1>8, <2>0, <2>3, Zenon DEF AddRangeFails, n
      <4>2. Len(s) \in Nat /\ Len(s) <= BOOT_MEM_RANGES /\ BOOT_MEM_RANGES \in Nat
        BY <1>1
      <4> QED BY <4>1, <4>2
    <3>3. t = [m \in 1 .. Len(s) + 1 |-> IF m < n THEN s[m] ELSE IF m = n THEN r ELSE s[m - 1]]
      BY <3>1 DEF boot_mem_insert
    <3>4. t \in [1 .. Len(s) + 1 -> Ranges]
      <4>1. ASSUME NEW m \in 1 .. Len(s) + 1
            PROVE  (IF m < n THEN s[m] ELSE IF m = n THEN r ELSE s[m - 1]) \in Ranges
        <5>1. (m < n => m \in 1 .. Len(s)) /\ (m > n => m - 1 \in 1 .. Len(s))
          BY <1>1, <1>2
        <5>2. m < n \/ m = n \/ m > n
          BY <1>1, <1>2
        <5> QED BY <1>1, <5>1, <5>2
      <4> QED BY <3>3, <4>1
    <3> HIDE DEF t
    <3>5. t \in Seq(Ranges) /\ Len(t) = Len(s) + 1
      <4>1. Len(s) + 1 \in Nat
        BY <1>1
      <4> QED BY <3>4, <4>1, FunctionList
    <3>6. t[n] = r
      BY <1>1, <1>2, <3>3
    <3>7. \A m \in 1 .. n - 1 : t[m] = s[m]
      <4> TAKE m \in 1 .. n - 1
      <4>1. m \in 1 .. Len(s) + 1 /\ m < n
        BY <1>1, <1>2
      <4> QED BY <3>3, <4>1
    <3>8. \A m \in n + 1 .. Len(s) + 1 : t[m] = s[m - 1]
      <4> TAKE m \in n + 1 .. Len(s) + 1
      <4>1. m \in 1 .. Len(s) + 1 /\ ~ (m < n) /\ m # n
        BY <1>1, <1>2
      <4> QED BY <3>3, <4>1
    <3>9. n <= Len(s) => r[1] < s[n][1]
      <4> HAVE n <= Len(s)
      <4>1. n \in 1 .. Len(s)
        BY <1>1, <1>2
      <4> QED BY <1>2, <1>3, <2>3, <4>1 DEF boot_mem_overlap
    <3>10. Inserted(s, t, r, n)
      BY <1>2, <2>3, <3>5, <3>6, <3>7, <3>8, <3>9 DEF Inserted
    <3>11. t \in RangeList
      BY <1>1, <3>2, <3>5 DEF RangeList, Ranges
    <3> QED BY <1>2, <1>8, <2>0, <3>10, <3>11 DEF Changed, t, n
  <2> QED BY <2>1, <2>2, <2>3
<1> QED BY <1>7, <1>8

-----------------------------------------------------------------------------
(* Order, coverage and separation of a list that has a range added.        *)

\* Where a list stays as it was or is changed in one of the three ways, its
\* ranges stay non-empty and sorted by where they begin.
LEMMA ChangedSorted ==
    ASSUME NEW s \in Seq(Ranges), NEW t \in Seq(Ranges), NEW r \in Ranges, NEW n,
           SortedList(s), Changed(s, t, r, n)
    PROVE  SortedList(t)
<1>1. /\ Len(s) \in Nat /\ Len(t) \in Nat
      /\ r[1] \in Nat /\ r[2] \in Nat /\ r[1] < r[2]
      /\ \A m \in 1 .. Len(s) : s[m] \in Ranges /\ s[m][1] \in Nat /\ s[m][2] \in Nat /\ s[m][1] < s[m][2]
      /\ \A l, m \in 1 .. Len(s) : l < m => s[l][1] < s[m][1]
      /\ \A m \in 1 .. n - 1 : m <= Len(s) => s[m][2] < r[1]
  <2>1. /\ r[1] \in Nat /\ r[2] \in Nat
        /\ \A m \in 1 .. Len(s) : s[m] \in Ranges /\ s[m][1] \in Nat /\ s[m][2] \in Nat
    BY RangeFacts
  <2>2. r[1] < r[2] /\ \A m \in 1 .. n - 1 : m <= Len(s) => s[m][2] < r[1]
    BY DEF Changed
  <2>3. /\ \A m \in 1 .. Len(s) : s[m][1] < s[m][2]
        /\ \A l, m \in 1 .. Len(s) : l < m => s[l][1] < s[m][1]
    BY DEF SortedList
  <2> QED BY <2>1, <2>2, <2>3
<1>2. CASE Extended(s, t, r, n)
  <2>1. /\ n \in 1 .. Len(s)
        /\ t[n][1] = (IF r[1] < s[n][1] THEN r[1] ELSE s[n][1])
        /\ t[n][2] = (IF r[2] > s[n][2] THEN r[2] ELSE s[n][2])
    BY <1>1, <1>2, MergeFacts DEF Extended
  <2>2. \A m \in 1 .. Len(s) : m # n => t[m] = s[m]
    BY <1>2 DEF Extended
  <2>3. \A m \in 1 .. n - 1 : s[m][1] < t[n][1]
    <3> TAKE m \in 1 .. n - 1
    <3>1. m \in 1 .. Len(s) /\ m < n /\ m <= Len(s)
      BY <1>1, <2>1
    <3>2. s[m][1] \in Nat /\ s[m][2] \in Nat /\ s[m][1] < s[m][2] /\ s[m][2] < r[1] /\ s[m][1] < s[n][1]
      BY <1>1, <2>1, <3>1
    <3>3. s[n][1] \in Nat /\ r[1] \in Nat
      BY <1>1, <2>1
    <3> QED BY <2>1, <3>2, <3>3
  <2>4. \A m \in n + 1 .. Len(s) : t[n][1] < s[m][1]
    BY <1>1, <2>1
  <2>5. Len(t) = Len(s)
    BY <1>2 DEF Extended
  <2>6. t[n][1] < t[n][2]
    <3>1. s[n][1] \in Nat /\ s[n][2] \in Nat /\ s[n][1] < s[n][2]
      BY <1>1, <2>1
    <3> QED BY <1>1, <2>1, <3>1
  <2>7. \A m \in 1 .. Len(s) : t[m][1] < t[m][2]
    BY <1>1, <2>2, <2>6
  <2>8. ASSUME NEW l \in 1 .. Len(s), NEW m \in 1 .. Len(s), l < m PROVE t[l][1] < t[m][1]
    <3>1. CASE l = n
      <4>1. m \in n + 1 .. Len(s) /\ m # n
        BY <1>1, <2>1, <2>8, <3>1
      <4> QED BY <2>2, <2>4, <3>1, <4>1
    <3>2. CASE m = n
      <4>1. l \in 1 .. n - 1 /\ l # n
        BY <1>1, <2>1, <2>8, <3>2
      <4> QED BY <2>2, <2>3, <3>2, <4>1
    <3>3. CASE l # n /\ m # n
      BY <1>1, <2>2, <2>8, <3>3
    <3> QED BY <3>1, <3>2, <3>3
  <2> QED BY <2>5, <2>7, <2>8 DEF SortedList
<1>3. CASE Absorbed(s, t, r, n)
  <2> DEFINE d == boot_mem_merge(s[n], r)
  <2>0. n \in 1 .. Len(s) - 1 /\ n \in 1 .. Len(s) /\ n + 1 \in 1 .. Len(s)
    BY <1>1, <1>3 DEF Absorbed
  <2>1. /\ n \in 1 .. Len(s) - 1 /\ n \in 1 .. Len(s) /\ n + 1 \in 1 .. Len(s)
        /\ d \in Ranges /\ d[1] \in Nat /\ d[2] \in Nat
        /\ d[1] = (IF r[1] < s[n][1] THEN r[1] ELSE s[n][1])
        /\ d[2] = (IF r[2] > s[n][2] THEN r[2] ELSE s[n][2])
    <3>1. s[n] \in Ranges
      BY <1>1, <2>0
    <3> QED BY <2>0, <3>1, MergeFacts, RangeFacts
  <2>2. t[n] = boot_mem_merge(d, s[n + 1])
    BY <1>3 DEF Absorbed
  <2> HIDE DEF d
  <2>3. t[n][1] = d[1] /\ t[n][2] \in Nat /\ t[n][2] >= d[2]
    <3>1. /\ t[n][1] = (IF s[n + 1][1] < d[1] THEN s[n + 1][1] ELSE d[1])
          /\ t[n][2] = (IF s[n + 1][2] > d[2] THEN s[n + 1][2] ELSE d[2])
      BY <1>1, <2>1, <2>2, MergeFacts
    <3>2. s[n][1] < s[n + 1][1] /\ s[n][1] \in Nat /\ s[n + 1][1] \in Nat /\ s[n + 1][2] \in Nat
      <4>1. n < n + 1
        BY <2>0
      <4> QED BY <1>1, <2>0, <4>1
    <3>3. /\ r[1] \in Nat /\ d[1] \in Nat /\ d[2] \in Nat
          /\ d[1] = (IF r[1] < s[n][1] THEN r[1] ELSE s[n][1])
      BY <1>1, <2>1
    <3>4. d[1] <= s[n][1]
      BY <3>2, <3>3
    <3>5. ~ (s[n + 1][1] < d[1])
      BY <3>2, <3>3, <3>4
    <3> QED BY <3>1, <3>2, <3>3, <3>5
  <2>4. /\ Len(t) = Len(s) - 1
        /\ \A m \in 1 .. n - 1 : t[m] = s[m]
        /\ \A m \in n + 1 .. Len(s) - 1 : t[m] = s[m + 1]
    BY <1>3 DEF Absorbed
  <2>5. t[n][1] < t[n][2]
    <3>1. /\ s[n][1] \in Nat /\ s[n][2] \in Nat /\ s[n][1] < s[n][2]
          /\ r[1] \in Nat /\ r[2] \in Nat
      BY <1>1, <2>0
    <3>2. d[1] < d[2]
      BY <2>1, <3>1
    <3> QED BY <2>1, <2>3, <3>2
  <2>6. \A m \in 1 .. n - 1 : t[m][1] < t[n][1] /\ m \in 1 .. Len(s)
    <3> TAKE m \in 1 .. n - 1
    <3>1. m \in 1 .. Len(s) /\ m < n /\ m <= Len(s)
      BY <1>1, <2>0
    <3>2. s[m][1] \in Nat /\ s[m][2] \in Nat /\ s[m][1] < s[m][2] /\ s[m][2] < r[1] /\ s[m][1] < s[n][1]
      BY <1>1, <2>0, <3>1
    <3>3. s[n][1] \in Nat /\ r[1] \in Nat
      BY <1>1, <2>0
    <3> QED BY <2>1, <2>3, <2>4, <3>1, <3>2, <3>3
  <2>7. \A m \in n + 1 .. Len(s) - 1 : t[n][1] < t[m][1] /\ m + 1 \in 1 .. Len(s)
    <3> TAKE m \in n + 1 .. Len(s) - 1
    <3>1. m + 1 \in 1 .. Len(s) /\ n < m + 1
      BY <1>1, <2>0
    <3>2. s[m + 1][1] \in Nat /\ s[n][1] < s[m + 1][1]
      BY <1>1, <2>0, <3>1
    <3>3. s[n][1] \in Nat /\ r[1] \in Nat
      BY <1>1, <2>0
    <3> QED BY <2>1, <2>3, <2>4, <3>1, <3>2, <3>3
  <2>8. ASSUME NEW m \in 1 .. Len(t) PROVE t[m][1] < t[m][2]
    <3>1. m \in 1 .. n - 1 \/ m = n \/ m \in n + 1 .. Len(s) - 1
      BY <1>1, <2>1, <2>4
    <3> QED BY <1>1, <2>4, <2>5, <2>6, <2>7, <3>1
  <2>9. ASSUME NEW l \in 1 .. Len(t), NEW m \in 1 .. Len(t), l < m PROVE t[l][1] < t[m][1]
    <3>1. l \in 1 .. n - 1 \/ l = n \/ l \in n + 1 .. Len(s) - 1
      BY <1>1, <2>1, <2>4
    <3>2. m \in 1 .. n - 1 \/ m = n \/ m \in n + 1 .. Len(s) - 1
      BY <1>1, <2>1, <2>4
    <3>3. CASE l \in 1 .. n - 1 /\ m \in n + 1 .. Len(s) - 1
      <4>1. l \in 1 .. Len(s) /\ m + 1 \in 1 .. Len(s) /\ l < m + 1
        BY <2>6, <2>7, <2>9, <3>3
      <4> QED BY <1>1, <2>4, <3>3, <4>1
    <3>4. CASE l \in n + 1 .. Len(s) - 1 /\ m \in n + 1 .. Len(s) - 1
      <4>1. l + 1 \in 1 .. Len(s) /\ m + 1 \in 1 .. Len(s) /\ l + 1 < m + 1
        BY <2>7, <2>9, <3>4
      <4> QED BY <1>1, <2>4, <3>4, <4>1
    <3>5. CASE l \in 1 .. n - 1 /\ m \in 1 .. n - 1
      BY <1>1, <2>4, <2>6, <2>9, <3>5
    <3> QED BY <2>1, <2>6, <2>7, <2>9, <3>1, <3>2, <3>3, <3>4, <3>5
  <2> QED BY <2>8, <2>9 DEF SortedList
<1>4. CASE Inserted(s, t, r, n)
  <2>1. /\ n \in 1 .. Len(s) + 1 /\ n \in Nat
        /\ n <= Len(s) => r[1] < s[n][1]
        /\ Len(t) = Len(s) + 1 /\ t[n] = r
        /\ \A m \in 1 .. n - 1 : t[m] = s[m]
        /\ \A m \in n + 1 .. Len(s) + 1 : t[m] = s[m - 1]
    BY <1>4 DEF Inserted
  <2>2. \A m \in 1 .. n - 1 : m \in 1 .. Len(s) /\ t[m][1] < r[1]
    <3> TAKE m \in 1 .. n - 1
    <3>1. m \in 1 .. Len(s)
      BY <1>1, <2>1
    <3> QED BY <1>1, <2>1, <3>1
  <2>3. \A m \in n + 1 .. Len(s) + 1 : m - 1 \in 1 .. Len(s) /\ r[1] < t[m][1]
    <3> TAKE m \in n + 1 .. Len(s) + 1
    <3>1. m - 1 \in 1 .. Len(s) /\ n \in 1 .. Len(s) /\ (n = m - 1 \/ n < m - 1)
      BY <1>1, <2>1
    <3>2. s[n][1] = s[m - 1][1] \/ s[n][1] < s[m - 1][1]
      BY <1>1, <3>1
    <3>3. s[n][1] \in Nat /\ s[m - 1][1] \in Nat /\ r[1] < s[n][1] /\ t[m] = s[m - 1]
      BY <1>1, <2>1, <3>1
    <3> QED BY <1>1, <3>1, <3>2, <3>3
  <2>4. ASSUME NEW m \in 1 .. Len(t)
        PROVE  m \in 1 .. n - 1 \/ m = n \/ m \in n + 1 .. Len(s) + 1
    BY <1>1, <2>1
  <2>5. ASSUME NEW m \in 1 .. Len(t) PROVE t[m][1] < t[m][2]
    BY <1>1, <2>1, <2>2, <2>3, <2>4
  <2>6. ASSUME NEW l \in 1 .. Len(t), NEW m \in 1 .. Len(t), l < m PROVE t[l][1] < t[m][1]
    <3>1. CASE l \in 1 .. n - 1 /\ m \in n + 1 .. Len(s) + 1
      <4>1. l \in 1 .. Len(s) /\ m - 1 \in 1 .. Len(s) /\ l < m - 1
        BY <2>1, <2>2, <2>3, <3>1
      <4> QED BY <1>1, <2>1, <3>1, <4>1
    <3>2. CASE l \in n + 1 .. Len(s) + 1 /\ m \in n + 1 .. Len(s) + 1
      <4>1. l - 1 \in 1 .. Len(s) /\ m - 1 \in 1 .. Len(s) /\ l - 1 < m - 1
        BY <2>1, <2>3, <2>6, <3>2
      <4> QED BY <1>1, <2>1, <3>2, <4>1
    <3>3. CASE l \in 1 .. n - 1 /\ m \in 1 .. n - 1
      BY <1>1, <2>1, <2>2, <2>6, <3>3
    <3> QED BY <2>1, <2>2, <2>3, <2>4, <2>6, <3>1, <3>2, <3>3
  <2> QED BY <2>5, <2>6 DEF SortedList
<1> QED BY <1>2, <1>3, <1>4 DEF Changed

\* Ranges that overlap or touch merge into one without a gap.
LEMMA MergeCovers ==
    ASSUME NEW q \in Ranges, NEW r \in Ranges, q[1] < q[2], r[1] < r[2],
           q[1] <= r[2], r[1] <= q[2]
    PROVE  RangeAddrs(boot_mem_merge(q, r)) = RangeAddrs(q) \cup RangeAddrs(r)
<1>1. q[1] \in Nat /\ q[2] \in Nat /\ r[1] \in Nat /\ r[2] \in Nat
  BY RangeFacts
<1> DEFINE d == boot_mem_merge(q, r)
<1>2. /\ d[1] = (IF r[1] < q[1] THEN r[1] ELSE q[1])
      /\ d[2] = (IF r[2] > q[2] THEN r[2] ELSE q[2])
  BY MergeFacts
<1> HIDE DEF d
<1>3. \A x \in Int : x \in d[1] .. d[2] - 1 <=> (x \in q[1] .. q[2] - 1 \/ x \in r[1] .. r[2] - 1)
  BY <1>1, <1>2
<1> QED BY <1>1, <1>2, <1>3 DEF RangeAddrs, d

\* boot_mem_overlap holds of ranges that at least touch.
LEMMA OverlapTouches ==
    ASSUME NEW q \in Ranges, NEW r \in Ranges, r[1] < r[2], boot_mem_overlap(q, r)
    PROVE  q[1] <= r[2] /\ r[1] <= q[2]
BY RangeFacts DEF boot_mem_overlap

\* Every address that was covered stays covered, every address of the new range
\* is covered, and no other.
LEMMA ChangedCovered ==
    ASSUME NEW s \in Seq(Ranges), NEW t \in Seq(Ranges), NEW r \in Ranges, NEW n,
           SortedList(s), Changed(s, t, r, n)
    PROVE  Covered(t) = Covered(s) \cup RangeAddrs(r)
<1>1. /\ Len(s) \in Nat /\ Len(t) \in Nat /\ r[1] < r[2]
      /\ \A m \in 1 .. Len(s) : s[m] \in Ranges /\ s[m][1] < s[m][2]
  BY DEF SortedList, Changed
<1>2. \A u : Covered(u) = UNION {RangeAddrs(u[m]) : m \in 1 .. Len(u)}
  BY DEF Covered
<1>3. CASE Extended(s, t, r, n)
  <2>1. /\ n \in 1 .. Len(s) /\ Len(t) = Len(s)
        /\ boot_mem_overlap(s[n], r)
        /\ t[n] = boot_mem_merge(s[n], r)
        /\ \A m \in 1 .. Len(s) : m # n => t[m] = s[m]
    BY <1>3 DEF Extended
  <2>2. RangeAddrs(t[n]) = RangeAddrs(s[n]) \cup RangeAddrs(r)
    BY <1>1, <2>1, MergeCovers, OverlapTouches
  <2>3. ASSUME NEW x \in Covered(t) PROVE x \in Covered(s) \cup RangeAddrs(r)
    BY <1>2, <2>1, <2>2
  <2>4. ASSUME NEW x \in Covered(s) \cup RangeAddrs(r) PROVE x \in Covered(t)
    <3>1. CASE x \in RangeAddrs(r) \/ x \in RangeAddrs(s[n])
      BY <1>2, <2>1, <2>2, <3>1
    <3>2. CASE ~ (x \in RangeAddrs(r) \/ x \in RangeAddrs(s[n]))
      <4>1. PICK m \in 1 .. Len(s) : x \in RangeAddrs(s[m])
        BY <1>2, <2>4, <3>2
      <4>2. m # n
        BY <3>2, <4>1
      <4> QED BY <1>2, <2>1, <4>1, <4>2
    <3> QED BY <3>1, <3>2
  <2> QED BY <2>3, <2>4
<1>4. CASE Absorbed(s, t, r, n)
  <2> DEFINE d == boot_mem_merge(s[n], r)
  <2>1. /\ n \in 1 .. Len(s) - 1 /\ Len(t) = Len(s) - 1
        /\ boot_mem_overlap(s[n], r)
        /\ s[n + 1][1] <= d[2]
        /\ t[n] = boot_mem_merge(d, s[n + 1])
        /\ \A m \in 1 .. n - 1 : t[m] = s[m]
        /\ \A m \in n + 1 .. Len(s) - 1 : t[m] = s[m + 1]
    BY <1>4 DEF Absorbed
  <2>2. n \in 1 .. Len(s) /\ n + 1 \in 1 .. Len(s) /\ n \in 1 .. Len(t) /\ n \in Int
    BY <1>1, <2>1
  <2>3. d \in Ranges /\ RangeAddrs(d) = RangeAddrs(s[n]) \cup RangeAddrs(r)
    BY <1>1, <2>1, <2>2, MergeCovers, MergeFacts, OverlapTouches
  <2>4. d[1] < d[2] /\ d[1] <= s[n + 1][2]
    <3>1. /\ d[1] = (IF r[1] < s[n][1] THEN r[1] ELSE s[n][1])
          /\ d[2] = (IF r[2] > s[n][2] THEN r[2] ELSE s[n][2])
      BY <1>1, <2>2, MergeFacts
    <3>2. /\ r[1] \in Nat /\ r[2] \in Nat
          /\ s[n][1] \in Nat /\ s[n][2] \in Nat /\ s[n + 1][1] \in Nat /\ s[n + 1][2] \in Nat
      BY <1>1, <2>2, RangeFacts
    <3>3. s[n][1] < s[n + 1][1]
      BY <2>2 DEF SortedList
    <3>4. s[n][1] < s[n][2] /\ s[n + 1][1] < s[n + 1][2]
      BY <1>1, <2>2
    <3> HIDE DEF d
    <3>5. d[1] <= s[n][1] /\ d[1] \in Nat
      BY <3>1, <3>2
    <3>6. s[n][2] <= d[2] /\ d[2] \in Nat
      BY <3>1, <3>2
    <3>7. s[n][1] < d[2]
      BY <3>2, <3>4, <3>6
    <3>8. d[1] < s[n + 1][1]
      BY <3>2, <3>3, <3>5
    <3> QED BY <3>2, <3>4, <3>5, <3>6, <3>7, <3>8
  <2> HIDE DEF d
  <2>5. RangeAddrs(t[n]) = RangeAddrs(s[n]) \cup RangeAddrs(r) \cup RangeAddrs(s[n + 1])
    BY <1>1, <2>1, <2>2, <2>3, <2>4, MergeCovers
  <2>6. ASSUME NEW x \in Covered(t) PROVE x \in Covered(s) \cup RangeAddrs(r)
    <3>1. PICK m \in 1 .. Len(t) : x \in RangeAddrs(t[m])
      BY <1>2, <2>6
    <3>2. m \in 1 .. n - 1 \/ m = n \/ m \in n + 1 .. Len(s) - 1
      BY <1>1, <2>1, <2>2
    <3>3. CASE m \in 1 .. n - 1
      <4>1. m \in 1 .. Len(s) /\ t[m] = s[m]
        BY <1>1, <2>1, <3>3
      <4> QED BY <1>2, <3>1, <4>1
    <3>4. CASE m \in n + 1 .. Len(s) - 1
      <4>1. m + 1 \in 1 .. Len(s) /\ t[m] = s[m + 1]
        BY <1>1, <2>1, <3>4
      <4> QED BY <1>2, <3>1, <4>1
    <3>5. CASE m = n
      BY <1>2, <2>2, <2>5, <3>1, <3>5
    <3> QED BY <3>2, <3>3, <3>4, <3>5
  <2>7. ASSUME NEW x \in Covered(s) \cup RangeAddrs(r) PROVE x \in Covered(t)
    <3>1. CASE x \in RangeAddrs(t[n])
      BY <1>2, <2>2, <3>1
    <3>2. CASE x \notin RangeAddrs(t[n])
      <4>1. PICK m \in 1 .. Len(s) : x \in RangeAddrs(s[m])
        BY <1>2, <2>5, <2>7, <3>2
      <4>2. m # n /\ m # n + 1
        BY <2>5, <3>2, <4>1
      <4>3. m \in 1 .. n - 1 \/ m - 1 \in n + 1 .. Len(s) - 1
        BY <1>1, <2>1, <2>2, <4>2
      <4>4. CASE m \in 1 .. n - 1
        <5>1. m \in 1 .. Len(t) /\ t[m] = s[m]
          BY <1>1, <2>1, <4>4
        <5> QED BY <1>2, <4>1, <5>1
      <4>5. CASE m - 1 \in n + 1 .. Len(s) - 1
        <5>1. m - 1 \in 1 .. Len(t) /\ t[m - 1] = s[(m - 1) + 1] /\ (m - 1) + 1 = m
          BY <1>1, <2>1, <4>5
        <5> QED BY <1>2, <4>1, <5>1
      <4> QED BY <4>3, <4>4, <4>5
    <3> QED BY <3>1, <3>2
  <2> QED BY <2>6, <2>7
<1>5. CASE Inserted(s, t, r, n)
  <2>0. /\ n \in 1 .. Len(s) + 1
        /\ Len(t) = Len(s) + 1 /\ t[n] = r
        /\ \A m \in 1 .. n - 1 : t[m] = s[m]
        /\ \A m \in n + 1 .. Len(s) + 1 : t[m] = s[m - 1]
    BY <1>5, Zenon DEF Inserted
  <2>1. n \in Int
    BY <2>0
  <2>2. ASSUME NEW x \in Covered(t) PROVE x \in Covered(s) \cup RangeAddrs(r)
    <3>1. PICK m \in 1 .. Len(t) : x \in RangeAddrs(t[m])
      BY <1>2, <2>2
    <3>2. m \in 1 .. n - 1 \/ m = n \/ m \in n + 1 .. Len(s) + 1
      BY <1>1, <2>0, <2>1
    <3>3. CASE m \in 1 .. n - 1
      <4>1. m \in 1 .. Len(s) /\ t[m] = s[m]
        BY <1>1, <2>0, <2>1, <3>3
      <4> QED BY <1>2, <3>1, <4>1
    <3>4. CASE m \in n + 1 .. Len(s) + 1
      <4>1. m - 1 \in 1 .. Len(s) /\ t[m] = s[m - 1]
        BY <1>1, <2>0, <2>1, <3>4
      <4> QED BY <1>2, <3>1, <4>1
    <3> QED BY <2>0, <2>1, <3>1, <3>2, <3>3, <3>4
  <2>3. ASSUME NEW x \in Covered(s) \cup RangeAddrs(r) PROVE x \in Covered(t)
    <3>1. CASE x \in RangeAddrs(r)
      BY <1>1, <1>2, <2>0, <2>1, <3>1
    <3>2. CASE x \notin RangeAddrs(r)
      <4>1. PICK m \in 1 .. Len(s) : x \in RangeAddrs(s[m])
        BY <1>2, <2>3, <3>2
      <4>2. m \in 1 .. n - 1 \/ m + 1 \in n + 1 .. Len(s) + 1
        BY <1>1, <2>0, <2>1
      <4>3. CASE m \in 1 .. n - 1
        <5>1. m \in 1 .. Len(t) /\ t[m] = s[m]
          BY <1>1, <2>0, <2>1, <4>3
        <5> QED BY <1>2, <4>1, <5>1
      <4>4. CASE m + 1 \in n + 1 .. Len(s) + 1
        <5>1. t[m + 1] = s[(m + 1) - 1]
          BY <2>0, <2>1, <4>4
        <5>2. m + 1 \in 1 .. Len(t) /\ (m + 1) - 1 = m
          BY <1>1, <2>0, <2>1
        <5> QED BY <1>2, <4>1, <5>1, <5>2
      <4> QED BY <4>2, <4>3, <4>4
    <3> QED BY <3>1, <3>2
  <2> QED BY <2>2, <2>3
<1> QED BY <1>3, <1>4, <1>5 DEF Changed

\* A range added to either list: the list keeps its order, and it covers what
\* it covered and the range, unless it was full.
LEMMA AddRangeKeepsOrder ==
    ASSUME NEW s \in RangeList, SortedList(s), NEW r \in Ranges
    PROVE  LET t == boot_mem_add_range(s, r)
           IN  /\ t \in RangeList /\ SortedList(t) /\ Len(t) <= Len(s) + 1
               /\ AddIsExact(s, t, r)
               /\ Covered(s) \subseteq Covered(t)
               /\ ~ AddRangeFails(s, r) => Covered(t) = Covered(s) \cup RangeAddrs(r)
<1> DEFINE t == boot_mem_add_range(s, r)
<1>1. /\ t \in RangeList
      /\ IF r[2] <= r[1] \/ AddRangeFails(s, r) THEN t = s
         ELSE Changed(s, t, r, InsertPosition(s, r))
  BY AddRangeShape
<1> HIDE DEF t
<1>2. s \in Seq(Ranges) /\ t \in Seq(Ranges) /\ Len(s) \in Nat
  BY <1>1 DEF RangeList, Ranges
<1>3. CASE r[2] <= r[1]
  <2>1. RangeAddrs(r) = {}
    BY <1>3, RangeFacts DEF RangeAddrs
  <2> QED BY <1>1, <1>2, <1>3, <2>1 DEF AddIsExact, t
<1>4. CASE AddRangeFails(s, r)
  <2>1. Len(s) = BOOT_MEM_RANGES
    BY <1>4 DEF AddRangeFails
  <2> QED BY <1>1, <1>2, <1>4, <2>1 DEF AddIsExact, t
<1>5. CASE ~ (r[2] <= r[1] \/ AddRangeFails(s, r))
  <2>1. Changed(s, t, r, InsertPosition(s, r))
    BY <1>1, <1>5
  <2>2. SortedList(t) /\ Covered(t) = Covered(s) \cup RangeAddrs(r)
    BY <1>2, <2>1, ChangedSorted, ChangedCovered
  <2>3. Len(t) <= Len(s) + 1
    BY <1>2, <2>1 DEF Changed, Extended, Absorbed, Inserted
  <2> QED BY <1>1, <2>2, <2>3 DEF AddIsExact, t
<1> QED BY <1>3, <1>4, <1>5

-----------------------------------------------------------------------------
(* Available memory: pieces that do not overlap never come to touch.       *)

Apart(s) == \A l, m \in 1 .. Len(s) : l < m => s[l][2] < s[m][1]

\* No range of s cuts q: q lies inside it or outside it.
Uncut(s, q) ==
    \A m \in 1 .. Len(s) : \/ s[m][1] <= q[1] /\ q[2] <= s[m][2]
                           \/ q[2] <= s[m][1]
                           \/ s[m][2] <= q[1]

\* An added piece that no range cuts leaves a gap on both sides, or closes it.
LEMMA ChangedApart ==
    ASSUME NEW s \in Seq(Ranges), NEW t \in Seq(Ranges), NEW r \in Ranges, NEW n,
           SortedList(s), Apart(s), Uncut(s, r), Changed(s, t, r, n)
    PROVE  Apart(t)
<1>1. /\ Len(s) \in Nat /\ Len(t) \in Nat
      /\ r[1] \in Nat /\ r[2] \in Nat /\ r[1] < r[2]
      /\ \A m \in 1 .. Len(s) : s[m] \in Ranges /\ s[m][1] \in Nat /\ s[m][2] \in Nat /\ s[m][1] < s[m][2]
      /\ \A l, m \in 1 .. Len(s) : l < m => s[l][1] < s[m][1] /\ s[l][2] < s[m][1]
      /\ \A m \in 1 .. n - 1 : m <= Len(s) => s[m][2] < r[1]
  <2>1. /\ r[1] \in Nat /\ r[2] \in Nat
        /\ \A m \in 1 .. Len(s) : s[m] \in Ranges /\ s[m][1] \in Nat /\ s[m][2] \in Nat
    BY RangeFacts
  <2>2. r[1] < r[2] /\ \A m \in 1 .. n - 1 : m <= Len(s) => s[m][2] < r[1]
    BY DEF Changed
  <2>3. /\ \A m \in 1 .. Len(s) : s[m][1] < s[m][2]
        /\ \A l, m \in 1 .. Len(s) : l < m => s[l][1] < s[m][1]
    BY DEF SortedList
  <2>4. \A l, m \in 1 .. Len(s) : l < m => s[l][2] < s[m][1]
    BY DEF Apart
  <2> QED BY <2>1, <2>2, <2>3, <2>4
<1>2. CASE Extended(s, t, r, n)
  <2>1. /\ n \in 1 .. Len(s) /\ Len(t) = Len(s)
        /\ t[n] = boot_mem_merge(s[n], r)
        /\ n + 1 <= Len(s) => t[n][2] < s[n + 1][1]
        /\ \A m \in 1 .. Len(s) : m # n => t[m] = s[m]
    BY <1>2 DEF Extended
  <2>2. /\ t[n][1] = (IF r[1] < s[n][1] THEN r[1] ELSE s[n][1])
        /\ t[n] \in Ranges /\ t[n][1] \in Nat /\ t[n][2] \in Nat
    <3>1. s[n] \in Ranges
      BY <1>1, <2>1
    <3>2. t[n] \in Ranges /\ t[n][1] = (IF r[1] < s[n][1] THEN r[1] ELSE s[n][1])
      BY <2>1, <3>1, MergeFacts
    <3> QED BY <3>2, RangeFacts
  <2>3. ASSUME NEW l \in 1 .. Len(s), l < n PROVE t[l][2] < t[n][1]
    <3>1. l \in 1 .. n - 1 /\ l <= Len(s) /\ l # n
      BY <1>1, <2>1, <2>3
    <3>2. s[l][2] < r[1] /\ s[l][2] < s[n][1]
      BY <1>1, <2>1, <2>3, <3>1
    <3> QED BY <2>1, <2>2, <3>1, <3>2
  <2>4. ASSUME NEW m \in 1 .. Len(s), n < m PROVE t[n][2] < t[m][1]
    <3>1. n + 1 \in 1 .. Len(s) /\ m # n /\ (m = n + 1 \/ n + 1 < m)
      BY <1>1, <2>1, <2>4
    <3>2. m = n + 1 \/ s[n + 1][1] < s[m][1]
      BY <1>1, <3>1
    <3>3. t[n][2] < s[n + 1][1] /\ t[m] = s[m]
      BY <1>1, <2>1, <3>1
    <3>4. s[n + 1][1] \in Nat /\ s[m][1] \in Nat
      BY <1>1, <3>1
    <3> QED BY <2>2, <3>2, <3>3, <3>4
  <2>5. ASSUME NEW l \in 1 .. Len(s), NEW m \in 1 .. Len(s), l < m PROVE t[l][2] < t[m][1]
    <3>1. CASE l # n /\ m # n
      BY <1>1, <2>1, <2>5, <3>1
    <3> QED BY <2>3, <2>4, <2>5, <3>1
  <2> QED BY <2>1, <2>5 DEF Apart
<1>3. CASE Absorbed(s, t, r, n)
  <2> DEFINE d == boot_mem_merge(s[n], r)
  <2>1. /\ n \in 1 .. Len(s) - 1 /\ Len(t) = Len(s) - 1
        /\ boot_mem_overlap(s[n], r)
        /\ t[n] = boot_mem_merge(d, s[n + 1])
        /\ \A m \in 1 .. n - 1 : t[m] = s[m]
        /\ \A m \in n + 1 .. Len(s) - 1 : t[m] = s[m + 1]
    BY <1>3 DEF Absorbed
  <2>2. n \in 1 .. Len(s) /\ n + 1 \in 1 .. Len(s) /\ n \in Int /\ n < n + 1
    BY <1>1, <2>1
  <2>3. /\ d \in Ranges /\ d[1] \in Nat /\ d[2] \in Nat
        /\ d[1] = (IF r[1] < s[n][1] THEN r[1] ELSE s[n][1])
        /\ d[2] = (IF r[2] > s[n][2] THEN r[2] ELSE s[n][2])
    <3>1. s[n] \in Ranges
      BY <1>1, <2>2
    <3>2. /\ d \in Ranges
          /\ d[1] = (IF r[1] < s[n][1] THEN r[1] ELSE s[n][1])
          /\ d[2] = (IF r[2] > s[n][2] THEN r[2] ELSE s[n][2])
      BY <3>1, MergeFacts
    <3> HIDE DEF d
    <3> QED BY <3>2, RangeFacts
  <2> HIDE DEF d
  <2>4. /\ t[n][1] = (IF s[n + 1][1] < d[1] THEN s[n + 1][1] ELSE d[1])
        /\ t[n][2] = (IF s[n + 1][2] > d[2] THEN s[n + 1][2] ELSE d[2])
    BY <1>1, <2>1, <2>2, <2>3, MergeFacts
  <2>5. /\ s[n][1] \in Nat /\ s[n][2] \in Nat /\ s[n + 1][1] \in Nat /\ s[n + 1][2] \in Nat
        /\ s[n][1] < s[n][2] /\ s[n + 1][1] < s[n + 1][2]
        /\ s[n][1] < s[n + 1][1] /\ s[n][2] < s[n + 1][1]
    BY <1>1, <2>2
  <2>6. t[n][2] = s[n + 1][2] /\ t[n][1] = d[1]
    <3>1. r[1] <= s[n][2]
      BY <1>1, <2>1, <2>2, OverlapTouches
    <3>2. \/ s[n + 1][1] <= r[1] /\ r[2] <= s[n + 1][2]
          \/ r[2] <= s[n + 1][1]
          \/ s[n + 1][2] <= r[1]
      BY <2>2 DEF Uncut
    <3>3. /\ r[1] \in Nat /\ r[2] \in Nat /\ d[1] \in Nat /\ d[2] \in Nat
      BY <1>1, <2>3
    <3>4. d[1] <= s[n][1]
      BY <2>3, <2>5, <3>3
    <3>5. ~ (s[n + 1][1] < d[1])
      BY <2>5, <3>3, <3>4
    <3>6. r[1] < s[n + 1][1]
      BY <2>5, <3>1, <3>3
    <3>7. r[2] <= s[n + 1][2]
      BY <2>5, <3>2, <3>3, <3>6
    <3>8. s[n][2] <= s[n + 1][2]
      BY <2>5
    <3>9. d[2] <= s[n + 1][2]
      BY <2>3, <3>7, <3>8
    <3>10. t[n][1] = d[1]
      BY <2>4, <3>5
    <3>11. s[n + 1][2] > d[2] \/ s[n + 1][2] = d[2]
      BY <2>5, <3>3, <3>9
    <3> QED BY <2>4, <3>10, <3>11
  <2>7. ASSUME NEW l \in 1 .. n - 1 PROVE t[l][2] < t[n][1] /\ l \in 1 .. Len(s) /\ t[l] = s[l]
    <3>1. l \in 1 .. Len(s) /\ l < n /\ l <= Len(s)
      BY <1>1, <2>1
    <3>2. s[l][2] < r[1] /\ s[l][2] < s[n][1]
      BY <1>1, <2>2, <3>1
    <3> QED BY <2>1, <2>3, <2>6, <3>1, <3>2
  <2>8. ASSUME NEW m \in n + 1 .. Len(s) - 1
        PROVE  t[n][2] < t[m][1] /\ m + 1 \in 1 .. Len(s) /\ t[m] = s[m + 1]
    <3>1. m + 1 \in 1 .. Len(s) /\ n + 1 < m + 1
      BY <1>1, <2>1
    <3>2. s[n + 1][2] < s[m + 1][1]
      BY <1>1, <2>2, <3>1
    <3> QED BY <2>1, <2>6, <3>1, <3>2
  <2>9. ASSUME NEW l \in 1 .. Len(t), NEW m \in 1 .. Len(t), l < m PROVE t[l][2] < t[m][1]
    <3>1. l \in 1 .. n - 1 \/ l = n \/ l \in n + 1 .. Len(s) - 1
      BY <1>1, <2>1, <2>2
    <3>2. m \in 1 .. n - 1 \/ m = n \/ m \in n + 1 .. Len(s) - 1
      BY <1>1, <2>1, <2>2
    <3>3. CASE l \in 1 .. n - 1 /\ m \in n + 1 .. Len(s) - 1
      <4>1. l \in 1 .. Len(s) /\ m + 1 \in 1 .. Len(s) /\ l < m + 1
        BY <2>7, <2>8, <2>9, <3>3
      <4> QED BY <1>1, <2>7, <2>8, <3>3, <4>1
    <3>4. CASE l \in n + 1 .. Len(s) - 1 /\ m \in n + 1 .. Len(s) - 1
      <4>1. l + 1 \in 1 .. Len(s) /\ m + 1 \in 1 .. Len(s) /\ l + 1 < m + 1
        BY <2>8, <2>9, <3>4
      <4> QED BY <1>1, <2>8, <3>4, <4>1
    <3>5. CASE l \in 1 .. n - 1 /\ m \in 1 .. n - 1
      BY <1>1, <2>7, <2>9, <3>5
    <3> QED BY <2>2, <2>7, <2>8, <2>9, <3>1, <3>2, <3>3, <3>4, <3>5
  <2> QED BY <2>9 DEF Apart
<1>4. CASE Inserted(s, t, r, n)
  <2>1. /\ n \in 1 .. Len(s) + 1 /\ n \in Int
        /\ n <= Len(s) => r[1] < s[n][1] /\ ~ boot_mem_overlap(s[n], r)
        /\ Len(t) = Len(s) + 1 /\ t[n] = r
        /\ \A m \in 1 .. n - 1 : t[m] = s[m]
        /\ \A m \in n + 1 .. Len(s) + 1 : t[m] = s[m - 1]
    BY <1>4 DEF Inserted
  <2>2. ASSUME NEW l \in 1 .. n - 1 PROVE t[l][2] < r[1] /\ l \in 1 .. Len(s) /\ t[l] = s[l]
    <3>1. l \in 1 .. Len(s) /\ l <= Len(s)
      BY <1>1, <2>1
    <3> QED BY <1>1, <2>1, <3>1
  <2>3. n <= Len(s) => n \in 1 .. Len(s) /\ r[2] < s[n][1]
    <3> HAVE n <= Len(s)
    <3>1. n \in 1 .. Len(s)
      BY <1>1, <2>1
    <3>2. \/ s[n][1] <= r[1] /\ r[2] <= s[n][2]
          \/ r[2] <= s[n][1]
          \/ s[n][2] <= r[1]
      BY <3>1 DEF Uncut
    <3>3. s[n][1] \in Nat /\ s[n][2] \in Nat /\ s[n][1] < s[n][2]
      BY <1>1, <3>1
    <3> QED BY <1>1, <2>1, <3>1, <3>2, <3>3 DEF boot_mem_overlap
  <2>4. ASSUME NEW m \in n + 1 .. Len(s) + 1
        PROVE  r[2] < t[m][1] /\ m - 1 \in 1 .. Len(s) /\ t[m] = s[m - 1]
    <3>1. m - 1 \in 1 .. Len(s) /\ n <= Len(s) /\ (n = m - 1 \/ n < m - 1)
      BY <1>1, <2>1
    <3>2. n \in 1 .. Len(s) /\ r[2] < s[n][1]
      BY <2>3, <3>1
    <3>3. s[n][1] = s[m - 1][1] \/ s[n][1] < s[m - 1][1]
      BY <1>1, <3>1, <3>2
    <3>4. s[n][1] \in Nat /\ s[m - 1][1] \in Nat
      BY <1>1, <3>1, <3>2
    <3> QED BY <1>1, <2>1, <3>1, <3>2, <3>3, <3>4
  <2>5. ASSUME NEW l \in 1 .. Len(t), NEW m \in 1 .. Len(t), l < m PROVE t[l][2] < t[m][1]
    <3>1. l \in 1 .. n - 1 \/ l = n \/ l \in n + 1 .. Len(s) + 1
      BY <1>1, <2>1
    <3>2. m \in 1 .. n - 1 \/ m = n \/ m \in n + 1 .. Len(s) + 1
      BY <1>1, <2>1
    <3>3. CASE l \in 1 .. n - 1 /\ m \in n + 1 .. Len(s) + 1
      <4>1. l \in 1 .. Len(s) /\ m - 1 \in 1 .. Len(s) /\ l < m - 1
        BY <2>1, <2>2, <2>4, <3>3
      <4> QED BY <1>1, <2>2, <2>4, <3>3, <4>1
    <3>4. CASE l \in n + 1 .. Len(s) + 1 /\ m \in n + 1 .. Len(s) + 1
      <4>1. l - 1 \in 1 .. Len(s) /\ m - 1 \in 1 .. Len(s) /\ l - 1 < m - 1
        BY <2>4, <2>5, <3>4
      <4> QED BY <1>1, <2>4, <3>4, <4>1
    <3>5. CASE l \in 1 .. n - 1 /\ m \in 1 .. n - 1
      BY <1>1, <2>2, <2>5, <3>5
    <3> QED BY <2>1, <2>2, <2>4, <2>5, <3>1, <3>2, <3>3, <3>4, <3>5
  <2> QED BY <2>5 DEF Apart
<1> QED BY <1>2, <1>3, <1>4 DEF Changed

\* A piece that lies outside r, or is r, stays uncut when r is added.
LEMMA ChangedUncut ==
    ASSUME NEW s \in Seq(Ranges), NEW t \in Seq(Ranges), NEW r \in Ranges, NEW n,
           NEW q \in Ranges, q[1] < q[2],
           q = r \/ q[2] <= r[1] \/ r[2] <= q[1],
           SortedList(s), Uncut(s, q), Changed(s, t, r, n)
    PROVE  Uncut(t, q)
<1> DEFINE Beside(d) == \/ d[1] <= q[1] /\ q[2] <= d[2]
                        \/ q[2] <= d[1]
                        \/ d[2] <= q[1]
<1>1. /\ Len(s) \in Nat /\ Len(t) \in Nat
      /\ r[1] \in Nat /\ r[2] \in Nat /\ r[1] < r[2]
      /\ q[1] \in Nat /\ q[2] \in Nat
      /\ \A m \in 1 .. Len(s) : s[m] \in Ranges /\ s[m][1] \in Nat /\ s[m][2] \in Nat /\ s[m][1] < s[m][2]
  BY RangeFacts DEF SortedList, Changed
<1>2. Beside(r) /\ \A m \in 1 .. Len(s) : Beside(s[m])
  BY <1>1 DEF Uncut
<1>3. ASSUME NEW d \in Ranges, NEW e \in Ranges, d[1] < d[2], e[1] < e[2],
             d[1] <= e[2], e[1] <= d[2], Beside(d), Beside(e)
      PROVE  Beside(boot_mem_merge(d, e))
  <2> DEFINE h == boot_mem_merge(d, e)
  <2>1. /\ h[1] = (IF e[1] < d[1] THEN e[1] ELSE d[1])
        /\ h[2] = (IF e[2] > d[2] THEN e[2] ELSE d[2])
    BY MergeFacts
  <2>2. d[1] \in Nat /\ d[2] \in Nat /\ e[1] \in Nat /\ e[2] \in Nat
    BY RangeFacts
  <2> HIDE DEF h
  <2>3. Beside(h)
    BY <1>1, <1>3, <2>1, <2>2
  <2> QED BY <2>3 DEF h
<1> SUFFICES ASSUME NEW m \in 1 .. Len(t) PROVE Beside(t[m])
  BY DEF Uncut
<1> HIDE DEF Beside
<1>4. CASE Extended(s, t, r, n)
  <2>1. /\ n \in 1 .. Len(s) /\ Len(t) = Len(s)
        /\ boot_mem_overlap(s[n], r)
        /\ t[n] = boot_mem_merge(s[n], r)
        /\ m # n => t[m] = s[m]
    BY <1>4 DEF Extended
  <2>2. Beside(t[n])
    BY <1>1, <1>2, <1>3, <2>1, OverlapTouches
  <2> QED BY <1>2, <2>1, <2>2
<1>5. CASE Absorbed(s, t, r, n)
  <2> DEFINE d == boot_mem_merge(s[n], r)
  <2>1. /\ n \in 1 .. Len(s) - 1 /\ Len(t) = Len(s) - 1
        /\ boot_mem_overlap(s[n], r)
        /\ s[n + 1][1] <= d[2]
        /\ t[n] = boot_mem_merge(d, s[n + 1])
        /\ m \in 1 .. n - 1 => t[m] = s[m]
        /\ m \in n + 1 .. Len(s) - 1 => t[m] = s[m + 1]
    BY <1>5 DEF Absorbed
  <2>2. n \in 1 .. Len(s) /\ n + 1 \in 1 .. Len(s) /\ n < n + 1
    BY <1>1, <2>1
  <2>3. Beside(d)
    BY <1>1, <1>2, <1>3, <2>1, <2>2, OverlapTouches
  <2>4. d \in Ranges /\ d[1] < d[2] /\ d[1] <= s[n + 1][2]
    <3>1. /\ d \in Ranges
          /\ d[1] = (IF r[1] < s[n][1] THEN r[1] ELSE s[n][1])
          /\ d[2] = (IF r[2] > s[n][2] THEN r[2] ELSE s[n][2])
      BY <1>1, <2>2, MergeFacts
    <3>2. /\ s[n][1] \in Nat /\ s[n][2] \in Nat /\ s[n + 1][1] \in Nat /\ s[n + 1][2] \in Nat
          /\ s[n][1] < s[n][2] /\ s[n + 1][1] < s[n + 1][2]
      BY <1>1, <2>2
    <3>3. s[n][1] < s[n + 1][1]
      BY <2>2 DEF SortedList
    <3>4. r[1] \in Nat /\ r[2] \in Nat /\ r[1] < r[2]
      BY <1>1
    <3> HIDE DEF d
    <3>5. d[1] <= s[n][1]
      BY <3>1, <3>2, <3>4
    <3>6. s[n][2] <= d[2]
      BY <3>1, <3>2, <3>4
    <3>7. d[1] \in Nat /\ d[2] \in Nat
      BY <3>1, RangeFacts
    <3>8. d[1] < d[2]
      BY <3>2, <3>5, <3>6, <3>7
    <3>9. d[1] <= s[n + 1][2]
      BY <3>2, <3>3, <3>5, <3>7
    <3> QED BY <3>1, <3>8, <3>9
  <2> HIDE DEF d
  <2>5. Beside(t[n])
    BY <1>1, <1>2, <1>3, <2>1, <2>2, <2>3, <2>4
  <2>6. \/ m = n
        \/ m \in 1 .. n - 1 /\ m \in 1 .. Len(s)
        \/ m \in n + 1 .. Len(s) - 1 /\ m + 1 \in 1 .. Len(s)
    BY <1>1, <2>1, <2>2
  <2> QED BY <1>2, <2>1, <2>5, <2>6
<1>6. CASE Inserted(s, t, r, n)
  <2>1. /\ n \in 1 .. Len(s) + 1
        /\ Len(t) = Len(s) + 1 /\ t[n] = r
        /\ m \in 1 .. n - 1 => t[m] = s[m]
        /\ m \in n + 1 .. Len(s) + 1 => t[m] = s[m - 1]
    BY <1>6 DEF Inserted
  <2>2. \/ m = n
        \/ m \in 1 .. n - 1 /\ m \in 1 .. Len(s)
        \/ m \in n + 1 .. Len(s) + 1 /\ m - 1 \in 1 .. Len(s)
    BY <1>1, <2>1
  <2> QED BY <1>2, <2>1, <2>2
<1> QED BY <1>4, <1>5, <1>6 DEF Changed

-----------------------------------------------------------------------------
(* The inductive invariant.  Besides the properties it says what the       *)
(* search knows at the head of each of its two loops.                      *)

\* The pieces of available memory are apart.
MemoryApart == Apart(memory)

\* Every piece in R lies inside one of them or outside all.
PiecesUncut(R) == \A q \in R : q[1] < q[2] => Uncut(memory, q)

\* No sum of boot_mem_find wraps.
RequestOK ==
    /\ req.align # 0
    /\ 2 * req.to + req.align <= AddrLimit

Inside(a, k) == memory[k][1] <= a /\ a + req.size <= memory[k][2]

\* What is left to be found lies in a range of memory not visited yet.
SearchOK ==
    pc \in {"range", "fit"} =>
        /\ req.size > 0
        /\ req.from + req.size <= req.to
        /\ i <= Len(memory) + 1
        /\ j <= Len(reserved) + 1
        /\ \A a \in Addresses : Fits(a) => \E k \in i .. Len(memory) : Inside(a, k)

\* The reserved ranges passed by j matter to no range of memory not visited.
RangeLoop ==
    pc = "range" =>
        \A m \in 1 .. j - 1 : \A k \in i .. Len(memory) : reserved[m][2] <= memory[k][1]

\* Nothing below the candidate fits, and what j has passed ends before it.
FitLoop ==
    pc = "fit" =>
        /\ i <= Len(memory)
        /\ memory[i][1] <= begin
        /\ req.from <= begin
        /\ \A a \in Addresses : Fits(a) => begin <= a
        /\ \A m \in 1 .. j - 1 : reserved[m][2] <= begin /\ reserved[m][2] <= memory[i][2]

\* Memory given to a caller stays reserved.
HeldReserved == \A r \in allocated : RangeAddrs(r) \subseteq Covered(reserved)

\* What no call breaks that gives boot_mem_add a piece which nothing cuts.
BootInv ==
    /\ ListsOK
    /\ MemoryApart
    /\ RequestOK
    /\ SearchOK
    /\ RangeLoop
    /\ FitLoop
    /\ FindsLowestFit
    /\ HeldReserved

-----------------------------------------------------------------------------
(* What the steps of the search rest on.                                   *)

\* Types and bounds of what the search looks at.
LEMMA TypeFacts ==
    ASSUME TypeOK, ListsSorted
    PROVE  /\ memory \in Seq(Ranges) /\ reserved \in Seq(Ranges)
           /\ Len(memory) \in Nat /\ Len(reserved) \in Nat
           /\ Len(memory) <= BOOT_MEM_RANGES /\ Len(reserved) <= BOOT_MEM_RANGES
           /\ BOOT_MEM_RANGES \in Nat /\ AddrLimit \in Nat
           /\ i \in Nat /\ j \in Nat /\ 1 <= i /\ 1 <= j
           /\ begin \in Nat /\ result \in Nat
           /\ req.size \in Nat /\ req.align \in Nat /\ req.from \in Nat /\ req.to \in Nat
           /\ req.to < AddrLimit /\ req.from < AddrLimit /\ req.size < AddrLimit
           /\ \A k \in 1 .. Len(memory) :
                    memory[k][1] \in Nat /\ memory[k][2] \in Nat /\ memory[k][1] < memory[k][2]
           /\ \A m \in 1 .. Len(reserved) :
                    /\ reserved[m][1] \in Nat /\ reserved[m][2] \in Nat
                    /\ reserved[m][1] < reserved[m][2]
                    /\ reserved[m][2] \in Addresses
<1>1. memory \in Seq(Ranges) /\ reserved \in Seq(Ranges)
  BY DEF TypeOK, RangeList, Ranges
<1>2. /\ \A k \in 1 .. Len(memory) : memory[k] \in Ranges
      /\ \A m \in 1 .. Len(reserved) : reserved[m] \in Ranges
  BY <1>1
<1>3. /\ Len(memory) <= BOOT_MEM_RANGES /\ Len(reserved) <= BOOT_MEM_RANGES
      /\ BOOT_MEM_RANGES \in Nat /\ AddrLimit \in Nat
  BY BootMemAssumption DEF TypeOK, RangeList
<1>4. /\ req.size \in Addresses /\ req.align \in Addresses
      /\ req.from \in Addresses /\ req.to \in Addresses
  BY DEF TypeOK
<1>5. i \in Nat /\ j \in Nat /\ 1 <= i /\ 1 <= j /\ begin \in Nat /\ result \in Nat
  BY <1>3 DEF TypeOK, Addresses
<1>6. /\ req.size \in Nat /\ req.align \in Nat /\ req.from \in Nat /\ req.to \in Nat
      /\ req.to < AddrLimit /\ req.from < AddrLimit /\ req.size < AddrLimit
  BY <1>3, <1>4 DEF Addresses
<1>7. \A k \in 1 .. Len(memory) :
           memory[k][1] \in Nat /\ memory[k][2] \in Nat /\ memory[k][1] < memory[k][2]
  BY <1>2, RangeFacts DEF ListsSorted, SortedList
<1>8. \A m \in 1 .. Len(reserved) :
           /\ reserved[m][1] \in Nat /\ reserved[m][2] \in Nat
           /\ reserved[m][1] < reserved[m][2] /\ reserved[m][2] \in Addresses
  BY <1>2, RangeFacts DEF ListsSorted, SortedList
<1> QED BY <1>1, <1>3, <1>5, <1>6, <1>7, <1>8

\* Adjacent addresses lie in a single range, since no two ranges touch.
LEMMA FitInside ==
    ASSUME NEW s \in Seq(Ranges), SortedList(s), Apart(s),
           NEW a \in Nat, NEW z \in Nat \ {0}, a .. a + z - 1 \subseteq Covered(s)
    PROVE  \E k \in 1 .. Len(s) : s[k][1] <= a /\ a + z <= s[k][2]
<1>1. \A k \in 1 .. Len(s) : s[k][1] \in Nat /\ s[k][2] \in Nat /\ s[k][1] < s[k][2]
  BY RangeFacts DEF SortedList
<1>2. a \in Covered(s)
  OBVIOUS
<1>3. PICK k \in 1 .. Len(s) : a \in RangeAddrs(s[k])
  BY <1>2 DEF Covered
<1>4. s[k][1] \in Nat /\ s[k][2] \in Nat /\ s[k][1] <= a /\ a < s[k][2]
  BY <1>1, <1>3 DEF RangeAddrs
<1>5. ASSUME s[k][2] < a + z PROVE FALSE
  <2>1. s[k][2] \in Covered(s)
    BY <1>4, <1>5
  <2>2. PICK l \in 1 .. Len(s) : s[k][2] \in RangeAddrs(s[l])
    BY <2>1 DEF Covered
  <2>3. /\ s[l][1] \in Nat /\ s[l][2] \in Nat
        /\ s[l][1] <= s[k][2] /\ s[k][2] < s[l][2]
    <3>1. s[l][1] \in Nat /\ s[l][2] \in Nat
      BY <1>1
    <3> QED BY <1>4, <2>2, <3>1 DEF RangeAddrs
  <2>4. l # k
    BY <2>3
  <2>5. l < k \/ k < l
    BY <2>4
  <2>6. s[l][2] < s[k][1] \/ s[k][2] < s[l][1]
    BY <2>5 DEF Apart
  <2> QED BY <1>1, <1>4, <2>3, <2>6
<1> QED BY <1>4, <1>5

\* align_up finds the lowest multiple that is not below its argument.
LEMMA AlignUpFacts ==
    ASSUME NEW x \in Nat, NEW a \in Nat \ {0}, x + a <= AddrLimit
    PROVE  LET b == align_up(x, a)
           IN  /\ b \in Nat /\ x <= b /\ b < x + a /\ b % a = 0
               /\ \A y \in Nat : y % a = 0 /\ x <= y => b <= y
<1> DEFINE b == align_up(x, a)
           z == x + a - 1
<1>1. z \in Nat /\ z < AddrLimit /\ AddrLimit \in Nat \ {0}
  BY BootMemAssumption
<1>2. z % AddrLimit = z
  BY <1>1
<1>3. b = z - (z % a)
  BY <1>2 DEF align_up
<1>4. /\ z - (z % a) \in Nat /\ (z - (z % a)) % a = 0
      /\ z - (z % a) <= z /\ z < z - (z % a) + a
  BY <1>1, RoundDown
<1>5. b \in Nat /\ b % a = 0 /\ b <= z /\ z < b + a
  BY <1>3, <1>4
<1> HIDE DEF b
<1>6. x <= b /\ b < x + a
  BY <1>5
<1>7. ASSUME NEW y \in Nat, y % a = 0, x <= y PROVE b <= y
  <2>1. CASE y < b
    <3>1. b < y + a
      BY <1>5, <1>6, <1>7
    <3>2. a = 1 * a /\ 1 \in Nat \ {0} /\ y <= b /\ b <= b /\ b < b + a
      BY <1>5, <2>1
    <3>3. b <= y /\ y + a <= b + a
      BY <1>5, <1>7, <3>1, <3>2, AlignedNested
    <3> QED BY <3>3
  <2> QED BY <1>5, <2>1
<1> QED BY <1>5, <1>6, <1>7 DEF b

\* The scan of reserved stops somewhere.
LEMMA FirstEndingFacts ==
    ASSUME TypeOK, ListsSorted, j <= Len(reserved) + 1, NEW b \in Nat
    PROVE  LET n == FirstEndingAfter(b)
           IN  /\ n \in j .. Len(reserved) + 1
               /\ \A m \in j .. n - 1 : reserved[m][2] <= b
               /\ n <= Len(reserved) => reserved[n][2] > b
<1> DEFINE T == {n \in j .. Len(reserved) + 1 : n <= Len(reserved) => reserved[n][2] > b}
<1>1. Len(reserved) \in Nat /\ j \in Nat /\ 1 <= j
  BY TypeFacts
<1>2. PICK x \in T : \A y \in T : x <= y
  <2>1. T \in SUBSET Nat
    BY <1>1
  <2>2. Len(reserved) + 1 \in T
    BY <1>1
  <2> HIDE DEF T
  <2> QED BY <2>1, <2>2, LeastNat
<1>3. \A m \in j .. x - 1 : reserved[m][2] <= b
  <2> TAKE m \in j .. x - 1
  <2>1. m \in j .. Len(reserved) + 1 /\ m \in 1 .. Len(reserved) /\ m \notin T
    BY <1>1, <1>2
  <2>2. reserved[m][2] \in Nat
    BY <2>1, TypeFacts
  <2> QED BY <2>1, <2>2
<1>4. \E n \in j .. Len(reserved) + 1 :
        /\ \A m \in j .. n - 1 : reserved[m][2] <= b
        /\ n <= Len(reserved) => reserved[n][2] > b
  BY <1>2, <1>3
<1> QED BY <1>4 DEF FirstEndingAfter

-----------------------------------------------------------------------------
(* The invariant holds at first and is kept by every step.                 *)

\* The invariant holds before anything is added.
LEMMA InitBootInv == Init => BootInv
<1> SUFFICES ASSUME Init PROVE BootInv
  OBVIOUS
<1>0. /\ BOOT_MEM_RANGES \in Nat \ {0} /\ AddrLimit \in Nat \ {0} /\ 0 \in Addresses
      /\ <<>> \in Seq(Addresses \X Addresses) /\ Len(<<>>) = 0
  BY BootMemAssumption DEF Addresses
<1>1. TypeOK
  <2>1. memory \in RangeList /\ reserved \in RangeList
    BY <1>0 DEF Init, RangeList
  <2>2. req \in [size : Addresses, align : Addresses, from : Addresses, to : Addresses]
    <3>1. 1 \in Addresses
      BY BootMemAssumption DEF Addresses
    <3> QED BY <1>0, <3>1 DEF Init, NoRequest, Addresses
  <2> QED BY <1>0, <2>1, <2>2 DEF Init, TypeOK
<1>2. ListsSorted /\ MemoryApart
  BY <1>0 DEF Init, ListsSorted, SortedList, MemoryApart, Apart, Uncut
<1>3. RequestOK
  BY <1>0 DEF Init, NoRequest, RequestOK
<1>4. SearchOK /\ RangeLoop /\ FitLoop /\ FindsLowestFit
  BY DEF Init, SearchOK, RangeLoop, FitLoop, FindsLowestFit
<1>5. HeldReserved
  BY DEF Init, HeldReserved
<1> QED BY <1>1, <1>2, <1>3, <1>4, <1>5 DEF BootInv, ListsOK

\* Between calls the search has nothing to keep.
LEMMA IdleSearch ==
    ASSUME pc' = "idle"
    PROVE  SearchOK' /\ RangeLoop' /\ FitLoop' /\ FindsLowestFit'
BY DEF SearchOK, RangeLoop, FitLoop, FindsLowestFit

\* boot_mem_add keeps the invariant and adds exactly its range, if that is one
\* of a set of pieces that are disjoint and that no range cuts.
LEMMA AddStep ==
    ASSUME BootInv, NEW R \in SUBSET Ranges, NEW r \in R, boot_mem_add(r), PiecesUncut(R),
           \A q, p \in R : q # p => q[2] <= p[1] \/ p[2] <= q[1]
    PROVE  /\ BootInv' /\ PiecesUncut(R)'
           /\ AddIsExact(memory, memory', r)
           /\ Len(memory') <= Len(memory) + 1
           /\ ~ AddRangeFails(memory, r) => Covered(memory') = Covered(memory) \cup RangeAddrs(r)
<1>1. /\ pc = "idle" /\ memory' = boot_mem_add_range(memory, r)
      /\ UNCHANGED <<reserved, pc, caller, req, i, j, begin, result, allocated>>
  BY DEF boot_mem_add, find
<1>2. /\ memory \in RangeList /\ SortedList(memory) /\ TypeOK /\ ListsSorted
      /\ MemoryApart /\ RequestOK /\ HeldReserved
  BY DEF BootInv, ListsOK, TypeOK, ListsSorted
<1>3. r \in Ranges
  OBVIOUS
<1>4. /\ memory' \in RangeList /\ SortedList(memory') /\ AddIsExact(memory, memory', r)
      /\ Len(memory') <= Len(memory) + 1
      /\ ~ AddRangeFails(memory, r) => Covered(memory') = Covered(memory) \cup RangeAddrs(r)
  BY <1>1, <1>2, <1>3, AddRangeKeepsOrder
<1>5. TypeOK' /\ ListsSorted'
  BY <1>1, <1>2, <1>4 DEF TypeOK, ListsSorted
<1>6. MemoryApart' /\ PiecesUncut(R)'
  <2>1. memory \in Seq(Ranges) /\ memory' \in Seq(Ranges)
    BY <1>2, <1>4 DEF RangeList, Ranges
  <2>2. CASE r[2] <= r[1] \/ AddRangeFails(memory, r)
    <3>1. memory' = memory
      BY <1>1, <1>2, <1>3, <2>2, AddRangeShape
    <3> QED BY <1>2, <3>1 DEF MemoryApart, PiecesUncut
  <2>3. CASE ~ (r[2] <= r[1] \/ AddRangeFails(memory, r))
    <3>1. Changed(memory, memory', r, InsertPosition(memory, r))
      BY <1>1, <1>2, <1>3, <2>3, AddRangeShape
    <3>2. r[1] < r[2]
      BY <3>1 DEF Changed
    <3>3. Apart(memory')
      <4>1. Uncut(memory, r)
        BY <3>2 DEF PiecesUncut
      <4> QED BY <1>2, <1>3, <2>1, <3>1, <4>1, ChangedApart DEF MemoryApart
    <3>4. ASSUME NEW q \in R, q[1] < q[2] PROVE Uncut(memory', q)
      <4>1. q = r \/ q[2] <= r[1] \/ r[2] <= q[1]
        OBVIOUS
      <4>2. Uncut(memory, q) /\ q \in Ranges
        BY <3>4 DEF PiecesUncut
      <4> QED BY <1>2, <1>3, <2>1, <3>1, <3>4, <4>1, <4>2, ChangedUncut
    <3> QED BY <3>3, <3>4 DEF MemoryApart, PiecesUncut
  <2> QED BY <2>2, <2>3
<1>7. RequestOK' /\ HeldReserved'
  BY <1>1, <1>2 DEF RequestOK, HeldReserved
<1> QED BY <1>1, <1>4, <1>5, <1>6, <1>7, IdleSearch DEF BootInv, ListsOK

\* boot_mem_reserve keeps the invariant and adds exactly its range.
LEMMA ReserveStep ==
    ASSUME BootInv, NEW r \in Ranges, boot_mem_reserve(r)
    PROVE  /\ BootInv'
           /\ AddIsExact(reserved, reserved', r)
           /\ Len(reserved') <= Len(reserved) + 1
           /\ ~ AddRangeFails(reserved, r) => Covered(reserved') = Covered(reserved) \cup RangeAddrs(r)
<1>1. /\ pc = "idle" /\ reserved' = boot_mem_add_range(reserved, r)
      /\ UNCHANGED <<memory, pc, caller, req, i, j, begin, result, allocated>>
  BY DEF boot_mem_reserve, find
<1>2. /\ reserved \in RangeList /\ SortedList(reserved) /\ TypeOK /\ ListsSorted
      /\ MemoryApart /\ RequestOK /\ HeldReserved
  BY DEF BootInv, ListsOK, TypeOK, ListsSorted
<1>4. /\ reserved' \in RangeList /\ SortedList(reserved') /\ AddIsExact(reserved, reserved', r)
      /\ Covered(reserved) \subseteq Covered(reserved')
      /\ Len(reserved') <= Len(reserved) + 1
      /\ ~ AddRangeFails(reserved, r) =>
             Covered(reserved') = Covered(reserved) \cup RangeAddrs(r)
  BY <1>1, <1>2, AddRangeKeepsOrder
<1>5. TypeOK' /\ ListsSorted'
  BY <1>1, <1>2, <1>4 DEF TypeOK, ListsSorted
<1>6. MemoryApart' /\ RequestOK'
  BY <1>1, <1>2 DEF RequestOK, MemoryApart
<1>7. HeldReserved'
  BY <1>1, <1>2, <1>4 DEF HeldReserved
<1> QED BY <1>1, <1>4, <1>5, <1>6, <1>7, IdleSearch DEF BootInv, ListsOK

\* The arguments that boot_mem_alloc and boot_mem_is_free pass on.
LEMMA StartStep ==
    ASSUME BootInv, NEW r, boot_mem_find(r),
           caller' \in {"boot_mem_alloc", "boot_mem_is_free"},
           r \in [size : Addresses, align : Addresses, from : Addresses, to : Addresses],
           r.align # 0, 2 * r.to + r.align <= AddrLimit
    PROVE  BootInv'
<1>1. /\ pc = "idle" /\ req' = r /\ i' = 1 /\ j' = 1 /\ begin' = 0
      /\ UNCHANGED <<memory, reserved, allocated>>
      /\ IF r.from > r.to \/ r.size > r.to - r.from THEN result' = r.to /\ pc' = "found"
         ELSE IF r.size = 0 THEN result' = r.from /\ pc' = "found"
         ELSE pc' = "range" /\ UNCHANGED result
  BY DEF boot_mem_find, found, lists
<1>2. TypeOK /\ ListsSorted /\ MemoryApart /\ HeldReserved
  BY DEF BootInv, ListsOK
<1>3. /\ BOOT_MEM_RANGES \in Nat \ {0} /\ AddrLimit \in Nat \ {0}
      /\ r.size \in Nat /\ r.align \in Nat /\ r.from \in Nat /\ r.to \in Nat
      /\ r.from \in Addresses /\ r.to \in Addresses /\ 0 \in Addresses
  BY BootMemAssumption DEF Addresses
<1>4. TypeOK'
  <2>1. result' \in Addresses /\ pc' \in {"range", "found"}
    BY <1>1, <1>2, <1>3 DEF TypeOK
  <2>2. i' \in 1 .. BOOT_MEM_RANGES + 1 /\ j' \in 1 .. BOOT_MEM_RANGES + 1
    BY <1>1, <1>3
  <2> QED BY <1>1, <1>2, <1>3, <2>1, <2>2 DEF TypeOK
<1>5. ListsSorted' /\ MemoryApart' /\ RequestOK' /\ HeldReserved'
  BY <1>1, <1>2 DEF ListsSorted, MemoryApart, RequestOK, HeldReserved
<1>6. RangeLoop' /\ FitLoop'
  <2>1. pc' # "fit"
    BY <1>1
  <2>2. 1 .. j' - 1 = {}
    BY <1>1
  <2> QED BY <2>1, <2>2 DEF RangeLoop, FitLoop
<1>7. SearchOK'
  <2> SUFFICES ASSUME pc' = "range" PROVE SearchOK'
    BY <1>1 DEF SearchOK
  <2>1. r.size > 0 /\ r.from + r.size <= r.to
    BY <1>1, <1>3
  <2>2. Len(memory) \in Nat /\ Len(reserved) \in Nat
    BY <1>2, TypeFacts
  <2>3. ASSUME NEW a \in Addresses, Fits(a)'
        PROVE  \E k \in i' .. Len(memory') : Inside(a, k)'
    <3>1. a \in Nat /\ r.size \in Nat \ {0}
      BY <1>3, <2>1 DEF Addresses
    <3>2. memory \in Seq(Ranges) /\ SortedList(memory) /\ Apart(memory)
      BY <1>2, TypeFacts DEF ListsSorted, MemoryApart
    <3>3. a .. a + r.size - 1 \subseteq Covered(memory)
      BY <1>1, <2>3 DEF Fits
    <3>4. PICK k \in 1 .. Len(memory) : memory[k][1] <= a /\ a + r.size <= memory[k][2]
      BY <3>1, <3>2, <3>3, FitInside
    <3> QED BY <1>1, <3>4 DEF Inside
  <2> QED BY <1>1, <2>1, <2>2, <2>3 DEF SearchOK
<1>8. FindsLowestFit'
  <2> SUFFICES ASSUME pc' = "found", r.size > 0 PROVE FindsLowestFit'
    BY <1>1 DEF FindsLowestFit
  <2>1. result' = r.to /\ (r.from > r.to \/ r.size > r.to - r.from)
    BY <1>1, <1>3
  <2>2. ASSUME NEW a \in Addresses PROVE ~ Fits(a)'
    <3>1. a \in Nat
      BY <1>3 DEF Addresses
    <3>2. ~ (r.from <= a /\ a + r.size <= r.to)
      BY <1>3, <2>1, <3>1
    <3> QED BY <1>1, <3>2 DEF Fits
  <2> QED BY <1>1, <2>1, <2>2 DEF FindsLowestFit
<1> QED BY <1>4, <1>5, <1>6, <1>7, <1>8 DEF BootInv, ListsOK

\* The steps of the search leave the lists and the request alone.
LEMMA SearchFrame ==
    ASSUME BootInv, UNCHANGED <<memory, reserved, caller, req, allocated>>,
           pc' \in {"range", "fit", "found"},
           i' \in 1 .. Len(memory) + 1, j' \in 1 .. Len(reserved) + 1,
           begin' \in Addresses, result' \in Addresses
    PROVE  /\ ListsOK' /\ MemoryApart' /\ RequestOK' /\ HeldReserved'
           /\ \A a \in Addresses : Fits(a)' <=> Fits(a)
           /\ \A a, k : Inside(a, k)' <=> Inside(a, k)
<1>1. TypeOK /\ ListsSorted /\ MemoryApart /\ RequestOK /\ HeldReserved
  BY DEF BootInv, ListsOK
<1>2. i' \in 1 .. BOOT_MEM_RANGES + 1 /\ j' \in 1 .. BOOT_MEM_RANGES + 1
  <2>1. /\ Len(memory) \in Nat /\ Len(memory) <= BOOT_MEM_RANGES
        /\ Len(reserved) \in Nat /\ Len(reserved) <= BOOT_MEM_RANGES
        /\ BOOT_MEM_RANGES \in Nat
    BY <1>1, TypeFacts
  <2> QED BY <2>1
<1>3. TypeOK'
  BY <1>1, <1>2 DEF TypeOK
<1>4. ListsSorted' /\ MemoryApart' /\ RequestOK' /\ HeldReserved'
  BY <1>1 DEF ListsSorted, MemoryApart, RequestOK, HeldReserved
<1>5. \A a \in Addresses : Fits(a)' <=> Fits(a)
  BY DEF Fits
<1>6. \A a, k : Inside(a, k)' <=> Inside(a, k)
  BY DEF Inside
<1> QED BY <1>3, <1>4, <1>5, <1>6 DEF ListsOK

\* What is known while a search is in one of its loops.
LEMMA SearchFacts ==
    ASSUME BootInv, pc \in {"range", "fit"}
    PROVE  /\ TypeOK /\ ListsSorted /\ Apart(memory)
           /\ req.size > 0 /\ req.from + req.size <= req.to
           /\ req.align # 0 /\ 2 * req.to + req.align <= AddrLimit
           /\ i <= Len(memory) + 1 /\ j <= Len(reserved) + 1
           /\ \A a \in Addresses : Fits(a) => \E k \in i .. Len(memory) : Inside(a, k)
BY DEF BootInv, ListsOK, MemoryApart, RequestOK, SearchOK

\* The head of the loop over memory keeps the invariant.
LEMMA FindRangeStep ==
    ASSUME BootInv, FindRange
    PROVE  BootInv'
<1>1. /\ pc = "range"
      /\ IF i > Len(memory) \/ (memory[i][2] > req.from /\ memory[i][1] >= req.to)
         THEN result' = req.to /\ pc' = "found" /\ UNCHANGED <<i, j, begin>>
         ELSE IF memory[i][2] <= req.from
         THEN i' = i + 1 /\ UNCHANGED <<pc, j, begin, result>>
         ELSE /\ begin' = max(memory[i][1], req.from)
              /\ pc' = "fit"
              /\ UNCHANGED <<i, j, result>>
      /\ UNCHANGED <<memory, reserved, caller, req, allocated>>
  BY DEF FindRange, found, find, lists
<1>2. /\ TypeOK /\ ListsSorted /\ Apart(memory)
      /\ req.size > 0 /\ req.from + req.size <= req.to
      /\ i <= Len(memory) + 1 /\ j <= Len(reserved) + 1
      /\ \A a \in Addresses : Fits(a) => \E k \in i .. Len(memory) : Inside(a, k)
  BY <1>1, SearchFacts
<1>3. \A m \in 1 .. j - 1 : \A k \in i .. Len(memory) : reserved[m][2] <= memory[k][1]
  BY <1>1 DEF BootInv, RangeLoop
<1>4. /\ i \in Nat /\ j \in Nat /\ 1 <= i /\ 1 <= j
      /\ Len(memory) \in Nat /\ Len(reserved) \in Nat
      /\ req.size \in Nat /\ req.from \in Nat /\ req.to \in Nat
      /\ begin \in Addresses /\ result \in Addresses /\ req.to \in Addresses
      /\ \A a \in Addresses : a \in Nat
  BY <1>2, TypeFacts DEF TypeOK, Addresses
<1>5. \A k \in i .. Len(memory) :
          /\ memory[k][1] \in Nat /\ memory[k][2] \in Nat /\ memory[k][1] < memory[k][2]
          /\ memory[i][1] \in Nat /\ memory[i][1] <= memory[k][1]
          /\ i \in 1 .. Len(memory)
  <2> TAKE k \in i .. Len(memory)
  <2>1. k \in 1 .. Len(memory) /\ i \in 1 .. Len(memory) /\ (k = i \/ i < k)
    BY <1>4
  <2>2. /\ memory[k][1] \in Nat /\ memory[k][2] \in Nat /\ memory[k][1] < memory[k][2]
        /\ memory[i][1] \in Nat
    BY <1>2, <2>1, TypeFacts
  <2>3. k = i \/ memory[i][1] < memory[k][1]
    BY <1>2, <2>1 DEF ListsSorted, SortedList
  <2> QED BY <2>1, <2>2, <2>3
<1>6. i \in 1 .. Len(memory) => memory[i][1] \in Nat /\ memory[i][2] \in Nat /\ memory[i] \in Ranges
  BY <1>2, TypeFacts
<1>7. CASE i > Len(memory) \/ (memory[i][2] > req.from /\ memory[i][1] >= req.to)
  <2>1. result' = req.to /\ pc' = "found" /\ UNCHANGED <<i, j, begin>>
    BY <1>1, <1>7
  <2>2. ASSUME NEW a \in Addresses, Fits(a) PROVE FALSE
    <3>1. PICK k \in i .. Len(memory) : memory[k][1] <= a /\ a + req.size <= memory[k][2]
      BY <1>2, <2>2 DEF Inside
    <3>2. a + req.size <= req.to /\ a \in Nat
      BY <1>4, <2>2 DEF Fits
    <3>3. memory[i][1] <= a /\ memory[i][1] \in Nat /\ i <= Len(memory)
      BY <1>4, <1>5, <3>1, <3>2
    <3>4. memory[i][1] >= req.to
      BY <1>4, <1>7, <3>3
    <3>5. req.size > 0 /\ req.size \in Nat /\ req.to \in Nat
      BY <1>2, <1>4
    <3> QED BY <3>2, <3>3, <3>4, <3>5
  <2>3. i' \in 1 .. Len(memory) + 1 /\ j' \in 1 .. Len(reserved) + 1
    BY <1>2, <1>4, <2>1
  <2>4. /\ ListsOK' /\ MemoryApart' /\ RequestOK' /\ HeldReserved'
        /\ \A a \in Addresses : Fits(a)' <=> Fits(a)
    BY <1>1, <1>4, <2>1, <2>3, SearchFrame
  <2>5. FindsLowestFit'
    BY <1>1, <2>1, <2>2, <2>4 DEF FindsLowestFit
  <2> QED BY <2>1, <2>4, <2>5 DEF BootInv, SearchOK, RangeLoop, FitLoop
<1>8. CASE /\ ~ (i > Len(memory) \/ (memory[i][2] > req.from /\ memory[i][1] >= req.to))
           /\ memory[i][2] <= req.from
  <2>1. i' = i + 1 /\ UNCHANGED <<pc, j, begin, result>>
    BY <1>1, <1>8
  <2>2. i' \in 1 .. Len(memory) + 1 /\ j' \in 1 .. Len(reserved) + 1 /\ i \in 1 .. Len(memory)
    <3>1. /\ i \in Nat /\ j \in Nat /\ 1 <= i /\ 1 <= j
          /\ Len(memory) \in Nat /\ Len(reserved) \in Nat /\ j <= Len(reserved) + 1
      BY <1>2, <1>4
    <3>2. ~ (i > Len(memory))
      BY <1>8
    <3> QED BY <2>1, <3>1, <3>2
  <2>3. /\ ListsOK' /\ MemoryApart' /\ RequestOK' /\ HeldReserved'
        /\ \A a \in Addresses : Fits(a)' <=> Fits(a)
        /\ \A a, k : Inside(a, k)' <=> Inside(a, k)
    BY <1>1, <1>4, <2>1, <2>2, SearchFrame
  <2>4. ASSUME NEW a \in Addresses, Fits(a)
        PROVE  \E k \in i + 1 .. Len(memory) : Inside(a, k)
    <3>1. PICK k \in i .. Len(memory) : Inside(a, k)
      BY <1>2, <2>4
    <3>2. req.from <= a /\ a \in Nat
      BY <1>4, <2>4 DEF Fits
    <3>3. k # i
      <4>1. memory[i][2] \in Nat /\ memory[i][2] <= req.from
        BY <1>6, <1>8, <2>2
      <4> SUFFICES ASSUME k = i PROVE FALSE
        OBVIOUS
      <4>2. a + req.size <= memory[i][2]
        BY <3>1 DEF Inside
      <4>3. req.size > 0 /\ req.size \in Nat /\ req.from \in Nat
        BY <1>2, <1>4
      <4> QED BY <3>2, <4>1, <4>2, <4>3
    <3>4. k \in i + 1 .. Len(memory)
      BY <1>4, <3>1, <3>3
    <3> QED BY <3>1, <3>4
  <2>5. SearchOK'
    BY <1>1, <1>2, <1>4, <2>1, <2>2, <2>3, <2>4 DEF SearchOK
  <2>6. RangeLoop'
    <3>1. \A k \in i + 1 .. Len(memory) : k \in i .. Len(memory)
      BY <1>4
    <3>2. \A m \in 1 .. j - 1 : \A k \in i + 1 .. Len(memory) : reserved[m][2] <= memory[k][1]
      BY <1>3, <3>1
    <3> QED BY <1>1, <2>1, <3>2 DEF RangeLoop
  <2>7. FitLoop' /\ FindsLowestFit'
    BY <1>1, <2>1 DEF FitLoop, FindsLowestFit
  <2> QED BY <2>3, <2>5, <2>6, <2>7 DEF BootInv
<1>9. CASE /\ ~ (i > Len(memory) \/ (memory[i][2] > req.from /\ memory[i][1] >= req.to))
           /\ ~ (memory[i][2] <= req.from)
  <2>1. begin' = max(memory[i][1], req.from) /\ pc' = "fit" /\ UNCHANGED <<i, j, result>>
    BY <1>1, <1>9
  <2>2. i' \in 1 .. Len(memory) + 1 /\ j' \in 1 .. Len(reserved) + 1 /\ i \in 1 .. Len(memory)
    BY <1>2, <1>4, <1>9, <2>1
  <2>3. /\ begin' \in Addresses /\ begin' \in Nat
        /\ memory[i][1] <= begin' /\ req.from <= begin'
        /\ begin' = memory[i][1] \/ begin' = req.from
        /\ memory[i][1] \in Nat /\ memory[i][2] \in Nat /\ memory[i][1] < memory[i][2]
    <3>1. /\ memory[i][1] \in Nat /\ memory[i][2] \in Nat /\ memory[i][1] < memory[i][2]
          /\ memory[i][1] \in Addresses
      BY <1>2, <1>6, <2>2, TypeFacts, RangeFacts
    <3>2. req.from \in Addresses
      BY <1>2 DEF TypeOK
    <3> QED BY <1>4, <2>1, <3>1, <3>2 DEF max
  <2>4. /\ ListsOK' /\ MemoryApart' /\ RequestOK' /\ HeldReserved'
        /\ \A a \in Addresses : Fits(a)' <=> Fits(a)
        /\ \A a, k : Inside(a, k)' <=> Inside(a, k)
    BY <1>1, <1>4, <2>1, <2>2, <2>3, SearchFrame
  <2>5. SearchOK'
    BY <1>1, <1>2, <1>4, <2>1, <2>4 DEF SearchOK
  <2>6. ASSUME NEW a \in Addresses, Fits(a) PROVE begin' <= a
    <3>1. PICK k \in i .. Len(memory) : memory[k][1] <= a
      BY <1>2, <2>6 DEF Inside
    <3>2. memory[i][1] <= a
      BY <1>4, <1>5, <3>1
    <3>3. req.from <= a
      BY <2>6 DEF Fits
    <3> QED BY <2>3, <3>2, <3>3
  <2>7. ASSUME NEW m \in 1 .. j - 1 PROVE reserved[m][2] <= begin' /\ reserved[m][2] <= memory[i][2]
    <3>1. reserved[m][2] <= memory[i][1]
      BY <1>3, <1>4, <2>2
    <3>2. m \in 1 .. Len(reserved)
      BY <1>2, <1>4
    <3>3. reserved[m][2] \in Nat
      BY <1>2, <3>2, TypeFacts
    <3> QED BY <2>3, <3>1, <3>3
  <2>8. FitLoop'
    BY <1>1, <1>4, <2>1, <2>2, <2>3, <2>4, <2>6, <2>7 DEF FitLoop
  <2> QED BY <2>1, <2>4, <2>5, <2>8 DEF BootInv, RangeLoop, FindsLowestFit
<1> QED BY <1>7, <1>8, <1>9

\* The next range of memory: no request fits where the search has been.
LEMMA LeaveRange ==
    ASSUME BootInv, pc = "fit",
           \A a \in Addresses : Fits(a) => ~ Inside(a, i),
           i' = i + 1, pc' = "range", begin' \in Addresses,
           UNCHANGED <<memory, reserved, caller, req, allocated, j, result>>
    PROVE  BootInv'
<1>1. /\ TypeOK /\ ListsSorted /\ Apart(memory)
      /\ req.size > 0 /\ req.from + req.size <= req.to
      /\ i <= Len(memory) + 1 /\ j <= Len(reserved) + 1
      /\ \A a \in Addresses : Fits(a) => \E k \in i .. Len(memory) : Inside(a, k)
  BY SearchFacts
<1>2. /\ i <= Len(memory)
      /\ \A m \in 1 .. j - 1 : reserved[m][2] <= memory[i][2]
  BY DEF BootInv, FitLoop
<1>3. /\ i \in Nat /\ j \in Nat /\ 1 <= i /\ 1 <= j
      /\ Len(memory) \in Nat /\ Len(reserved) \in Nat /\ result \in Addresses
  BY <1>1, TypeFacts DEF TypeOK
<1>4. i' \in 1 .. Len(memory) + 1 /\ j' \in 1 .. Len(reserved) + 1 /\ i \in 1 .. Len(memory)
  BY <1>1, <1>2, <1>3
<1>5. /\ ListsOK' /\ MemoryApart' /\ RequestOK' /\ HeldReserved'
      /\ \A a \in Addresses : Fits(a)' <=> Fits(a)
      /\ \A a, k : Inside(a, k)' <=> Inside(a, k)
  BY <1>3, <1>4, SearchFrame
<1>6. ASSUME NEW a \in Addresses, Fits(a)
      PROVE  \E k \in i + 1 .. Len(memory) : Inside(a, k)
  <2>1. PICK k \in i .. Len(memory) : Inside(a, k)
    BY <1>1, <1>6
  <2>2. k # i
    BY <1>6, <2>1
  <2>3. k \in i + 1 .. Len(memory)
    BY <1>3, <2>1, <2>2
  <2> QED BY <2>1, <2>3
<1>7. SearchOK'
  BY <1>1, <1>3, <1>4, <1>5, <1>6 DEF SearchOK
<1>8. RangeLoop'
  <2>1. ASSUME NEW m \in 1 .. j - 1, NEW k \in i + 1 .. Len(memory)
        PROVE  reserved[m][2] <= memory[k][1]
    <3>1. m \in 1 .. Len(reserved) /\ k \in 1 .. Len(memory) /\ i < k
      BY <1>1, <1>3
    <3>2. memory[i][2] < memory[k][1]
      BY <1>1, <1>4, <3>1 DEF Apart
    <3>3. reserved[m][2] \in Nat /\ memory[i][2] \in Nat /\ memory[k][1] \in Nat
      BY <1>1, <1>4, <3>1, TypeFacts
    <3>4. reserved[m][2] <= memory[i][2]
      BY <1>2
    <3> QED BY <3>2, <3>3, <3>4
  <2> QED BY <2>1 DEF RangeLoop
<1> QED BY <1>5, <1>7, <1>8 DEF BootInv, FitLoop, FindsLowestFit

\* One round of the inner loop keeps the invariant: the candidate is a fit, or
\* moves behind a reserved range, or the memory range is left.
LEMMA FindFitStep ==
    ASSUME BootInv, FindFit
    PROVE  BootInv'
<1> DEFINE end  == min(memory[i][2], req.to)
           b    == align_up(begin, req.align)
           stop == (b + req.size) % AddrLimit
           n    == FirstEndingAfter(b)
<1>1. /\ pc = "fit"
      /\ IF begin >= end
         THEN i' = i + 1 /\ pc' = "range" /\ UNCHANGED <<j, begin, result>>
         ELSE IF stop > end
         THEN i' = i + 1 /\ pc' = "range" /\ begin' = b /\ UNCHANGED <<j, result>>
         ELSE /\ j' = n
              /\ UNCHANGED i
              /\ IF n > Len(reserved) \/ reserved[n][1] >= stop
                 THEN begin' = b /\ result' = b /\ pc' = "found"
                 ELSE begin' = reserved[n][2] /\ UNCHANGED <<pc, result>>
      /\ UNCHANGED <<memory, reserved, caller, req, allocated>>
  BY DEF FindFit, found, lists
<1>2. /\ TypeOK /\ ListsSorted /\ Apart(memory)
      /\ req.size > 0 /\ req.from + req.size <= req.to
      /\ req.align # 0 /\ 2 * req.to + req.align <= AddrLimit
      /\ i <= Len(memory) + 1 /\ j <= Len(reserved) + 1
      /\ \A a \in Addresses : Fits(a) => \E k \in i .. Len(memory) : Inside(a, k)
  BY <1>1, SearchFacts
<1>3. /\ i <= Len(memory) /\ memory[i][1] <= begin /\ req.from <= begin
      /\ \A a \in Addresses : Fits(a) => begin <= a
      /\ \A m \in 1 .. j - 1 : reserved[m][2] <= begin /\ reserved[m][2] <= memory[i][2]
  BY <1>1 DEF BootInv, FitLoop
<1>4. /\ i \in Nat /\ j \in Nat /\ 1 <= i /\ 1 <= j /\ i \in 1 .. Len(memory)
      /\ Len(memory) \in Nat /\ Len(reserved) \in Nat
      /\ req.size \in Nat /\ req.from \in Nat /\ req.to \in Nat /\ req.align \in Nat \ {0}
      /\ begin \in Addresses /\ begin \in Nat /\ result \in Addresses /\ AddrLimit \in Nat
      /\ memory[i][1] \in Nat /\ memory[i][2] \in Nat /\ memory[i][1] < memory[i][2]
      /\ \A a \in Addresses : a \in Nat
  <2>1. /\ i \in Nat /\ j \in Nat /\ 1 <= i /\ 1 <= j
        /\ Len(memory) \in Nat /\ Len(reserved) \in Nat /\ begin \in Nat /\ AddrLimit \in Nat
        /\ req.size \in Nat /\ req.from \in Nat /\ req.to \in Nat /\ req.align \in Nat
    BY <1>2, TypeFacts
  <2>2. i \in 1 .. Len(memory)
    BY <1>3, <2>1
  <2>3. memory[i][1] \in Nat /\ memory[i][2] \in Nat /\ memory[i][1] < memory[i][2]
    BY <1>2, <2>2, TypeFacts
  <2> QED BY <1>2, <2>1, <2>2, <2>3 DEF TypeOK, Addresses
<1>5. end \in Nat /\ end <= memory[i][2] /\ end <= req.to /\ (end = memory[i][2] \/ end = req.to)
  BY <1>4 DEF min
<1>6. ASSUME NEW a \in Addresses, Fits(a)
      PROVE  a \in Nat /\ begin <= a /\ req.from <= a /\ a + req.size <= req.to /\ a % req.align = 0
  BY <1>3, <1>4, <1>6 DEF Fits
<1> HIDE DEF end
<1>7. CASE begin >= end
  <2>1. ASSUME NEW a \in Addresses, Fits(a) PROVE ~ Inside(a, i)
    <3>1. /\ a \in Nat /\ begin <= a /\ a + req.size <= req.to /\ begin \in Nat
          /\ end \in Nat /\ begin >= end
      BY <1>4, <1>5, <1>6, <1>7, <2>1
    <3>2. /\ req.size > 0 /\ req.size \in Nat /\ req.to \in Nat /\ memory[i][2] \in Nat
      BY <1>2, <1>4
    <3>3. ASSUME a + req.size <= memory[i][2] PROVE FALSE
      <4>1. a + req.size <= end
        BY <1>5, <3>1, <3>3
      <4> QED BY <3>1, <3>2, <4>1
    <3> QED BY <3>3 DEF Inside
  <2>2. i' = i + 1 /\ pc' = "range" /\ UNCHANGED <<j, begin, result>>
    BY <1>1, <1>7
  <2> QED BY <1>1, <1>4, <2>1, <2>2, LeaveRange
<1>8. CASE begin < end
  <2>1. begin + req.align <= AddrLimit
    <3>1. /\ begin \in Nat /\ req.align \in Nat /\ req.to \in Nat /\ AddrLimit \in Nat
          /\ 2 * req.to + req.align <= AddrLimit
      BY <1>2, <1>4
    <3>2. begin < req.to
      BY <1>5, <1>8, <3>1
    <3> QED BY <3>1, <3>2
  <2>0. /\ b \in Nat /\ begin <= b /\ b < begin + req.align /\ b % req.align = 0
        /\ \A y \in Nat : y % req.align = 0 /\ begin <= y => b <= y
    BY <1>4, <2>1, AlignUpFacts
  <2> HIDE DEF b
  <2>2. b \in Nat /\ begin <= b /\ b < begin + req.align
    BY <2>0
  <2>3. b \in Addresses /\ b + req.size < AddrLimit /\ b + req.size \in Nat
    <3>1. /\ begin \in Nat /\ req.size \in Nat /\ req.from \in Nat /\ req.to \in Nat
          /\ req.align \in Nat /\ AddrLimit \in Nat
          /\ req.from + req.size <= req.to /\ 2 * req.to + req.align <= AddrLimit
          /\ begin < req.to
      <4>1. /\ begin \in Nat /\ req.size \in Nat /\ req.from \in Nat /\ req.to \in Nat
            /\ req.align \in Nat /\ AddrLimit \in Nat
            /\ req.from + req.size <= req.to /\ 2 * req.to + req.align <= AddrLimit
        BY <1>2, <1>4
      <4>2. begin < req.to
        BY <1>5, <1>8, <4>1
      <4> QED BY <4>1, <4>2
    <3>2. b + req.size < AddrLimit
      BY <2>2, <3>1
    <3> QED BY <2>2, <3>1, <3>2 DEF Addresses
  <2>4. stop = b + req.size /\ stop \in Nat /\ b < stop
    <3>1. /\ AddrLimit \in Nat /\ b + req.size \in 0 .. AddrLimit - 1
          /\ req.size \in Nat /\ req.size > 0 /\ b \in Nat
      BY <1>2, <1>4, <2>2, <2>3
    <3> QED BY <3>1
  <2> HIDE DEF stop
  <2>5. ASSUME NEW a \in Addresses, Fits(a) PROVE b <= a
    BY <1>6, <2>0, <2>5
  <2>6. CASE stop > end
    <3>1. ASSUME NEW a \in Addresses, Fits(a) PROVE ~ Inside(a, i)
      <4>1. b <= a /\ a \in Nat /\ a + req.size <= req.to
        BY <1>6, <2>5, <3>1
      <4>2. a + req.size > end /\ memory[i][2] \in Nat /\ a + req.size \in Nat
        <5>1. req.size \in Nat /\ memory[i][2] \in Nat
          BY <1>4
        <5> QED BY <1>5, <2>2, <2>4, <2>6, <4>1, <5>1
      <4>3. req.to \in Nat
        BY <1>4
      <4> QED BY <1>5, <4>1, <4>2, <4>3 DEF Inside
    <3>2. i' = i + 1 /\ pc' = "range" /\ begin' = b /\ UNCHANGED <<j, result>>
      BY <1>1, <1>4, <1>5, <1>8, <2>6
    <3> QED BY <1>1, <2>3, <3>1, <3>2, LeaveRange
  <2>7. CASE stop <= end
    <3>1. /\ n \in j .. Len(reserved) + 1
          /\ \A m \in j .. n - 1 : reserved[m][2] <= b
          /\ n <= Len(reserved) => reserved[n][2] > b
      BY <1>2, <2>2, FirstEndingFacts
    <3> HIDE DEF n
    <3>2. n \in 1 .. Len(reserved) + 1 /\ n \in Nat
      BY <1>4, <3>1
    <3>3. b < stop /\ stop <= memory[i][2] /\ stop <= req.to /\ memory[i][1] <= b /\ req.from <= b
      <4>1. /\ memory[i][1] \in Nat /\ memory[i][2] \in Nat /\ req.from \in Nat /\ req.to \in Nat
            /\ begin \in Nat /\ memory[i][1] <= begin /\ req.from <= begin
        BY <1>3, <1>4
      <4> QED BY <1>5, <2>2, <2>4, <2>7, <4>1
    <3>4. ASSUME NEW m \in 1 .. n - 1
          PROVE  reserved[m][2] <= b /\ reserved[m][2] <= memory[i][2] /\ reserved[m][2] \in Nat
      <4>1. m \in 1 .. Len(reserved) /\ (m \in 1 .. j - 1 \/ m \in j .. n - 1)
        BY <1>4, <3>2
      <4>2. reserved[m][2] \in Nat
        BY <1>2, <4>1, TypeFacts
      <4>3. reserved[m][2] <= begin \/ reserved[m][2] <= b
        BY <1>3, <3>1, <4>1
      <4>4. begin \in Nat /\ memory[i][2] \in Nat
        BY <1>4
      <4> QED BY <2>2, <2>4, <3>3, <4>2, <4>3, <4>4
    <3>5. /\ j' = n /\ UNCHANGED i
          /\ IF n > Len(reserved) \/ reserved[n][1] >= stop
             THEN begin' = b /\ result' = b /\ pc' = "found"
             ELSE begin' = reserved[n][2] /\ UNCHANGED <<pc, result>>
      BY <1>1, <1>4, <1>5, <1>8, <2>4, <2>2, <2>7
    <3>6. i' \in 1 .. Len(memory) + 1 /\ j' \in 1 .. Len(reserved) + 1
      BY <1>4, <3>2, <3>5
    <3>7. CASE n > Len(reserved) \/ reserved[n][1] >= stop
      <4>1. begin' = b /\ result' = b /\ pc' = "found"
        BY <3>5, <3>7
      <4>2. /\ ListsOK' /\ MemoryApart' /\ RequestOK' /\ HeldReserved'
            /\ \A a \in Addresses : Fits(a)' <=> Fits(a)
        BY <1>1, <2>3, <3>6, <4>1, SearchFrame
      <4>3. ASSUME NEW x \in b .. b + req.size - 1 PROVE x \in Covered(memory)
        <5>1. x \in RangeAddrs(memory[i])
          <6>1. memory[i][1] \in Nat /\ memory[i][2] \in Nat /\ req.size \in Nat
            BY <1>4
          <6> QED BY <2>2, <2>4, <3>3, <6>1 DEF RangeAddrs
        <5> QED BY <1>4, <5>1 DEF Covered
      <4>4. ASSUME NEW x \in b .. b + req.size - 1 PROVE x \notin Covered(reserved)
        <5>1. SUFFICES ASSUME NEW m \in 1 .. Len(reserved), x \in RangeAddrs(reserved[m])
              PROVE  FALSE
          BY DEF Covered
        <5>2. /\ reserved[m][1] \in Nat /\ reserved[m][2] \in Nat
              /\ reserved[m][1] <= x /\ x < reserved[m][2] /\ x \in Nat
          <6>1. reserved[m][1] \in Nat /\ reserved[m][2] \in Nat
            BY <1>2, TypeFacts
          <6>2. x \in Nat /\ x \in reserved[m][1] .. reserved[m][2] - 1
            BY <2>2, <2>3, <5>1, <6>1 DEF RangeAddrs
          <6> QED BY <6>1, <6>2
        <5>3. CASE m < n
          <6>1. m \in 1 .. n - 1
            BY <3>2, <5>3
          <6>2. reserved[m][2] <= b
            BY <3>4, <6>1
          <6> QED BY <1>4, <2>2, <5>2, <6>2
        <5>4. CASE ~ (m < n)
          <6>1. n \in 1 .. Len(reserved) /\ (n = m \/ n < m)
            BY <1>4, <3>2, <5>4
          <6>2. n = m \/ reserved[n][1] < reserved[m][1]
            BY <1>2, <6>1 DEF ListsSorted, SortedList
          <6>3. reserved[n][1] \in Nat /\ reserved[n][1] >= stop
            <7>1. ~ (n > Len(reserved))
              BY <1>4, <6>1
            <7>2. reserved[n][1] \in Nat
              BY <1>2, <6>1, TypeFacts
            <7> QED BY <3>7, <7>1, <7>2
          <6>4. x < stop
            <7>1. req.size \in Nat /\ stop = b + req.size /\ x \in b .. b + req.size - 1
              BY <1>4, <2>4
            <7> QED BY <2>2, <7>1
          <6> QED BY <2>4, <5>2, <6>2, <6>3, <6>4
        <5> QED BY <5>3, <5>4
      <4>5. Fits(b)
        <5>1. b .. b + req.size - 1 \subseteq Covered(memory) \ Covered(reserved)
          BY <4>3, <4>4
        <5> QED BY <2>0, <2>4, <3>3, <5>1 DEF Fits
      <4>6. ASSUME NEW a \in 0 .. b - 1 PROVE ~ Fits(a)
        <5>1. a \in Addresses /\ a \in Nat /\ a < b
          BY <2>2, <2>3, <1>4 DEF Addresses
        <5> QED BY <2>2, <2>5, <5>1
      <4>7. \A a \in 0 .. b - 1 : a \in Addresses
        BY <1>4, <2>2, <2>3 DEF Addresses
      <4>8. FindsLowestFit'
        BY <2>3, <4>1, <4>2, <4>5, <4>6, <4>7 DEF FindsLowestFit
      <4> QED BY <4>1, <4>2, <4>8 DEF BootInv, SearchOK, RangeLoop, FitLoop
    <3>8. CASE ~ (n > Len(reserved) \/ reserved[n][1] >= stop)
      <4>1. begin' = reserved[n][2] /\ UNCHANGED <<pc, result>>
        BY <3>5, <3>8
      <4>2. n \in 1 .. Len(reserved)
        BY <1>4, <3>2, <3>8
      <4>3. /\ reserved[n][1] \in Nat /\ reserved[n][2] \in Nat
            /\ reserved[n][1] < reserved[n][2] /\ reserved[n][2] \in Addresses
        BY <1>2, <4>2, TypeFacts
      <4>4. reserved[n][1] < stop /\ b < reserved[n][2]
        <5>1. n \in Nat /\ Len(reserved) \in Nat /\ n <= Len(reserved)
          BY <1>4, <4>2
        <5> QED BY <2>2, <2>4, <3>1, <3>8, <4>3, <5>1
      <4>5. /\ ListsOK' /\ MemoryApart' /\ RequestOK' /\ HeldReserved'
            /\ \A a \in Addresses : Fits(a)' <=> Fits(a)
            /\ \A a, k : Inside(a, k)' <=> Inside(a, k)
        BY <1>1, <1>4, <3>6, <4>1, <4>3, SearchFrame
      <4>6. SearchOK'
        BY <1>1, <1>2, <1>4, <3>5, <3>6, <4>1, <4>5 DEF SearchOK
      <4>7. ASSUME NEW a \in Addresses, Fits(a) PROVE reserved[n][2] <= a
        <5>1. a \in Nat /\ b <= a /\ a .. a + req.size - 1 \cap Covered(reserved) = {}
          BY <1>4, <2>5, <4>7 DEF Fits
        <5>2. SUFFICES ASSUME a < reserved[n][2] PROVE FALSE
          BY <4>3, <5>1
        <5>3. PICK x \in {a, reserved[n][1]} : a <= x /\ reserved[n][1] <= x
          BY <4>3, <5>1
        <5>4. x \in Nat /\ x \in a .. a + req.size - 1
          <6>1. req.size \in Nat /\ req.size > 0 /\ x \in Nat
            BY <1>2, <1>4, <4>3, <5>1, <5>3
          <6>2. x = a \/ x < b + req.size
            BY <2>4, <4>4, <5>3
          <6>3. x < a + req.size
            BY <2>2, <5>1, <6>1, <6>2
          <6> QED BY <5>1, <5>3, <6>1, <6>3
        <5>5. x \in RangeAddrs(reserved[n])
          BY <4>3, <5>1, <5>2, <5>3, <5>4 DEF RangeAddrs
        <5>6. x \in Covered(reserved)
          BY <4>2, <5>5 DEF Covered
        <5> QED BY <5>1, <5>4, <5>6
      <4>8. FitLoop'
        <5>0. /\ b \in Nat /\ reserved[n][2] \in Nat /\ memory[i][1] \in Nat /\ req.from \in Nat
              /\ memory[i][1] <= b /\ req.from <= b /\ b < reserved[n][2]
          <6>1. memory[i][1] \in Nat /\ req.from \in Nat
            BY <1>4
          <6> QED BY <2>2, <3>3, <4>3, <4>4, <6>1
        <5>1. memory[i][1] <= reserved[n][2] /\ req.from <= reserved[n][2]
          BY <5>0
        <5>2. \A m \in 1 .. n - 1 :
                  reserved[m][2] <= reserved[n][2] /\ reserved[m][2] <= memory[i][2]
          BY <3>4, <5>0
        <5> QED BY <1>1, <1>3, <3>5, <4>1, <4>5, <4>7, <5>1, <5>2 DEF FitLoop
      <4> QED BY <1>1, <4>1, <4>5, <4>6, <4>8 DEF BootInv, RangeLoop, FindsLowestFit
    <3> QED BY <3>7, <3>8
  <2> QED BY <1>4, <1>5, <2>2, <2>4, <2>6, <2>7
<1> QED BY <1>4, <1>5, <1>7, <1>8

\* What a search returns is available and not reserved, and none of it is past
\* the last address.
LEMMA GrantedFree ==
    ASSUME BootInv, pc = "found", Succeeds
    PROVE  /\ Granted \in Ranges
           /\ RangeAddrs(Granted) \subseteq Covered(memory) \ Covered(reserved)
<1>1. /\ TypeOK /\ ListsSorted /\ FindsLowestFit /\ result # req.to
      /\ Granted = <<result, (result + req.size) % AddrLimit>>
  BY DEF BootInv, ListsOK, Succeeds, Granted
<1>2. /\ result \in Nat /\ result < AddrLimit /\ AddrLimit \in Nat /\ AddrLimit > 1
      /\ req.size \in Nat /\ req.to \in Nat /\ req.to < AddrLimit
  BY <1>1, TypeFacts, BootMemAssumption DEF TypeOK, Addresses
<1>3. Granted \in Ranges
  <2>1. (result + req.size) % AddrLimit \in 0 .. AddrLimit - 1
    BY <1>2
  <2> QED BY <1>1, <1>2, <2>1 DEF Ranges, Addresses
<1>4. CASE req.size = 0
  <2>1. (result + req.size) % AddrLimit = result
    BY <1>2, <1>4
  <2>2. RangeAddrs(Granted) = {}
    BY <1>1, <1>2, <2>1 DEF RangeAddrs
  <2> QED BY <1>3, <2>2
<1>5. CASE req.size > 0
  <2>1. Fits(result)
    BY <1>1, <1>5 DEF FindsLowestFit
  <2>2. /\ result + req.size <= req.to
        /\ result .. result + req.size - 1 \subseteq Covered(memory) \ Covered(reserved)
    BY <2>1 DEF Fits
  <2>3. (result + req.size) % AddrLimit = result + req.size
    BY <1>2, <2>2
  <2>4. Granted = <<result, result + req.size>>
    BY <1>1, <2>3
  <2>5. RangeAddrs(<<result, result + req.size>>) = result .. result + req.size - 1
    BY <1>2 DEF RangeAddrs
  <2> QED BY <1>3, <2>2, <2>4, <2>5
<1> QED BY <1>2, <1>4, <1>5

\* Granting it: the range is reserved afterwards, and nobody held a byte of it.
LEMMA GrantStep ==
    ASSUME BootInv, AllocReturn, Succeeds
    PROVE  /\ RangeAddrs(Granted) \subseteq Covered(memory) \ Covered(reserved)
           /\ RangeAddrs(Granted) \subseteq Covered(reserved')
           /\ \A r \in allocated : RangeAddrs(r) \cap RangeAddrs(Granted) = {}
           /\ reserved' \in RangeList /\ SortedList(reserved')
           /\ Covered(reserved') = Covered(reserved) \cup RangeAddrs(Granted)
<1>1. /\ pc = "found" /\ reserved' = boot_mem_add_range(reserved, Granted)
  BY DEF AllocReturn
<1>2. /\ HeldReserved /\ reserved \in RangeList /\ SortedList(reserved)
      /\ ~ AddRangeFails(reserved, Granted)
  BY DEF BootInv, ListsOK, TypeOK, ListsSorted, Succeeds
<1>3. /\ Granted \in Ranges
      /\ RangeAddrs(Granted) \subseteq Covered(memory) \ Covered(reserved)
  BY <1>1, GrantedFree
<1>4. /\ reserved' \in RangeList /\ SortedList(reserved')
      /\ Covered(reserved') = Covered(reserved) \cup RangeAddrs(Granted)
  BY <1>1, <1>2, <1>3, AddRangeKeepsOrder
<1>5. \A r \in allocated : RangeAddrs(r) \subseteq Covered(reserved)
  BY <1>2 DEF HeldReserved
<1> QED BY <1>3, <1>4, <1>5

\* What a caller gets was free, so reserving it harms no other caller.
LEMMA AllocReturnStep ==
    ASSUME BootInv, AllocReturn
    PROVE  BootInv'
<1>1. /\ pc = "found" /\ pc' = "idle"
      /\ IF Succeeds
         THEN /\ reserved' = boot_mem_add_range(reserved, Granted)
              /\ allocated' = allocated \cup {Granted}
         ELSE UNCHANGED <<reserved, allocated>>
      /\ UNCHANGED <<memory, caller, req, i, j, begin, result>>
  BY DEF AllocReturn, find
<1>2. /\ TypeOK /\ ListsSorted /\ MemoryApart /\ RequestOK /\ HeldReserved
  BY DEF BootInv, ListsOK
<1>4. MemoryApart' /\ RequestOK'
  BY <1>1, <1>2 DEF MemoryApart, RequestOK
<1>5. CASE ~ Succeeds
  <2>1. UNCHANGED <<reserved, allocated>>
    BY <1>1, <1>5
  <2>2. TypeOK' /\ ListsSorted' /\ HeldReserved'
    BY <1>1, <1>2, <2>1 DEF TypeOK, ListsSorted, HeldReserved
  <2> QED BY <1>1, <1>4, <2>2, IdleSearch DEF BootInv, ListsOK
<1>6. CASE Succeeds
  <2>1. allocated' = allocated \cup {Granted}
    BY <1>1, <1>6
  <2>2. Granted \in Ranges
    BY <1>1, <1>6, GrantedFree
  <2>4. /\ reserved' \in RangeList /\ SortedList(reserved')
        /\ Covered(reserved') = Covered(reserved) \cup RangeAddrs(Granted)
    BY <1>6, GrantStep
  <2>5. TypeOK' /\ ListsSorted'
    BY <1>1, <1>2, <2>1, <2>2, <2>4 DEF TypeOK, ListsSorted, Ranges
  <2>6. HeldReserved'
    BY <1>2, <2>1, <2>4 DEF HeldReserved
  <2> QED BY <1>1, <1>4, <2>5, <2>6, IdleSearch DEF BootInv, ListsOK
<1> QED BY <1>5, <1>6

\* The steps of a call after its start keep the invariant.
LEMMA CallStep ==
    ASSUME BootInv, Find \/ AllocReturn \/ IsFreeReturn
    PROVE  BootInv' /\ memory' = memory
<1>1. ASSUME IsFreeReturn PROVE BootInv' /\ memory' = memory
  <2>1. /\ pc' = "idle"
        /\ UNCHANGED <<memory, reserved, caller, req, i, j, begin, result, allocated>>
    BY <1>1 DEF IsFreeReturn, lists, find
  <2>2. TypeOK' /\ ListsSorted' /\ MemoryApart' /\ RequestOK' /\ HeldReserved'
    BY <2>1 DEF BootInv, ListsOK, TypeOK, ListsSorted, MemoryApart, RequestOK, HeldReserved
  <2> QED BY <2>1, <2>2, IdleSearch DEF BootInv, ListsOK
<1>2. Find \/ AllocReturn => memory' = memory
  BY DEF Find, FindRange, FindFit, AllocReturn, lists
<1> QED BY <1>1, <1>2, FindRangeStep, FindFitStep, AllocReturnStep DEF Find

\* Nothing changes when the lists and the search stand still.
LEMMA BootStutter ==
    ASSUME BootInv, UNCHANGED vars
    PROVE  BootInv'
<1>1. UNCHANGED <<memory, reserved, pc, caller, req, i, j, begin, result, allocated>>
  BY DEF vars
<1>2. ListsOK' /\ MemoryApart' /\ RequestOK' /\ HeldReserved'
  BY <1>1 DEF BootInv, ListsOK, TypeOK, ListsSorted, MemoryApart, RequestOK, HeldReserved
<1>3. SearchOK' /\ RangeLoop' /\ FitLoop' /\ FindsLowestFit'
  BY <1>1 DEF BootInv, SearchOK, RangeLoop, FitLoop, FindsLowestFit, Fits, Inside
<1> QED BY <1>2, <1>3 DEF BootInv

-----------------------------------------------------------------------------
(* BootMem by itself.                                                      *)

IInv == BootInv /\ PiecesUncut(MemoryRanges)

\* The invariant holds before anything is added.
LEMMA InitIInv == Init => IInv
BY InitBootInv DEF IInv, Init, PiecesUncut, Uncut

\* What every step keeps, and what the two that fill the lists do to them.
LEMMA NextIInv ==
    ASSUME IInv, [Next]_vars
    PROVE  /\ IInv'
           /\ \A r \in MemoryRanges : boot_mem_add(r) => AddIsExact(memory, memory', r)
           /\ \A r \in ReservedRanges : boot_mem_reserve(r) => AddIsExact(reserved, reserved', r)
<1>0. BootInv /\ (memory' = memory => PiecesUncut(MemoryRanges)')
  BY DEF IInv, PiecesUncut
<1>1. ASSUME NEW r \in MemoryRanges, boot_mem_add(r) PROVE IInv' /\ AddIsExact(memory, memory', r)
  <2>1. MemoryRanges \in SUBSET Ranges
    BY BootMemAssumption DEF Ranges
  <2>2. \A q, p \in MemoryRanges : q # p => q[2] <= p[1] \/ p[2] <= q[1]
    BY FirmwareMapAssumption
  <2> QED BY <1>1, <2>1, <2>2, AddStep DEF IInv
<1>2. ASSUME NEW r \in ReservedRanges, boot_mem_reserve(r)
      PROVE  IInv' /\ AddIsExact(reserved, reserved', r)
  <2>1. r \in Ranges
    BY BootMemAssumption DEF Ranges
  <2>2. memory' = memory
    BY <1>2 DEF boot_mem_reserve
  <2> QED BY <1>0, <1>2, <2>1, <2>2, ReserveStep DEF IInv
<1>3. ASSUME NEW r \in Requests, boot_mem_alloc(r) PROVE IInv'
  <2>1. /\ boot_mem_find(r) /\ caller' = "boot_mem_alloc"
        /\ r \in [size : Addresses, align : Addresses, from : Addresses, to : Addresses]
        /\ r.align # 0 /\ 2 * r.to + r.align <= AddrLimit
    <3>1. r \in [size : Addresses, align : Addresses \ {0}, from : Addresses, to : Addresses]
      BY BootMemAssumption
    <3>2. 2 * r.to + r.align <= AddrLimit
      BY RequestAssumption
    <3> QED BY <1>3, <3>1, <3>2 DEF boot_mem_alloc
  <2>2. memory' = memory
    BY <2>1 DEF boot_mem_find, lists
  <2> QED BY <1>0, <2>1, <2>2, StartStep DEF IInv
<1>4. ASSUME NEW q \in Queries, boot_mem_is_free(q[1], q[2]) PROVE IInv'
  <2> DEFINE r == [size |-> (q[2] - q[1]) % AddrLimit, align |-> 1, from |-> q[1], to |-> q[2]]
  <2>1. q[1] \in Addresses /\ q[2] \in Addresses /\ 2 * q[2] + 1 <= AddrLimit
    BY BootMemAssumption, RequestAssumption
  <2>2. 1 \in Addresses /\ (q[2] - q[1]) % AddrLimit \in Addresses
    BY <2>1, BootMemAssumption DEF Addresses
  <2>3. /\ r \in [size : Addresses, align : Addresses, from : Addresses, to : Addresses]
        /\ r.align # 0 /\ 2 * r.to + r.align <= AddrLimit
    BY <2>1, <2>2
  <2>4. boot_mem_find(r) /\ caller' = "boot_mem_is_free"
    BY <1>4 DEF boot_mem_is_free
  <2> HIDE DEF r
  <2>5. memory' = memory
    BY <2>4 DEF boot_mem_find, lists
  <2> QED BY <1>0, <2>3, <2>4, <2>5, StartStep DEF IInv
<1>5. ASSUME Find \/ AllocReturn \/ IsFreeReturn PROVE IInv'
  BY <1>0, <1>5, CallStep DEF IInv
<1>6. ASSUME UNCHANGED vars PROVE IInv'
  BY <1>0, <1>6, BootStutter DEF IInv, vars
<1>7. IInv'
  BY <1>1, <1>2, <1>3, <1>4, <1>5, <1>6 DEF Next
<1> QED BY <1>1, <1>2, <1>7

-----------------------------------------------------------------------------
(* The theorems.                                                           *)

\* The lists of boot_mem_add and boot_mem_reserve stay sorted, within their
\* capacity and free of empty ranges, and the search keeps what it knows.
THEOREM InvariantHolds == Spec => []IInv
<1>1. IInv /\ [Next]_vars => IInv'
  BY NextIInv
<1> QED BY InitIInv, <1>1, PTL DEF Spec

\* boot_mem_add and boot_mem_reserve never leave a list out of order, with an
\* empty range, or longer than there is room for, in whatever order ranges come.
THEOREM ListsAreOK == Spec => []ListsOK
<1>1. IInv => ListsOK
  BY DEF IInv, BootInv
<1> QED BY InvariantHolds, <1>1, PTL

\* boot_mem_find returns the lowest aligned address whose bytes are all
\* available and not reserved, and its upper bound exactly when there is none.
THEOREM FindIsLowestFit == Spec => []FindsLowestFit
<1>1. IInv => FindsLowestFit
  BY DEF IInv, BootInv
<1> QED BY InvariantHolds, <1>1, PTL

\* What boot_mem_alloc gives is available and not reserved before, is reserved
\* afterwards, and shares no byte with anything it gave before.
THEOREM AllocationsAreDisjoint == Spec => AllocationsDisjoint
<1>1. IInv /\ [Next]_vars =>
        [AllocReturn /\ Succeeds =>
            /\ RangeAddrs(Granted) \subseteq Covered(memory) \ Covered(reserved)
            /\ RangeAddrs(Granted) \subseteq Covered(reserved')
            /\ \A r \in allocated : RangeAddrs(r) \cap RangeAddrs(Granted) = {}]_vars
  BY GrantStep DEF IInv
<1> QED BY InvariantHolds, <1>1, PTL DEF Spec, AllocationsDisjoint

\* boot_mem_add_range neither loses an address nor covers one it was not
\* given, except that a full list refuses the range.
THEOREM RangesAreExact == Spec => RangesExact
<1>1. IInv /\ [Next]_vars =>
        [/\ \A r \in MemoryRanges :
                boot_mem_add(r) => AddIsExact(memory, memory', r)
         /\ \A r \in ReservedRanges :
                boot_mem_reserve(r) => AddIsExact(reserved, reserved', r)]_vars
  BY NextIInv
<1> QED BY InvariantHolds, <1>1, PTL DEF Spec, RangesExact

-----------------------------------------------------------------------------
(* The search and its end.  That a statement is executed in the end is     *)
(* fairness; that only finitely many are is shown here.                    *)

\* Two iterations for each range of memory not visited yet: the loop's head, and
\* the end of the loop over candidates.
RangesLeft == 2 * (Len(memory) + 1 - i) + (IF pc = "range" THEN 1 ELSE 0)

\* The search is over, or closer to the end of memory, or higher in a range.
Descends ==
    /\ RangesLeft \in Nat /\ begin' < AddrLimit
    /\ \/ pc' = "found"
       \/ RangesLeft' < RangesLeft
       \/ RangesLeft' = RangesLeft /\ begin < begin'

\* No iteration of either loop of boot_mem_find leaves things as they are.
LEMMA FindDescends ==
    ASSUME BootInv, Find
    PROVE  Descends
<1> DEFINE rest == Len(memory) + 1 - i
<1>1. /\ pc \in {"range", "fit"} /\ memory' = memory
  <2>1. CASE FindRange
    BY <2>1 DEF FindRange, lists
  <2>2. CASE FindFit
    BY <2>2 DEF FindFit, lists
  <2> QED BY <2>1, <2>2 DEF Find
<1>2. /\ TypeOK /\ ListsSorted /\ i <= Len(memory) + 1 /\ j <= Len(reserved) + 1
      /\ req.align # 0 /\ 2 * req.to + req.align <= AddrLimit
  BY <1>1, SearchFacts
<1>3. /\ Len(memory) \in Nat /\ Len(reserved) \in Nat /\ i \in Nat /\ j \in Nat /\ begin \in Nat
      /\ AddrLimit \in Nat /\ req.to \in Nat /\ req.align \in Nat \ {0}
  BY <1>2, TypeFacts
<1>4. rest \in Nat
  BY <1>2, <1>3
<1>5. begin' < AddrLimit
  <2>1. BootInv'
    BY CallStep
  <2> QED BY <2>1, BootMemAssumption DEF BootInv, ListsOK, TypeOK, Addresses
<1>6. RangesLeft = 2 * rest + (IF pc = "range" THEN 1 ELSE 0)
  BY DEF RangesLeft
<1>7. RangesLeft' = 2 * (Len(memory) + 1 - i') + (IF pc' = "range" THEN 1 ELSE 0)
  BY <1>1 DEF RangesLeft
<1>8. RangesLeft \in Nat
  BY <1>4, <1>6
<1>9. CASE FindRange
  <2>1. \/ pc' = "found"
        \/ pc = "range" /\ pc' = "range" /\ i' = i + 1
        \/ pc = "range" /\ pc' = "fit" /\ i' = i
    BY <1>9 DEF FindRange, found
  <2>2. ASSUME pc = "range", pc' = "range", i' = i + 1 PROVE RangesLeft' < RangesLeft
    BY <1>3, <1>6, <1>7, <2>2
  <2>3. ASSUME pc = "range", pc' = "fit", i' = i PROVE RangesLeft' < RangesLeft
    BY <1>3, <1>6, <1>7, <2>3
  <2> QED BY <1>5, <1>8, <2>1, <2>2, <2>3 DEF Descends
<1>10. CASE FindFit
  <2> DEFINE b == align_up(begin, req.align)
             n == FirstEndingAfter(b)
  <2>1. \/ pc' = "found"
        \/ pc = "fit" /\ pc' = "range" /\ i' = i + 1
        \/ /\ pc = "fit" /\ pc' = "fit" /\ i' = i
           /\ ~ (begin >= min(memory[i][2], req.to))
           /\ ~ (n > Len(reserved)) /\ begin' = reserved[n][2]
    BY <1>10 DEF FindFit, found
  <2>2. ASSUME pc = "fit", pc' = "range", i' = i + 1 PROVE RangesLeft' < RangesLeft
    BY <1>3, <1>6, <1>7, <2>2
  <2>3. ASSUME pc = "fit", pc' = "fit", i' = i,
               ~ (begin >= min(memory[i][2], req.to)),
               ~ (n > Len(reserved)), begin' = reserved[n][2]
        PROVE  RangesLeft' = RangesLeft /\ begin < begin'
    <3>1. begin < req.to
      <4>0. i <= Len(memory) /\ 1 <= i
        BY <1>2, <2>3, TypeFacts DEF BootInv, FitLoop
      <4>1. i \in 1 .. Len(memory)
        BY <1>3, <4>0
      <4>2. memory[i][2] \in Nat
        BY <1>2, <4>1, TypeFacts
      <4>3. ~ (begin >= min(memory[i][2], req.to))
        BY <2>3
      <4>4. min(memory[i][2], req.to) \in Nat /\ min(memory[i][2], req.to) <= req.to
        BY <1>3, <4>2 DEF min
      <4> QED BY <1>3, <4>3, <4>4
    <3>2. b \in Nat /\ begin <= b
      <4>1. begin + req.align <= AddrLimit
        <5>1. /\ begin \in Nat /\ req.align \in Nat /\ req.to \in Nat /\ AddrLimit \in Nat
              /\ 2 * req.to + req.align <= AddrLimit
          BY <1>2, <1>3
        <5> QED BY <3>1, <5>1
      <4> QED BY <1>3, <4>1, AlignUpFacts
    <3> HIDE DEF b
    <3>3. n \in j .. Len(reserved) + 1 /\ (n <= Len(reserved) => reserved[n][2] > b)
      BY <1>2, <3>2, FirstEndingFacts
    <3>4. n \in 1 .. Len(reserved) /\ reserved[n][2] > b
      <4> HIDE DEF n
      <4>1. 1 <= j
        BY <1>2, TypeFacts
      <4>2. n \in Int /\ j <= n /\ n <= Len(reserved) + 1
        BY <1>3, <3>3
      <4>3. ~ (n > Len(reserved))
        BY <2>3
      <4>4. n \in 1 .. Len(reserved) /\ n <= Len(reserved)
        BY <1>3, <4>1, <4>2, <4>3
      <4> QED BY <3>3, <4>4
    <3>5. begin < begin'
      <4> HIDE DEF n
      <4>1. reserved[n][2] \in Nat
        BY <1>2, <3>4, TypeFacts
      <4> QED BY <1>3, <2>3, <3>2, <3>4, <4>1
    <3>6. RangesLeft' = RangesLeft
      BY <1>6, <1>7, <2>3
    <3> QED BY <3>5, <3>6
  <2> QED BY <1>5, <1>8, <2>1, <2>2, <2>3 DEF Descends
<1> QED BY <1>9, <1>10 DEF Find

\* Each iteration of a search ends it, or leaves it with fewer ranges, or with a
\* higher candidate in the same range: it ends if its next statement is executed.
THEOREM SearchAdvances == Spec => [][Find => Descends]_vars
<1>1. IInv /\ [Next]_vars => [Find => Descends]_vars
  BY FindDescends DEF IInv
<1> QED BY InvariantHolds, <1>1, PTL DEF Spec

-----------------------------------------------------------------------------
(* The set-up: its inductive invariant.                                    *)

Early == {"map", "kernel", "alloc_page_array"}
Late  == {"init_zone", "is_free_call", "done"}

\* What has been taken out of memory: the kernel's image, then the page array.
TakenAddrs ==
    (IF phase \in {"map", "kernel"} THEN {} ELSE RangeAddrs(KernelImage))
        \cup (IF phase \in Late THEN RangeAddrs(page_array) ELSE {})

\* The lists hold what has been read of the map, and what has been taken.
ListsHoldMap ==
    /\ Covered(memory) = MapAddrs(Available \cap (1 .. entry - 1))
    /\ Covered(reserved) = MapAddrs((1 .. entry - 1) \ Available) \cup TakenAddrs

\* No list is longer than the part of the map that has been read.
ListsShort ==
    /\ Len(memory) <= entry - 1
    /\ phase \in {"map", "kernel"} => Len(reserved) <= entry - 1

\* The page frames end below the limit of the addresses, and the map is read.
MapRead ==
    /\ phase # "map" => entry = Len(mmap) + 1
    /\ page_frame_count * PAGE_SIZE <= PHYS_MEM_MAX

FirstRequest ==
    [size |-> PAGE_SIZE, align |-> 1, from |-> 0, to |-> PAGE_SIZE]

\* The call in progress is the one its phase has made.
CallOfPhase ==
    /\ phase \notin {"page_array_call", "is_free_call"} => pc = "idle"
    /\ phase = "page_array_call" =>
          /\ pc # "idle" /\ caller = "boot_mem_alloc"
          /\ req = PageArrayRequest
          /\ req.size = 0 => pc = "found" /\ result = PAGE_SIZE
    /\ phase = "is_free_call" =>
          /\ pc # "idle" /\ caller = "boot_mem_is_free"
          /\ init_pfn < page_frame_count
          /\ IF init_pfn = 0 THEN req = FirstRequest
             ELSE pc = "found" /\ result = PAGE_SIZE

\* The page array is the one piece of memory that has been allocated.
PageArrayOK ==
    /\ phase \notin Late => allocated = {}
    /\ phase \in Late =>
          /\ page_array \in Ranges
          /\ PAGE_SIZE <= page_array[1]
          /\ page_array[2] <= LOWMEM_PAGE_FRAMES * PAGE_SIZE
          /\ page_array[1] % PAGE_SIZE = 0
          /\ RangeAddrs(page_array) \subseteq AvailableAddrs \ UsedAddrs

\* init_zone has freed what it was told to free of the pages it has seen.
FreedSoFar ==
    /\ phase \notin Late => init_pfn = 0
    /\ init_pfn <= page_frame_count
    /\ freed = {p \in 0 .. init_pfn - 1 : p > 0 \/ ~ FirstPageFree}
    /\ phase = "done" => init_pfn = page_frame_count

SetupInv ==
    /\ BootInv
    /\ PiecesUncut(PiecesOf(mmap))
    /\ SetupTypeOK
    /\ ListsHoldMap
    /\ ListsShort
    /\ MapRead
    /\ CallOfPhase
    /\ PageArrayOK
    /\ FreedSoFar

-----------------------------------------------------------------------------
(* The set-up: what its steps rest on.                                     *)

\* The bounds of low memory, and what they leave between it and the limit.
LEMMA SetupNumbers ==
    /\ AddrLimit \in Nat /\ AddrLimit > 1 /\ PHYS_MEM_MAX = AddrLimit - 1 /\ PHYS_MEM_MAX \in Nat
    /\ PAGE_SIZE \in Nat \ {0} /\ SizeofPage \in Nat /\ SizeofPage <= PAGE_SIZE
    /\ LOWMEM_PAGE_FRAMES \in Nat \ {0}
    /\ LOWMEM_PAGE_FRAMES * PAGE_SIZE \in Nat
    /\ PAGE_SIZE <= LOWMEM_PAGE_FRAMES * PAGE_SIZE
    /\ 2 * (LOWMEM_PAGE_FRAMES * PAGE_SIZE) + PAGE_SIZE <= AddrLimit
    /\ 2 * PAGE_SIZE + 1 <= AddrLimit /\ PAGE_SIZE < AddrLimit
    /\ KernelImage \in Ranges
<1>1. /\ AddrLimit \in Nat /\ AddrLimit > 1
  BY BootMemAssumption
<1>2. /\ PAGE_SIZE \in Nat \ {0} /\ SizeofPage \in 1 .. PAGE_SIZE /\ LOWMEM_PAGE_FRAMES \in Nat \ {0}
      /\ 2 * (LOWMEM_PAGE_FRAMES * PAGE_SIZE) + PAGE_SIZE <= AddrLimit
      /\ KernelImage \in Ranges
  BY SetupAssumption DEF Ranges
<1>3. PICK t \in Nat : t = LOWMEM_PAGE_FRAMES * PAGE_SIZE /\ PAGE_SIZE <= t
  <2>1. 1 * PAGE_SIZE <= LOWMEM_PAGE_FRAMES * PAGE_SIZE /\ LOWMEM_PAGE_FRAMES * PAGE_SIZE \in Nat
    BY <1>2, ProductOrder
  <2> QED BY <1>2, <2>1
<1>4. 2 * t + PAGE_SIZE <= AddrLimit
  BY <1>2, <1>3
<1>5. 2 * PAGE_SIZE + 1 <= AddrLimit /\ PAGE_SIZE < AddrLimit
  <2>1. PAGE_SIZE \in Nat /\ PAGE_SIZE > 0
    BY <1>2
  <2> QED BY <1>1, <1>3, <1>4, <2>1
<1>6. SizeofPage \in Nat /\ SizeofPage <= PAGE_SIZE
  BY <1>2
<1>7. PHYS_MEM_MAX = AddrLimit - 1 /\ PHYS_MEM_MAX \in Nat
  BY <1>1 DEF PHYS_MEM_MAX
<1> QED BY <1>1, <1>2, <1>3, <1>4, <1>5, <1>6, <1>7

\* What a map may hold: ranges of addresses, the available ones disjoint, and
\* no more of them than a list has room for.
LEMMA MapFacts ==
    ASSUME NEW m \in Maps
    PROVE  /\ Len(m) \in Nat /\ Len(m) < BOOT_MEM_RANGES
           /\ \A n \in 1 .. Len(m) : Usable(m[n]) => EntryRange(m[n]) \in Ranges
           /\ PiecesOf(m) \in SUBSET Ranges
           /\ \A q, p \in PiecesOf(m) : q # p => q[2] <= p[1] \/ p[2] <= q[1]
<1>1. /\ m \in Seq([addr : Nat, len : Nat, type : Nat])
      /\ Len(m) < BOOT_MEM_RANGES
      /\ \A q, p \in PiecesOf(m) : q # p => q[2] <= p[1] \/ p[2] <= q[1]
  BY MapsAssumption
<1>2. Len(m) \in Nat
  BY <1>1
<1>3. ASSUME NEW n \in 1 .. Len(m), Usable(m[n]) PROVE EntryRange(m[n]) \in Ranges
  <2>0. ASSUME NEW T, m \in Seq(T) PROVE m[n] \in T
    BY <2>0
  <2>1. m[n] \in [addr : Nat, len : Nat, type : Nat]
    BY <1>1, <2>0
  <2>2. m[n].addr \in Nat /\ m[n].len \in Nat /\ m[n].addr <= PHYS_MEM_MAX
    BY <1>3, <2>1 DEF Usable
  <2>3. PICK a \in Nat : a = m[n].addr
    BY <2>2
  <2>4. PICK b \in Nat : b = min(m[n].addr + m[n].len, PHYS_MEM_MAX) /\ b <= PHYS_MEM_MAX
    BY <2>2, SetupNumbers DEF min
  <2>5. EntryRange(m[n]) = <<a, b>> /\ a \in Addresses /\ b \in Addresses
    BY <2>2, <2>3, <2>4, SetupNumbers DEF EntryRange, Addresses
  <2> QED BY <2>5 DEF Ranges
<1>4. PiecesOf(m) \in SUBSET Ranges
  BY <1>3 DEF PiecesOf, AvailableIn
<1> QED BY <1>1, <1>2, <1>3, <1>4

\* The end of the highest available entry is an address.
LEMMA PhysMemSize ==
    ASSUME mmap \in Maps
    PROVE  phys_mem_size \in Nat /\ phys_mem_size <= PHYS_MEM_MAX
<1> DEFINE E == {0} \cup {r[2] : r \in PiecesOf(mmap)}
           T == {AddrLimit - x : x \in E}
<1>1. AddrLimit \in Nat /\ AddrLimit > 1 /\ PHYS_MEM_MAX = AddrLimit - 1
  BY SetupNumbers
<1>2. \A x \in E : x \in Nat /\ x <= PHYS_MEM_MAX
  <2>1. ASSUME NEW r \in PiecesOf(mmap) PROVE r[2] \in Nat /\ r[2] <= PHYS_MEM_MAX
    <3>1. r \in Ranges
      BY MapFacts
    <3>2. r[2] \in Addresses
      BY <3>1, RangeFacts
    <3> QED BY <1>1, <3>2 DEF Addresses
  <2> QED BY <1>1, <2>1
<1>3. 0 \in E
  OBVIOUS
<1> HIDE DEF E
<1>4. T \in SUBSET Nat /\ T # {}
  BY <1>1, <1>2, <1>3
<1>5. PICK t \in T : \A y \in T : t <= y
  BY <1>4, LeastNat
<1>6. PICK x \in E : t = AddrLimit - x
  OBVIOUS
<1>7. ASSUME NEW y \in E PROVE y <= x
  <2>1. AddrLimit - x <= AddrLimit - y
    BY <1>5, <1>6
  <2> QED BY <1>1, <1>2, <2>1
<1>8. \E z \in E : \A r \in PiecesOf(mmap) : r[2] <= z
  <2>1. \A r \in PiecesOf(mmap) : r[2] \in E
    BY DEF E
  <2> QED BY <1>7, <2>1
<1>9. phys_mem_size \in E
  BY <1>8 DEF phys_mem_size, E
<1> QED BY <1>2, <1>9

\* What the sets of addresses are made of does not change with the state.
LEMMA MapFrame ==
    ASSUME mmap' = mmap
    PROVE  /\ Available' = Available
           /\ \A S : MapAddrs(S)' = MapAddrs(S)
           /\ AvailableAddrs' = AvailableAddrs /\ UsedAddrs' = UsedAddrs
           /\ FirstPageFree' = FirstPageFree
           /\ PiecesOf(mmap)' = PiecesOf(mmap)
<1>1. Available' = Available
  BY DEF Available
<1>2. \A S : MapAddrs(S)' = MapAddrs(S)
  BY DEF MapAddrs
<1>3. AvailableAddrs' = AvailableAddrs /\ UnavailableAddrs' = UnavailableAddrs
  BY <1>1 DEF AvailableAddrs, UnavailableAddrs, MapAddrs
<1>4. UsedAddrs' = UsedAddrs
  BY <1>3 DEF UsedAddrs
<1>5. FirstPageFree' = FirstPageFree
  BY <1>3, <1>4 DEF FirstPageFree
<1> QED BY <1>1, <1>2, <1>3, <1>4, <1>5

\* One more entry adds its range, if it is usable.
LEMMA MapAddrsAdd ==
    ASSUME NEW S, NEW n
    PROVE  MapAddrs(S \cup {n}) =
               MapAddrs(S) \cup (IF Usable(mmap[n]) THEN RangeAddrs(EntryRange(mmap[n])) ELSE {})
BY DEF MapAddrs

\* Types and bounds of what the set-up keeps.
LEMMA SetupFacts ==
    ASSUME SetupInv
    PROVE  /\ mmap \in Maps /\ Len(mmap) \in Nat /\ Len(mmap) < BOOT_MEM_RANGES
           /\ entry \in Nat /\ 1 <= entry /\ entry <= Len(mmap) + 1
           /\ page_frame_count \in Nat /\ init_pfn \in Nat /\ init_pfn <= page_frame_count
           /\ BOOT_MEM_RANGES \in Nat
           /\ Len(memory) \in Nat /\ Len(reserved) \in Nat
<1>1. mmap \in Maps /\ TypeOK /\ ListsSorted
  BY DEF SetupInv, SetupTypeOK, BootInv, ListsOK
<1>2. Len(mmap) \in Nat /\ Len(mmap) < BOOT_MEM_RANGES
  BY <1>1, MapFacts
<1>3. entry \in 1 .. Len(mmap) + 1
  BY DEF SetupInv, SetupTypeOK
<1>4. page_frame_count \in Nat /\ init_pfn \in Nat /\ init_pfn <= page_frame_count
  <2>1. page_frame_count \in 0 .. AddrLimit \div PAGE_SIZE /\ init_pfn \in 0 .. page_frame_count
    BY DEF SetupInv, SetupTypeOK
  <2>2. AddrLimit \div PAGE_SIZE \in Nat
    BY SetupNumbers, QuotientBounds
  <2> QED BY <2>1, <2>2
<1>5. Len(memory) \in Nat /\ Len(reserved) \in Nat /\ BOOT_MEM_RANGES \in Nat
  BY <1>1, TypeFacts
<1> QED BY <1>1, <1>2, <1>3, <1>4, <1>5

\* Nothing has been read, taken or freed at the start.
LEMMA InitSetupInv == SetupInit => SetupInv
<1> SUFFICES ASSUME SetupInit PROVE SetupInv
  OBVIOUS
<1>1. /\ Init /\ mmap \in Maps /\ entry = 1 /\ phase = "map"
      /\ page_frame_count = 0 /\ lowmem_page_frame_count = 0
      /\ page_array = <<0, 0>> /\ init_pfn = 0 /\ freed = {}
  BY DEF SetupInit
<1>2. BootInv /\ TypeOK
  BY <1>1, InitBootInv DEF BootInv, ListsOK
<1>3. /\ memory = <<>> /\ reserved = <<>> /\ pc = "idle" /\ allocated = {}
      /\ Len(memory) = 0 /\ Len(reserved) = 0
  BY <1>1 DEF Init
<1>4. PiecesUncut(PiecesOf(mmap))
  BY <1>3 DEF PiecesUncut, Uncut
<1>5. SetupTypeOK
  <2>1. entry \in 1 .. Len(mmap) + 1
    BY <1>1, MapFacts
  <2>2. 0 \in 0 .. AddrLimit \div PAGE_SIZE /\ 0 \in 0 .. LOWMEM_PAGE_FRAMES
    BY SetupNumbers, QuotientBounds
  <2>3. page_array \in Addresses \X Addresses
    BY <1>1, SetupNumbers DEF Addresses
  <2> QED BY <1>1, <1>2, <2>1, <2>2, <2>3 DEF SetupTypeOK, Phases
<1>6. ListsHoldMap
  <2>1. Covered(memory) = {} /\ Covered(reserved) = {}
    BY <1>3 DEF Covered
  <2>2. 1 .. entry - 1 = {}
    BY <1>1
  <2>3. MapAddrs({}) = {} /\ TakenAddrs = {}
    BY <1>1 DEF MapAddrs, TakenAddrs, Late
  <2>4. Available \cap (1 .. entry - 1) = {} /\ (1 .. entry - 1) \ Available = {}
    BY <2>2
  <2> QED BY <2>1, <2>3, <2>4 DEF ListsHoldMap
<1>7. ListsShort
  BY <1>1, <1>3 DEF ListsShort
<1>8. MapRead
  BY <1>1, SetupNumbers DEF MapRead
<1>9. CallOfPhase
  BY <1>1, <1>3 DEF CallOfPhase
<1>10. PageArrayOK
  BY <1>1, <1>3 DEF PageArrayOK, Late
<1>11. FreedSoFar
  BY <1>1 DEF FreedSoFar, Late
<1> QED BY <1>2, <1>4, <1>5, <1>6, <1>7, <1>8, <1>9, <1>10, <1>11 DEF SetupInv

-----------------------------------------------------------------------------
(* The set-up: every step keeps the invariant.                             *)

\* init_phys_mem_map: the entry goes to the list it belongs to, or nowhere.
LEMMA MapEntryStep ==
    ASSUME SetupInv, MapEntry
    PROVE  SetupInv'
<1>1. /\ phase = "map" /\ entry <= Len(mmap) /\ entry' = entry + 1
      /\ mmap' = mmap /\ phase' = phase
      /\ page_frame_count' = page_frame_count
      /\ lowmem_page_frame_count' = lowmem_page_frame_count
      /\ page_array' = page_array /\ init_pfn' = init_pfn /\ freed' = freed
  BY DEF MapEntry, NextEntry, count
<1>2. /\ mmap \in Maps /\ Len(mmap) \in Nat /\ Len(mmap) < BOOT_MEM_RANGES
      /\ entry \in Nat /\ 1 <= entry /\ BOOT_MEM_RANGES \in Nat
      /\ Len(memory) \in Nat /\ Len(reserved) \in Nat
  BY SetupFacts
<1>3. /\ BootInv /\ SetupTypeOK /\ ListsHoldMap /\ CallOfPhase /\ PageArrayOK /\ FreedSoFar
      /\ PiecesUncut(PiecesOf(mmap))
  BY DEF SetupInv
<1>4. /\ pc = "idle" /\ allocated = {}
      /\ Len(memory) <= entry - 1 /\ Len(reserved) <= entry - 1
  BY <1>1 DEF SetupInv, CallOfPhase, PageArrayOK, ListsShort, Late
<1> DEFINE e == mmap[entry]
           X == IF Usable(e) THEN RangeAddrs(EntryRange(e)) ELSE {}
<1>5. PICK m \in Maps : m = mmap
  BY <1>2
<1>6. entry \in 1 .. Len(m)
  BY <1>1, <1>2, <1>5
<1>7. entry \in Available <=> Usable(e) /\ e.type = MULTIBOOT_AVAILABLE
  BY <1>5, <1>6 DEF Available, AvailableIn
<1>8. ~ AddRangeFails(memory, EntryRange(e)) /\ ~ AddRangeFails(reserved, EntryRange(e))
  <2>1. Len(memory) < BOOT_MEM_RANGES /\ Len(reserved) < BOOT_MEM_RANGES
    BY <1>1, <1>2, <1>4
  <2> QED BY <1>2, <2>1 DEF AddRangeFails
<1>9. /\ BootInv' /\ PiecesUncut(PiecesOf(m))' /\ pc' = "idle" /\ allocated' = {}
      /\ Len(memory') <= entry /\ Len(reserved') <= entry
      /\ Covered(memory') = Covered(memory) \cup (IF entry \in Available THEN X ELSE {})
      /\ Covered(reserved') = Covered(reserved) \cup (IF entry \in Available THEN {} ELSE X)
  <2>1. CASE ~ Usable(e)
    <3>1. UNCHANGED vars
      BY <2>1 DEF MapEntry, boot
    <3>2. UNCHANGED <<memory, reserved, pc, allocated>>
      BY <3>1 DEF vars
    <3>3. PiecesUncut(PiecesOf(m))'
      BY <1>3, <1>5, <3>2 DEF PiecesUncut
    <3> QED BY <1>2, <1>3, <1>4, <1>7, <2>1, <3>1, <3>2, <3>3, BootStutter
  <2>2. CASE Usable(e) /\ e.type = MULTIBOOT_AVAILABLE
    <3>1. boot_mem_add(EntryRange(e))
      BY <2>2 DEF MapEntry
    <3>2. /\ PiecesOf(m) \in SUBSET Ranges /\ EntryRange(e) \in PiecesOf(m)
          /\ \A q, p \in PiecesOf(m) : q # p => q[2] <= p[1] \/ p[2] <= q[1]
      BY <1>5, <1>6, <2>2, MapFacts DEF PiecesOf, AvailableIn
    <3>3. PiecesUncut(PiecesOf(m))
      BY <1>3, <1>5
    <3>4. /\ BootInv' /\ PiecesUncut(PiecesOf(m))'
          /\ Len(memory') <= Len(memory) + 1
          /\ Covered(memory') = Covered(memory) \cup RangeAddrs(EntryRange(e))
      BY <1>3, <1>8, <3>1, <3>2, <3>3, AddStep
    <3>5. pc' = pc /\ allocated' = allocated /\ reserved' = reserved
      BY <3>1 DEF boot_mem_add
    <3>6. TypeOK'
      BY <3>4 DEF BootInv, ListsOK
    <3>7. Len(memory') \in Nat
      BY <3>6 DEF TypeOK, RangeList
    <3> QED BY <1>2, <1>4, <1>7, <2>2, <3>4, <3>5, <3>7
  <2>3. CASE Usable(e) /\ e.type # MULTIBOOT_AVAILABLE
    <3>1. boot_mem_reserve(EntryRange(e))
      BY <2>3 DEF MapEntry
    <3>2. EntryRange(e) \in Ranges
      BY <1>5, <1>6, <2>3, MapFacts
    <3>3. /\ BootInv' /\ Len(reserved') <= Len(reserved) + 1
          /\ Covered(reserved') = Covered(reserved) \cup RangeAddrs(EntryRange(e))
      BY <1>3, <1>8, <3>1, <3>2, ReserveStep
    <3>4. pc' = pc /\ allocated' = allocated /\ memory' = memory
      BY <3>1 DEF boot_mem_reserve
    <3>5. PiecesUncut(PiecesOf(m))'
      BY <1>3, <1>5, <3>4 DEF PiecesUncut
    <3>6. TypeOK'
      BY <3>3 DEF BootInv, ListsOK
    <3>7. Len(reserved') \in Nat
      BY <3>6 DEF TypeOK, RangeList
    <3> QED BY <1>2, <1>4, <1>7, <2>3, <3>3, <3>4, <3>5, <3>7
  <2> QED BY <2>1, <2>2, <2>3
<1>10. ListsHoldMap'
  <2>1. /\ Available' = Available /\ \A S : MapAddrs(S)' = MapAddrs(S)
    BY <1>1, MapFrame
  <2>2. 1 .. entry' - 1 = (1 .. entry - 1) \cup {entry}
    BY <1>1, <1>2
  <2>3. MapAddrs(Available \cap ((1 .. entry - 1) \cup {entry}))
            = MapAddrs(Available \cap (1 .. entry - 1)) \cup (IF entry \in Available THEN X ELSE {})
    <3>1. CASE entry \in Available
      <4>1. Available \cap ((1 .. entry - 1) \cup {entry})
                = (Available \cap (1 .. entry - 1)) \cup {entry}
        BY <3>1
      <4> QED BY <3>1, <4>1, MapAddrsAdd
    <3>2. CASE entry \notin Available
      <4>1. Available \cap ((1 .. entry - 1) \cup {entry}) = Available \cap (1 .. entry - 1)
        BY <3>2
      <4> QED BY <3>2, <4>1
    <3> QED BY <3>1, <3>2
  <2>4. MapAddrs(((1 .. entry - 1) \cup {entry}) \ Available)
            = MapAddrs((1 .. entry - 1) \ Available) \cup (IF entry \in Available THEN {} ELSE X)
    <3>1. CASE entry \notin Available
      <4>1. ((1 .. entry - 1) \cup {entry}) \ Available
                = ((1 .. entry - 1) \ Available) \cup {entry}
        BY <3>1
      <4> QED BY <3>1, <4>1, MapAddrsAdd
    <3>2. CASE entry \in Available
      <4>1. ((1 .. entry - 1) \cup {entry}) \ Available = (1 .. entry - 1) \ Available
        BY <3>2
      <4> QED BY <3>2, <4>1
    <3> QED BY <3>1, <3>2
  <2>5. TakenAddrs = {} /\ TakenAddrs' = {}
    BY <1>1 DEF TakenAddrs, Late
  <2> HIDE DEF X
  <2>6. Covered(memory') = MapAddrs(Available \cap (1 .. entry' - 1))
    BY <1>3, <1>9, <2>2, <2>3 DEF ListsHoldMap
  <2>7. Covered(reserved') = MapAddrs((1 .. entry' - 1) \ Available)
    BY <1>3, <1>9, <2>2, <2>4, <2>5 DEF ListsHoldMap
  <2> QED BY <2>1, <2>5, <2>6, <2>7 DEF ListsHoldMap
<1>11. SetupTypeOK'
  <2>1. TypeOK'
    BY <1>9 DEF BootInv, ListsOK
  <2>2. entry' \in 1 .. Len(mmap') + 1
    BY <1>1, <1>2
  <2> QED BY <1>1, <1>3, <2>1, <2>2 DEF SetupTypeOK
<1>12. ListsShort'
  <2>1. entry' - 1 = entry
    BY <1>1, <1>2
  <2> QED BY <1>9, <2>1 DEF ListsShort
<1>13. MapRead'
  BY <1>1 DEF SetupInv, MapRead
<1>14. CallOfPhase' /\ PageArrayOK'
  BY <1>1, <1>9 DEF CallOfPhase, PageArrayOK, Late
<1>15. FreedSoFar'
  <2>1. FirstPageFree' = FirstPageFree
    BY <1>1, MapFrame
  <2> QED BY <1>1, <1>3, <2>1 DEF FreedSoFar
<1>16. PiecesUncut(PiecesOf(mmap))'
  <2>1. PiecesOf(m) = PiecesOf(mmap')
    BY <1>1, <1>5
  <2> QED BY <1>9, <2>1 DEF PiecesUncut
<1> QED BY <1>9, <1>10, <1>11, <1>12, <1>13, <1>14, <1>15, <1>16 DEF SetupInv

\* What holds after every step that leaves the map and memory alone, and takes
\* the addresses X out of memory.
LEMMA SetupFrame ==
    ASSUME SetupInv, BootInv', UNCHANGED <<mmap, entry, memory>>
    PROVE  /\ PiecesUncut(PiecesOf(mmap))'
           /\ \A X : /\ Covered(reserved') = Covered(reserved) \cup X
                     /\ TakenAddrs' = TakenAddrs \cup X
                     => ListsHoldMap'
           /\ FirstPageFree' = FirstPageFree
           /\ AvailableAddrs' = AvailableAddrs /\ UsedAddrs' = UsedAddrs
           /\ TypeOK'
<1>1. /\ Available' = Available /\ \A S : MapAddrs(S)' = MapAddrs(S)
      /\ AvailableAddrs' = AvailableAddrs /\ UsedAddrs' = UsedAddrs
      /\ FirstPageFree' = FirstPageFree /\ PiecesOf(mmap)' = PiecesOf(mmap)
  BY MapFrame
<1>2. TypeOK'
  BY DEF BootInv, ListsOK
<1>3. PiecesUncut(PiecesOf(mmap))'
  BY <1>1 DEF SetupInv, PiecesUncut
<1>4. ASSUME NEW X, Covered(reserved') = Covered(reserved) \cup X, TakenAddrs' = TakenAddrs \cup X
      PROVE  ListsHoldMap'
  <2>1. /\ Covered(memory) = MapAddrs(Available \cap (1 .. entry - 1))
        /\ Covered(reserved) = MapAddrs((1 .. entry - 1) \ Available) \cup TakenAddrs
    BY DEF SetupInv, ListsHoldMap
  <2>2. /\ MapAddrs(Available \cap (1 .. entry - 1))' = MapAddrs(Available \cap (1 .. entry - 1))
        /\ MapAddrs((1 .. entry - 1) \ Available)' = MapAddrs((1 .. entry - 1) \ Available)
    <3>1. /\ (Available \cap (1 .. entry - 1))' = Available \cap (1 .. entry - 1)
          /\ ((1 .. entry - 1) \ Available)' = (1 .. entry - 1) \ Available
      BY <1>1
    <3> QED BY <3>1 DEF MapAddrs
  <2>3. Covered(memory)' = Covered(memory) /\ Covered(reserved)' = Covered(reserved')
    BY DEF Covered
  <2>4. Covered(memory)' = MapAddrs(Available \cap (1 .. entry - 1))'
    BY <2>1, <2>2, <2>3
  <2>5. Covered(reserved)' = MapAddrs((1 .. entry - 1) \ Available)' \cup TakenAddrs'
    BY <1>4, <2>1, <2>2, <2>3
  <2> QED BY <2>4, <2>5 DEF ListsHoldMap
<1> QED BY <1>1, <1>2, <1>3, <1>4

\* The end of init_phys_mem_map: the page frames end where the memory does.
LEMMA CountPageFramesStep ==
    ASSUME SetupInv, CountPageFrames
    PROVE  SetupInv'
<1>1. /\ phase = "map" /\ entry > Len(mmap) /\ phase' = "kernel"
      /\ page_frame_count' = phys_mem_size \div PAGE_SIZE
      /\ lowmem_page_frame_count' = min(page_frame_count', LOWMEM_PAGE_FRAMES)
      /\ UNCHANGED vars
      /\ UNCHANGED <<mmap, entry, page_array, init_pfn, freed>>
  BY DEF CountPageFrames, boot
<1>2. UNCHANGED <<memory, reserved, pc, caller, req, result, allocated>>
  BY <1>1 DEF vars
<1>3. /\ BootInv /\ SetupTypeOK /\ CallOfPhase /\ PageArrayOK /\ FreedSoFar /\ ListsShort
  BY DEF SetupInv
<1>4. BootInv'
  BY <1>1, <1>3, BootStutter
<1>5. TakenAddrs' = TakenAddrs
  BY <1>1 DEF TakenAddrs, Late
<1>6. PiecesUncut(PiecesOf(mmap))' /\ ListsHoldMap' /\ FirstPageFree' = FirstPageFree /\ TypeOK'
  <2>1. Covered(reserved') = Covered(reserved) \cup {} /\ TakenAddrs' = TakenAddrs \cup {}
    BY <1>2, <1>5
  <2> QED BY <1>1, <1>2, <1>4, <2>1, SetupFrame
<1>7. /\ page_frame_count' \in Nat
      /\ page_frame_count' * PAGE_SIZE <= PHYS_MEM_MAX
      /\ page_frame_count' <= AddrLimit \div PAGE_SIZE
  <2>1. phys_mem_size \in Nat /\ phys_mem_size <= PHYS_MEM_MAX
    BY PhysMemSize DEF SetupInv, SetupTypeOK
  <2>2. PICK f \in Nat : f = page_frame_count' /\ f * PAGE_SIZE <= phys_mem_size
    BY <1>1, <2>1, SetupNumbers, QuotientBounds
  <2>3. f * PAGE_SIZE \in Nat /\ f * PAGE_SIZE <= PHYS_MEM_MAX /\ f * PAGE_SIZE <= AddrLimit
    <3>1. PICK x \in Nat : x = f * PAGE_SIZE
      BY SetupNumbers, ProductOrder
    <3>2. x <= phys_mem_size
      BY <2>2, <3>1
    <3>3. AddrLimit \in Nat /\ PHYS_MEM_MAX = AddrLimit - 1
      BY SetupNumbers
    <3>4. x <= PHYS_MEM_MAX /\ x <= AddrLimit
      BY <2>1, <3>2, <3>3
    <3> QED BY <3>1, <3>4
  <2>4. f <= AddrLimit \div PAGE_SIZE
    BY <2>3, SetupNumbers, QuotientBounds
  <2> QED BY <2>2, <2>3, <2>4
<1>8. SetupTypeOK'
  <2>1. AddrLimit \div PAGE_SIZE \in Nat
    BY SetupNumbers, QuotientBounds
  <2>2. page_frame_count' \in 0 .. AddrLimit \div PAGE_SIZE
    BY <1>7, <2>1
  <2>3. lowmem_page_frame_count' \in 0 .. LOWMEM_PAGE_FRAMES
    BY <1>1, <1>7, SetupNumbers DEF min
  <2>4. init_pfn = 0 /\ freed = {}
    BY <1>1, <1>3 DEF FreedSoFar, Late
  <2>5. init_pfn' \in 0 .. page_frame_count' /\ freed' \subseteq 0 .. page_frame_count' - 1
    BY <1>1, <1>7, <2>4
  <2> QED BY <1>1, <1>3, <1>6, <2>2, <2>3, <2>5 DEF SetupTypeOK, Phases
<1>9. ListsShort'
  BY <1>1, <1>2, <1>3 DEF ListsShort
<1>10. MapRead'
  <2>1. entry' = Len(mmap') + 1
    BY <1>1, SetupFacts
  <2> QED BY <1>7, <2>1 DEF MapRead
<1>11. CallOfPhase' /\ PageArrayOK'
  BY <1>1, <1>2, <1>3 DEF CallOfPhase, PageArrayOK, Late
<1>12. FreedSoFar'
  <2>1. init_pfn' <= page_frame_count' /\ init_pfn = 0
    BY <1>1, <1>3, <1>7 DEF FreedSoFar, Late
  <2> QED BY <1>1, <1>3, <1>6, <2>1 DEF FreedSoFar, Late
<1> QED BY <1>4, <1>6, <1>8, <1>9, <1>10, <1>11, <1>12 DEF SetupInv

\* reserve_kernel_memory takes the kernel's image.
LEMMA ReserveKernelStep ==
    ASSUME SetupInv, reserve_kernel_memory
    PROVE  SetupInv'
<1>1. /\ phase = "kernel" /\ phase' = "alloc_page_array"
      /\ boot_mem_reserve(KernelImage)
      /\ mmap' = mmap /\ entry' = entry /\ page_frame_count' = page_frame_count
      /\ lowmem_page_frame_count' = lowmem_page_frame_count
      /\ page_array' = page_array /\ init_pfn' = init_pfn /\ freed' = freed
  BY DEF reserve_kernel_memory, count
<1>2. pc = "idle" /\ UNCHANGED <<memory, pc, caller, req, result, allocated>>
  BY <1>1 DEF boot_mem_reserve
<1>3. /\ BootInv /\ SetupTypeOK /\ CallOfPhase /\ PageArrayOK /\ FreedSoFar /\ ListsShort /\ MapRead
  BY DEF SetupInv
<1>4. ~ AddRangeFails(reserved, KernelImage)
  <2>1. Len(reserved) <= entry - 1 /\ entry = Len(mmap) + 1
    BY <1>1, <1>3 DEF ListsShort, MapRead
  <2>2. Len(reserved) < BOOT_MEM_RANGES
    BY <2>1, SetupFacts
  <2> QED BY <2>2, SetupFacts DEF AddRangeFails
<1>5. BootInv' /\ Covered(reserved') = Covered(reserved) \cup RangeAddrs(KernelImage)
  <2>1. KernelImage \in Ranges
    BY SetupNumbers
  <2> QED BY <1>1, <1>3, <1>4, <2>1, ReserveStep
<1>6. TakenAddrs' = TakenAddrs \cup RangeAddrs(KernelImage)
  BY <1>1 DEF TakenAddrs, Late
<1>7. PiecesUncut(PiecesOf(mmap))' /\ ListsHoldMap' /\ FirstPageFree' = FirstPageFree /\ TypeOK'
  BY <1>1, <1>2, <1>5, <1>6, SetupFrame
<1>8. SetupTypeOK' /\ MapRead'
  BY <1>1, <1>3, <1>7 DEF SetupTypeOK, Phases, MapRead
<1>9. ListsShort'
  BY <1>1, <1>2, <1>3 DEF ListsShort
<1>10. CallOfPhase' /\ PageArrayOK'
  BY <1>1, <1>2, <1>3 DEF CallOfPhase, PageArrayOK, Late
<1>11. FreedSoFar'
  BY <1>1, <1>3, <1>7 DEF FreedSoFar, Late
<1> QED BY <1>5, <1>7, <1>8, <1>9, <1>10, <1>11 DEF SetupInv

\* alloc_page_array calls boot_mem_alloc, with a size that does not wrap.
LEMMA AllocPageArrayStep ==
    ASSUME SetupInv, alloc_page_array
    PROVE  SetupInv'
<1> DEFINE r == PageArrayRequest
<1>1. /\ phase = "alloc_page_array" /\ phase' = "page_array_call"
      /\ boot_mem_find(r) /\ caller' = "boot_mem_alloc"
      /\ mmap' = mmap /\ entry' = entry /\ page_frame_count' = page_frame_count
      /\ lowmem_page_frame_count' = lowmem_page_frame_count
      /\ page_array' = page_array /\ init_pfn' = init_pfn /\ freed' = freed
  BY DEF alloc_page_array, boot_mem_alloc, count
<1>2. /\ BootInv /\ SetupTypeOK /\ CallOfPhase /\ PageArrayOK /\ FreedSoFar /\ ListsShort /\ MapRead
  BY DEF SetupInv
<1>3. PICK z \in Nat : z = page_frame_count * SizeofPage /\ z <= PHYS_MEM_MAX
  <2>1. page_frame_count \in Nat
    BY SetupFacts
  <2>2. /\ page_frame_count * SizeofPage \in Nat /\ page_frame_count * PAGE_SIZE \in Nat
        /\ page_frame_count * SizeofPage <= page_frame_count * PAGE_SIZE
    <3>1. /\ SizeofPage * page_frame_count \in Nat /\ PAGE_SIZE * page_frame_count \in Nat
          /\ SizeofPage * page_frame_count <= PAGE_SIZE * page_frame_count
      BY <2>1, SetupNumbers, ProductOrder
    <3>2. /\ SizeofPage * page_frame_count = page_frame_count * SizeofPage
          /\ PAGE_SIZE * page_frame_count = page_frame_count * PAGE_SIZE
      BY <2>1, SetupNumbers
    <3> QED BY <3>1, <3>2
  <2>3. page_frame_count * PAGE_SIZE <= PHYS_MEM_MAX
    BY <1>2 DEF MapRead
  <2>4. PICK x \in Nat, y \in Nat : x = page_frame_count * SizeofPage /\ y = page_frame_count * PAGE_SIZE
    BY <2>2
  <2>5. x <= y /\ y <= PHYS_MEM_MAX
    BY <2>2, <2>3, <2>4
  <2> QED BY <2>4, <2>5, SetupNumbers
<1>4. PICK t \in Nat : /\ t = LOWMEM_PAGE_FRAMES * PAGE_SIZE /\ PAGE_SIZE <= t
                       /\ 2 * t + PAGE_SIZE <= AddrLimit
  BY SetupNumbers
<1>5. r = [size |-> z, align |-> PAGE_SIZE, from |-> PAGE_SIZE, to |-> t]
  BY <1>3, <1>4 DEF PageArrayRequest
<1> HIDE DEF r
<1>6. /\ r.size = z /\ r.align = PAGE_SIZE /\ r.from = PAGE_SIZE /\ r.to = t
      /\ r \in [size : Addresses, align : Addresses, from : Addresses, to : Addresses]
  <2>1. z \in Addresses /\ PAGE_SIZE \in Addresses /\ t \in Addresses
    <3>1. /\ AddrLimit \in Nat /\ PHYS_MEM_MAX = AddrLimit - 1
          /\ PAGE_SIZE \in Nat \ {0} /\ PAGE_SIZE < AddrLimit
      BY SetupNumbers
    <3> QED BY <1>3, <1>4, <3>1 DEF Addresses
  <2> QED BY <1>5, <2>1
<1>7. BootInv'
  <2>1. r.align # 0 /\ 2 * r.to + r.align <= AddrLimit
    BY <1>4, <1>6, SetupNumbers
  <2> QED BY <1>1, <1>2, <1>6, <2>1, StartStep
<1>8. /\ UNCHANGED <<memory, reserved, allocated>> /\ req' = r /\ pc' # "idle"
      /\ r.size = 0 => pc' = "found" /\ result' = PAGE_SIZE
  <2>1. /\ UNCHANGED <<memory, reserved, allocated>> /\ req' = r
        /\ IF r.from > r.to \/ r.size > r.to - r.from THEN result' = r.to /\ pc' = "found"
           ELSE IF r.size = 0 THEN result' = r.from /\ pc' = "found"
           ELSE pc' = "range" /\ UNCHANGED result
    BY <1>1 DEF boot_mem_find, found, lists
  <2>2. pc' # "idle"
    BY <2>1
  <2>3. ASSUME r.size = 0 PROVE pc' = "found" /\ result' = PAGE_SIZE
    <3>1. PAGE_SIZE \in Nat
      BY SetupNumbers
    <3>2. ~ (r.from > r.to \/ r.size > r.to - r.from)
      BY <1>4, <1>6, <2>3, <3>1
    <3> QED BY <1>6, <2>1, <2>3, <3>2
  <2> QED BY <2>1, <2>2, <2>3
<1>9. TakenAddrs' = TakenAddrs
  BY <1>1 DEF TakenAddrs, Late
<1>10. PiecesUncut(PiecesOf(mmap))' /\ ListsHoldMap' /\ FirstPageFree' = FirstPageFree /\ TypeOK'
  <2>1. Covered(reserved') = Covered(reserved) \cup {} /\ TakenAddrs' = TakenAddrs \cup {}
    BY <1>8, <1>9
  <2> QED BY <1>1, <1>7, <1>8, <2>1, SetupFrame
<1>11. SetupTypeOK' /\ MapRead' /\ ListsShort'
  BY <1>1, <1>2, <1>8, <1>10 DEF SetupTypeOK, Phases, MapRead, ListsShort
<1>12. CallOfPhase'
  <2>1. PageArrayRequest' = r
    BY <1>1 DEF PageArrayRequest, r
  <2> QED BY <1>1, <1>8, <2>1 DEF CallOfPhase
<1>13. PageArrayOK'
  BY <1>1, <1>2, <1>8 DEF PageArrayOK, Late
<1>14. FreedSoFar'
  BY <1>1, <1>2, <1>10 DEF FreedSoFar, Late
<1> QED BY <1>7, <1>10, <1>11, <1>12, <1>13, <1>14 DEF SetupInv

\* The search goes on, for the call its phase has made.
LEMMA FindStepStep ==
    ASSUME SetupInv, FindStep
    PROVE  SetupInv'
<1>1. /\ Find /\ mmap' = mmap /\ entry' = entry /\ phase' = phase
      /\ page_frame_count' = page_frame_count
      /\ lowmem_page_frame_count' = lowmem_page_frame_count
      /\ page_array' = page_array /\ init_pfn' = init_pfn /\ freed' = freed
  BY DEF FindStep, count
<1>2. /\ BootInv /\ SetupTypeOK /\ CallOfPhase /\ PageArrayOK /\ FreedSoFar /\ ListsShort /\ MapRead
  BY DEF SetupInv
<1>3. BootInv' /\ memory' = memory
  BY <1>1, <1>2, CallStep
<1>4. /\ pc \in {"range", "fit"} /\ pc' # "idle"
      /\ UNCHANGED <<reserved, caller, req, allocated>>
  <2>1. CASE FindRange
    BY <2>1 DEF FindRange, found, lists
  <2>2. CASE FindFit
    BY <2>2 DEF FindFit, found, lists
  <2> QED BY <1>1, <2>1, <2>2 DEF Find
<1>5. TakenAddrs' = TakenAddrs
  BY <1>1 DEF TakenAddrs, Late
<1>6. PiecesUncut(PiecesOf(mmap))' /\ ListsHoldMap' /\ FirstPageFree' = FirstPageFree /\ TypeOK'
  <2>1. Covered(reserved') = Covered(reserved) \cup {} /\ TakenAddrs' = TakenAddrs \cup {}
    BY <1>4, <1>5
  <2> QED BY <1>1, <1>3, <2>1, SetupFrame
<1>7. SetupTypeOK' /\ MapRead' /\ ListsShort'
  BY <1>1, <1>2, <1>3, <1>4, <1>6 DEF SetupTypeOK, MapRead, ListsShort
<1>8. CallOfPhase'
  <2>1. PageArrayRequest' = PageArrayRequest
    BY <1>1 DEF PageArrayRequest
  <2> QED BY <1>1, <1>2, <1>4, <2>1 DEF CallOfPhase
<1>9. PageArrayOK'
  <2>1. AvailableAddrs' = AvailableAddrs /\ UsedAddrs' = UsedAddrs
    BY <1>1, MapFrame
  <2> QED BY <1>1, <1>2, <1>4, <2>1 DEF PageArrayOK
<1>10. FreedSoFar'
  BY <1>1, <1>2, <1>6 DEF FreedSoFar
<1> QED BY <1>3, <1>6, <1>7, <1>8, <1>9, <1>10 DEF SetupInv

\* Once the map is read and the kernel's image reserved, the lists are what the
\* map says, but for the page array.
LEMMA ListsAreMap ==
    ASSUME SetupInv, phase \notin {"map", "kernel"}
    PROVE  /\ Covered(memory) = AvailableAddrs
           /\ Covered(reserved) =
                  UsedAddrs \cup (IF phase \in Late THEN RangeAddrs(page_array) ELSE {})
<1>1. entry - 1 = Len(mmap)
  BY SetupFacts DEF SetupInv, MapRead
<1>2. Available \cap (1 .. Len(mmap)) = Available
  BY DEF Available, AvailableIn
<1>3. /\ Covered(memory) = MapAddrs(Available)
      /\ Covered(reserved) = MapAddrs((1 .. Len(mmap)) \ Available) \cup TakenAddrs
  BY <1>1, <1>2 DEF SetupInv, ListsHoldMap
<1> QED BY <1>3 DEF AvailableAddrs, UnavailableAddrs, UsedAddrs, TakenAddrs

\* boot_mem_alloc returns: the page array is placed, or the boot stops.
LEMMA PageArrayReturnStep ==
    ASSUME SetupInv, PageArrayReturn
    PROVE  SetupInv'
<1>1. /\ phase = "page_array_call" /\ AllocReturn
      /\ IF allocated' = allocated
         THEN phase' = "panic" /\ page_array' = page_array
         ELSE phase' = "init_zone" /\ page_array' = <<result, result + req.size>>
      /\ mmap' = mmap /\ entry' = entry /\ page_frame_count' = page_frame_count
      /\ lowmem_page_frame_count' = lowmem_page_frame_count
      /\ init_pfn' = init_pfn /\ freed' = freed
  BY DEF PageArrayReturn, count
<1>2. /\ BootInv /\ SetupTypeOK /\ CallOfPhase /\ PageArrayOK /\ FreedSoFar /\ ListsShort /\ MapRead
      /\ allocated = {} /\ req = PageArrayRequest
      /\ req.size = 0 => result = PAGE_SIZE
  BY <1>1 DEF SetupInv, CallOfPhase, PageArrayOK, Late
<1>3. BootInv' /\ memory' = memory
  BY <1>1, <1>2, CallStep
<1> DEFINE r == <<result, (result + req.size) % AddrLimit>>
<1>4. /\ pc = "found" /\ pc' = "idle"
      /\ IF result # req.to /\ ~ AddRangeFails(reserved, r)
         THEN /\ reserved' = boot_mem_add_range(reserved, r)
              /\ allocated' = allocated \cup {r}
         ELSE UNCHANGED <<reserved, allocated>>
      /\ UNCHANGED <<caller, req, result>>
  BY <1>1 DEF AllocReturn, Succeeds, Granted
<1>5. FirstPageFree' = FirstPageFree /\ AvailableAddrs' = AvailableAddrs /\ UsedAddrs' = UsedAddrs
  BY <1>1, MapFrame
<1>6. ListsShort' /\ MapRead'
  BY <1>1, <1>2, <1>3 DEF ListsShort, MapRead
<1>7. CallOfPhase'
  BY <1>1, <1>4 DEF CallOfPhase
<1>8. FreedSoFar'
  <2>1. init_pfn = 0 /\ freed = {p \in 0 .. init_pfn - 1 : p > 0 \/ ~ FirstPageFree}
    BY <1>1, <1>2 DEF FreedSoFar, Late
  <2>2. phase' # "done"
    BY <1>1
  <2> QED BY <1>1, <1>2, <1>5, <2>1, <2>2 DEF FreedSoFar
<1>9. CASE allocated' = allocated
  <2>1. phase' = "panic" /\ page_array' = page_array
    BY <1>1, <1>9
  <2>2. reserved' = reserved
    BY <1>2, <1>4, <1>9
  <2>3. TakenAddrs' = TakenAddrs
    BY <1>1, <2>1 DEF TakenAddrs, Late
  <2>4. PiecesUncut(PiecesOf(mmap))' /\ ListsHoldMap' /\ TypeOK'
    <3>1. Covered(reserved') = Covered(reserved) \cup {} /\ TakenAddrs' = TakenAddrs \cup {}
      BY <2>2, <2>3
    <3> QED BY <1>1, <1>3, <3>1, SetupFrame
  <2>5. SetupTypeOK'
    BY <1>1, <1>2, <2>1, <2>4 DEF SetupTypeOK, Phases
  <2>6. PageArrayOK'
    BY <1>2, <1>9, <2>1 DEF PageArrayOK, Late
  <2> QED BY <1>3, <1>6, <1>7, <1>8, <2>4, <2>5, <2>6 DEF SetupInv
<1>10. CASE allocated' # allocated
  <2>1. /\ phase' = "init_zone" /\ page_array' = <<result, result + req.size>>
        /\ result # req.to /\ ~ AddRangeFails(reserved, r)
        /\ reserved' = boot_mem_add_range(reserved, r)
    BY <1>1, <1>4, <1>10
  <2>2. PICK t \in Nat : /\ t = LOWMEM_PAGE_FRAMES * PAGE_SIZE /\ PAGE_SIZE <= t
                         /\ 2 * t + PAGE_SIZE <= AddrLimit
    BY SetupNumbers
  <2>3. PICK z \in Nat : z = req.size
    BY <1>2 DEF BootInv, ListsOK, TypeOK, Addresses
  <2>4. PICK x \in Nat : x = result
    BY <1>2 DEF BootInv, ListsOK, TypeOK, Addresses
  <2>5. req.align = PAGE_SIZE /\ req.from = PAGE_SIZE /\ req.to = t
    BY <1>2, <2>2 DEF PageArrayRequest
  <2>6. /\ PAGE_SIZE <= x /\ x + z <= t /\ x % PAGE_SIZE = 0
        /\ x .. x + z - 1 \subseteq Covered(memory) \ Covered(reserved)
    <3>0. PAGE_SIZE \in Nat \ {0}
      BY SetupNumbers
    <3>1. CASE z = 0
      <4>1. x = PAGE_SIZE
        BY <1>2, <2>3, <2>4, <3>1
      <4>2. PAGE_SIZE % PAGE_SIZE = 0
        BY <3>0
      <4>3. x .. x + z - 1 = {}
        BY <3>1
      <4> QED BY <2>2, <3>0, <3>1, <4>1, <4>2, <4>3
    <3>2. CASE z > 0
      <4>1. Fits(result)
        BY <1>2, <1>4, <2>1, <2>3, <3>2 DEF BootInv, FindsLowestFit
      <4> QED BY <2>3, <2>4, <2>5, <4>1 DEF Fits
    <3> QED BY <3>1, <3>2
  <2>7. r = <<x, x + z>> /\ page_array' = <<x, x + z>>
    <3>1. x + z < AddrLimit /\ AddrLimit \in Nat
      BY <2>2, <2>6, SetupNumbers
    <3>2. (x + z) % AddrLimit = x + z
      BY <3>1
    <3> QED BY <2>1, <2>3, <2>4, <3>2
  <2>8. <<x, x + z>> \in Ranges /\ RangeAddrs(<<x, x + z>>) = x .. x + z - 1
    <3>1. x + z < AddrLimit /\ x < AddrLimit /\ AddrLimit \in Nat
      BY <2>2, <2>6, SetupNumbers
    <3> QED BY <3>1 DEF Ranges, Addresses, RangeAddrs
  <2>9. Covered(reserved') = Covered(reserved) \cup RangeAddrs(<<x, x + z>>)
    <3>1. reserved \in RangeList /\ SortedList(reserved)
      BY <1>2 DEF BootInv, ListsOK, TypeOK, ListsSorted
    <3>2. r \in Ranges
      BY <2>7, <2>8
    <3>3. Covered(boot_mem_add_range(reserved, r)) = Covered(reserved) \cup RangeAddrs(r)
      BY <2>1, <3>1, <3>2, AddRangeKeepsOrder
    <3> QED BY <2>1, <2>7, <3>3
  <2>10. TakenAddrs' = TakenAddrs \cup RangeAddrs(<<x, x + z>>)
    BY <1>1, <2>1, <2>7 DEF TakenAddrs, Late
  <2>11. PiecesUncut(PiecesOf(mmap))' /\ ListsHoldMap' /\ TypeOK'
    BY <1>1, <1>3, <2>9, <2>10, SetupFrame
  <2>12. SetupTypeOK'
    <3>1. page_array' \in Addresses \X Addresses
      BY <2>7, <2>8 DEF Ranges
    <3> QED BY <1>1, <1>2, <2>1, <2>11, <3>1 DEF SetupTypeOK, Phases
  <2>13. PageArrayOK'
    <3>1. Covered(memory) = AvailableAddrs /\ Covered(reserved) = UsedAddrs
      BY <1>1, ListsAreMap DEF Late
    <3>2. RangeAddrs(page_array') \subseteq AvailableAddrs' \ UsedAddrs'
      BY <1>5, <2>6, <2>7, <2>8, <3>1
    <3>3. /\ page_array' \in Ranges /\ PAGE_SIZE <= page_array'[1]
          /\ page_array'[2] <= LOWMEM_PAGE_FRAMES * PAGE_SIZE /\ page_array'[1] % PAGE_SIZE = 0
      BY <2>2, <2>6, <2>7, <2>8
    <3> QED BY <2>1, <3>2, <3>3 DEF PageArrayOK, Late
  <2> QED BY <1>3, <1>6, <1>7, <1>8, <2>11, <2>12, <2>13 DEF SetupInv
<1> QED BY <1>9, <1>10

\* init_zone asks about a page; for every page but the first boot_mem_find is
\* given a piece that ends before it begins, or nothing.
LEMMA InitZoneTestStep ==
    ASSUME SetupInv, init_zone_test
    PROVE  SetupInv'
<1>1. /\ phase = "init_zone" /\ phase' = "is_free_call" /\ init_pfn < page_frame_count
      /\ boot_mem_is_free(init_pfn * PAGE_SIZE, PAGE_SIZE)
      /\ mmap' = mmap /\ entry' = entry /\ page_frame_count' = page_frame_count
      /\ lowmem_page_frame_count' = lowmem_page_frame_count
      /\ page_array' = page_array /\ init_pfn' = init_pfn /\ freed' = freed
  BY DEF init_zone_test, count
<1>2. /\ BootInv /\ SetupTypeOK /\ CallOfPhase /\ PageArrayOK /\ FreedSoFar /\ ListsShort /\ MapRead
  BY DEF SetupInv
<1>3. PICK x \in Nat : /\ x = init_pfn * PAGE_SIZE /\ x < AddrLimit
                       /\ init_pfn > 0 => PAGE_SIZE <= x
                       /\ init_pfn = 0 => x = 0
  <2>1. init_pfn \in Nat /\ page_frame_count \in Nat /\ init_pfn <= page_frame_count
    BY SetupFacts
  <2>2. /\ init_pfn * PAGE_SIZE \in Nat /\ page_frame_count * PAGE_SIZE \in Nat
        /\ init_pfn * PAGE_SIZE <= page_frame_count * PAGE_SIZE
    BY <2>1, SetupNumbers, ProductOrder
  <2>3. page_frame_count * PAGE_SIZE <= PHYS_MEM_MAX
    BY <1>2 DEF MapRead
  <2>4. PICK y \in Nat : y = page_frame_count * PAGE_SIZE
    BY <2>2
  <2>5. PICK x \in Nat : x = init_pfn * PAGE_SIZE
    BY <2>2
  <2>6. x < AddrLimit
    <3>1. x <= y /\ y <= PHYS_MEM_MAX
      BY <2>2, <2>3, <2>4, <2>5
    <3>2. AddrLimit \in Nat /\ PHYS_MEM_MAX = AddrLimit - 1
      BY SetupNumbers
    <3> QED BY <3>1, <3>2
  <2>7. ASSUME init_pfn > 0 PROVE PAGE_SIZE <= x
    <3>1. 1 * PAGE_SIZE <= init_pfn * PAGE_SIZE
      BY <2>1, <2>7, SetupNumbers, ProductOrder
    <3>2. 1 * PAGE_SIZE = PAGE_SIZE
      BY SetupNumbers
    <3> QED BY <2>5, <3>1, <3>2
  <2>8. init_pfn = 0 => x = 0
    BY <2>5, SetupNumbers
  <2> QED BY <2>5, <2>6, <2>7, <2>8
<1> DEFINE r == [size |-> (PAGE_SIZE - x) % AddrLimit, align |-> 1, from |-> x, to |-> PAGE_SIZE]
<1>4. boot_mem_find(r) /\ caller' = "boot_mem_is_free"
  BY <1>1, <1>3 DEF boot_mem_is_free
<1>5. /\ AddrLimit \in Nat \ {0} /\ 1 < AddrLimit /\ PAGE_SIZE \in Nat \ {0} /\ PAGE_SIZE < AddrLimit
      /\ 2 * PAGE_SIZE + 1 <= AddrLimit
  BY SetupNumbers
<1>6. BootInv'
  <2>1. (PAGE_SIZE - x) % AddrLimit \in 0 .. AddrLimit - 1
    BY <1>5
  <2>2. /\ r \in [size : Addresses, align : Addresses, from : Addresses, to : Addresses]
        /\ r.align # 0 /\ 2 * r.to + r.align <= AddrLimit
    BY <1>3, <1>5, <2>1 DEF Addresses
  <2> HIDE DEF r
  <2> QED BY <1>2, <1>4, <2>2, StartStep
<1>7. /\ UNCHANGED <<memory, reserved, allocated>> /\ pc' # "idle" /\ req' = r
      /\ IF r.from > r.to \/ r.size > r.to - r.from THEN result' = r.to /\ pc' = "found"
         ELSE IF r.size = 0 THEN result' = r.from /\ pc' = "found"
         ELSE pc' = "range" /\ UNCHANGED result
  BY <1>4 DEF boot_mem_find, found, lists
<1>8. IF init_pfn = 0 THEN req' = FirstRequest ELSE pc' = "found" /\ result' = PAGE_SIZE
  <2>1. CASE init_pfn = 0
    <3>1. (PAGE_SIZE - x) % AddrLimit = PAGE_SIZE /\ x = 0
      BY <1>3, <1>5, <2>1
    <3> QED BY <1>7, <2>1, <3>1 DEF FirstRequest
  <2>2. CASE init_pfn # 0
    <3>1. PAGE_SIZE <= x
      BY <1>3, <2>2, SetupFacts
    <3>2. CASE x > PAGE_SIZE
      <4>1. r.from > r.to /\ r.to = PAGE_SIZE
        BY <3>2
      <4> QED BY <1>7, <2>2, <4>1
    <3>3. CASE x = PAGE_SIZE
      <4>1. (PAGE_SIZE - x) % AddrLimit = 0
        BY <1>5, <3>3
      <4>2. r.from = PAGE_SIZE /\ r.to = PAGE_SIZE /\ r.size = 0
        BY <3>3, <4>1
      <4> HIDE DEF r
      <4>3. ~ (r.from > r.to \/ r.size > r.to - r.from)
        BY <1>5, <4>2
      <4> QED BY <1>7, <2>2, <4>2, <4>3
    <3> QED BY <1>5, <3>1, <3>2, <3>3
  <2> QED BY <2>1, <2>2
<1>9. TakenAddrs' = TakenAddrs
  BY <1>1 DEF TakenAddrs, Late
<1>10. PiecesUncut(PiecesOf(mmap))' /\ ListsHoldMap' /\ FirstPageFree' = FirstPageFree /\ TypeOK'
  <2>1. Covered(reserved') = Covered(reserved) \cup {} /\ TakenAddrs' = TakenAddrs \cup {}
    BY <1>7, <1>9
  <2> QED BY <1>1, <1>6, <1>7, <2>1, SetupFrame
<1>11. SetupTypeOK' /\ MapRead' /\ ListsShort'
  BY <1>1, <1>2, <1>7, <1>10 DEF SetupTypeOK, Phases, MapRead, ListsShort
<1>12. CallOfPhase'
  BY <1>1, <1>4, <1>7, <1>8 DEF CallOfPhase, FirstRequest
<1>13. PageArrayOK'
  <2>1. AvailableAddrs' = AvailableAddrs /\ UsedAddrs' = UsedAddrs
    BY <1>1, MapFrame
  <2> QED BY <1>1, <1>2, <2>1 DEF PageArrayOK, Late
<1>14. FreedSoFar'
  BY <1>1, <1>2, <1>10 DEF FreedSoFar, Late
<1> QED BY <1>6, <1>10, <1>11, <1>12, <1>13, <1>14 DEF SetupInv

\* What boot_mem_is_free returns for a page: 0 only for the first one, and only
\* when that is free.
LEMMA SaysFreeFacts ==
    ASSUME SetupInv, phase = "is_free_call", pc = "found"
    PROVE  SaysFree <=> init_pfn > 0 \/ ~ FirstPageFree
<1>1. /\ BootInv /\ CallOfPhase /\ PageArrayOK
      /\ IF init_pfn = 0 THEN req = FirstRequest ELSE result = PAGE_SIZE
      /\ init_pfn \in Nat
  BY SetupFacts DEF SetupInv, CallOfPhase
<1>2. PAGE_SIZE \in Nat \ {0} /\ AddrLimit \in Nat /\ PAGE_SIZE < AddrLimit
  BY SetupNumbers
<1>3. CASE init_pfn > 0
  <2>1. init_pfn # 0
    BY <1>1, <1>3
  <2>2. result = PAGE_SIZE
    BY <1>1, <2>1
  <2> QED BY <1>2, <1>3, <2>2 DEF SaysFree
<1>4. CASE init_pfn = 0
  <2>1. /\ req.size = PAGE_SIZE /\ req.align = 1 /\ req.from = 0 /\ req.to = PAGE_SIZE
    BY <1>1, <1>4 DEF FirstRequest
  <2>2. IF \E a \in Addresses : Fits(a)
        THEN Fits(result) /\ \A a \in 0 .. result - 1 : ~ Fits(a)
        ELSE result = req.to
    <3>1. req.size > 0
      BY <1>2, <2>1
    <3> QED BY <1>1, <3>1 DEF BootInv, FindsLowestFit
  <2>3. result \in Nat /\ 0 \in Addresses
    BY <1>1, <1>2 DEF BootInv, ListsOK, TypeOK, Addresses
  <2>4. ASSUME NEW a \in Nat, Fits(a) PROVE a = 0
    <3>1. a + PAGE_SIZE <= PAGE_SIZE
      BY <2>1, <2>4 DEF Fits
    <3> QED BY <1>2, <3>1
  <2>5. result = 0 <=> Fits(0)
    <3>1. ASSUME Fits(0) PROVE result = 0
      <4>1. Fits(result)
        BY <2>2, <2>3, <3>1
      <4> QED BY <2>3, <2>4, <4>1
    <3>2. ASSUME ~ Fits(0) PROVE result # 0
      <4>1. ASSUME NEW a \in Addresses, Fits(a) PROVE FALSE
        <5>1. a \in Nat
          BY <1>2 DEF Addresses
        <5>2. a = 0
          BY <2>4, <4>1, <5>1
        <5> QED BY <3>2, <4>1, <5>2
      <4>2. result = PAGE_SIZE
        BY <2>1, <2>2, <4>1
      <4> QED BY <1>2, <4>2
    <3> QED BY <3>1, <3>2
  <2>6. Fits(0) <=> 0 .. PAGE_SIZE - 1 \subseteq Covered(memory) \ Covered(reserved)
    <3>1. 0 % 1 = 0 /\ 0 <= 0 /\ 0 + PAGE_SIZE <= PAGE_SIZE /\ 0 + PAGE_SIZE - 1 = PAGE_SIZE - 1
      BY <1>2
    <3>2. 0 % req.align = 0 /\ req.from <= 0 /\ 0 + req.size <= req.to
      BY <2>1, <3>1
    <3>3. 0 .. 0 + req.size - 1 = 0 .. PAGE_SIZE - 1
      BY <2>1, <3>1
    <3>4. Fits(0) <=> /\ 0 % req.align = 0
                      /\ req.from <= 0 /\ 0 + req.size <= req.to
                      /\ 0 .. 0 + req.size - 1 \subseteq Covered(memory) \ Covered(reserved)
      BY DEF Fits
    <3> QED BY <3>2, <3>3, <3>4, Zenon
  <2>7. /\ Covered(memory) = AvailableAddrs
        /\ Covered(reserved) = UsedAddrs \cup RangeAddrs(page_array)
    BY ListsAreMap DEF Late
  <2>8. \A x \in 0 .. PAGE_SIZE - 1 : x \notin RangeAddrs(page_array)
    <3>1. page_array \in Ranges /\ PAGE_SIZE <= page_array[1]
      BY <1>1 DEF PageArrayOK, Late
    <3>2. page_array[1] \in Nat /\ page_array[2] \in Nat
      BY <3>1, RangeFacts
    <3> QED BY <1>2, <3>1, <3>2 DEF RangeAddrs
  <2>9. PageAddrs(0) = 0 .. PAGE_SIZE - 1
    <3>1. 0 * PAGE_SIZE = 0 /\ (0 + 1) * PAGE_SIZE = PAGE_SIZE
      BY <1>2
    <3> QED BY <3>1 DEF PageAddrs
  <2>10. Fits(0) <=> FirstPageFree
    BY <2>6, <2>7, <2>8, <2>9 DEF FirstPageFree
  <2> QED BY <1>4, <2>5, <2>10 DEF SaysFree
<1> QED BY <1>1, <1>3, <1>4

\* init_zone frees the page it was told is free, and goes to the next.
LEMMA InitZoneFreeStep ==
    ASSUME SetupInv, init_zone_free
    PROVE  SetupInv'
<1>1. /\ phase = "is_free_call" /\ phase' = "init_zone" /\ IsFreeReturn
      /\ freed' = (IF SaysFree THEN freed \cup {init_pfn} ELSE freed)
      /\ init_pfn' = init_pfn + 1
      /\ mmap' = mmap /\ entry' = entry /\ page_frame_count' = page_frame_count
      /\ lowmem_page_frame_count' = lowmem_page_frame_count /\ page_array' = page_array
  BY DEF init_zone_free, count
<1>2. /\ BootInv /\ SetupTypeOK /\ CallOfPhase /\ PageArrayOK /\ FreedSoFar /\ ListsShort /\ MapRead
  BY DEF SetupInv
<1>3. /\ pc = "found" /\ pc' = "idle"
      /\ UNCHANGED <<memory, reserved, caller, req, allocated>>
  BY <1>1 DEF IsFreeReturn, lists
<1>4. BootInv'
  BY <1>1, <1>2, CallStep
<1>5. /\ init_pfn \in Nat /\ page_frame_count \in Nat /\ init_pfn < page_frame_count
      /\ freed = {p \in 0 .. init_pfn - 1 : p > 0 \/ ~ FirstPageFree}
  BY <1>1, <1>2, SetupFacts DEF CallOfPhase, FreedSoFar
<1>6. SaysFree <=> init_pfn > 0 \/ ~ FirstPageFree
  BY <1>1, <1>3, SaysFreeFacts
<1>7. freed' = {p \in 0 .. init_pfn' - 1 : p > 0 \/ ~ FirstPageFree}
  <2>1. init_pfn' - 1 = init_pfn /\ 0 .. init_pfn = (0 .. init_pfn - 1) \cup {init_pfn}
    BY <1>1, <1>5
  <2> QED BY <1>1, <1>5, <1>6, <2>1
<1>8. TakenAddrs' = TakenAddrs
  BY <1>1 DEF TakenAddrs, Late
<1>9. PiecesUncut(PiecesOf(mmap))' /\ ListsHoldMap' /\ FirstPageFree' = FirstPageFree /\ TypeOK'
  <2>1. Covered(reserved') = Covered(reserved) \cup {} /\ TakenAddrs' = TakenAddrs \cup {}
    BY <1>3, <1>8
  <2> QED BY <1>1, <1>3, <1>4, <2>1, SetupFrame
<1>10. init_pfn' \in 0 .. page_frame_count' /\ freed' \subseteq 0 .. page_frame_count' - 1
  BY <1>1, <1>5, <1>7
<1>11. SetupTypeOK' /\ MapRead' /\ ListsShort'
  BY <1>1, <1>2, <1>3, <1>9, <1>10 DEF SetupTypeOK, Phases, MapRead, ListsShort
<1>12. CallOfPhase'
  BY <1>1, <1>3 DEF CallOfPhase
<1>13. PageArrayOK'
  <2>1. AvailableAddrs' = AvailableAddrs /\ UsedAddrs' = UsedAddrs
    BY <1>1, MapFrame
  <2> QED BY <1>1, <1>2, <2>1 DEF PageArrayOK, Late
<1>14. FreedSoFar'
  BY <1>1, <1>7, <1>9, <1>10 DEF FreedSoFar, Late
<1> QED BY <1>4, <1>9, <1>11, <1>12, <1>13, <1>14 DEF SetupInv

\* init_zone is through with the last page.
LEMMA SetupDoneStep ==
    ASSUME SetupInv, SetupDone
    PROVE  SetupInv'
<1>1. /\ phase = "init_zone" /\ init_pfn = page_frame_count /\ phase' = "done" /\ UNCHANGED vars
      /\ mmap' = mmap /\ entry' = entry /\ page_frame_count' = page_frame_count
      /\ lowmem_page_frame_count' = lowmem_page_frame_count
      /\ page_array' = page_array /\ init_pfn' = init_pfn /\ freed' = freed
  BY DEF SetupDone, count, boot
<1>2. /\ BootInv /\ SetupTypeOK /\ CallOfPhase /\ PageArrayOK /\ FreedSoFar /\ ListsShort /\ MapRead
  BY DEF SetupInv
<1>3. BootInv' /\ UNCHANGED <<memory, reserved, pc, allocated>>
  BY <1>1, <1>2, BootStutter DEF vars
<1>4. TakenAddrs' = TakenAddrs
  BY <1>1 DEF TakenAddrs, Late
<1>5. /\ PiecesUncut(PiecesOf(mmap))' /\ ListsHoldMap' /\ TypeOK'
      /\ FirstPageFree' = FirstPageFree /\ AvailableAddrs' = AvailableAddrs /\ UsedAddrs' = UsedAddrs
  <2>1. Covered(reserved') = Covered(reserved) \cup {} /\ TakenAddrs' = TakenAddrs \cup {}
    BY <1>3, <1>4
  <2> QED BY <1>1, <1>3, <2>1, SetupFrame
<1>6. SetupTypeOK' /\ MapRead' /\ ListsShort'
  BY <1>1, <1>2, <1>3, <1>5 DEF SetupTypeOK, Phases, MapRead, ListsShort
<1>7. CallOfPhase'
  BY <1>1, <1>2, <1>3 DEF CallOfPhase
<1>8. PageArrayOK'
  BY <1>1, <1>2, <1>5 DEF PageArrayOK, Late
<1>9. FreedSoFar'
  BY <1>1, <1>2, <1>5 DEF FreedSoFar, Late
<1> QED BY <1>3, <1>5, <1>6, <1>7, <1>8, <1>9 DEF SetupInv

\* Nothing changes when nothing happens.
LEMMA SetupStutter ==
    ASSUME SetupInv, UNCHANGED setup
    PROVE  SetupInv'
<1>1. /\ UNCHANGED vars /\ phase' = phase
      /\ mmap' = mmap /\ entry' = entry /\ page_frame_count' = page_frame_count
      /\ lowmem_page_frame_count' = lowmem_page_frame_count
      /\ page_array' = page_array /\ init_pfn' = init_pfn /\ freed' = freed
  BY DEF setup, count, boot
<1>2. /\ BootInv /\ SetupTypeOK /\ CallOfPhase /\ PageArrayOK /\ FreedSoFar /\ ListsShort /\ MapRead
  BY DEF SetupInv
<1>3. BootInv' /\ UNCHANGED <<memory, reserved, pc, caller, req, result, allocated>>
  BY <1>1, <1>2, BootStutter DEF vars
<1>4. TakenAddrs' = TakenAddrs
  BY <1>1 DEF TakenAddrs
<1>5. /\ PiecesUncut(PiecesOf(mmap))' /\ ListsHoldMap' /\ TypeOK'
      /\ FirstPageFree' = FirstPageFree /\ AvailableAddrs' = AvailableAddrs /\ UsedAddrs' = UsedAddrs
  <2>1. Covered(reserved') = Covered(reserved) \cup {} /\ TakenAddrs' = TakenAddrs \cup {}
    BY <1>3, <1>4
  <2> QED BY <1>1, <1>3, <2>1, SetupFrame
<1>6. SetupTypeOK' /\ MapRead' /\ ListsShort'
  BY <1>1, <1>2, <1>3, <1>5 DEF SetupTypeOK, MapRead, ListsShort
<1>7. CallOfPhase'
  <2>1. PageArrayRequest' = PageArrayRequest
    BY <1>1 DEF PageArrayRequest
  <2> QED BY <1>1, <1>2, <1>3, <2>1 DEF CallOfPhase
<1>8. PageArrayOK' /\ FreedSoFar'
  BY <1>1, <1>2, <1>3, <1>5 DEF PageArrayOK, FreedSoFar
<1> QED BY <1>3, <1>5, <1>6, <1>7, <1>8 DEF SetupInv

-----------------------------------------------------------------------------
(* The set-up: the theorems.                                               *)

\* Whatever the order of the map and however its reserved entries overlap, the
\* lists hold what has been read of it, and the search answers the set-up.
THEOREM SetupInvariant == SetupSpec => []SetupInv
<1>1. SetupInv /\ [SetupNext]_setup => SetupInv'
  BY MapEntryStep, CountPageFramesStep, ReserveKernelStep, AllocPageArrayStep, FindStepStep,
     PageArrayReturnStep, InitZoneTestStep, InitZoneFreeStep, SetupDoneStep, SetupStutter
     DEF SetupNext
<1> QED BY InitSetupInv, <1>1, PTL DEF SetupSpec

\* No count, address or position leaves its range while memory is set up.
THEOREM SetupTypesHold == SetupSpec => []SetupTypeOK
<1>1. SetupInv => SetupTypeOK
  BY DEF SetupInv
<1> QED BY SetupInvariant, <1>1, PTL

\* alloc_page_array puts the page array into available low memory that neither
\* the kernel's image nor a reserved entry of the map occupies.
THEOREM PageArrayIsPlaced == SetupSpec => []PageArrayPlaced
<1>1. SetupInv => PageArrayPlaced
  BY DEF SetupInv, PageArrayOK, PageArrayPlaced, Late
<1> QED BY SetupInvariant, <1>1, PTL

\* init_zone gives every page frame but the first to the page allocator,
\* reserved or not, and the first exactly when it is not free.
THEOREM InitZoneFrees == SetupSpec => []FreedByInitZone
<1>1. SetupInv => FreedByInitZone
  BY DEF SetupInv, FreedSoFar, FreedByInitZone
<1> QED BY SetupInvariant, <1>1, PTL

-----------------------------------------------------------------------------
(* The set-up and its end.                                                 *)

PhaseNumber ==
    [map |-> 0, kernel |-> 1, alloc_page_array |-> 2, page_array_call |-> 3,
     init_zone |-> 4, is_free_call |-> 5, done |-> 6, panic |-> 6]

\* Entries read, pages decided upon, and the phase.
Progress == entry + 2 * init_pfn + PhaseNumber[phase]

\* Every entry of the map and every page frame there can be.
ProgressLimit == Len(mmap) + 2 * (AddrLimit \div PAGE_SIZE) + 7

\* A step of the set-up, if it is not one of a search, which ends, gets further.
Proceeds ==
    /\ Progress \in 1 .. ProgressLimit
    /\ mmap' = mmap
    /\ \/ FindStep /\ Descends /\ Progress' = Progress
       \/ Progress' > Progress

\* Each action of the set-up but FindStep moves one of its cursors or its phase.
LEMMA StepProceeds ==
    ASSUME SetupInv, SetupNext
    PROVE  Proceeds
<1>1. /\ mmap \in Maps /\ entry \in 1 .. Len(mmap) + 1 /\ phase \in Phases
      /\ init_pfn \in 0 .. page_frame_count /\ page_frame_count \in 0 .. AddrLimit \div PAGE_SIZE
  BY DEF SetupInv, SetupTypeOK
<1> DEFINE frames == AddrLimit \div PAGE_SIZE
           at     == PhaseNumber[phase]
<1>2. Len(mmap) \in Nat /\ frames \in Nat
  <2>1. mmap \in Seq([addr : Nat, len : Nat, type : Nat])
    BY <1>1, MapsAssumption
  <2> QED BY <2>1, SetupNumbers
<1>3. at \in 0 .. 6
  BY <1>1 DEF PhaseNumber, Phases
<1> HIDE DEF frames, at
<1>4. entry \in Nat /\ init_pfn \in Nat /\ 1 <= entry /\ entry <= Len(mmap) + 1 /\ init_pfn <= frames
  BY <1>1, <1>2 DEF frames
<1>5. Progress = entry + 2 * init_pfn + at
  BY DEF Progress, at
<1>6. Progress \in 1 .. ProgressLimit
  <2>1. ProgressLimit = Len(mmap) + 2 * frames + 7
    BY DEF ProgressLimit, frames
  <2>2. entry + 2 * init_pfn + at \in 1 .. Len(mmap) + 2 * frames + 7
    BY <1>2, <1>3, <1>4
  <2> QED BY <1>5, <2>1, <2>2
<1>7. Progress' = entry' + 2 * init_pfn' + PhaseNumber[phase']
  BY DEF Progress, PhaseNumber
<1>8. CASE FindStep
  <2>1. Descends
    BY <1>8, FindDescends DEF SetupInv, FindStep
  <2>2. UNCHANGED <<mmap, entry, phase, init_pfn>>
    BY <1>8 DEF FindStep
  <2>3. Progress' = Progress
    BY <1>5, <1>7, <2>2 DEF at
  <2> QED BY <1>6, <1>8, <2>1, <2>2, <2>3 DEF Proceeds
<1>9. ASSUME mmap' = mmap, entry' = entry, init_pfn' = init_pfn,
             PhaseNumber[phase'] \in Nat, at < PhaseNumber[phase']
      PROVE  Proceeds
  BY <1>3, <1>4, <1>5, <1>6, <1>7, <1>9 DEF Proceeds
<1>10. CASE MapEntry
  <2>1. mmap' = mmap /\ entry' = entry + 1 /\ init_pfn' = init_pfn /\ phase' = phase
    BY <1>10 DEF MapEntry, NextEntry
  <2>2. PhaseNumber[phase'] = at
    BY <2>1 DEF at
  <2>3. Progress' = (entry + 1) + 2 * init_pfn + at
    BY <1>7, <2>1, <2>2
  <2>4. Progress' > Progress
    BY <1>3, <1>4, <1>5, <2>3
  <2> QED BY <1>6, <2>1, <2>4 DEF Proceeds
<1>11. CASE CountPageFrames
  BY <1>9, <1>11 DEF CountPageFrames, PhaseNumber, at
<1>12. CASE reserve_kernel_memory
  BY <1>9, <1>12 DEF reserve_kernel_memory, PhaseNumber, at
<1>13. CASE alloc_page_array
  BY <1>9, <1>13 DEF alloc_page_array, PhaseNumber, at
<1>14. CASE PageArrayReturn
  BY <1>9, <1>14 DEF PageArrayReturn, PhaseNumber, at
<1>15. CASE init_zone_test
  BY <1>9, <1>15 DEF init_zone_test, PhaseNumber, at
<1>16. CASE init_zone_free
  <2>1. /\ mmap' = mmap /\ entry' = entry /\ init_pfn' = init_pfn + 1
        /\ phase = "is_free_call" /\ phase' = "init_zone"
    BY <1>16 DEF init_zone_free
  <2>2. at = 5 /\ PhaseNumber[phase'] = 4
    BY <2>1 DEF at, PhaseNumber
  <2> QED BY <1>4, <1>5, <1>6, <1>7, <2>1, <2>2 DEF Proceeds
<1>17. CASE SetupDone
  BY <1>9, <1>17 DEF SetupDone, PhaseNumber, at
<1> QED BY <1>8, <1>10, <1>11, <1>12, <1>13, <1>14, <1>15, <1>16, <1>17 DEF SetupNext

\* Between two searches the set-up moves on through the map and the pages, whose
\* number is bounded: with SearchAdvances, no run of it has endlessly many steps.
THEOREM SetupAdvances == SetupSpec => [][Proceeds]_setup
<1>1. SetupInv /\ [SetupNext]_setup => [Proceeds]_setup
  BY StepProceeds
<1> QED BY SetupInvariant, <1>1, PTL DEF SetupSpec
=============================================================================
