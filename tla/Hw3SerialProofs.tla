-------------------------- MODULE Hw3SerialProofs --------------------------
(***************************************************************************)
(* Every byte that hw3's serial driver puts into its ring is shown once    *)
(* and in order, for every size of the ring, of the chunks task1 reads and *)
(* of the UART's FIFO, and for any number of bytes.                        *)
(***************************************************************************)
EXTENDS Hw3Serial, BasicLemmas

-----------------------------------------------------------------------------
(* The ring.                                                               *)

Rings == [buffer : [0 .. RING_BUFFER_SIZE - 1 -> Bytes \cup {NUL}],
          begin : 0 .. RING_BUFFER_SIZE - 1, end : 0 .. RING_BUFFER_SIZE - 1,
          size : 0 .. RING_BUFFER_SIZE]

\* The i-th byte from the front, and the first n.
ByteAt(r, i) == r.buffer[(r.begin + i) % RING_BUFFER_SIZE]
FirstOf(r, n) == [i \in 1 .. n |-> ByteAt(r, i - 1)]

\* end is where size and begin say, and there are bytes in between.
RingGood(r) ==
    /\ r.end = (r.begin + r.size) % RING_BUFFER_SIZE
    /\ \A i \in 0 .. r.size - 1 : ByteAt(r, i) \in Bytes

\* Once around at most.
LEMMA Around ==
    ASSUME NEW R \in Nat \ {0}, NEW b \in 0 .. R - 1, NEW x \in 0 .. R
    PROVE  /\ (b + x) % R = IF b + x < R THEN b + x ELSE b + x - R
           /\ (b + x) % R \in 0 .. R - 1
<1>1. CASE b + x < R
  BY <1>1
<1>2. CASE b + x >= R
  <2> DEFINE y == b + x - R
  <2>1. y \in 0 .. R - 1 /\ b + x = y + R
    BY <1>2
  <2> HIDE DEF y
  <2>2. (y + R) % R = y
    BY <2>1
  <2> QED BY <1>2, <2>1, <2>2
<1> QED BY <1>1, <1>2

\* Moving the front by n and counting i from there is counting n + i.
LEMMA AroundTwice ==
    ASSUME NEW R \in Nat \ {0}, NEW b \in 0 .. R - 1, NEW n \in 0 .. R, NEW i \in 0 .. R,
           n + i <= R
    PROVE  (((b + n) % R) + i) % R = (b + (n + i)) % R
<1> DEFINE f == (b + n) % R
<1>1. f = (IF b + n < R THEN b + n ELSE b + n - R) /\ f \in 0 .. R - 1
  BY Around
<1> HIDE DEF f
<1>2. (f + i) % R = IF f + i < R THEN f + i ELSE f + i - R
  BY <1>1, Around
<1>3. n + i \in 0 .. R
  OBVIOUS
<1>4. (b + (n + i)) % R = IF b + (n + i) < R THEN b + (n + i) ELSE b + (n + i) - R
  BY <1>3, Around
<1>5. CASE b + n < R
  BY <1>1, <1>2, <1>4, <1>5
<1>6. CASE ~ (b + n < R)
  BY <1>1, <1>2, <1>4, <1>6
<1> QED BY <1>5, <1>6 DEF f

\* Different distances below R lead to different places.
LEMMA AroundApart ==
    ASSUME NEW R \in Nat \ {0}, NEW b \in 0 .. R - 1, NEW i \in 0 .. R - 1, NEW j \in 0 .. R - 1,
           i # j
    PROVE  (b + i) % R # (b + j) % R
<1>1. i \in 0 .. R /\ j \in 0 .. R
  OBVIOUS
<1>2. /\ (b + i) % R = IF b + i < R THEN b + i ELSE b + i - R
      /\ (b + j) % R = IF b + j < R THEN b + j ELSE b + j - R
  BY <1>1, Around
<1> QED BY <1>2

\* The fields of a ring.
LEMMA RingTypes ==
    ASSUME NEW r \in Rings
    PROVE  /\ RING_BUFFER_SIZE \in Nat \ {0}
           /\ r.buffer \in [0 .. RING_BUFFER_SIZE - 1 -> Bytes \cup {NUL}]
           /\ r.begin \in 0 .. RING_BUFFER_SIZE - 1 /\ r.begin \in Nat
           /\ r.end \in 0 .. RING_BUFFER_SIZE - 1
           /\ r.size \in 0 .. RING_BUFFER_SIZE /\ r.size \in Nat
BY SerialAssumption DEF Rings

\* ring_buffer_putchar adds one byte at the end and touches no other.
LEMMA PutByte ==
    ASSUME NEW r \in Rings, RingGood(r), r.size # RING_BUFFER_SIZE, NEW d \in Bytes,
           NEW q, q = ring_buffer_putchar(r, d)
    PROVE  /\ q \in Rings /\ RingGood(q)
           /\ q.size = r.size + 1
           /\ \A i \in 0 .. r.size - 1 : ByteAt(q, i) = ByteAt(r, i)
           /\ ByteAt(q, r.size) = d
<1> DEFINE R == RING_BUFFER_SIZE
           b == r.begin
           n == r.size
           e == r.end
           e1 == (e + 1) % R
<1>1. /\ R \in Nat \ {0} /\ r.buffer \in [0 .. R - 1 -> Bytes \cup {NUL}]
      /\ b \in 0 .. R - 1 /\ b \in Nat /\ e \in 0 .. R - 1 /\ n \in 0 .. R /\ n \in Nat
  BY RingTypes
<1>2. e = (b + n) % R
  BY DEF RingGood
<1>3. n < R /\ 1 \in 0 .. R
  BY <1>1
<1>4. q = [buffer |-> [r.buffer EXCEPT ![e] = d], begin |-> b, end |-> e1, size |-> n + 1]
  BY DEF ring_buffer_putchar, Rings
<1>5. /\ q.buffer = [r.buffer EXCEPT ![e] = d] /\ q.begin = b /\ q.end = e1 /\ q.size = n + 1
  BY <1>4
<1> HIDE DEF R, b, n, e
<1>6. e1 \in 0 .. R - 1
  BY <1>1, <1>3, Around
<1>7. q \in Rings
  <2>1. [r.buffer EXCEPT ![e] = d] \in [0 .. R - 1 -> Bytes \cup {NUL}]
    BY <1>1
  <2>2. n + 1 \in 0 .. R
    BY <1>1, <1>3
  <2> HIDE DEF e1
  <2> QED BY <1>1, <1>4, <1>6, <2>1, <2>2 DEF Rings, R
<1>8. e1 = (b + (n + 1)) % R
  <2>1. n + 1 <= R
    BY <1>1, <1>3
  <2> QED BY <1>1, <1>2, <1>3, <2>1, AroundTwice
<1>9. ASSUME NEW i \in 0 .. n - 1 PROVE ByteAt(q, i) = ByteAt(r, i)
  <2>1. i \in 0 .. R - 1 /\ n \in 0 .. R - 1 /\ i # n /\ i \in 0 .. R
    BY <1>1, <1>3
  <2>2. (b + i) % R # e
    BY <1>1, <1>2, <2>1, AroundApart
  <2>3. (b + i) % R \in 0 .. R - 1
    BY <1>1, <2>1, Around
  <2>4. q.buffer[(b + i) % R] = r.buffer[(b + i) % R]
    BY <1>1, <1>5, <2>2, <2>3
  <2> QED BY <1>5, <2>4 DEF ByteAt, R, b
<1>10. ByteAt(q, n) = d
  <2>1. q.buffer[e] = d
    BY <1>1, <1>5
  <2> QED BY <1>2, <1>5, <2>1 DEF ByteAt, R
<1>11. RingGood(q)
  <2>1. \A i \in 0 .. n - 1 : ByteAt(q, i) \in Bytes
    BY <1>9 DEF RingGood, n
  <2>2. \A i \in 0 .. n : i \in 0 .. n - 1 \/ i = n
    BY <1>1
  <2>3. (n + 1) - 1 = n
    BY <1>1
  <2>4. \A i \in 0 .. q.size - 1 : ByteAt(q, i) \in Bytes
    BY <1>5, <1>10, <2>1, <2>2, <2>3
  <2> QED BY <1>5, <1>8, <2>4 DEF RingGood, R
<1> QED BY <1>5, <1>7, <1>9, <1>10, <1>11 DEF n

\* The ring that serial_read leaves when it takes the first n bytes.
Without(r, n) == [r EXCEPT !.begin = (@ + n) % RING_BUFFER_SIZE, !.size = @ - n]

\* Reading n bytes leaves a good ring with the others, in their order.
LEMMA TakeBytes ==
    ASSUME NEW r \in Rings, RingGood(r), NEW n \in 0 .. r.size,
           NEW q, q = Without(r, n)
    PROVE  /\ q \in Rings /\ RingGood(q)
           /\ q.size = r.size - n
           /\ \A i \in 0 .. q.size : ByteAt(q, i) = ByteAt(r, n + i)
<1> DEFINE R == RING_BUFFER_SIZE
           b == r.begin
           s == r.size
           b1 == (b + n) % R
<1>1. /\ R \in Nat \ {0} /\ r.buffer \in [0 .. R - 1 -> Bytes \cup {NUL}]
      /\ b \in 0 .. R - 1 /\ b \in Nat /\ s \in 0 .. R /\ s \in Nat
      /\ r.end \in 0 .. R - 1
  BY RingTypes
<1>2. q = [buffer |-> r.buffer, begin |-> b1, end |-> r.end, size |-> s - n]
  BY DEF Rings, Without
<1>3. /\ q.buffer = r.buffer /\ q.begin = b1 /\ q.end = r.end /\ q.size = s - n
  BY <1>2
<1>4. r.end = (b + s) % R /\ \A i \in 0 .. s - 1 : ByteAt(r, i) \in Bytes
  BY DEF RingGood
<1> HIDE DEF R, b, s
<1>5. n \in 0 .. R /\ n \in Nat /\ s - n \in 0 .. R /\ n <= s /\ s - n \in Nat
  BY <1>1 DEF s
<1>6. b1 \in 0 .. R - 1
  BY <1>1, <1>5, Around
<1>7. q \in Rings
  <2> HIDE DEF b1
  <2> QED BY <1>1, <1>2, <1>5, <1>6 DEF Rings, R
<1>8. ASSUME NEW i \in 0 .. s - n PROVE (b1 + i) % R = (b + (n + i)) % R
  <2>1. i \in 0 .. R /\ n + i <= R
    BY <1>1, <1>5
  <2> QED BY <1>1, <1>5, <2>1, AroundTwice
<1>9. ASSUME NEW i \in 0 .. s - n PROVE ByteAt(q, i) = ByteAt(r, n + i)
  BY <1>3, <1>8 DEF ByteAt, R, b
<1>10. RingGood(q)
  <2>1. r.end = (b1 + (s - n)) % R
    <3>1. s - n \in 0 .. s - n /\ n + (s - n) = s
      BY <1>1, <1>5
    <3> QED BY <1>4, <1>8, <3>1
  <2>2. ASSUME NEW i \in 0 .. s - n - 1 PROVE ByteAt(q, i) \in Bytes
    <3>1. i \in 0 .. s - n /\ n + i \in 0 .. s - 1
      BY <1>1, <1>5
    <3> QED BY <1>4, <1>9, <3>1
  <2> QED BY <1>3, <2>1, <2>2 DEF RingGood, R
<1> QED BY <1>3, <1>7, <1>9, <1>10 DEF s

-----------------------------------------------------------------------------
(* Sequences of bytes: what is in the ring, and what is in task1's buffer. *)

\* The first bytes of a ring, as a sequence.
LEMMA FirstOfSeq ==
    ASSUME NEW r, NEW n \in Nat, \A i \in 0 .. n - 1 : ByteAt(r, i) \in Bytes
    PROVE  /\ FirstOf(r, n) \in Seq(Bytes) /\ Len(FirstOf(r, n)) = n
           /\ \A i \in 1 .. n : FirstOf(r, n)[i] = ByteAt(r, i - 1)
<1>1. \A i \in 1 .. n : ByteAt(r, i - 1) \in Bytes
  OBVIOUS
<1>2. FirstOf(r, n) \in [1 .. n -> Bytes]
  BY <1>1 DEF FirstOf
<1>3. FirstOf(r, n) \in Seq(Bytes) /\ Len(FirstOf(r, n)) = n
  BY <1>2
<1> QED BY <1>3 DEF FirstOf

\* What a ring holds grows by the byte that is put.
LEMMA PutAppends ==
    ASSUME NEW r \in Rings, RingGood(r), r.size # RING_BUFFER_SIZE, NEW d \in Bytes,
           NEW q, q = ring_buffer_putchar(r, d)
    PROVE  /\ q \in Rings /\ RingGood(q)
           /\ FirstOf(r, r.size) \in Seq(Bytes)
           /\ FirstOf(q, q.size) = Append(FirstOf(r, r.size), d)
<1> DEFINE n == r.size
           old == FirstOf(r, n)
           new == FirstOf(q, q.size)
<1>1. /\ q \in Rings /\ RingGood(q) /\ q.size = n + 1
      /\ \A i \in 0 .. n - 1 : ByteAt(q, i) = ByteAt(r, i)
      /\ ByteAt(q, n) = d
  BY PutByte
<1>2. n \in Nat
  BY RingTypes
<1>3. /\ \A i \in 0 .. n - 1 : ByteAt(r, i) \in Bytes
      /\ \A i \in 0 .. q.size - 1 : ByteAt(q, i) \in Bytes
  BY <1>1 DEF RingGood
<1>4. /\ old \in Seq(Bytes) /\ Len(old) = n
      /\ \A i \in 1 .. n : old[i] = ByteAt(r, i - 1)
  BY <1>2, <1>3, FirstOfSeq
<1>5. /\ new \in Seq(Bytes) /\ Len(new) = n + 1
      /\ \A i \in 1 .. n + 1 : new[i] = ByteAt(q, i - 1)
  BY <1>1, <1>2, <1>3, FirstOfSeq
<1>6. /\ Append(old, d) \in Seq(Bytes) /\ Len(Append(old, d)) = n + 1
      /\ \A i \in 1 .. n : Append(old, d)[i] = old[i]
      /\ Append(old, d)[n + 1] = d
  BY <1>4, AppendProperties
<1> HIDE DEF n, old, new
<1>7. ASSUME NEW i \in 1 .. n + 1 PROVE new[i] = Append(old, d)[i]
  <2>1. CASE i = n + 1
    <3>1. i - 1 = n
      BY <1>2, <2>1
    <3> QED BY <1>1, <1>5, <1>6, <2>1, <3>1
  <2>2. CASE i # n + 1
    <3>1. i \in 1 .. n /\ i - 1 \in 0 .. n - 1
      BY <1>2, <2>2
    <3> QED BY <1>1, <1>4, <1>5, <1>6, <3>1
  <2> QED BY <2>1, <2>2
<1>8. new = Append(old, d)
  BY <1>5, <1>6, <1>7, SeqEqual
<1> QED BY <1>1, <1>4, <1>8 DEF n, old, new

\* What a ring held is what is taken and then what it holds.
LEMMA TakeSplits ==
    ASSUME NEW r \in Rings, RingGood(r), NEW n \in 0 .. r.size,
           NEW q, q = Without(r, n)
    PROVE  /\ q \in Rings /\ RingGood(q)
           /\ FirstOf(r, n) \in Seq(Bytes) /\ FirstOf(q, q.size) \in Seq(Bytes)
           /\ FirstOf(r, r.size) = FirstOf(r, n) \o FirstOf(q, q.size)
<1>1. /\ q \in Rings /\ RingGood(q) /\ q.size = r.size - n
      /\ \A i \in 0 .. q.size : ByteAt(q, i) = ByteAt(r, n + i)
  BY TakeBytes
<1> DEFINE s == r.size
           all == FirstOf(r, s)
           taken == FirstOf(r, n)
           left == FirstOf(q, q.size)
<1>2. s \in Nat /\ n \in Nat /\ n <= s /\ s - n \in Nat
  BY RingTypes
<1>3. /\ \A i \in 0 .. s - 1 : ByteAt(r, i) \in Bytes
      /\ \A i \in 0 .. q.size - 1 : ByteAt(q, i) \in Bytes
  BY <1>1 DEF RingGood
<1>4. \A i \in 0 .. n - 1 : ByteAt(r, i) \in Bytes
  BY <1>2, <1>3
<1>5. /\ all \in Seq(Bytes) /\ Len(all) = s
      /\ \A i \in 1 .. s : all[i] = ByteAt(r, i - 1)
  BY <1>2, <1>3, FirstOfSeq
<1>6. /\ taken \in Seq(Bytes) /\ Len(taken) = n
      /\ \A i \in 1 .. n : taken[i] = ByteAt(r, i - 1)
  BY <1>2, <1>4, FirstOfSeq
<1>7. /\ left \in Seq(Bytes) /\ Len(left) = s - n
      /\ \A i \in 1 .. s - n : left[i] = ByteAt(q, i - 1)
  BY <1>1, <1>2, <1>3, FirstOfSeq
<1> HIDE DEF s, all, taken, left
<1>8. /\ taken \o left \in Seq(Bytes) /\ Len(taken \o left) = s
      /\ \A i \in 1 .. s : (taken \o left)[i] = IF i <= n THEN taken[i] ELSE left[i - n]
  <2>1. n + (s - n) = s
    BY <1>2
  <2>2. /\ taken \o left \in Seq(Bytes) /\ Len(taken \o left) = Len(taken) + Len(left)
        /\ \A i \in 1 .. Len(taken) + Len(left) :
              (taken \o left)[i] = IF i <= Len(taken) THEN taken[i] ELSE left[i - Len(taken)]
    BY <1>6, <1>7, ConcatProperties
  <2>3. Len(taken) = n /\ Len(taken) + Len(left) = s
    BY <1>6, <1>7, <2>1
  <2> QED BY <2>2, <2>3
<1>9. ASSUME NEW i \in 1 .. s PROVE all[i] = (taken \o left)[i]
  <2>1. CASE i <= n
    BY <1>2, <1>5, <1>6, <1>8, <2>1
  <2>2. CASE ~ (i <= n)
    <3>1. i - n \in 1 .. s - n /\ (i - n) - 1 \in 0 .. s - n /\ n + ((i - n) - 1) = i - 1
      BY <1>2, <2>2
    <3>2. left[i - n] = ByteAt(q, (i - n) - 1)
      BY <1>7, <3>1
    <3>3. ByteAt(q, (i - n) - 1) = ByteAt(r, i - 1)
      <4>1. (i - n) - 1 \in 0 .. q.size
        BY <1>1, <3>1 DEF s
      <4> QED BY <1>1, <3>1, <4>1
    <3> QED BY <1>5, <1>8, <2>2, <3>2, <3>3
  <2> QED BY <2>1, <2>2
<1>10. all = taken \o left
  BY <1>5, <1>8, <1>9, SeqEqual
<1> QED BY <1>1, <1>6, <1>7, <1>10 DEF s, all, taken, left

\* The bytes of a buffer from position i up to position e.
Span(b, i, e) == [k \in 1 .. e - i |-> b[i + k - 1]]

\* From, for any buffer.
FromOf(b, i, n) ==
    LET end == CHOOSE e \in i .. n :
                    /\ e = n \/ b[e] = NUL
                    /\ \A j \in i .. e - 1 : b[j] # NUL
    IN  SubSeq([j \in 1 .. end |-> b[j - 1]], i + 1, end)

\* A span of bytes is a sequence of them.
LEMMA SpanSeq ==
    ASSUME NEW b, NEW i \in Nat, NEW e \in Nat, i <= e,
           \A j \in i .. e - 1 : b[j] \in Bytes
    PROVE  /\ Span(b, i, e) \in Seq(Bytes) /\ Len(Span(b, i, e)) = e - i
           /\ \A k \in 1 .. e - i : Span(b, i, e)[k] = b[i + k - 1]
<1>1. \A k \in 1 .. e - i : i + k - 1 \in i .. e - 1
  OBVIOUS
<1>2. \A k \in 1 .. e - i : b[i + k - 1] \in Bytes
  BY <1>1
<1>3. Span(b, i, e) \in [1 .. e - i -> Bytes] /\ e - i \in Nat
  BY <1>2 DEF Span
<1>4. Span(b, i, e) \in Seq(Bytes) /\ Len(Span(b, i, e)) = e - i
  BY <1>3
<1> QED BY <1>4 DEF Span

\* When the bytes end at e, From stops there.
LEMMA FromStops ==
    ASSUME NEW b, NEW n \in Nat, NEW i \in 0 .. n, NEW e \in i .. n,
           e = n \/ b[e] = NUL,
           \A j \in i .. e - 1 : b[j] \in Bytes
    PROVE  FromOf(b, i, n) = Span(b, i, e)
<1> DEFINE P(x) == (x = n \/ b[x] = NUL) /\ \A j \in i .. x - 1 : b[j] # NUL
           end == CHOOSE x \in i .. n : P(x)
           f == [j \in 1 .. end |-> b[j - 1]]
           g == SubSeq(f, i + 1, end)
<1>1. \A j \in i .. e - 1 : b[j] # NUL
  BY DEF Bytes, NUL
<1>2. P(e)
  BY <1>1
<1>3. end \in i .. n /\ P(end)
  BY <1>2
<1>4. end = e
  <2> HIDE DEF end
  <2>1. ~ (end < e)
    <3>1. ASSUME end < e PROVE FALSE
      <4>1. end # n /\ end \in i .. e - 1
        BY <1>3, <3>1
      <4> QED BY <1>1, <1>3, <4>1
    <3> QED BY <3>1
  <2>2. ~ (e < end)
    <3>1. ASSUME e < end PROVE FALSE
      <4>1. e # n /\ e \in i .. end - 1
        BY <1>3, <3>1
      <4> QED BY <1>3, <4>1
    <3> QED BY <3>1
  <2> QED BY <1>3, <2>1, <2>2
<1> HIDE DEF end
<1>5. /\ i \in Nat /\ e \in Nat /\ i <= e
  OBVIOUS
<1>6. /\ Span(b, i, e) \in Seq(Bytes) /\ Len(Span(b, i, e)) = e - i
      /\ \A k \in 1 .. e - i : Span(b, i, e)[k] = b[i + k - 1]
  BY <1>5, SpanSeq
<1>7. ASSUME NEW j \in i + 1 .. e PROVE f[j] \in Bytes /\ f[j] = b[j - 1]
  <2>1. j \in 1 .. end /\ j - 1 \in i .. e - 1
    BY <1>4, <1>5
  <2> QED BY <2>1
<1> HIDE DEF f
<1>8. /\ g \in Seq(Bytes)
      /\ Len(g) = IF i + 1 <= e THEN e - (i + 1) + 1 ELSE 0
      /\ \A k \in 1 .. e - (i + 1) + 1 : g[k] = f[(i + 1) + k - 1]
  <2>1. i + 1 \in Int /\ e \in Int
    BY <1>5
  <2>2. \A j \in i + 1 .. e : f[j] \in Bytes
    BY <1>7
  <2> QED BY <1>4, <2>1, <2>2, SubSeqProperties
<1>9. Len(g) = e - i /\ e - (i + 1) + 1 = e - i
  BY <1>5, <1>8
<1> HIDE DEF g
<1>10. ASSUME NEW k \in 1 .. e - i PROVE g[k] = Span(b, i, e)[k]
  <2>1. /\ (i + 1) + k - 1 = i + k /\ i + k \in i + 1 .. e /\ (i + k) - 1 = i + k - 1
    BY <1>5
  <2>2. g[k] = f[i + k]
    BY <1>8, <1>9, <2>1
  <2>3. f[i + k] = b[(i + k) - 1]
    BY <1>7, <2>1
  <2> QED BY <1>6, <2>1, <2>2, <2>3
<1>11. g = Span(b, i, e)
  BY <1>6, <1>8, <1>9, <1>10, SeqEqual
<1> QED BY <1>11 DEF FromOf, g, f, end

\* Nothing is between a position and itself.
LEMMA SpanEmpty ==
    ASSUME NEW b, NEW i \in Nat
    PROVE  Span(b, i, i) = << >>
<1>1. Span(b, i, i) \in Seq(Bytes) /\ Len(Span(b, i, i)) = i - i
  BY SpanSeq
<1> HIDE DEF Span
<1>2. Len(Span(b, i, i)) = 0
  BY <1>1
<1> QED BY <1>1, <1>2, EmptySeq

\* A span of one byte or more begins with that byte.
LEMMA SpanHead ==
    ASSUME NEW b, NEW i \in Nat, NEW e \in Nat, i < e,
           \A j \in i .. e - 1 : b[j] \in Bytes
    PROVE  /\ Span(b, i + 1, e) \in Seq(Bytes) /\ b[i] \in Bytes
           /\ Span(b, i, e) = <<b[i]>> \o Span(b, i + 1, e)
<1> DEFINE all == Span(b, i, e)
           rest == Span(b, i + 1, e)
           first == <<b[i]>>
<1>1. /\ all \in Seq(Bytes) /\ Len(all) = e - i
      /\ \A k \in 1 .. e - i : all[k] = b[i + k - 1]
  BY SpanSeq
<1>2. /\ i + 1 \in Nat /\ i + 1 <= e
      /\ \A j \in i + 1 .. e - 1 : b[j] \in Bytes
  OBVIOUS
<1>3. /\ rest \in Seq(Bytes) /\ Len(rest) = e - (i + 1)
      /\ \A k \in 1 .. e - (i + 1) : rest[k] = b[(i + 1) + k - 1]
  BY <1>2, SpanSeq
<1>4. b[i] \in Bytes
  <2>1. i \in i .. e - 1
    OBVIOUS
  <2> QED BY <2>1
<1>5. first \in Seq(Bytes) /\ Len(first) = 1 /\ first[1] = b[i]
  BY <1>4
<1> HIDE DEF all, rest, first
<1>6. /\ first \o rest \in Seq(Bytes) /\ Len(first \o rest) = Len(first) + Len(rest)
      /\ \A k \in 1 .. Len(first) + Len(rest) :
            (first \o rest)[k] = IF k <= Len(first) THEN first[k] ELSE rest[k - Len(first)]
  BY <1>3, <1>5, ConcatProperties
<1>7. Len(first) + Len(rest) = e - i
  BY <1>3, <1>5
<1>8. ASSUME NEW k \in 1 .. e - i PROVE all[k] = (first \o rest)[k]
  <2>1. CASE k = 1
    <3>1. i + k - 1 = i /\ k <= Len(first)
      BY <1>5, <2>1
    <3>2. all[k] = b[i]
      BY <1>1, <3>1
    <3> QED BY <1>5, <1>6, <1>7, <2>1, <3>1, <3>2
  <2>2. CASE k # 1
    <3>1. /\ ~ (k <= Len(first)) /\ k - Len(first) = k - 1
          /\ k - 1 \in 1 .. e - (i + 1) /\ (i + 1) + (k - 1) - 1 = i + k - 1
      BY <1>5, <2>2
    <3>2. rest[k - 1] = b[(i + 1) + (k - 1) - 1]
      BY <1>3, <3>1
    <3>3. (first \o rest)[k] = rest[k - 1]
      BY <1>6, <1>7, <3>1
    <3> QED BY <1>1, <3>1, <3>2, <3>3
  <2> QED BY <2>1, <2>2
<1>9. all = first \o rest
  BY <1>1, <1>6, <1>7, <1>8, SeqEqual
<1> QED BY <1>3, <1>4, <1>9 DEF all, rest, first

\* A span depends only on the bytes in it.
LEMMA SpanSame ==
    ASSUME NEW b, NEW c, NEW i \in Nat, NEW e \in Nat, i <= e,
           \A j \in i .. e - 1 : b[j] \in Bytes /\ c[j] = b[j]
    PROVE  Span(c, i, e) = Span(b, i, e)
<1>1. /\ Span(b, i, e) \in Seq(Bytes) /\ Len(Span(b, i, e)) = e - i
      /\ \A k \in 1 .. e - i : Span(b, i, e)[k] = b[i + k - 1]
  BY SpanSeq
<1>2. /\ Span(c, i, e) \in Seq(Bytes) /\ Len(Span(c, i, e)) = e - i
      /\ \A k \in 1 .. e - i : Span(c, i, e)[k] = c[i + k - 1]
  <2>1. \A j \in i .. e - 1 : c[j] \in Bytes
    OBVIOUS
  <2>2. i \in Nat /\ e \in Nat /\ i <= e
    OBVIOUS
  <2> QED BY ONLY <2>1, <2>2, SpanSeq
<1>3. \A k \in 1 .. e - i : i + k - 1 \in i .. e - 1
  OBVIOUS
<1> HIDE DEF Span
<1>4. \A k \in 1 .. e - i : Span(c, i, e)[k] = Span(b, i, e)[k]
  BY <1>1, <1>2, <1>3
<1> QED BY <1>1, <1>2, <1>4, SeqEqual

\* What serial_read copies out of the ring is what the ring began with.
LEMMA SpanOfRing ==
    ASSUME NEW b, NEW r, NEW n \in Nat,
           \A j \in 0 .. n - 1 : ByteAt(r, j) \in Bytes /\ b[j] = ByteAt(r, j)
    PROVE  Span(b, 0, n) = FirstOf(r, n)
<1>1. /\ FirstOf(r, n) \in Seq(Bytes) /\ Len(FirstOf(r, n)) = n
      /\ \A i \in 1 .. n : FirstOf(r, n)[i] = ByteAt(r, i - 1)
  BY FirstOfSeq
<1>2. /\ Span(b, 0, n) \in Seq(Bytes) /\ Len(Span(b, 0, n)) = n - 0
      /\ \A k \in 1 .. n - 0 : Span(b, 0, n)[k] = b[0 + k - 1]
  <2>1. \A j \in 0 .. n - 1 : b[j] \in Bytes
    OBVIOUS
  <2> QED BY <2>1, SpanSeq
<1> HIDE DEF Span, FirstOf
<1>3. ASSUME NEW k \in 1 .. n PROVE Span(b, 0, n)[k] = FirstOf(r, n)[k]
  <2>1. n - 0 = n /\ 0 + k - 1 = k - 1 /\ k - 1 \in 0 .. n - 1
    OBVIOUS
  <2>2. Span(b, 0, n)[k] = b[k - 1]
    BY <1>2, <2>1
  <2>3. b[k - 1] = ByteAt(r, k - 1)
    BY <2>1
  <2> QED BY <1>1, <2>2, <2>3
<1>4. Len(Span(b, 0, n)) = n
  BY <1>2
<1> QED BY <1>1, <1>2, <1>3, <1>4, SeqEqual

-----------------------------------------------------------------------------
(* What is between the tasks.                                              *)

\* InHand, for any state of the tasks.
HandOf(t1, b, c, m, t2, s) ==
    IF t1 \in {"terminate", "publish"} THEN FromOf(b, 0, c)
    ELSE IF m = "buffer" /\ t2 = "wait" THEN FromOf(b, 0, ChunkSize)
    ELSE IF m = "buffer" /\ t2 = "puts" THEN FromOf(b, s, ChunkSize)
    ELSE <<>>

\* What task1 read and has not published.
LEMMA HandRead ==
    ASSUME NEW t1 \in {"terminate", "publish"}, NEW b, NEW c \in Nat, NEW m, NEW t2, NEW s,
           \A j \in 0 .. c - 1 : b[j] \in Bytes
    PROVE  HandOf(t1, b, c, m, t2, s) = Span(b, 0, c)
<1>1. 0 \in 0 .. c /\ c \in 0 .. c
  OBVIOUS
<1>2. FromOf(b, 0, c) = Span(b, 0, c)
  BY <1>1, FromStops
<1> QED BY <1>2 DEF HandOf

\* What task1 published and task2 has not shown.
LEMMA HandPublished ==
    ASSUME NEW t1 \in {"wait", "read"}, NEW b, NEW c, NEW t2 \in {"wait", "puts"},
           NEW s \in Nat, NEW e \in 0 .. ChunkSize, t2 = "puts" => s <= e,
           b[e] = NUL, \A j \in 0 .. e - 1 : b[j] \in Bytes
    PROVE  HandOf(t1, b, c, "buffer", t2, s) = Span(b, IF t2 = "puts" THEN s ELSE 0, e)
<1> DEFINE i == IF t2 = "puts" THEN s ELSE 0
<1>1. ChunkSize \in Nat
  BY SerialAssumption
<1>2. i \in 0 .. ChunkSize /\ e \in i .. ChunkSize /\ \A j \in i .. e - 1 : b[j] \in Bytes
  BY <1>1
<1>3. HandOf(t1, b, c, "buffer", t2, s) = FromOf(b, i, ChunkSize)
  BY DEF HandOf
<1> HIDE DEF i
<1>4. FromOf(b, i, ChunkSize) = Span(b, i, e)
  BY <1>1, <1>2, FromStops
<1> QED BY <1>3, <1>4 DEF i

\* Otherwise there is nothing.
LEMMA HandEmpty ==
    ASSUME NEW t1 \in {"wait", "read"}, NEW b, NEW c, NEW m, NEW t2, NEW s,
           m # "buffer" \/ t2 = "clear"
    PROVE  HandOf(t1, b, c, m, t2, s) = << >>
BY DEF HandOf

-----------------------------------------------------------------------------
(* The inductive invariant: NothingLost alone says nothing of who may touch *)
(* the ring, the chunk and the pointer next.                               *)

\* The handler reads data only while there is some, and puts what it read.
HandlerOK ==
    /\ handler = "data" => fifo # <<>>
    /\ handler = "put" => data \in Bytes

RingOK == RingGood(rx_buffer)

\* task2 is past its wait only while there is a message; task1 is past its own
\* only while there is none.  So one of them has the chunk at a time.
HandoverOK ==
    /\ msg = "NULL" => task2 = "wait"
    /\ task1 # "wait" => msg = "NULL"

\* The bytes read are bytes; a published chunk ends, and not before task2's place.
ChunkOK ==
    /\ task1 \in {"terminate", "publish"} => \A i \in 0 .. count - 1 : buffer[i] \in Bytes
    /\ task1 = "publish" => buffer[count] = NUL
    /\ msg = "buffer" => \E e \in 0 .. ChunkSize :
            /\ buffer[e] = NUL
            /\ \A i \in 0 .. e - 1 : buffer[i] \in Bytes
            /\ task2 = "puts" => str <= e

IInv == TypeOK /\ HandlerOK /\ RingOK /\ HandoverOK /\ ChunkOK /\ NothingLost

\* The part that the UART, the controller and main change, and the rest.
FrontOK ==
    /\ setup \in {"serial_setup", "irq_unmask", "enable_rx_data", "tasks"}
    /\ fifo \in Seq(Bytes) /\ Len(fifo) <= FifoSize
    /\ {ie, timeout, masked, irr, isr} \subseteq BOOLEAN
    /\ handler \in {"idle", "status", "data", "put", "eoi"} /\ data \in Bytes \cup {NUL}
    /\ arrived \in 0 .. MaxBytes
    /\ HandlerOK

TasksTyped ==
    /\ msg \in {"NULL", "garbage", "buffer"}
    /\ buffer \in [0 .. ChunkSize -> Bytes \cup {NUL}]
    /\ task1 \in {"wait", "read", "terminate", "publish"} /\ count \in 0 .. ChunkSize
    /\ task2 \in {"wait", "puts", "clear"} /\ str \in 0 .. ChunkSize
    /\ printed \in Seq(Bytes)

BackOK ==
    /\ rx_buffer \in Rings /\ accepted \in Seq(Bytes) /\ TasksTyped
    /\ RingOK /\ HandoverOK /\ ChunkOK /\ NothingLost

\* The invariant is that of the two sides, interrupt and tasks.
LEMMA Parts == IInv => FrontOK /\ BackOK
<1> SUFFICES ASSUME IInv PROVE FrontOK /\ BackOK
  OBVIOUS
<1>1. FrontOK
  BY DEF IInv, FrontOK, TypeOK
<1>2. TasksTyped
  BY DEF IInv, TypeOK, TasksTyped
<1>3. rx_buffer \in Rings
  BY DEF IInv, TypeOK, Rings
<1>4. accepted \in Seq(Bytes)
  BY DEF IInv, TypeOK
<1> QED BY <1>1, <1>2, <1>3, <1>4 DEF BackOK, IInv

\* The other way round,
LEMMA Whole == FrontOK /\ BackOK => IInv
BY DEF IInv, FrontOK, BackOK, TypeOK, TasksTyped, Rings

\* and in the next state.
LEMMA WholeNext == FrontOK' /\ BackOK' => IInv'
BY DEF IInv, FrontOK, BackOK, TypeOK, TasksTyped, Rings

\* NothingLost over the operators that the lemmas above are about.
Hand == HandOf(task1, buffer, count, msg, task2, str)
Ring == FirstOf(rx_buffer, rx_buffer.size)

\* NothingLost in terms of Hand and Ring.
LEMMA NothingLostIs ==
    /\ NothingLost <=> accepted = (printed \o Hand) \o Ring
    /\ NothingLost' <=> accepted' = (printed' \o Hand') \o Ring'
<1>1. InRing = Ring /\ InRing' = Ring'
  BY DEF InRing, RingByte, Ring, FirstOf, ByteAt
<1>2. InHand = Hand /\ InHand' = Hand'
  BY DEF InHand, From, Hand, HandOf, FromOf
<1> QED BY <1>1, <1>2 DEF NothingLost

-----------------------------------------------------------------------------
(* The UART, the controller, main and the handler up to put.               *)

TaskSide == <<rx_buffer, accepted, tasks>>

\* The other half does not depend on any of them.
LEMMA BackFrame ==
    ASSUME BackOK, UNCHANGED TaskSide
    PROVE  BackOK'
<1>1. /\ rx_buffer' = rx_buffer /\ accepted' = accepted /\ msg' = msg /\ buffer' = buffer
      /\ task1' = task1 /\ count' = count /\ task2' = task2 /\ str' = str
      /\ printed' = printed
  BY DEF TaskSide, tasks
<1>2. rx_buffer' \in Rings /\ accepted' \in Seq(Bytes) /\ RingOK'
  BY <1>1 DEF BackOK, RingOK
<1>3. TasksTyped'
  BY <1>1 DEF BackOK, TasksTyped
<1>4. HandoverOK'
  BY <1>1 DEF BackOK, HandoverOK
<1>5. ChunkOK'
  BY <1>1 DEF BackOK, ChunkOK
<1>6. NothingLost'
  <2>1. Hand' = Hand /\ Ring' = Ring
    BY <1>1 DEF Hand, Ring
  <2>2. accepted = (printed \o Hand) \o Ring
    BY NothingLostIs DEF BackOK
  <2> QED BY <1>1, <2>1, <2>2, NothingLostIs
<1> QED BY <1>2, <1>3, <1>4, <1>5, <1>6 DEF BackOK

\* The lines of the 8259A keep their types whatever is raised.
LEMMA LatchTypes ==
    ASSUME FrontOK, Latch
    PROVE  {masked', irr', isr'} \subseteq BOOLEAN
<1>1. irr' = TRUE \/ irr' = irr \/ irr' = FALSE
  BY DEF Latch
<1>2. masked' = masked /\ isr' = isr
  BY DEF Latch
<1> QED BY <1>1, <1>2 DEF FrontOK

\* A byte that arrives changes the UART and its line only.
LEMMA ArriveStep ==
    ASSUME FrontOK, Arrive
    PROVE  FrontOK' /\ UNCHANGED TaskSide
<1>1. {masked', irr', isr'} \subseteq BOOLEAN
  BY LatchTypes DEF Arrive
<1>2. /\ Len(fifo) < FifoSize /\ fifo' = Append(fifo, arrived + 1)
      /\ arrived < MaxBytes /\ arrived' = arrived + 1
      /\ UNCHANGED <<ie, timeout, setup, handler, data, rx_buffer, accepted, tasks>>
  BY DEF Arrive
<1>3. fifo \in Seq(Bytes) /\ arrived \in 0 .. MaxBytes /\ MaxBytes \in Nat /\ FifoSize \in Nat
  BY SerialAssumption DEF FrontOK
<1>4. arrived + 1 \in Bytes /\ arrived + 1 \in 0 .. MaxBytes
  BY <1>2, <1>3 DEF Bytes
<1>5. fifo' \in Seq(Bytes) /\ Len(fifo') = Len(fifo) + 1 /\ fifo' # <<>> /\ Len(fifo) \in Nat
  BY <1>2, <1>3, <1>4, AppendProperties, LenProperties
<1>6. Len(fifo') <= FifoSize
  BY <1>2, <1>3, <1>5
<1>7. HandlerOK'
  BY <1>2, <1>5 DEF FrontOK, HandlerOK
<1>8. {ie', timeout'} \subseteq BOOLEAN
  BY <1>2 DEF FrontOK
<1>9. FrontOK'
  BY <1>1, <1>2, <1>4, <1>5, <1>6, <1>7, <1>8 DEF FrontOK
<1> QED BY <1>2, <1>9 DEF TaskSide

\* So does the UART's timeout,
LEMMA TimeoutStep ==
    ASSUME FrontOK, Timeout
    PROVE  FrontOK' /\ UNCHANGED TaskSide
<1>1. {masked', irr', isr'} \subseteq BOOLEAN
  BY LatchTypes DEF Timeout
<1>2. /\ timeout' = TRUE
      /\ UNCHANGED <<fifo, ie, arrived, setup, handler, data, rx_buffer, accepted, tasks>>
  BY DEF Timeout
<1>3. FrontOK'
  BY <1>1, <1>2 DEF FrontOK, HandlerOK
<1> QED BY <1>2, <1>3 DEF TaskSide

\* a step of main,
LEMMA MainStep ==
    ASSUME FrontOK, Main
    PROVE  FrontOK' /\ UNCHANGED TaskSide
<1>1. CASE enable_fifo
  BY <1>1 DEF enable_fifo, FrontOK, HandlerOK, uart, line, TaskSide
<1>2. CASE irq_unmask
  BY <1>2 DEF irq_unmask, FrontOK, HandlerOK, uart, TaskSide
<1>3. CASE enable_rx_data
  <2>1. {masked', irr', isr'} \subseteq BOOLEAN
    BY <1>3, LatchTypes DEF enable_rx_data
  <2>2. /\ ie' = TRUE /\ setup' = "tasks"
        /\ UNCHANGED <<fifo, timeout, arrived, handler, data, rx_buffer, accepted, tasks>>
    BY <1>3 DEF enable_rx_data
  <2>3. FrontOK'
    BY <2>1, <2>2 DEF FrontOK, HandlerOK
  <2> QED BY <2>2, <2>3 DEF TaskSide
<1> QED BY <1>1, <1>2, <1>3 DEF Main

\* the start of the handler,
LEMMA InterruptStep ==
    ASSUME FrontOK, Interrupt
    PROVE  FrontOK' /\ UNCHANGED TaskSide
BY DEF Interrupt, FrontOK, HandlerOK, uart, TaskSide

\* its look at the line status,
LEMMA ReadStatusStep ==
    ASSUME FrontOK, read_status
    PROVE  FrontOK' /\ UNCHANGED TaskSide
BY DEF read_status, FrontOK, HandlerOK, uart, line, TaskSide

\* The byte at the front of the FIFO is one: it was not empty when the status
\* was read, and only the handler takes from it.
LEMMA ReadDataStep ==
    ASSUME FrontOK, read_data
    PROVE  FrontOK' /\ UNCHANGED TaskSide
<1>1. {masked', irr', isr'} \subseteq BOOLEAN
  BY LatchTypes DEF read_data
<1>2. /\ handler = "data" /\ data' = Head(fifo) /\ fifo' = Tail(fifo) /\ timeout' = FALSE
      /\ handler' = "put" /\ UNCHANGED <<ie, arrived, setup, rx_buffer, accepted, tasks>>
  BY DEF read_data
<1>3. fifo \in Seq(Bytes) /\ fifo # <<>> /\ Len(fifo) <= FifoSize
  BY <1>2 DEF FrontOK, HandlerOK
<1>4. Head(fifo) \in Bytes /\ Tail(fifo) \in Seq(Bytes) /\ Len(Tail(fifo)) = Len(fifo) - 1
      /\ Len(fifo) \in Nat
  BY <1>3, HeadTailProperties, LenProperties
<1>5. FifoSize \in Nat
  BY SerialAssumption
<1>6. Len(fifo') <= FifoSize
  BY <1>2, <1>3, <1>4, <1>5
<1>7. HandlerOK'
  BY <1>2, <1>4 DEF HandlerOK
<1>8. FrontOK'
  BY <1>1, <1>2, <1>4, <1>6, <1>7 DEF FrontOK
<1> QED BY <1>2, <1>8 DEF TaskSide

\* and its end.
LEMMA EoiStep ==
    ASSUME FrontOK, pic_eoi
    PROVE  FrontOK' /\ UNCHANGED TaskSide
BY DEF pic_eoi, FrontOK, HandlerOK, uart, TaskSide

\* The tasks leave that half alone.
HandlerSide == <<setup, uart, line, handler, data>>

\* The tasks leave the side of the handler alone.
LEMMA FrontFrame ==
    ASSUME FrontOK, UNCHANGED HandlerSide
    PROVE  FrontOK'
BY DEF HandlerSide, FrontOK, HandlerOK, uart, line

-----------------------------------------------------------------------------
(* put and the tasks.                                                      *)

\* The pieces of BackOK, with what is in hand as a sequence.
LEMMA BackTypes ==
    ASSUME BackOK
    PROVE  /\ rx_buffer \in Rings /\ RingGood(rx_buffer)
           /\ accepted \in Seq(Bytes) /\ printed \in Seq(Bytes)
           /\ Ring \in Seq(Bytes) /\ Hand \in Seq(Bytes)
           /\ accepted = (printed \o Hand) \o Ring
           /\ task1 \in {"wait", "read"} /\ (msg # "buffer" \/ task2 = "clear") => Hand = << >>
           /\ task1 \in {"terminate", "publish"} => Hand = Span(buffer, 0, count)
<1>1. /\ rx_buffer \in Rings /\ RingGood(rx_buffer)
      /\ accepted \in Seq(Bytes) /\ printed \in Seq(Bytes)
  BY DEF BackOK, TasksTyped, RingOK
<1>2. accepted = (printed \o Hand) \o Ring
  BY NothingLostIs DEF BackOK
<1>3. Ring \in Seq(Bytes)
  <2>1. rx_buffer.size \in Nat
    BY <1>1, RingTypes
  <2>2. \A i \in 0 .. rx_buffer.size - 1 : ByteAt(rx_buffer, i) \in Bytes
    BY <1>1 DEF RingGood
  <2> QED BY <2>1, <2>2, FirstOfSeq DEF Ring
<1>4. /\ msg \in {"NULL", "garbage", "buffer"} /\ count \in Nat /\ str \in Nat
      /\ task1 \in {"wait", "read", "terminate", "publish"} /\ task2 \in {"wait", "puts", "clear"}
  BY DEF BackOK, TasksTyped
<1>5. CASE task1 \in {"terminate", "publish"}
  <2>1. \A i \in 0 .. count - 1 : buffer[i] \in Bytes
    BY <1>5 DEF BackOK, ChunkOK
  <2>2. Hand = Span(buffer, 0, count)
    BY <1>4, <1>5, <2>1, HandRead DEF Hand
  <2>3. Span(buffer, 0, count) \in Seq(Bytes)
    BY <1>4, <2>1, SpanSeq
  <2>4. task1 \notin {"wait", "read"}
    BY <1>5
  <2> QED BY <1>1, <1>2, <1>3, <2>2, <2>3, <2>4
<1>6. CASE task1 \in {"wait", "read"}
  <2>0. task1 \notin {"terminate", "publish"}
    BY <1>6
  <2>1. (msg # "buffer" \/ task2 = "clear") => Hand = << >>
    BY <1>6, HandEmpty DEF Hand
  <2>2. CASE msg # "buffer" \/ task2 = "clear"
    <3>1. Hand \in Seq(Bytes)
      BY <2>1, <2>2, EmptySeq
    <3> QED BY <1>1, <1>2, <1>3, <2>0, <2>1, <3>1
  <2>3. CASE msg = "buffer" /\ task2 \in {"wait", "puts"}
    <3>1. PICK e \in 0 .. ChunkSize :
              /\ buffer[e] = NUL
              /\ \A i \in 0 .. e - 1 : buffer[i] \in Bytes
              /\ task2 = "puts" => str <= e
      BY <2>3 DEF BackOK, ChunkOK
    <3> DEFINE i == IF task2 = "puts" THEN str ELSE 0
    <3>2. Hand = Span(buffer, i, e)
      BY <1>4, <1>6, <2>3, <3>1, HandPublished DEF Hand
    <3>3. i \in Nat /\ e \in Nat /\ i <= e /\ \A j \in i .. e - 1 : buffer[j] \in Bytes
      BY <1>4, <3>1
    <3> HIDE DEF i
    <3>4. Span(buffer, i, e) \in Seq(Bytes)
      BY <3>3, SpanSeq
    <3> QED BY <1>1, <1>2, <1>3, <2>0, <2>1, <3>2, <3>4
  <2> QED BY <1>4, <2>2, <2>3
<1> QED BY <1>4, <1>5, <1>6

\* Nothing is lost when the tasks hold something else in a new place.
LEMMA StillNothingLost ==
    ASSUME BackOK, accepted' = accepted, printed' = printed, Hand' = Hand, Ring' = Ring
    PROVE  NothingLost'
BY BackTypes, NothingLostIs

\* put: the byte goes to the end of the ring, or nowhere.
LEMMA PutStep ==
    ASSUME FrontOK, BackOK, put
    PROVE  FrontOK' /\ BackOK'
<1>1. /\ handler = "put" /\ data' = NUL /\ handler' = "status"
      /\ UNCHANGED <<setup, uart, line, tasks>>
  BY DEF put, AfterPut
<1>2. FrontOK'
  BY <1>1 DEF FrontOK, HandlerOK, uart, line
<1>3. CASE ring_buffer_full
  <2>1. UNCHANGED TaskSide
    BY <1>1, <1>3 DEF put, TaskSide
  <2> QED BY <1>2, <2>1, BackFrame
<1>4. CASE ~ ring_buffer_full
  <2> DEFINE r == rx_buffer
             q == ring_buffer_putchar(rx_buffer, data)
  <2>1. rx_buffer' = q /\ accepted' = Append(accepted, data)
    BY <1>4 DEF put
  <2>2. data \in Bytes /\ r.size # RING_BUFFER_SIZE
    BY <1>1, <1>4 DEF FrontOK, HandlerOK, ring_buffer_full
  <2>3. /\ r \in Rings /\ RingGood(r) /\ accepted \in Seq(Bytes) /\ printed \in Seq(Bytes)
        /\ Hand \in Seq(Bytes) /\ Ring \in Seq(Bytes)
        /\ accepted = (printed \o Hand) \o Ring
    BY BackTypes
  <2> HIDE DEF q
  <2>4. /\ q \in Rings /\ RingGood(q)
        /\ FirstOf(q, q.size) = Append(FirstOf(r, r.size), data)
    BY <2>2, <2>3, PutAppends DEF q
  <2>5. Ring' = Append(Ring, data)
    BY <2>1, <2>4 DEF Ring
  <2>6. /\ msg' = msg /\ buffer' = buffer /\ task1' = task1 /\ count' = count
        /\ task2' = task2 /\ str' = str /\ printed' = printed
    BY <1>1 DEF tasks
  <2>7. Hand' = Hand
    BY <2>6 DEF Hand
  <2>8. NothingLost'
    <3> DEFINE shown == printed \o Hand
    <3>1. shown \in Seq(Bytes)
      BY <2>3, ConcatProperties
    <3>2. Append(Ring, data) = Ring \o <<data>> /\ <<data>> \in Seq(Bytes)
      BY <2>2, <2>3, AppendIsConcat
    <3>3. Append(accepted, data) = accepted \o <<data>>
      BY <2>2, <2>3, AppendIsConcat
    <3> HIDE DEF shown
    <3>4. (shown \o Ring) \o <<data>> = shown \o (Ring \o <<data>>)
      <4>1. shown \in Seq(Bytes) /\ Ring \in Seq(Bytes) /\ <<data>> \in Seq(Bytes)
        BY <2>3, <3>1, <3>2
      <4> QED BY ONLY <4>1, ConcatAssociative
    <3>5. accepted' = shown \o Append(Ring, data)
      BY <2>1, <2>3, <3>2, <3>3, <3>4 DEF shown
    <3> QED BY <2>5, <2>6, <2>7, <3>5, NothingLostIs DEF shown
  <2>9. accepted' \in Seq(Bytes)
    BY <2>1, <2>2, <2>3, AppendProperties
  <2>10. TasksTyped' /\ HandoverOK' /\ ChunkOK'
    BY <2>6 DEF BackOK, TasksTyped, HandoverOK, ChunkOK
  <2>11. rx_buffer' \in Rings /\ RingOK'
    BY <2>1, <2>4 DEF RingOK
  <2> QED BY <1>2, <2>8, <2>9, <2>10, <2>11 DEF BackOK
<1> QED BY <1>3, <1>4

\* A step of a task that leaves the ring alone.
LEMMA RingFrame ==
    ASSUME BackOK, UNCHANGED <<rx_buffer, accepted>>
    PROVE  /\ rx_buffer' \in Rings /\ accepted' \in Seq(Bytes) /\ RingOK' /\ Ring' = Ring
BY DEF BackOK, RingOK, Ring

\* task1 finds the pointer clear and goes on to read.
LEMMA Task1WaitStep ==
    ASSUME BackOK, task1_wait
    PROVE  BackOK'
<1>1. /\ task1 = "wait" /\ msg = "NULL" /\ task1' = "read"
      /\ UNCHANGED <<accepted, task2, str, printed, rx_buffer, msg, buffer, count>>
  BY DEF task1_wait, Task1Same
<1>2. /\ rx_buffer' \in Rings /\ accepted' \in Seq(Bytes) /\ RingOK' /\ Ring' = Ring
  BY <1>1, RingFrame
<1>3. TasksTyped' /\ HandoverOK' /\ ChunkOK'
  BY <1>1 DEF BackOK, TasksTyped, HandoverOK, ChunkOK
<1>4. Hand = << >> /\ Hand' = << >>
  BY <1>1, HandEmpty DEF Hand
<1>5. NothingLost'
  BY <1>1, <1>2, <1>4, StillNothingLost
<1> QED BY <1>2, <1>3, <1>5 DEF BackOK

\* serial_read: the first bytes of the ring are the chunk now.
LEMMA SerialReadStep ==
    ASSUME BackOK, serial_read
    PROVE  BackOK'
<1> DEFINE r == rx_buffer
           n == Smaller(rx_buffer.size, ChunkSize)
           q == Without(rx_buffer, n)
<1>1. /\ task1 = "read" /\ task1' = "terminate" /\ count' = n
      /\ buffer' = [i \in DOMAIN buffer |-> IF i < n THEN RingByte(i) ELSE buffer[i]]
      /\ rx_buffer' = q
      /\ UNCHANGED <<accepted, task2, str, printed, msg>>
  BY DEF serial_read, Task1Same, Without
<1>2. /\ r \in Rings /\ RingGood(r) /\ accepted \in Seq(Bytes) /\ printed \in Seq(Bytes)
      /\ accepted = (printed \o Hand) \o Ring
  BY BackTypes
<1>3. /\ r.size \in Nat /\ ChunkSize \in Nat /\ n \in 0 .. r.size /\ n \in 0 .. ChunkSize
      /\ n \in Nat
  BY <1>2, RingTypes, SerialAssumption DEF Smaller
<1>4. msg = "NULL" /\ task2 = "wait"
  BY <1>1 DEF BackOK, HandoverOK
<1> HIDE DEF n, q
<1>5. /\ q \in Rings /\ RingGood(q)
      /\ FirstOf(r, n) \in Seq(Bytes) /\ FirstOf(q, q.size) \in Seq(Bytes)
      /\ FirstOf(r, r.size) = FirstOf(r, n) \o FirstOf(q, q.size)
  BY <1>2, <1>3, TakeSplits DEF q
<1>6. buffer \in [0 .. ChunkSize -> Bytes \cup {NUL}]
  BY DEF BackOK, TasksTyped
<1>7. \A j \in 0 .. n - 1 : ByteAt(r, j) \in Bytes
  BY <1>2, <1>3 DEF RingGood
<1>8. \A j \in 0 .. n - 1 : j \in 0 .. ChunkSize /\ j < n /\ RingByte(j) = ByteAt(r, j)
  BY <1>3 DEF RingByte, ByteAt
<1>9. \A j \in 0 .. n - 1 : buffer'[j] = ByteAt(r, j)
  BY <1>1, <1>6, <1>8
<1>10. buffer' \in [0 .. ChunkSize -> Bytes \cup {NUL}]
  <2>1. ASSUME NEW i \in 0 .. ChunkSize
        PROVE  (IF i < n THEN RingByte(i) ELSE buffer[i]) \in Bytes \cup {NUL}
    <3>1. CASE i < n
      <4>1. i \in 0 .. n - 1
        BY <1>3, <3>1
      <4>2. RingByte(i) \in Bytes
        BY <1>7, <1>8, <4>1
      <4> QED BY <3>1, <4>2
    <3>2. CASE ~ (i < n)
      BY <1>6, <3>2
    <3> QED BY <3>1, <3>2
  <2> QED BY <1>1, <1>6, <2>1
<1>11. TasksTyped'
  BY <1>1, <1>3, <1>10 DEF BackOK, TasksTyped
<1>12. HandoverOK' /\ ChunkOK'
  BY <1>1, <1>4, <1>7, <1>9 DEF HandoverOK, ChunkOK
<1>13. rx_buffer' \in Rings /\ RingOK' /\ accepted' \in Seq(Bytes)
  BY <1>1, <1>2, <1>5 DEF RingOK
<1>14. NothingLost'
  <2>1. Hand = << >>
    BY <1>1, <1>4, BackTypes
  <2>2. \A j \in 0 .. count' - 1 : buffer'[j] \in Bytes
    BY <1>1, <1>7, <1>9
  <2>3. Hand' = Span(buffer', 0, count')
    BY <1>1, <1>3, <2>2, HandRead DEF Hand
  <2>4. Span(buffer', 0, n) = FirstOf(r, n)
    BY <1>3, <1>7, <1>9, SpanOfRing
  <2>5. Hand' = FirstOf(r, n)
    BY <1>1, <2>3, <2>4
  <2>6. Ring = Hand' \o Ring'
    BY <1>1, <1>5, <2>5 DEF Ring
  <2>7. Ring' \in Seq(Bytes) /\ Hand' \in Seq(Bytes)
    BY <1>1, <1>5, <2>5 DEF Ring
  <2>8. printed \o Hand = printed
    BY <1>2, <2>1, ConcatEmptySeq
  <2>9. printed \o (Hand' \o Ring') = (printed \o Hand') \o Ring'
    <3>1. \A s, t, u \in Seq(Bytes) : (s \o t) \o u = s \o (t \o u)
      BY ConcatAssociative
    <3> QED BY <1>2, <2>7, <3>1
  <2>10. accepted' = (printed' \o Hand') \o Ring'
    BY <1>1, <1>2, <2>6, <2>8, <2>9
  <2> QED BY <2>10, NothingLostIs
<1> QED BY <1>11, <1>12, <1>13, <1>14 DEF BackOK

\* task1 ends its chunk with a zero, behind the last byte of it.
LEMMA TerminateStep ==
    ASSUME BackOK, task1_terminate
    PROVE  BackOK'
<1>1. /\ task1 = "terminate" /\ task1' = "publish"
      /\ buffer' = [buffer EXCEPT ![count] = NUL]
      /\ UNCHANGED <<accepted, task2, str, printed, rx_buffer, msg, count>>
  BY DEF task1_terminate, Task1Same, Terminated
<1>2. /\ rx_buffer' \in Rings /\ accepted' \in Seq(Bytes) /\ RingOK' /\ Ring' = Ring
  BY <1>1, RingFrame
<1>3. /\ buffer \in [0 .. ChunkSize -> Bytes \cup {NUL}] /\ count \in 0 .. ChunkSize
      /\ ChunkSize \in Nat /\ msg = "NULL"
      /\ \A i \in 0 .. count - 1 : buffer[i] \in Bytes
  BY <1>1, SerialAssumption DEF BackOK, TasksTyped, HandoverOK, ChunkOK
<1>4. TasksTyped'
  BY <1>1, <1>3 DEF BackOK, TasksTyped
<1>5. buffer'[count] = NUL
  BY <1>1, <1>3
<1>6. \A i \in 0 .. count - 1 : buffer'[i] = buffer[i]
  BY <1>1, <1>3
<1>7. HandoverOK' /\ ChunkOK'
  BY <1>1, <1>3, <1>5, <1>6 DEF BackOK, HandoverOK, ChunkOK
<1>8. Hand' = Hand
  <2>1. count \in Nat /\ 0 <= count
    BY <1>3
  <2>2. Hand = Span(buffer, 0, count)
    BY <1>1, BackTypes
  <2>3. \A j \in 0 .. count - 1 : buffer'[j] \in Bytes
    BY <1>1, <1>3, <1>6
  <2>4. HandOf("publish", buffer', count, msg, task2, str) = Span(buffer', 0, count)
    BY <2>1, <2>3, HandRead
  <2>5. Span(buffer', 0, count) = Span(buffer, 0, count)
    BY <1>3, <1>6, <2>1, SpanSame
  <2> QED BY <1>1, <2>2, <2>4, <2>5 DEF Hand
<1>9. NothingLost'
  BY <1>1, <1>2, <1>8, StillNothingLost
<1> QED BY <1>2, <1>4, <1>7, <1>9 DEF BackOK

\* task1 publishes: what it held is what task2 will find.
LEMMA PublishStep ==
    ASSUME BackOK, task1_publish
    PROVE  BackOK'
<1>1. /\ task1 = "publish" /\ task1' = "wait"
      /\ msg' = IF count # 0 THEN "buffer" ELSE msg
      /\ UNCHANGED <<accepted, task2, str, printed, rx_buffer, buffer, count>>
  BY DEF task1_publish, Task1Same
<1>2. /\ rx_buffer' \in Rings /\ accepted' \in Seq(Bytes) /\ RingOK' /\ Ring' = Ring
  BY <1>1, RingFrame
<1>3. /\ count \in 0 .. ChunkSize /\ count \in Nat /\ ChunkSize \in Nat
      /\ msg = "NULL" /\ task2 = "wait" /\ str \in Nat
      /\ buffer[count] = NUL
      /\ \A i \in 0 .. count - 1 : buffer[i] \in Bytes
  BY <1>1, SerialAssumption DEF BackOK, TasksTyped, HandoverOK, ChunkOK
<1>4. TasksTyped'
  BY <1>1 DEF BackOK, TasksTyped
<1>5. HandoverOK'
  BY <1>1, <1>3 DEF HandoverOK
<1>6. ChunkOK'
  BY <1>1, <1>3 DEF ChunkOK
<1>7. Hand = Span(buffer, 0, count)
  BY <1>1, BackTypes
<1>8. Hand' = Hand
  <2>1. CASE count # 0
    <3>1. msg' = "buffer" /\ task1' = "wait" /\ task2' = "wait" /\ buffer' = buffer /\ str' = str
      BY <1>1, <1>3, <2>1
    <3>2. HandOf("wait", buffer, count', "buffer", "wait", str) = Span(buffer, 0, count)
      BY <1>3, HandPublished
    <3> QED BY <1>7, <3>1, <3>2 DEF Hand
  <2>2. CASE count = 0
    <3>1. Hand' = << >>
      BY <1>1, <1>3, <2>2, HandEmpty DEF Hand
    <3>2. Span(buffer, 0, 0) = << >>
      BY SpanEmpty
    <3> QED BY <1>7, <2>2, <3>1, <3>2
  <2> QED BY <2>1, <2>2
<1>9. NothingLost'
  BY <1>1, <1>2, <1>8, StillNothingLost
<1> QED BY <1>2, <1>4, <1>5, <1>6, <1>9 DEF BackOK

\* task2 has task1's chunk: task1 waits for it.
LEMMA Task2WaitStep ==
    ASSUME BackOK, task2_wait
    PROVE  BackOK'
<1>1. /\ task2 = "wait" /\ msg # "NULL" /\ task2' = "puts" /\ str' = 0
      /\ UNCHANGED <<accepted, printed, rx_buffer, msg, buffer, task1, count>>
  BY DEF task2_wait, Task2Same
<1>2. /\ rx_buffer' \in Rings /\ accepted' \in Seq(Bytes) /\ RingOK' /\ Ring' = Ring
  BY <1>1, RingFrame
<1>3. task1 = "wait" /\ ChunkSize \in Nat
  BY <1>1, SerialAssumption DEF BackOK, HandoverOK
<1>4. TasksTyped'
  BY <1>1, <1>3 DEF BackOK, TasksTyped
<1>5. HandoverOK'
  BY <1>1, <1>3 DEF HandoverOK
<1>6. CASE msg = "buffer"
  <2>1. PICK e \in 0 .. ChunkSize :
            /\ buffer[e] = NUL
            /\ \A i \in 0 .. e - 1 : buffer[i] \in Bytes
    BY <1>6 DEF BackOK, ChunkOK
  <2>2. str' <= e
    BY <1>1
  <2>3. ChunkOK'
    BY <1>1, <1>3, <2>1, <2>2 DEF ChunkOK
  <2>4. /\ HandOf("wait", buffer, count, "buffer", "wait", 0) = Span(buffer, 0, e)
        /\ HandOf("wait", buffer, count, "buffer", "puts", 0) = Span(buffer, 0, e)
    BY <2>1, HandPublished
  <2>5. HandOf("wait", buffer, count, "buffer", "wait", str) =
        HandOf("wait", buffer, count, "buffer", "wait", 0)
    BY DEF HandOf
  <2>6. Hand' = Hand
    BY <1>1, <1>3, <1>6, <2>4, <2>5 DEF Hand
  <2>7. NothingLost'
    BY <1>1, <1>2, <2>6, StillNothingLost
  <2> QED BY <1>2, <1>4, <1>5, <2>3, <2>7 DEF BackOK
<1>7. CASE msg # "buffer"
  <2>1. ChunkOK'
    BY <1>1, <1>3, <1>7 DEF ChunkOK
  <2>2. Hand = << >> /\ Hand' = << >>
    BY <1>1, <1>3, <1>7, HandEmpty DEF Hand
  <2>3. NothingLost'
    BY <1>1, <1>2, <2>2, StillNothingLost
  <2> QED BY <1>2, <1>4, <1>5, <2>1, <2>3 DEF BackOK
<1> QED BY <1>6, <1>7

\* myputs shows the byte at its place, or is at the end of the chunk.
LEMMA MyputsStep ==
    ASSUME BackOK, myputs
    PROVE  BackOK'
<1>1. /\ task2 = "puts"
      /\ UNCHANGED <<accepted, rx_buffer, msg, buffer, task1, count>>
  BY DEF myputs, Task2Same
<1>2. /\ rx_buffer' \in Rings /\ accepted' \in Seq(Bytes) /\ RingOK' /\ Ring' = Ring
  BY <1>1, RingFrame
<1>3. /\ msg # "NULL" /\ task1 = "wait" /\ ChunkSize \in Nat /\ str \in Nat
      /\ msg \in {"NULL", "garbage", "buffer"}
  BY <1>1, SerialAssumption DEF BackOK, TasksTyped, HandoverOK
<1>4. /\ printed \in Seq(Bytes) /\ Ring \in Seq(Bytes)
      /\ accepted = (printed \o Hand) \o Ring
  BY BackTypes
<1>5. CASE msg # "buffer"
  <2>1. task2' = "clear" /\ UNCHANGED <<printed, str>>
    BY <1>5 DEF myputs
  <2>2. TasksTyped' /\ HandoverOK' /\ ChunkOK'
    BY <1>1, <1>3, <1>5, <2>1 DEF BackOK, TasksTyped, HandoverOK, ChunkOK
  <2>3. Hand = << >> /\ Hand' = << >>
    BY <1>1, <1>3, <1>5, HandEmpty DEF Hand
  <2>4. NothingLost'
    BY <1>1, <1>2, <2>1, <2>3, StillNothingLost
  <2> QED BY <1>2, <2>2, <2>4 DEF BackOK
<1>6. CASE msg = "buffer"
  <2>1. PICK e \in 0 .. ChunkSize :
            /\ buffer[e] = NUL
            /\ \A i \in 0 .. e - 1 : buffer[i] \in Bytes
            /\ str <= e
    BY <1>1, <1>6 DEF BackOK, ChunkOK
  <2>2. e \in Nat /\ \A j \in str .. e - 1 : buffer[j] \in Bytes
    BY <1>3, <2>1
  <2>3. HandOf("wait", buffer, count, "buffer", "puts", str) = Span(buffer, str, e)
    BY <1>3, <2>1, HandPublished
  <2>4. Hand = Span(buffer, str, e)
    BY <1>1, <1>3, <1>6, <2>3 DEF Hand
  <2>5. CASE buffer[str] = NUL
    <3>1. task2' = "clear" /\ UNCHANGED <<printed, str>>
      BY <1>6, <2>5 DEF myputs
    <3>2. TasksTyped' /\ HandoverOK'
      BY <1>1, <1>3, <1>6, <3>1 DEF BackOK, TasksTyped, HandoverOK
    <3>3. ChunkOK'
      BY <1>1, <1>3, <2>1, <3>1 DEF ChunkOK
    <3>4. str = e
      <4>1. NUL \notin Bytes
        BY DEF NUL, Bytes
      <4> QED BY <1>3, <2>1, <2>2, <2>5, <4>1
    <3>5. Span(buffer, str, str) = << >>
      BY <1>3, SpanEmpty
    <3>6. Hand' = << >>
      BY <1>1, <1>3, <3>1, HandEmpty DEF Hand
    <3>7. NothingLost'
      BY <1>1, <1>2, <2>4, <3>1, <3>4, <3>5, <3>6, StillNothingLost
    <3> QED BY <1>2, <3>2, <3>3, <3>7 DEF BackOK
  <2>6. CASE buffer[str] # NUL
    <3>1. printed' = Append(printed, buffer[str]) /\ str' = str + 1 /\ task2' = task2
      BY <1>6, <2>6 DEF myputs
    <3>2. str < e
      BY <1>3, <2>1, <2>2, <2>6
    <3> DEFINE c == buffer[str]
               rest == Span(buffer, str + 1, e)
    <3>3. rest \in Seq(Bytes) /\ c \in Bytes /\ Span(buffer, str, e) = <<c>> \o rest
      BY <1>3, <2>2, <3>2, SpanHead
    <3>4. str + 1 \in 0 .. ChunkSize /\ str + 1 \in Nat /\ str + 1 <= e
      BY <1>3, <2>1, <2>2, <3>2
    <3>5. printed' \in Seq(Bytes)
      BY <1>4, <3>1, <3>3, AppendProperties
    <3>6. TasksTyped' /\ HandoverOK'
      BY <1>1, <1>3, <3>1, <3>4, <3>5 DEF BackOK, TasksTyped, HandoverOK
    <3>7. ChunkOK'
      BY <1>1, <1>3, <2>1, <3>1, <3>4 DEF ChunkOK
    <3>8. HandOf("wait", buffer, count, "buffer", "puts", str + 1) = rest
      BY <2>1, <3>4, HandPublished
    <3>9. Hand' = rest
      BY <1>1, <1>3, <1>6, <3>1, <3>8 DEF Hand
    <3> HIDE DEF rest
    <3>10. printed' = printed \o <<c>> /\ <<c>> \in Seq(Bytes)
      BY <1>4, <3>1, <3>3, AppendIsConcat
    <3>11. (printed \o <<c>>) \o rest = printed \o (<<c>> \o rest)
      BY <1>4, <3>3, <3>10, ConcatAssociative
    <3>12. accepted' = (printed' \o Hand') \o Ring'
      BY <1>1, <1>2, <1>4, <2>4, <3>3, <3>9, <3>10, <3>11
    <3>13. NothingLost'
      BY <3>12, NothingLostIs
    <3> QED BY <1>2, <3>6, <3>7, <3>13 DEF BackOK
  <2> QED BY <2>5, <2>6
<1> QED BY <1>5, <1>6

\* task2 clears the pointer when it is at the end of the string.
LEMMA ClearStep ==
    ASSUME BackOK, task2_clear
    PROVE  BackOK'
<1>1. /\ task2 = "clear" /\ msg' = "NULL" /\ task2' = "wait"
      /\ UNCHANGED <<accepted, printed, str, rx_buffer, buffer, task1, count>>
  BY DEF task2_clear, Task2Same
<1>2. /\ rx_buffer' \in Rings /\ accepted' \in Seq(Bytes) /\ RingOK' /\ Ring' = Ring
  BY <1>1, RingFrame
<1>3. msg # "NULL" /\ task1 = "wait"
  BY <1>1 DEF BackOK, HandoverOK
<1>4. TasksTyped' /\ HandoverOK' /\ ChunkOK'
  BY <1>1, <1>3 DEF BackOK, TasksTyped, HandoverOK, ChunkOK
<1>5. Hand = << >> /\ Hand' = << >>
  BY <1>1, <1>3, HandEmpty DEF Hand
<1>6. NothingLost'
  BY <1>1, <1>2, <1>5, StillNothingLost
<1> QED BY <1>2, <1>4, <1>6 DEF BackOK

-----------------------------------------------------------------------------
(* The theorems.                                                           *)

\* The invariant holds at the start, whatever the word at address 0 is.
LEMMA InitIInv == Init => IInv
<1> SUFFICES ASSUME Init PROVE IInv
  OBVIOUS
<1> DEFINE r == rx_buffer
<1>1. /\ RING_BUFFER_SIZE \in Nat \ {0} /\ ChunkSize \in Nat /\ FifoSize \in Nat
      /\ MaxBytes \in Nat
  BY SerialAssumption
<1>2. FrontOK
  <2>1. fifo \in Seq(Bytes) /\ Len(fifo) <= FifoSize
    BY <1>1, EmptySeq DEF Init
  <2> QED BY <1>1, <2>1 DEF Init, FrontOK, HandlerOK
<1>3. r = [buffer |-> [i \in 0 .. RING_BUFFER_SIZE - 1 |-> NUL], begin |-> 0, end |-> 0, size |-> 0]
  BY DEF Init
<1>4. r \in Rings /\ r.size = 0 /\ r.begin = 0 /\ r.end = 0
  BY <1>1, <1>3 DEF Rings
<1>5. RingOK
  <2>1. 0 % RING_BUFFER_SIZE = 0
    BY <1>1
  <2> QED BY <1>4, <2>1 DEF RingOK, RingGood
<1>6. accepted = << >> /\ printed = << >> /\ << >> \in Seq(Bytes)
  BY EmptySeq DEF Init
<1>7. TasksTyped /\ HandoverOK /\ ChunkOK
  BY <1>1, <1>6 DEF Init, TasksTyped, HandoverOK, ChunkOK
<1>8. NothingLost
  <2>1. Hand = << >>
    BY HandEmpty DEF Init, Hand
  <2>2. Ring \in Seq(Bytes) /\ Len(Ring) = 0
    <3>1. \A i \in 0 .. 0 - 1 : ByteAt(r, i) \in Bytes
      OBVIOUS
    <3> QED BY <1>4, <3>1, FirstOfSeq DEF Ring
  <2>3. Ring = << >>
    BY <2>2, EmptySeq
  <2>4. << >> \o << >> = << >>
    BY <1>6, ConcatEmptySeq
  <2> QED BY <1>6, <2>1, <2>3, <2>4, NothingLostIs
<1> QED BY <1>2, <1>4, <1>5, <1>6, <1>7, <1>8, Whole DEF BackOK

\* Every step of the UART, of the handler and of the tasks keeps it.
LEMMA NextIInv ==
    ASSUME IInv, [Next]_vars
    PROVE  IInv'
<1>1. FrontOK /\ BackOK
  BY Parts
<1> SUFFICES FrontOK' /\ BackOK'
  BY WholeNext
<1>2. CASE Arrive
  BY <1>1, <1>2, ArriveStep, BackFrame
<1>3. CASE Timeout
  BY <1>1, <1>3, TimeoutStep, BackFrame
<1>4. CASE Main
  BY <1>1, <1>4, MainStep, BackFrame
<1>5. CASE Interrupt
  BY <1>1, <1>5, InterruptStep, BackFrame
<1>6. CASE Handler
  <2>1. CASE read_status
    BY <1>1, <2>1, ReadStatusStep, BackFrame
  <2>2. CASE read_data
    BY <1>1, <2>2, ReadDataStep, BackFrame
  <2>3. CASE put
    BY <1>1, <2>3, PutStep
  <2>4. CASE pic_eoi
    BY <1>1, <2>4, EoiStep, BackFrame
  <2> QED BY <1>6, <2>1, <2>2, <2>3, <2>4 DEF Handler
<1>7. CASE Task1
  <2>1. UNCHANGED HandlerSide
    BY <1>7 DEF Task1, task1_wait, serial_read, task1_terminate, task1_publish, Task1Same,
                HandlerSide
  <2>2. FrontOK'
    BY <1>1, <2>1, FrontFrame
  <2>3. CASE task1_wait
    BY <1>1, <2>2, <2>3, Task1WaitStep
  <2>4. CASE serial_read
    BY <1>1, <2>2, <2>4, SerialReadStep
  <2>5. CASE task1_terminate
    BY <1>1, <2>2, <2>5, TerminateStep
  <2>6. CASE task1_publish
    BY <1>1, <2>2, <2>6, PublishStep
  <2> QED BY <1>7, <2>3, <2>4, <2>5, <2>6 DEF Task1
<1>8. CASE Task2
  <2>1. UNCHANGED HandlerSide
    BY <1>8 DEF Task2, task2_wait, myputs, task2_clear, Task2Same, HandlerSide
  <2>2. FrontOK'
    BY <1>1, <2>1, FrontFrame
  <2>3. CASE task2_wait
    BY <1>1, <2>2, <2>3, Task2WaitStep
  <2>4. CASE myputs
    BY <1>1, <2>2, <2>4, MyputsStep
  <2>5. CASE task2_clear
    BY <1>1, <2>2, <2>5, ClearStep
  <2> QED BY <1>8, <2>3, <2>4, <2>5 DEF Task2
<1>9. CASE UNCHANGED vars
  <2>1. UNCHANGED HandlerSide /\ UNCHANGED TaskSide
    BY <1>9 DEF vars, HandlerSide, TaskSide
  <2> QED BY <1>1, <2>1, FrontFrame, BackFrame
<1> QED BY <1>2, <1>3, <1>4, <1>5, <1>6, <1>7, <1>8, <1>9 DEF Next

\* Every reachable state has the handler, the ring, the chunk and the pointer
\* in step: the driver and the two tasks of hw3 never touch the chunk at once.
THEOREM InvariantHolds == Spec => []IInv
<1>1. Init => IInv
  BY InitIInv
<1>2. IInv /\ [Next]_vars => IInv'
  BY NextIInv
<1> QED BY <1>1, <1>2, PTL DEF Spec

\* Every byte that serial_irq_handler puts into the ring is shown, in the ring
\* or between the tasks, once and in the order it came: for every size of the
\* ring and of the chunk and wherever the interrupt and the switches fall.
THEOREM NothingIsLost == Spec => []NothingLost
<1>1. IInv => NothingLost
  BY DEF IInv
<1> QED BY <1>1, InvariantHolds, PTL
=============================================================================
