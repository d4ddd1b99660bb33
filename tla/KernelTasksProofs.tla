------------------------- MODULE KernelTasksProofs -------------------------
(***************************************************************************)
(* The run list of the kernel is always a circle through the tasks that    *)
(* wait, every switch saves and loads the right task_state, and so the     *)
(* scheduler is a round robin: for any number of tasks, at any addresses.  *)
(***************************************************************************)
EXTENDS KernelTasks, BasicLemmas, FiniteSetTheorems

-----------------------------------------------------------------------------
(* The circle of a list.                                                   *)

\* The node i steps behind head.
At(head, q, i) == IF i = 0 \/ i = Len(q) + 1 THEN head ELSE q[i]

\* f leads from each node of the circle to the one behind it, g back again.
Circle(f, g, head, q) ==
    \A i \in 0 .. Len(q) : /\ f[At(head, q, i)] = At(head, q, i + 1)
                           /\ g[At(head, q, i + 1)] = At(head, q, i)

\* Linked, written with Circle.
LEMMA LinkedAt ==
    ASSUME NEW S, NEW l, NEW head \in S, NEW q \in Seq(S)
    PROVE  Linked(l, head, q) <=> Circle(l.next, l.prev, head, q)
<1> DEFINE c == <<head>> \o q \o <<head>>
<1>1. Len(q) \in Nat
  OBVIOUS
<1>2. \A i \in 1 .. Len(q) + 2 : c[i] = At(head, q, i - 1)
  <2> TAKE i \in 1 .. Len(q) + 2
  <2>1. <<head>> \in Seq(S) /\ Len(<<head>>) = 1 /\ <<head>>[1] = head
    OBVIOUS
  <2>2. /\ <<head>> \o q \in Seq(S) /\ Len(<<head>> \o q) = Len(q) + 1
        /\ \A k \in 1 .. Len(q) + 1 : (<<head>> \o q)[k] = IF k <= 1 THEN <<head>>[k] ELSE q[k - 1]
    BY <1>1, <2>1, ConcatProperties
  <2>3. c[i] = IF i <= Len(q) + 1 THEN (<<head>> \o q)[i] ELSE <<head>>[i - (Len(q) + 1)]
    <3>1. i \in 1 .. Len(<<head>> \o q) + Len(<<head>>)
      BY <1>1, <2>1, <2>2
    <3> QED BY <2>1, <2>2, <3>1, ConcatProperties
  <2>4. CASE i = 1
    BY <1>1, <2>1, <2>2, <2>3, <2>4 DEF At
  <2>5. CASE i = Len(q) + 2
    BY <1>1, <2>1, <2>3, <2>5 DEF At
  <2>6. CASE i \in 2 .. Len(q) + 1
    BY <1>1, <2>1, <2>2, <2>3, <2>6 DEF At
  <2> QED BY <1>1, <2>4, <2>5, <2>6
<1> HIDE DEF c
<1>3. Linked(l, head, q) <=>
          \A i \in 1 .. Len(q) + 1 : l.next[c[i]] = c[i + 1] /\ l.prev[c[i + 1]] = c[i]
  BY DEF Linked, c
<1>4. \A i \in 1 .. Len(q) + 1 : c[i] = At(head, q, i - 1) /\ c[i + 1] = At(head, q, (i - 1) + 1)
  <2> TAKE i \in 1 .. Len(q) + 1
  <2>1. i \in 1 .. Len(q) + 2 /\ i + 1 \in 1 .. Len(q) + 2 /\ (i + 1) - 1 = (i - 1) + 1
    BY <1>1
  <2> QED BY <1>2, <2>1
<1>5. ASSUME \A i \in 1 .. Len(q) + 1 : l.next[c[i]] = c[i + 1] /\ l.prev[c[i + 1]] = c[i],
             NEW i \in 0 .. Len(q)
      PROVE  /\ l.next[At(head, q, i)] = At(head, q, i + 1)
             /\ l.prev[At(head, q, i + 1)] = At(head, q, i)
  <2>1. i + 1 \in 1 .. Len(q) + 1 /\ (i + 1) - 1 = i
    BY <1>1
  <2>2. c[i + 1] = At(head, q, i) /\ c[(i + 1) + 1] = At(head, q, i + 1)
    BY <1>4, <2>1
  <2> QED BY <1>5, <2>1, <2>2
<1>6. ASSUME \A i \in 0 .. Len(q) : /\ l.next[At(head, q, i)] = At(head, q, i + 1)
                                    /\ l.prev[At(head, q, i + 1)] = At(head, q, i),
             NEW i \in 1 .. Len(q) + 1
      PROVE  l.next[c[i]] = c[i + 1] /\ l.prev[c[i + 1]] = c[i]
  <2>1. i - 1 \in 0 .. Len(q)
    BY <1>1
  <2> QED BY <1>4, <1>6, <2>1
<1> QED BY <1>3, <1>5, <1>6 DEF Circle

\* No node is met twice before the circle closes.
LEMMA AtFacts ==
    ASSUME NEW S, NEW head \in S, NEW q \in Seq(S), IsInjective(q), head \notin ToSet(q)
    PROVE  /\ Len(q) \in Nat
           /\ \A i \in 0 .. Len(q) + 1 : At(head, q, i) \in S
           /\ \A i \in 1 .. Len(q) : /\ At(head, q, i) = q[i] /\ q[i] # head
                                     /\ q[i] \in ToSet(q)
           /\ At(head, q, 0) = head /\ At(head, q, Len(q) + 1) = head
           /\ \A i, k \in 0 .. Len(q) : At(head, q, i) = At(head, q, k) => i = k
<1>1. Len(q) \in Nat /\ \A i \in 1 .. Len(q) : q[i] \in S /\ q[i] # head /\ q[i] \in ToSet(q)
  BY DEF ToSet
<1>2. \A i, k \in 1 .. Len(q) : q[i] = q[k] => i = k
  BY DEF IsInjective
<1>3. \A i \in 1 .. Len(q) : At(head, q, i) = q[i]
  BY <1>1 DEF At
<1>4. At(head, q, 0) = head /\ At(head, q, Len(q) + 1) = head
  BY DEF At
<1>5. \A i \in 0 .. Len(q) + 1 : i = 0 \/ i = Len(q) + 1 \/ i \in 1 .. Len(q)
  BY <1>1
<1>6. \A i \in 0 .. Len(q) : i = 0 \/ i \in 1 .. Len(q)
  BY <1>1
<1> QED BY <1>1, <1>2, <1>3, <1>4, <1>5, <1>6

\* The remainder counts up and starts again.
LEMMA ModNext ==
    ASSUME NEW m \in Nat \ {0}, NEW i \in Nat, i > 0
    PROVE  /\ (i - 1) % m = m - 1 => i % m = 0
           /\ (i - 1) % m # m - 1 => i % m = ((i - 1) % m) + 1
<1> DEFINE p == (i - 1) % m
           d == (i - 1) \div m
<1>1. d \in Nat /\ p \in 0 .. m - 1 /\ i - 1 = m * d + p
  OBVIOUS
<1> HIDE DEF p, d
<1>2. CASE p = m - 1
  <2>1. i = (d + 1) * m /\ d + 1 \in Nat
    BY <1>1, <1>2
  <2> QED BY <1>2, <2>1, MultipleMod DEF p
<1>3. CASE p # m - 1
  <2>1. i = m * d + (p + 1) /\ p + 1 \in 0 .. m - 1
    BY <1>1, <1>3
  <2>2. i % m = p + 1
    BY <1>1, <2>1
  <2> QED BY <1>3, <2>2 DEF p
<1> QED BY <1>2, <1>3

\* Elements reads the list off the links.
LEMMA ElementsOfCircle ==
    ASSUME NEW S, IsFiniteSet(S), NEW l \in [next : [S -> S], prev : [S -> S]],
           NEW head \in S, NEW q \in Seq(S), IsInjective(q), head \notin ToSet(q),
           Linked(l, head, q)
    PROVE  Elements(l, head) = q
<1> DEFINE N == Cardinality(S)
           Recurs(f) == f = [i \in 0 .. N |-> IF i = 0 THEN head ELSE l.next[f[i - 1]]]
           node == CHOOSE f : Recurs(f)
           Fits(n) == /\ n = N \/ node[n + 1] = head
                      /\ \A i \in 1 .. n : node[i] # head
           size == CHOOSE n \in 0 .. N : Fits(n)
<1>1. Elements(l, head) = [i \in 1 .. size |-> node[i]]
  <2>1. DOMAIN l.next = S
    OBVIOUS
  <2> QED BY <2>1 DEF Elements
<1>2. /\ Len(q) \in Nat
      /\ \A i \in 0 .. Len(q) + 1 : At(head, q, i) \in S
      /\ \A i \in 1 .. Len(q) : At(head, q, i) = q[i] /\ q[i] # head
      /\ At(head, q, 0) = head /\ At(head, q, Len(q) + 1) = head
      /\ \A i, k \in 0 .. Len(q) : At(head, q, i) = At(head, q, k) => i = k
  BY AtFacts
<1>14. \A i \in 0 .. Len(q) : l.next[At(head, q, i)] = At(head, q, i + 1)
  BY LinkedAt DEF Circle
<1>3. N \in Nat /\ Len(q) + 1 <= N
  <2> DEFINE g == [i \in 0 .. Len(q) |-> At(head, q, i)]
  <2>1. \A i \in 0 .. Len(q) : i \in 0 .. Len(q) + 1
    BY <1>2
  <2>2. g \in Injection(0 .. Len(q), S)
    BY <1>2, <2>1 DEF Injection, IsInjective
  <2>3. N \in Nat
    BY FS_CardinalityType
  <2>4. Cardinality(0 .. Len(q)) <= N
    BY <2>2, FS_Injection
  <2>5. Cardinality(0 .. Len(q)) = Len(q) + 1
    BY <1>2, FS_Interval
  <2> QED BY <2>3, <2>4, <2>5
<1> HIDE DEF N
<1>4. \E f : Recurs(f)
  <2> DEFINE L == Len(q) + 1
             f == [i \in 0 .. N |-> At(head, q, i % L)]
  <2>1. L \in Nat \ {0}
    BY <1>2
  <2>2. ASSUME NEW i \in 0 .. N
        PROVE  f[i] = IF i = 0 THEN head ELSE l.next[f[i - 1]]
    <3>1. CASE i = 0
      <4>1. 0 % L = 0
        BY <2>1
      <4> QED BY <1>2, <3>1, <4>1
    <3>2. CASE i # 0
      <4>1. i - 1 \in 0 .. N /\ i \in Nat /\ i > 0
        BY <1>3, <3>2
      <4>2. (i - 1) % L \in 0 .. L - 1
        BY <2>1, <4>1
      <4>3. (i - 1) % L \in 0 .. Len(q)
        BY <1>2, <4>2
      <4>4. l.next[At(head, q, (i - 1) % L)] = At(head, q, ((i - 1) % L) + 1)
        BY <1>14, <4>3
      <4>5. At(head, q, ((i - 1) % L) + 1) = At(head, q, i % L)
        <5>1. CASE (i - 1) % L = L - 1
          <6>1. i % L = 0
            BY <2>1, <4>1, <5>1, ModNext, Zenon
          <6>2. ((i - 1) % L) + 1 = Len(q) + 1
            BY <1>2, <5>1
          <6> QED BY <1>2, <6>1, <6>2
        <5>2. CASE (i - 1) % L # L - 1
          <6>1. i % L = ((i - 1) % L) + 1
            BY <2>1, <4>1, <5>2, ModNext, Zenon
          <6> QED BY <6>1
        <5> QED BY <5>1, <5>2
      <4> QED BY <3>2, <4>1, <4>4, <4>5
    <3> QED BY <3>1, <3>2
  <2> HIDE DEF L
  <2>3. Recurs(f)
    BY <2>2
  <2> QED BY <2>3
<1>5. Recurs(node)
  BY <1>4
<1> HIDE DEF node
<1>6. /\ node[0] = head
      /\ \A i \in 1 .. N : node[i] = l.next[node[i - 1]]
  <2>1. \A i \in 0 .. N : node[i] = IF i = 0 THEN head ELSE l.next[node[i - 1]]
    BY <1>5
  <2>2. 0 \in 0 .. N /\ \A i \in 1 .. N : i \in 0 .. N /\ i # 0
    BY <1>3
  <2> QED BY <2>1, <2>2
<1>7. \A i \in 0 .. Len(q) + 1 : node[i] = At(head, q, i)
  <2> DEFINE T == {i \in Nat : node[i] = At(head, q, i)}
  <2>1. 0 \in T
    BY <1>2, <1>6
  <2>2. ASSUME NEW n \in 0 .. (Len(q) + 1) - 1, n \in T PROVE n + 1 \in T
    <3>1. n \in 0 .. Len(q) /\ n + 1 \in 1 .. N /\ (n + 1) - 1 = n /\ n + 1 \in Nat
      BY <1>2, <1>3
    <3>2. node[n + 1] = l.next[node[n]]
      BY <1>6, <3>1
    <3>3. l.next[At(head, q, n)] = At(head, q, n + 1)
      BY <1>14, <3>1
    <3> QED BY <2>2, <3>1, <3>2, <3>3
  <2>3. Len(q) + 1 \in Nat /\ 0 \in Nat
    BY <1>2
  <2> HIDE DEF T
  <2>4. 0 .. Len(q) + 1 \subseteq T
    BY <2>1, <2>2, <2>3, IntervalInduction
  <2> QED BY <2>4 DEF T
<1>8. Fits(Len(q)) /\ Len(q) \in 0 .. N
  <2>1. Len(q) \in 0 .. N /\ Len(q) + 1 \in 0 .. Len(q) + 1
    BY <1>2, <1>3
  <2>2. \A i \in 1 .. Len(q) : i \in 0 .. Len(q) + 1
    BY <1>2
  <2> QED BY <1>2, <1>7, <2>1, <2>2
<1>9. ASSUME NEW n \in 0 .. N, Fits(n) PROVE n = Len(q)
  <2>1. CASE n < Len(q)
    <3>1. n # N /\ n + 1 \in 1 .. Len(q) /\ n + 1 \in 0 .. Len(q) + 1
      BY <1>2, <1>3, <2>1
    <3> QED BY <1>2, <1>7, <1>9, <3>1
  <2>2. CASE n > Len(q)
    <3>1. Len(q) + 1 \in 1 .. n /\ Len(q) + 1 \in 0 .. Len(q) + 1
      BY <1>2, <1>3, <2>2
    <3> QED BY <1>2, <1>7, <1>9, <3>1
  <2> QED BY <1>2, <1>3, <2>1, <2>2
<1> HIDE DEF Fits
<1>10. size = Len(q)
  BY <1>8, <1>9
<1> HIDE DEF size
<1>11. \A i \in 1 .. Len(q) : i \in 0 .. Len(q) + 1 /\ node[i] = q[i]
  <2>1. \A i \in 1 .. Len(q) : i \in 0 .. Len(q) + 1
    BY <1>2
  <2> QED BY <1>2, <1>7, <2>1
<1>12. [i \in 1 .. Len(q) |-> node[i]] = [i \in 1 .. Len(q) |-> q[i]]
  BY <1>11
<1>13. q = [i \in 1 .. Len(q) |-> q[i]]
  OBVIOUS
<1> QED BY <1>1, <1>10, <1>12, <1>13

\* list_insert_before the head puts a node at the end of the circle.
LEMMA InsertLast ==
    ASSUME NEW S, NEW l \in [next : [S -> S], prev : [S -> S]],
           NEW head \in S, NEW q \in Seq(S), IsInjective(q), head \notin ToSet(q),
           Linked(l, head, q),
           NEW node \in S, node # head, node \notin ToSet(q)
    PROVE  LET m == list_insert_before(l, head, node)
           IN  /\ m \in [next : [S -> S], prev : [S -> S]]
               /\ Linked(m, head, Append(q, node))
<1> DEFINE m == list_insert_before(l, head, node)
           z == l.prev[head]
           t == Append(q, node)
<1>1. /\ Len(q) \in Nat
      /\ \A i \in 0 .. Len(q) + 1 : At(head, q, i) \in S
      /\ \A i \in 1 .. Len(q) : At(head, q, i) = q[i] /\ q[i] # head /\ q[i] \in ToSet(q)
      /\ At(head, q, 0) = head /\ At(head, q, Len(q) + 1) = head
      /\ \A i, k \in 0 .. Len(q) : At(head, q, i) = At(head, q, k) => i = k
  BY AtFacts
<1>2. \A i \in 0 .. Len(q) : /\ l.next[At(head, q, i)] = At(head, q, i + 1)
                             /\ l.prev[At(head, q, i + 1)] = At(head, q, i)
  BY LinkedAt DEF Circle
<1>3. z = At(head, q, Len(q)) /\ z \in S
  <2>1. Len(q) \in 0 .. Len(q) /\ Len(q) \in 0 .. Len(q) + 1
    BY <1>1
  <2> QED BY <1>1, <1>2, <2>1
<1> DEFINE f == [l.next EXCEPT ![z] = node, ![node] = head]
           g == [l.prev EXCEPT ![head] = node, ![node] = z]
<1>4. m = [next |-> f, prev |-> g]
  BY DEF list_insert_before, list_insert_between
<1> HIDE DEF m
<1>11. f \in [S -> S] /\ g \in [S -> S]
  BY <1>3
<1>12. /\ \A x \in S : f[x] = IF x = node THEN head ELSE IF x = z THEN node ELSE l.next[x]
       /\ \A x \in S : g[x] = IF x = node THEN z ELSE IF x = head THEN node ELSE l.prev[x]
  BY <1>3
<1> HIDE DEF z, f, g
<1>5. m \in [next : [S -> S], prev : [S -> S]]
  BY <1>4, <1>11
<1>6. /\ t \in Seq(S) /\ Len(t) = Len(q) + 1
      /\ t[Len(q) + 1] = node /\ \A i \in 1 .. Len(q) : t[i] = q[i]
  OBVIOUS
<1> HIDE DEF t
<1>7. /\ \A i \in 0 .. Len(q) : At(head, t, i) = At(head, q, i)
      /\ At(head, t, Len(q) + 1) = node /\ At(head, t, (Len(q) + 1) + 1) = head
  <2>1. ASSUME NEW i \in 0 .. Len(q) PROVE At(head, t, i) = At(head, q, i)
    <3>1. CASE i = 0
      BY <3>1 DEF At
    <3>2. CASE i # 0
      <4>1. i \in 1 .. Len(q) /\ i # Len(q) + 1 /\ i # (Len(q) + 1) + 1
        BY <1>1, <3>2
      <4> QED BY <1>6, <4>1 DEF At
    <3> QED BY <3>1, <3>2
  <2>2. Len(q) + 1 # 0 /\ Len(q) + 1 # (Len(q) + 1) + 1
    BY <1>1
  <2> QED BY <1>6, <2>1, <2>2 DEF At
<1>8. ASSUME NEW i \in 0 .. Len(q)
      PROVE  At(head, q, i) \in S /\ At(head, q, i) # node /\ (i # Len(q) => At(head, q, i) # z)
  <2>1. i \in 0 .. Len(q) + 1 /\ Len(q) \in 0 .. Len(q) /\ (i = 0 \/ i \in 1 .. Len(q))
    BY <1>1
  <2> QED BY <1>1, <1>3, <2>1
<1>9. ASSUME NEW i \in 0 .. Len(t)
      PROVE  /\ f[At(head, t, i)] = At(head, t, i + 1)
             /\ g[At(head, t, i + 1)] = At(head, t, i)
  <2>1. CASE i \in 0 .. Len(q) - 1
    <3>1. i \in 0 .. Len(q) /\ i # Len(q) /\ i + 1 \in 0 .. Len(q) /\ i + 1 \in 1 .. Len(q)
      BY <1>1, <2>1
    <3>2. At(head, q, i + 1) # head /\ At(head, q, i + 1) # node /\ At(head, q, i + 1) \in S
      BY <1>1, <1>8, <3>1
    <3>3. f[At(head, q, i)] = l.next[At(head, q, i)]
      BY <1>12, <1>8, <3>1
    <3>4. g[At(head, q, i + 1)] = l.prev[At(head, q, i + 1)]
      BY <1>12, <3>2
    <3> QED BY <1>2, <1>7, <3>1, <3>3, <3>4
  <2>2. CASE i = Len(q)
    <3>1. z # node /\ Len(q) \in 0 .. Len(q)
      BY <1>1, <1>3, <1>8
    <3>2. f[z] = node /\ g[node] = z
      BY <1>3, <1>12, <3>1
    <3> QED BY <1>3, <1>7, <2>2, <3>1, <3>2
  <2>3. CASE i = Len(q) + 1
    <3>1. f[node] = head /\ g[head] = node
      BY <1>12
    <3> QED BY <1>7, <2>3, <3>1
  <2> QED BY <1>1, <1>6, <2>1, <2>2, <2>3
<1>10. Linked(m, head, t)
  <2>1. m.next = f /\ m.prev = g
    BY <1>4
  <2>2. Circle(f, g, head, t)
    BY <1>9 DEF Circle
  <2> QED BY <1>6, <2>1, <2>2, LinkedAt
<1> QED BY <1>5, <1>10 DEF m, t

\* list_remove of the node behind the head closes the circle behind it.
LEMMA UnlinkFirst ==
    ASSUME NEW S, NEW l \in [next : [S -> S], prev : [S -> S]],
           NEW head \in S, NEW q \in Seq(S), IsInjective(q), head \notin ToSet(q),
           Linked(l, head, q), q # <<>>
    PROVE  LET m == list_remove(l, l.next[head])
           IN  /\ l.next[head] = Head(q)
               /\ m \in [next : [S -> S], prev : [S -> S]]
               /\ Linked(m, head, Tail(q))
<1> DEFINE node == l.next[head]
           m == list_remove(l, node)
           t == Tail(q)
           y == At(head, q, 2)
<1>1. /\ Len(q) \in Nat
      /\ \A i \in 0 .. Len(q) + 1 : At(head, q, i) \in S
      /\ \A i \in 1 .. Len(q) : At(head, q, i) = q[i] /\ q[i] # head
      /\ At(head, q, 0) = head /\ At(head, q, Len(q) + 1) = head
      /\ \A i, k \in 0 .. Len(q) : At(head, q, i) = At(head, q, k) => i = k
  BY AtFacts
<1>2. \A i \in 0 .. Len(q) : /\ l.next[At(head, q, i)] = At(head, q, i + 1)
                             /\ l.prev[At(head, q, i + 1)] = At(head, q, i)
  BY LinkedAt DEF Circle
<1>3. Len(q) >= 1 /\ 0 \in 0 .. Len(q) /\ 1 \in 0 .. Len(q) /\ 1 \in 1 .. Len(q)
      /\ 2 \in 0 .. Len(q) + 1 /\ 0 + 1 = 1 /\ 1 + 1 = 2
  <2>1. Len(q) # 0
    OBVIOUS
  <2> QED BY <1>1, <2>1
<1>4. node = q[1] /\ node = Head(q) /\ l.prev[node] = head /\ l.next[node] = y /\ y \in S
  <2>1. l.next[At(head, q, 0)] = At(head, q, 1) /\ l.prev[At(head, q, 1)] = At(head, q, 0)
    BY <1>2, <1>3
  <2>2. l.next[At(head, q, 1)] = At(head, q, 2)
    BY <1>2, <1>3
  <2>3. Head(q) = q[1]
    OBVIOUS
  <2> QED BY <1>1, <1>3, <2>1, <2>2, <2>3
<1> HIDE DEF node, y
<1> DEFINE f == [l.next EXCEPT ![head] = y]
           g == [l.prev EXCEPT ![y] = head]
<1>5. m = [next |-> f, prev |-> g]
  <2>1. l = [next |-> l.next, prev |-> l.prev]
    OBVIOUS
  <2>2. m = [l EXCEPT !.next[head] = y, !.prev[y] = head]
    BY <1>4 DEF list_remove, list_remove_between
  <2> QED BY <2>1, <2>2
<1> HIDE DEF m
<1>11. f \in [S -> S] /\ g \in [S -> S]
  BY <1>4
<1>12. /\ \A x \in S : f[x] = IF x = head THEN y ELSE l.next[x]
       /\ \A x \in S : g[x] = IF x = y THEN head ELSE l.prev[x]
  BY <1>4
<1> HIDE DEF f, g
<1>6. m \in [next : [S -> S], prev : [S -> S]]
  BY <1>5, <1>11
<1>7. t \in Seq(S) /\ Len(t) = Len(q) - 1 /\ \A i \in 1 .. Len(q) - 1 : t[i] = q[i + 1]
  BY <1>3
<1> HIDE DEF t
<1>8. At(head, t, 0) = head /\ \A i \in 1 .. Len(q) : At(head, t, i) = At(head, q, i + 1)
  <2>1. At(head, t, 0) = head
    BY DEF At
  <2>2. ASSUME NEW i \in 1 .. Len(q) PROVE At(head, t, i) = At(head, q, i + 1)
    <3>1. CASE i = Len(q)
      <4>1. i = Len(t) + 1
        BY <1>1, <1>7, <3>1
      <4> QED BY <3>1, <4>1 DEF At
    <3>2. CASE i # Len(q)
      <4>1. i \in 1 .. Len(q) - 1 /\ i # 0 /\ i # Len(t) + 1 /\ i + 1 \in 1 .. Len(q)
        BY <1>1, <1>7, <3>2
      <4>2. At(head, t, i) = t[i]
        BY <4>1 DEF At
      <4> QED BY <1>1, <1>7, <4>1, <4>2
    <3> QED BY <3>1, <3>2
  <2> QED BY <2>1, <2>2
<1>9. ASSUME NEW i \in 0 .. Len(t)
      PROVE  /\ f[At(head, t, i)] = At(head, t, i + 1)
             /\ g[At(head, t, i + 1)] = At(head, t, i)
  <2>1. CASE i = 0
    <3>1. At(head, t, i) = head /\ At(head, t, i + 1) = y
      BY <1>3, <1>8, <2>1 DEF y
    <3> QED BY <1>4, <1>12, <3>1
  <2>2. CASE i # 0
    <3>1. /\ i \in 1 .. Len(q) /\ i + 1 \in 1 .. Len(q) /\ i + 1 \in 0 .. Len(q)
          /\ (i + 1) + 1 \in 0 .. Len(q) + 1 /\ 2 \in 1 .. Len(q) /\ 2 \in 0 .. Len(q)
      BY <1>1, <1>7, <2>2
    <3>2. /\ At(head, t, i) = At(head, q, i + 1)
          /\ At(head, t, i + 1) = At(head, q, (i + 1) + 1)
      BY <1>8, <3>1
    <3>3. /\ At(head, q, i + 1) # head /\ At(head, q, i + 1) \in S
          /\ At(head, q, (i + 1) + 1) \in S
      <4>1. i + 1 \in 0 .. Len(q) + 1
        BY <1>1, <3>1
      <4> QED BY <1>1, <3>1, <4>1
    <3>4. At(head, q, (i + 1) + 1) # y
      <4>1. CASE (i + 1) + 1 = Len(q) + 1
        BY <1>1, <3>1, <4>1 DEF y
      <4>2. CASE (i + 1) + 1 # Len(q) + 1
        <5>1. (i + 1) + 1 \in 0 .. Len(q) /\ (i + 1) + 1 # 2
          BY <1>1, <3>1, <4>2
        <5> QED BY <1>1, <3>1, <5>1 DEF y
      <4> QED BY <4>1, <4>2
    <3>5. f[At(head, q, i + 1)] = l.next[At(head, q, i + 1)]
      BY <1>12, <3>3
    <3>6. g[At(head, q, (i + 1) + 1)] = l.prev[At(head, q, (i + 1) + 1)]
      BY <1>12, <3>3, <3>4
    <3> QED BY <1>2, <3>1, <3>2, <3>5, <3>6
  <2> QED BY <2>1, <2>2
<1>10. Linked(m, head, t)
  <2>1. m.next = f /\ m.prev = g
    BY <1>5
  <2>2. Circle(f, g, head, t)
    BY <1>9 DEF Circle
  <2> QED BY <1>7, <2>1, <2>2, LinkedAt
<1> QED BY <1>4, <1>6, <1>10 DEF m, t, node

-----------------------------------------------------------------------------
(* Descriptors.                                                            *)

\* Shifting a word moves each of its bits.
LEMMA ShiftBits ==
    ASSUME NEW W \in SUBSET Int, NEW n \in Int
    PROVE  /\ Shift(W, n) \in SUBSET Int
           /\ \A x \in Int : x \in Shift(W, n) <=> x - n \in W
<1>1. \A b \in W : b \in Int /\ b + n \in Int /\ (b + n) - n = b
  OBVIOUS
<1>2. \A x \in Int : (x - n) + n = x
  OBVIOUS
<1> QED BY <1>1, <1>2 DEF Shift

\* Where init_gdt_segment puts the bits of a base and a limit.
LEMMA SegmentBits ==
    ASSUME NEW limit \in SUBSET (0 .. 31), NEW base \in SUBSET (0 .. 31),
           NEW type \in SUBSET (0 .. 31)
    PROVE  LET d == init_gdt_segment(limit, base, type)
           IN  /\ d \in SUBSET (0 .. 63)
               /\ \A x \in 16 .. 39 : x \in d <=> x - 16 \in base
               /\ \A x \in 56 .. 63 : x \in d <=> x - 32 \in base
               /\ \A x \in 0 .. 15 : x \in d <=> x \in limit
               /\ \A x \in 48 .. 51 : x \in d <=> x - 32 \in limit
               /\ \A x \in 40 .. 47 \cup 52 .. 55 : x \in d <=> x - 32 \in type
<1> DEFINE L == limit \cap 0 .. 15
           B == base \cap 16 .. 23
           T == base \cap 24 .. 31
           A == base \cap 0 .. 15
           M == limit \cap 16 .. 19
           K == type \cap (8 .. 15 \cup 20 .. 23)
           H == T \cup Shift(B, -16) \cup M \cup K
           d == init_gdt_segment(limit, base, type)
<1>1. d = L \cup Shift(A, 16) \cup Shift(H, 32)
  BY DEF init_gdt_segment, High
<1>2. /\ B \in SUBSET Int /\ A \in SUBSET Int /\ L \in SUBSET Int
      /\ T \in SUBSET Int /\ M \in SUBSET Int /\ K \in SUBSET Int
  OBVIOUS
<1>3. /\ Shift(B, -16) \in SUBSET Int
      /\ \A x \in Int : x \in Shift(B, -16) <=> x - (-16) \in B
  BY <1>2, ShiftBits, -16 \in Int
<1>4. H \in SUBSET Int
  BY <1>2, <1>3
<1>5. \A x \in Int : x \in H <=> x \in T \/ x + 16 \in B \/ x \in M \/ x \in K
  <2>1. \A x \in Int : x - (-16) = x + 16
    OBVIOUS
  <2> QED BY <1>3, <2>1
<1>6. /\ Shift(A, 16) \in SUBSET Int
      /\ \A x \in Int : x \in Shift(A, 16) <=> x - 16 \in A
  BY <1>2, ShiftBits
<1> HIDE DEF H
<1>7. /\ Shift(H, 32) \in SUBSET Int
      /\ \A x \in Int : x \in Shift(H, 32) <=> x - 32 \in H
  BY <1>4, ShiftBits
<1> HIDE DEF d
<1>8. d \in SUBSET Int
  BY <1>1, <1>2, <1>6, <1>7
<1>9. \A x \in Int : x \in d <=> \/ x \in L \/ x - 16 \in A
                                 \/ x - 32 \in T \/ x - 16 \in B \/ x - 32 \in M \/ x - 32 \in K
  <2> TAKE x \in Int
  <2>1. x - 32 \in Int /\ (x - 32) + 16 = x - 16
    OBVIOUS
  <2>2. x \in d <=> x \in L \/ x \in Shift(A, 16) \/ x \in Shift(H, 32)
    BY <1>1
  <2>3. x - 32 \in H <=> x - 32 \in T \/ x - 16 \in B \/ x - 32 \in M \/ x - 32 \in K
    BY <1>5, <2>1
  <2> QED BY <1>6, <1>7, <2>2, <2>3
<1>10. ASSUME NEW x \in d PROVE x \in 0 .. 63
  <2>1. x \in Int
    BY <1>8
  <2>2. \/ x \in L \/ x - 16 \in A
        \/ x - 32 \in T \/ x - 16 \in B \/ x - 32 \in M \/ x - 32 \in K
    BY <1>9, <2>1
  <2> QED BY <2>1, <2>2
<1>11. ASSUME NEW x \in 16 .. 39 PROVE x \in d <=> x - 16 \in base
  <2>1. x \in Int /\ x \notin L /\ x - 32 \notin T /\ x - 32 \notin M /\ x - 32 \notin K
    OBVIOUS
  <2>2. x - 16 \in A \/ x - 16 \in B <=> x - 16 \in base
    OBVIOUS
  <2> QED BY <1>9, <2>1, <2>2
<1>12. ASSUME NEW x \in 56 .. 63 PROVE x \in d <=> x - 32 \in base
  <2>1. /\ x \in Int /\ x \notin L /\ x - 16 \notin A /\ x - 16 \notin B
        /\ x - 32 \notin M /\ x - 32 \notin K
    OBVIOUS
  <2>2. x - 32 \in T <=> x - 32 \in base
    OBVIOUS
  <2> QED BY <1>9, <2>1, <2>2
<1>13. ASSUME NEW x \in 40 .. 47 \cup 52 .. 55 PROVE x \in d <=> x - 32 \in type
  <2>1. /\ x \in Int /\ x \notin L /\ x - 16 \notin A /\ x - 16 \notin B
        /\ x - 32 \notin T /\ x - 32 \notin M
    OBVIOUS
  <2>2. x - 32 \in K <=> x - 32 \in type
    OBVIOUS
  <2> QED BY <1>9, <2>1, <2>2
<1>15. ASSUME NEW x \in 0 .. 15 PROVE x \in d <=> x \in limit
  <2>1. /\ x \in Int /\ x - 16 \notin A /\ x - 16 \notin B
        /\ x - 32 \notin T /\ x - 32 \notin M /\ x - 32 \notin K
    OBVIOUS
  <2>2. x \in L <=> x \in limit
    OBVIOUS
  <2> QED BY <1>9, <2>1, <2>2
<1>16. ASSUME NEW x \in 48 .. 51 PROVE x \in d <=> x - 32 \in limit
  <2>1. /\ x \in Int /\ x \notin L /\ x - 16 \notin A /\ x - 16 \notin B
        /\ x - 32 \notin T /\ x - 32 \notin K
    OBVIOUS
  <2>2. x - 32 \in M <=> x - 32 \in limit
    OBVIOUS
  <2> QED BY <1>9, <2>1, <2>2
<1>14. d \in SUBSET (0 .. 63)
  BY <1>10
<1> QED BY <1>11, <1>12, <1>13, <1>14, <1>15, <1>16 DEF d

\* What the processor makes of a descriptor of a task_state.
LEMMA TssFacts ==
    ASSUME NEW task \in Tasks
    PROVE  LET d == FreeTss(task)
           IN  /\ d \in SUBSET (0 .. 63)
               /\ IsTss(d) /\ ~ SegBusy(d)
               /\ SegBase(d) = task /\ SegLimit(d) = SizeofTaskState
<1> DEFINE d == FreeTss(task)
<1>1. task \in SUBSET (0 .. 31)
  BY TasksAssumption
<1>2. SizeofTaskState \in SUBSET (0 .. 31) /\ FREE_TSS_TYPE \in SUBSET (0 .. 31) /\ 9 \notin FREE_TSS_TYPE
  BY DEF SizeofTaskState, FREE_TSS_TYPE, GDT_32SYSTEM, GDT_TSS, GDT_PRESENT
<1>3. /\ d \in SUBSET (0 .. 63)
      /\ \A x \in 16 .. 39 : x \in d <=> x - 16 \in task
      /\ \A x \in 56 .. 63 : x \in d <=> x - 32 \in task
      /\ \A x \in 0 .. 15 : x \in d <=> x \in SizeofTaskState
      /\ \A x \in 48 .. 51 : x \in d <=> x - 32 \in SizeofTaskState
      /\ \A x \in 40 .. 47 \cup 52 .. 55 : x \in d <=> x - 32 \in FREE_TSS_TYPE
  BY <1>1, <1>2, SegmentBits DEF FreeTss
<1> HIDE DEF d
<1>4. ~ SegBusy(d)
  <2>1. 41 \in 40 .. 47 \cup 52 .. 55 /\ 41 - 32 = 9
    OBVIOUS
  <2>2. 41 \notin d
    BY <1>2, <1>3, <2>1
  <2> QED BY <2>2 DEF SegBusy, GDT_BUSY
<1>6. IsTss(d)
  <2> DEFINE C == (8 .. 15 \ {GDT_BUSY}) \cup 20 .. 23
  <2>1. C \in SUBSET Int /\ FREE_TSS_TYPE \in SUBSET Int /\ FREE_TSS_TYPE \subseteq C
    BY DEF FREE_TSS_TYPE, GDT_32SYSTEM, GDT_TSS, GDT_PRESENT, GDT_BUSY
  <2>2. \A x \in Int : x \in C => x + 32 \in 40 .. 47 \cup 52 .. 55
    OBVIOUS
  <2> HIDE DEF C
  <2>3. /\ Shift(C, 32) \in SUBSET Int
        /\ \A x \in Int : x \in Shift(C, 32) <=> x - 32 \in C
    BY <2>1, ShiftBits
  <2>4. /\ Shift(FREE_TSS_TYPE, 32) \in SUBSET Int
        /\ \A x \in Int : x \in Shift(FREE_TSS_TYPE, 32) <=> x - 32 \in FREE_TSS_TYPE
    BY <2>1, ShiftBits
  <2>5. ASSUME NEW x \in Int
        PROVE  x \in d \cap Shift(C, 32) <=> x \in Shift(FREE_TSS_TYPE, 32)
    <3>1. CASE x - 32 \in C
      <4>1. x - 32 \in Int /\ (x - 32) + 32 = x
        OBVIOUS
      <4>2. x \in 40 .. 47 \cup 52 .. 55
        BY <2>2, <3>1, <4>1
      <4> QED BY <1>3, <2>3, <2>4, <3>1, <4>2
    <3>2. CASE x - 32 \notin C
      BY <2>1, <2>3, <2>4, <3>2
    <3> QED BY <3>1, <3>2
  <2>6. d \cap Shift(C, 32) = Shift(FREE_TSS_TYPE, 32)
    BY <2>3, <2>4, <2>5
  <2> QED BY <2>6 DEF IsTss, C
<1>7. SegLimit(d) = SizeofTaskState
  <2> DEFINE low == d \cap 0 .. 15
             high == d \cap 48 .. 51
  <2>1. SegLimit(d) = low \cup Shift(high, -32)
    BY DEF SegLimit
  <2>4. Shift(high, -32) = {}
    <3>1. \A x \in 48 .. 51 : x - 32 \notin SizeofTaskState
      BY DEF SizeofTaskState
    <3>2. high = {}
      BY <1>3, <3>1
    <3> QED BY <3>2 DEF Shift
  <2>5. low = SizeofTaskState
    <3>1. SizeofTaskState \subseteq 0 .. 15
      BY DEF SizeofTaskState
    <3> QED BY <1>3, <3>1
  <2> QED BY <2>1, <2>4, <2>5
<1>5. SegBase(d) = task
  <2> DEFINE low == d \cap 16 .. 39
             high == d \cap 56 .. 63
  <2>1. SegBase(d) = Shift(low, -16) \cup Shift(high, -32)
    BY DEF SegBase
  <2>2. low \in SUBSET Int /\ high \in SUBSET Int
    OBVIOUS
  <2>3. /\ Shift(low, -16) \in SUBSET Int
        /\ \A x \in Int : x \in Shift(low, -16) <=> x - (-16) \in low
    BY <2>2, ShiftBits, -16 \in Int
  <2>4. /\ Shift(high, -32) \in SUBSET Int
        /\ \A x \in Int : x \in Shift(high, -32) <=> x - (-32) \in high
    BY <2>2, ShiftBits, -32 \in Int
  <2>5. ASSUME NEW x \in Int PROVE x \in SegBase(d) <=> x \in task
    <3>1. x - (-16) = x + 16 /\ x - (-32) = x + 32
      OBVIOUS
    <3>2. x \in SegBase(d) <=> x + 16 \in low \/ x + 32 \in high
      BY <2>1, <2>3, <2>4, <3>1
    <3>3. x + 16 \in low <=> x \in 0 .. 23 /\ x \in task
      <4>1. CASE x \in 0 .. 23
        <5>1. x + 16 \in 16 .. 39 /\ (x + 16) - 16 = x
          BY <4>1
        <5> QED BY <1>3, <4>1, <5>1
      <4>2. CASE x \notin 0 .. 23
        BY <4>2
      <4> QED BY <4>1, <4>2
    <3>4. x + 32 \in high <=> x \in 24 .. 31 /\ x \in task
      <4>1. CASE x \in 24 .. 31
        <5>1. x + 32 \in 56 .. 63 /\ (x + 32) - 32 = x
          BY <4>1
        <5> QED BY <1>3, <4>1, <5>1
      <4>2. CASE x \notin 24 .. 31
        BY <4>2
      <4> QED BY <4>1, <4>2
    <3>5. x \in task => x \in 0 .. 23 \/ x \in 24 .. 31
      BY <1>1
    <3> QED BY <3>2, <3>3, <3>4, <3>5
  <2>6. SegBase(d) \in SUBSET Int /\ task \in SUBSET Int
    <3>1. \A x \in task : x \in Int
      BY <1>1
    <3> HIDE DEF low, high
    <3> QED BY <2>1, <2>3, <2>4, <3>1
  <2> QED BY <2>5, <2>6
<1> QED BY <1>3, <1>4, <1>5, <1>6, <1>7 DEF d

\* The busy bit belongs neither to the base nor to another descriptor.
LEMMA BusyFacts ==
    ASSUME NEW d \in SUBSET (0 .. 63)
    PROVE  /\ MarkBusy(d) \in SUBSET (0 .. 63) /\ MarkFree(d) \in SUBSET (0 .. 63)
           /\ SegBusy(MarkBusy(d)) /\ ~ SegBusy(MarkFree(d))
           /\ SegBase(MarkBusy(d)) = SegBase(d)
<1>1. MarkBusy(d) = d \cup {41} /\ MarkFree(d) = d \ {41}
  BY DEF MarkBusy, MarkFree, GDT_BUSY
<1>2. 41 \in 0 .. 63 /\ 41 \notin 16 .. 39 /\ 41 \notin 56 .. 63
  OBVIOUS
<1>3. /\ MarkBusy(d) \cap 16 .. 39 = d \cap 16 .. 39
      /\ MarkBusy(d) \cap 56 .. 63 = d \cap 56 .. 63
  BY <1>1, <1>2
<1>4. SegBase(MarkBusy(d)) = SegBase(d)
  BY <1>3 DEF SegBase
<1> QED BY <1>1, <1>2, <1>4 DEF SegBusy, GDT_BUSY

-----------------------------------------------------------------------------
(* The inductive invariant: the two properties, and what holds while the   *)
(* task register is not loaded and of tasks that never ran.                *)

LinkRecords == [next : [Nodes -> Nodes], prev : [Nodes -> Nodes]]

\* Only the swapper is there, and no descriptor is in use.
BootingAlone ==
    ~ Ready =>
        /\ cpu.cr3 = "swapper_page_dir"
        /\ \A t \in Tasks : life[t] # "none" => t = current_task
        /\ \A s \in Selectors : ~ SegBusy(gdt[s])

\* A task that never ran has its own stack and no turns.
NewTasksClean == \A t \in Tasks : life[t] = "new" => state[t].esp = t /\ state[t].turns = 0

IInv ==
    /\ TypeOK
    /\ current_task \in ReadyTasks
    /\ RunList \in Seq(Tasks)
    /\ RunListIntact
    /\ SwitchesSafe
    /\ BootingAlone
    /\ NewTasksClean

\* The nodes of the run list are the tasks and its head, which differ.
LEMMA NodesFacts ==
    /\ IsFiniteSet(Nodes) /\ Tasks \subseteq Nodes /\ Active \in Nodes
    /\ Active \notin Tasks /\ NULL \notin Tasks /\ Swapper \in Tasks
    /\ {} \notin Tasks
<1>1. IsFiniteSet(Tasks \cup {Active})
  BY TasksAssumption, FS_AddElement
<1>2. IsFiniteSet((Tasks \cup {Active}) \cup {NULL})
  BY <1>1, FS_AddElement
<1>3. Nodes = (Tasks \cup {Active}) \cup {NULL}
  BY DEF Nodes
<1> QED BY <1>2, <1>3, TasksAssumption

\* A list of tasks linked in a circle through active is the run list.
LEMMA RunListOf ==
    ASSUME NEW l \in LinkRecords, NEW q \in Seq(Tasks), IsInjective(q), Linked(l, Active, q)
    PROVE  Elements(l, Active) = q
<1>1. q \in Seq(Nodes) /\ Active \notin ToSet(q)
  <2>1. \A i \in 1 .. Len(q) : q[i] \in Tasks
    OBVIOUS
  <2> QED BY <2>1, NodesFacts DEF ToSet
<1> QED BY <1>1, NodesFacts, ElementsOfCircle DEF LinkRecords

\* The invariant holds at the start, where the run list is empty.
LEMMA InitIInv == Init => IInv /\ RunList = <<>>
<1> SUFFICES ASSUME Init PROVE IInv /\ RunList = <<>>
  OBVIOUS
<1> DEFINE zero == [n \in Nodes |-> NULL]
           f == [zero EXCEPT ![Active] = Active]
<1>1. links = [next |-> f, prev |-> f]
  BY DEF Init, list_init_head
<1>2. f \in [Nodes -> Nodes] /\ f[Active] = Active
  BY NodesFacts DEF Nodes
<1> HIDE DEF f
<1>3. links \in LinkRecords /\ links.next = f /\ links.prev = f
  BY <1>1, <1>2 DEF LinkRecords
<1>4. <<>> \in Seq(Tasks) /\ <<>> \in Seq(Nodes) /\ Len(<<>>) = 0 /\ IsInjective(<<>>) /\ ToSet(<<>>) = {}
  BY DEF IsInjective, ToSet
<1>5. Linked(links, Active, <<>>)
  <2>1. Circle(f, f, Active, <<>>)
    BY <1>2, <1>4 DEF Circle, At
  <2> QED BY <1>3, <1>4, <2>1, LinkedAt, NodesFacts
<1>6. RunList = <<>>
  BY <1>3, <1>4, <1>5, RunListOf DEF RunList
<1>7. /\ tr = [selector |-> 0, base |-> {}] /\ cpu.esp = Swapper /\ cpu.cr3 = "swapper_page_dir"
      /\ \A t \in Tasks : life[t] = IF t = Swapper THEN "ready" ELSE "none"
      /\ \A s \in Selectors : gdt[s] = {}
  BY DEF Init
<1>8. TypeOK
  <2>1. Laps \in Nat \ {0, 1} /\ 0 \in 0 .. Laps - 1
    BY TasksAssumption
  <2>2. tr \in [selector : Selectors, base : Tasks \cup {{}}]
    BY <1>7 DEF Selectors
  <2>3. cpu \in [esp : Tasks \cup {NULL}, turns : 0 .. Laps - 1, cr3 : {"swapper_page_dir", NULL}]
    BY <2>1, NodesFacts DEF Init
  <2>4. state \in [Tasks -> [esp : Tasks \cup {NULL}, turns : 0 .. Laps - 1,
                             cr3 : {"swapper_page_dir", NULL}, prev_tss : Selectors]]
    BY <2>1 DEF Init, Zeroed, Selectors
  <2>5. gdt \in [Selectors -> SUBSET (0 .. 63)] /\ life \in [Tasks -> {"none", "new", "ready"}]
    BY DEF Init
  <2> QED BY <1>3, <2>2, <2>3, <2>4, <2>5 DEF TypeOK, LinkRecords
<1>9. current_task \in ReadyTasks /\ ReadyTasks \ {current_task} = {}
  BY <1>7, NodesFacts DEF current_task, ReadyTasks
<1>10. RunListIntact
  BY <1>4, <1>5, <1>6, <1>9 DEF RunListIntact
<1>11. ~ Ready
  BY <1>7 DEF Ready
<1>12. SwitchesSafe /\ BootingAlone /\ NewTasksClean
  BY <1>7, <1>11 DEF SwitchesSafe, BootingAlone, NewTasksClean, SegBusy, current_task
<1> QED BY <1>4, <1>6, <1>8, <1>9, <1>10, <1>12 DEF IInv

TaskStates == [esp : Tasks \cup {NULL}, turns : 0 .. Laps - 1,
               cr3 : {"swapper_page_dir", NULL}, prev_tss : Selectors]

ring == <<current_task>> \o RunList
done == [t \in Tasks |-> TurnsOf(t)]

\* Types of what a task switch reads and writes.
LEMMA TypeFacts ==
    ASSUME IInv
    PROVE  /\ links \in LinkRecords
           /\ gdt \in [Selectors -> SUBSET (0 .. 63)]
           /\ tr.selector \in Selectors
           /\ tr = [selector |-> tr.selector, base |-> tr.base]
           /\ state \in [Tasks -> TaskStates]
           /\ \A t \in Tasks : state[t] \in TaskStates
           /\ cpu = [esp |-> cpu.esp, turns |-> cpu.turns, cr3 |-> cpu.cr3]
           /\ cpu.turns \in 0 .. Laps - 1 /\ cpu.cr3 \in {"swapper_page_dir", NULL}
           /\ life \in [Tasks -> {"none", "new", "ready"}]
           /\ current_task \in Tasks /\ cpu.esp = current_task /\ life[current_task] = "ready"
           /\ 0 \in 0 .. Laps - 1
<1>1. TypeOK /\ current_task \in ReadyTasks
  BY DEF IInv
<1>2. /\ links \in LinkRecords
      /\ gdt \in [Selectors -> SUBSET (0 .. 63)]
      /\ tr \in [selector : Selectors, base : Tasks \cup {{}}]
      /\ state \in [Tasks -> TaskStates]
      /\ life \in [Tasks -> {"none", "new", "ready"}]
      /\ cpu \in [esp : Tasks \cup {NULL}, turns : 0 .. Laps - 1, cr3 : {"swapper_page_dir", NULL}]
  BY <1>1 DEF TypeOK, LinkRecords, TaskStates
<1>3. current_task \in Tasks /\ cpu.esp = current_task /\ life[current_task] = "ready"
  BY <1>1 DEF ReadyTasks, current_task
<1>4. 0 \in 0 .. Laps - 1
  BY TasksAssumption
<1>5. \A t \in Tasks : state[t] \in TaskStates
  BY <1>2
<1> QED BY <1>2, <1>3, <1>4, <1>5

\* The steps that leave the run list and the running task alone.
LEMMA ListFrame ==
    ASSUME IInv, UNCHANGED links, cpu'.esp = cpu.esp,
           \A t \in Tasks : life'[t] = "ready" <=> life[t] = "ready"
    PROVE  /\ current_task' = current_task /\ current_task' \in ReadyTasks'
           /\ RunList' = RunList /\ RunList' \in Seq(Tasks) /\ RunListIntact'
           /\ ReadyTasks' = ReadyTasks
<1>1. current_task' = current_task /\ ReadyTasks' = ReadyTasks
  BY DEF current_task, ReadyTasks
<1>2. RunList' = RunList
  BY DEF RunList
<1> QED BY <1>1, <1>2 DEF IInv, RunListIntact

\* Setting up the first task keeps the invariant.
LEMMA SwapperStep ==
    ASSUME IInv, setup_swapper
    PROVE  IInv' /\ UNCHANGED <<ring, done>>
<1> DEFINE c == current_task
           d == FreeTss(c)
<1>1. /\ tr.selector = 0
      /\ state' = [state EXCEPT ![c] = SwapperState]
      /\ gdt' = [gdt EXCEPT ![TSS1] = MarkBusy(d)]
      /\ tr' = [selector |-> TSS1, base |-> c]
      /\ UNCHANGED <<links, cpu, life>>
  BY DEF setup_swapper
<1>2. /\ gdt \in [Selectors -> SUBSET (0 .. 63)] /\ state \in [Tasks -> TaskStates]
      /\ c \in Tasks /\ cpu.esp = c /\ life[c] = "ready" /\ 0 \in 0 .. Laps - 1
      /\ life \in [Tasks -> {"none", "new", "ready"}]
  BY TypeFacts
<1>3. /\ cpu.cr3 = "swapper_page_dir"
      /\ \A t \in Tasks : life[t] # "none" => t = c
      /\ \A s \in Selectors : ~ SegBusy(gdt[s])
  BY <1>1 DEF IInv, BootingAlone, Ready
<1>4. /\ c' = c /\ c' \in ReadyTasks'
      /\ RunList' = RunList /\ RunList' \in Seq(Tasks) /\ RunListIntact'
      /\ ReadyTasks' = ReadyTasks
  BY <1>1, ListFrame
<1>5. d \in SUBSET (0 .. 63) /\ ~ SegBusy(d) /\ SegBase(d) = c
  BY <1>2, TssFacts
<1>6. MarkBusy(d) \in SUBSET (0 .. 63) /\ SegBusy(MarkBusy(d)) /\ SegBase(MarkBusy(d)) = c
  BY <1>5, BusyFacts
<1> HIDE DEF d
<1>7. SwapperState \in TaskStates /\ SwapperState.cr3 = "swapper_page_dir" /\ SwapperState.prev_tss = TSS2
  <2>1. Zeroed \in TaskStates
    BY <1>2 DEF Zeroed, TaskStates, Selectors
  <2>2. SwapperState = [Zeroed EXCEPT !.prev_tss = TSS2, !.cr3 = "swapper_page_dir"]
    BY DEF SwapperState
  <2> QED BY <2>1, <2>2 DEF TaskStates, Selectors
<1>8. TypeOK'
  <2>1. tr' \in [selector : Selectors, base : Tasks \cup {{}}]
    BY <1>1, <1>2 DEF Selectors
  <2>2. state' \in [Tasks -> TaskStates]
    BY <1>1, <1>2, <1>7
  <2>3. gdt' \in [Selectors -> SUBSET (0 .. 63)]
    BY <1>1, <1>2, <1>6
  <2>4. TypeOK
    BY DEF IInv
  <2> QED BY <1>1, <2>1, <2>2, <2>3, <2>4 DEF TypeOK, TaskStates
<1>9. SwitchesSafe'
  <2>1. tr'.base = c' /\ cpu'.cr3 = "swapper_page_dir" /\ tr'.selector = TSS1
    BY <1>1, <1>3, <1>4
  <2>2. state'[c] = SwapperState /\ \A t \in Tasks : life'[t] # "none" => t = c
    BY <1>1, <1>2, <1>3
  <2>3. gdt'[TSS1] = MarkBusy(d) /\ \A s \in Selectors : s # TSS1 => gdt'[s] = gdt[s]
    BY <1>1, <1>2 DEF Selectors
  <2>4. \A s \in Selectors : SegBusy(gdt'[s]) <=> s = TSS1
    BY <1>3, <1>6, <2>3
  <2>5. \A t \in Tasks : life'[t] # "none" => state'[t].cr3 = "swapper_page_dir"
    BY <1>7, <2>2
  <2>6. ReadyTasks' \ {c'} = {}
    BY <1>4, <2>2 DEF ReadyTasks
  <2>7. {tr'.selector, state'[c'].prev_tss} = {TSS1, TSS2}
    BY <1>4, <1>7, <2>1, <2>2
  <2> QED BY <1>4, <1>6, <2>1, <2>3, <2>4, <2>5, <2>6, <2>7 DEF SwitchesSafe
<1>10. BootingAlone' /\ NewTasksClean'
  <2>1. Ready'
    BY <1>1 DEF Ready, TSS1
  <2>2. \A t \in Tasks : life'[t] # "new"
    BY <1>1, <1>2, <1>3
  <2> QED BY <2>1, <2>2 DEF BootingAlone, NewTasksClean
<1>11. UNCHANGED <<ring, done>>
  <2>1. ASSUME NEW t \in Tasks PROVE TurnsOf(t)' = TurnsOf(t)
    BY <1>1, <1>2, <1>3, <1>4 DEF TurnsOf
  <2> QED BY <1>4, <2>1 DEF ring, done
<1> QED BY <1>4, <1>8, <1>9, <1>10, <1>11 DEF IInv

\* task_init keeps it: the new task is on no list and owns no descriptor.
LEMMA InitTaskStep ==
    ASSUME IInv, NEW t \in Tasks, task_init(t)
    PROVE  IInv' /\ UNCHANGED <<ring, done>>
<1> DEFINE c == current_task
           r == [Zeroed EXCEPT !.esp = t, !.cr3 = "swapper_page_dir"]
<1>1. /\ Ready /\ life[t] = "none"
      /\ state' = [state EXCEPT ![t] = r]
      /\ life' = [life EXCEPT ![t] = "new"]
      /\ UNCHANGED <<links, gdt, tr, cpu>>
  BY DEF task_init
<1>2. /\ state \in [Tasks -> TaskStates]
      /\ c \in Tasks /\ cpu.esp = c /\ life[c] = "ready" /\ 0 \in 0 .. Laps - 1
      /\ life \in [Tasks -> {"none", "new", "ready"}]
  BY TypeFacts
<1>3. r \in TaskStates /\ r.esp = t /\ r.turns = 0 /\ r.cr3 = "swapper_page_dir"
  <2>1. Zeroed \in TaskStates /\ Zeroed.turns = 0
    BY <1>2 DEF Zeroed, TaskStates, Selectors
  <2> QED BY <2>1 DEF TaskStates
<1> HIDE DEF r
<1>4. /\ life'[t] = "new" /\ state'[t] = r
      /\ \A u \in Tasks : u # t => life'[u] = life[u] /\ state'[u] = state[u]
  BY <1>1, <1>2
<1>5. /\ c' = c /\ c' \in ReadyTasks'
      /\ RunList' = RunList /\ RunList' \in Seq(Tasks) /\ RunListIntact'
      /\ ReadyTasks' = ReadyTasks
  BY <1>1, <1>4, ListFrame
<1>6. TypeOK'
  <2>1. state' \in [Tasks -> TaskStates] /\ life' \in [Tasks -> {"none", "new", "ready"}]
    BY <1>1, <1>2, <1>3
  <2>2. TypeOK
    BY DEF IInv
  <2> QED BY <1>1, <2>1, <2>2 DEF TypeOK, TaskStates
<1>7. SwitchesSafe'
  <2>1. SwitchesSafe /\ Ready'
    BY <1>1 DEF IInv, Ready
  <2>2. t # c /\ t \notin ReadyTasks
    BY <1>1, <1>2 DEF ReadyTasks
  <2>3. \A u \in Tasks : life'[u] # "none" => state'[u].cr3 = "swapper_page_dir"
    BY <1>1, <1>3, <1>4, <2>1 DEF SwitchesSafe
  <2>4. state'[c] = state[c] /\ \A u \in ReadyTasks : u \in Tasks /\ state'[u] = state[u]
    BY <1>2, <1>4, <2>2 DEF ReadyTasks
  <2> QED BY <1>1, <1>5, <2>1, <2>3, <2>4 DEF SwitchesSafe
<1>8. BootingAlone' /\ NewTasksClean'
  BY <1>1, <1>3, <1>4 DEF IInv, BootingAlone, NewTasksClean, Ready
<1>9. UNCHANGED <<ring, done>>
  <2>1. ASSUME NEW u \in Tasks PROVE TurnsOf(u)' = TurnsOf(u)
    <3>1. CASE u = t
      BY <1>1, <1>2, <1>4, <1>5, <3>1 DEF TurnsOf
    <3>2. CASE u # t
      BY <1>1, <1>4, <1>5, <3>2 DEF TurnsOf
    <3> QED BY <3>1, <3>2
  <2> QED BY <1>5, <2>1 DEF ring, done
<1> QED BY <1>5, <1>6, <1>7, <1>8, <1>9 DEF IInv

\* A head, a list behind it, and a node at the end.
LEMMA RingAppend ==
    ASSUME NEW S, NEW c \in S, NEW q \in Seq(S), NEW t \in S
    PROVE  /\ <<c>> \o Append(q, t) = Append(<<c>> \o q, t)
           /\ ToSet(<<c>> \o q) = {c} \cup ToSet(q)
           /\ Head(<<c>> \o q) = c /\ Tail(<<c>> \o q) = q
<1>1. /\ <<c>> \in Seq(S) /\ Len(<<c>>) = 1 /\ <<c>>[1] = c /\ Len(q) \in Nat
      /\ Append(q, t) \in Seq(S) /\ Len(Append(q, t)) = Len(q) + 1
      /\ \A i \in 1 .. Len(q) : Append(q, t)[i] = q[i]
      /\ Append(q, t)[Len(q) + 1] = t
  OBVIOUS
<1> DEFINE a == <<c>> \o q
           p == Append(q, t)
           b == <<c>> \o p
           d == Append(a, t)
<1>2. /\ a \in Seq(S) /\ Len(a) = Len(q) + 1
      /\ \A i \in 1 .. Len(q) + 1 : a[i] = IF i <= 1 THEN <<c>>[i] ELSE q[i - 1]
  BY <1>1, ConcatProperties
<1>3. /\ b \in Seq(S) /\ Len(b) = Len(q) + 2
      /\ \A i \in 1 .. Len(q) + 2 : b[i] = IF i <= 1 THEN <<c>>[i] ELSE p[i - 1]
  <2>1. p \in Seq(S) /\ Len(p) = Len(q) + 1
    BY <1>1
  <2> HIDE DEF p
  <2>2. /\ b \in Seq(S) /\ Len(b) = 1 + Len(p)
        /\ \A i \in 1 .. 1 + Len(p) : b[i] = IF i <= 1 THEN <<c>>[i] ELSE p[i - 1]
    BY <1>1, <2>1, ConcatProperties
  <2>3. 1 + Len(p) = Len(q) + 2
    BY <1>1, <2>1
  <2> QED BY <2>2, <2>3
<1> HIDE DEF a, b, p
<1>4. /\ d \in Seq(S) /\ Len(d) = Len(q) + 2
      /\ \A i \in 1 .. Len(q) + 1 : d[i] = a[i]
      /\ d[Len(q) + 2] = t
  BY <1>1, <1>2
<1> HIDE DEF d
<1>5. \A i \in 1 .. Len(q) + 2 : b[i] = d[i]
  <2> TAKE i \in 1 .. Len(q) + 2
  <2>1. CASE i = 1
    <3>1. 1 \in 1 .. Len(q) + 1 /\ 1 \in 1 .. Len(q) + 2
      BY <1>1
    <3> QED BY <1>2, <1>3, <1>4, <2>1, <3>1
  <2>2. CASE i \in 2 .. Len(q) + 1
    <3>1. i \in 1 .. Len(q) + 1 /\ i - 1 \in 1 .. Len(q) /\ ~ (i <= 1)
      BY <1>1, <2>2
    <3>2. p[i - 1] = q[i - 1]
      BY <1>1, <3>1 DEF p
    <3> QED BY <1>2, <1>3, <1>4, <3>1, <3>2
  <2>3. CASE i = Len(q) + 2
    <3>1. i - 1 = Len(q) + 1 /\ ~ (i <= 1)
      BY <1>1, <2>3
    <3>2. p[i - 1] = t
      BY <1>1, <3>1 DEF p
    <3> QED BY <1>3, <1>4, <2>3, <3>1, <3>2
  <2> QED BY <1>1, <2>1, <2>2, <2>3
<1>6. b = d
  BY <1>3, <1>4, <1>5
<1>7. a[1] = c /\ \A i \in 1 .. Len(q) : a[i + 1] = q[i]
  <2>1. \A i \in 1 .. Len(q) : i + 1 \in 1 .. Len(q) + 1 /\ ~ (i + 1 <= 1) /\ (i + 1) - 1 = i
    BY <1>1
  <2>2. 1 \in 1 .. Len(q) + 1
    BY <1>1
  <2> QED BY <1>1, <1>2, <2>1, <2>2
<1>8. ToSet(a) = {c} \cup ToSet(q)
  <2>1. ToSet(a) = {a[i] : i \in 1 .. Len(q) + 1} /\ ToSet(q) = {q[i] : i \in 1 .. Len(q)}
    <3>1. DOMAIN a = 1 .. Len(q) + 1 /\ DOMAIN q = 1 .. Len(q)
      BY <1>2
    <3> QED BY <3>1 DEF ToSet
  <2>2. \A i \in 1 .. Len(q) + 1 : i = 1 \/ (i - 1 \in 1 .. Len(q) /\ (i - 1) + 1 = i)
    BY <1>1
  <2>3. 1 \in 1 .. Len(q) + 1 /\ \A i \in 1 .. Len(q) : i + 1 \in 1 .. Len(q) + 1
    BY <1>1
  <2>4. ToSet(a) \subseteq {c} \cup ToSet(q)
    <3>1. ASSUME NEW i \in 1 .. Len(q) + 1 PROVE a[i] \in {c} \cup ToSet(q)
      <4>1. CASE i = 1
        BY <1>7, <4>1
      <4>2. CASE i # 1
        <5>1. i - 1 \in 1 .. Len(q) /\ a[i] = q[i - 1]
          BY <1>7, <2>2, <4>2
        <5> QED BY <2>1, <5>1
      <4> QED BY <4>1, <4>2
    <3> QED BY <2>1, <3>1
  <2>5. {c} \cup ToSet(q) \subseteq ToSet(a)
    BY <1>7, <2>1, <2>3
  <2> QED BY <2>4, <2>5
<1>9. Head(a) = c /\ Tail(a) = q
  <2>1. Head(a) = a[1] /\ Tail(a) \in Seq(S) /\ Len(Tail(a)) = Len(q)
    BY <1>1, <1>2
  <2>2. \A i \in 1 .. Len(q) : Tail(a)[i] = a[i + 1]
    BY <1>1, <1>2
  <2> QED BY <1>7, <2>1, <2>2
<1> QED BY <1>6, <1>8, <1>9 DEF a, b, d, p

\* What RunListIntact says of the run list and the links.
LEMMA ListFacts ==
    ASSUME IInv
    PROVE  /\ links \in LinkRecords
           /\ RunList \in Seq(Tasks) /\ RunList \in Seq(Nodes)
           /\ IsInjective(RunList) /\ Linked(links, Active, RunList)
           /\ ToSet(RunList) = ReadyTasks \ {current_task}
           /\ Active \notin ToSet(RunList)
<1>1. RunList \in Seq(Tasks) /\ RunListIntact /\ links \in LinkRecords
  BY TypeFacts DEF IInv
<1>2. ToSet(RunList) = ReadyTasks \ {current_task}
  BY <1>1 DEF RunListIntact
<1>3. Active \notin ToSet(RunList)
  BY <1>2, NodesFacts DEF ReadyTasks
<1>4. \A q \in Seq(Tasks) : q \in Seq(Nodes)
  BY NodesFacts
<1> QED BY <1>1, <1>2, <1>3, <1>4 DEF RunListIntact

\* A new list, linked and without repetitions.
LEMMA ListStep ==
    ASSUME links' \in LinkRecords, NEW q \in Seq(Tasks), IsInjective(q),
           Linked(links', Active, q), ToSet(q) = ReadyTasks' \ {current_task'}
    PROVE  RunList' = q /\ RunList' \in Seq(Tasks) /\ RunListIntact'
<1>1. Elements(links', Active) = q
  BY RunListOf
<1>2. RunList' = q
  BY <1>1 DEF RunList
<1> QED BY <1>2 DEF RunListIntact

\* schedule_task keeps it: the new task is last in the circle.
LEMMA ScheduleTaskStep ==
    ASSUME IInv, NEW t \in Tasks, schedule_task(t)
    PROVE  /\ IInv'
           /\ t \notin ToSet(ring) /\ ring' = Append(ring, t) /\ UNCHANGED done
<1> DEFINE c == current_task
           q == RunList
<1>1. /\ life[t] = "new"
      /\ links' = list_insert_before(links, Active, t)
      /\ life' = [life EXCEPT ![t] = "ready"]
      /\ UNCHANGED <<gdt, tr, state, cpu>>
  BY DEF schedule_task
<1>2. /\ state \in [Tasks -> TaskStates] /\ c \in Tasks /\ life[c] = "ready"
      /\ life \in [Tasks -> {"none", "new", "ready"}]
  BY TypeFacts
<1>3. /\ links \in LinkRecords /\ q \in Seq(Tasks) /\ q \in Seq(Nodes)
      /\ IsInjective(q) /\ Linked(links, Active, q)
      /\ ToSet(q) = ReadyTasks \ {c} /\ Active \notin ToSet(q)
  BY ListFacts
<1>4. /\ life'[t] = "ready" /\ \A u \in Tasks : u # t => life'[u] = life[u]
      /\ life' \in [Tasks -> {"none", "new", "ready"}]
      /\ t # c /\ c' = c
  BY <1>1, <1>2 DEF current_task
<1>5. ReadyTasks' = ReadyTasks \cup {t} /\ t \notin ReadyTasks /\ c \in ReadyTasks
  BY <1>1, <1>2, <1>4 DEF ReadyTasks
<1> HIDE DEF c, q
<1>6. links' \in LinkRecords /\ Linked(links', Active, Append(q, t))
  <2>1. t \in Nodes /\ Active \in Nodes /\ t # Active /\ t \notin ToSet(q)
    BY <1>3, <1>5, NodesFacts
  <2> QED BY <1>1, <1>3, <2>1, InsertLast DEF LinkRecords
<1>7. /\ Append(q, t) \in Seq(Tasks) /\ IsInjective(Append(q, t))
      /\ ToSet(Append(q, t)) = ReadyTasks' \ {c'}
  <2>1. t \notin ToSet(q)
    BY <1>3, <1>5
  <2>2. /\ Append(q, t) \in Seq(Tasks) /\ IsInjective(Append(q, t))
        /\ ToSet(Append(q, t)) = ToSet(q) \cup {t}
    BY <1>3, <2>1, AppendList
  <2> QED BY <1>3, <1>4, <1>5, <2>2
<1>8. RunList' = Append(q, t) /\ RunList' \in Seq(Tasks) /\ RunListIntact'
  BY <1>6, <1>7, ListStep DEF c
<1>9. TypeOK' /\ c' \in ReadyTasks'
  <2>1. TypeOK
    BY DEF IInv
  <2> QED BY <1>1, <1>4, <1>5, <1>6, <2>1 DEF TypeOK, LinkRecords
<1>10. state[t].esp = t /\ state[t].turns = 0
  BY <1>1 DEF IInv, NewTasksClean
<1>11. SwitchesSafe'
  <2>1. SwitchesSafe
    BY DEF IInv
  <2>2. ASSUME Ready PROVE
            /\ \A u \in Tasks : life'[u] # "none" => state[u].cr3 = "swapper_page_dir"
            /\ \A u \in ReadyTasks' \ {c'} : state[u].esp = u
    BY <1>1, <1>4, <1>5, <1>10, <2>1, <2>2 DEF SwitchesSafe, c
  <2> QED BY <1>1, <1>4, <2>1, <2>2 DEF SwitchesSafe, Ready, c
<1>12. BootingAlone' /\ NewTasksClean'
  BY <1>1, <1>2, <1>4 DEF IInv, BootingAlone, NewTasksClean, Ready, c
<1>13. /\ t \notin ToSet(ring) /\ ring' = Append(ring, t)
  <2>1. /\ <<c>> \o Append(q, t) = Append(<<c>> \o q, t)
        /\ ToSet(<<c>> \o q) = {c} \cup ToSet(q)
    BY <1>2, <1>3, RingAppend DEF c
  <2> QED BY <1>3, <1>4, <1>5, <1>8, <2>1 DEF ring, c, q
<1>14. UNCHANGED done
  <2>1. ASSUME NEW u \in Tasks PROVE TurnsOf(u)' = TurnsOf(u)
    BY <1>1, <1>4, <1>10 DEF TurnsOf, c
  <2> QED BY <2>1 DEF done
<1> QED BY <1>8, <1>9, <1>11, <1>12, <1>13, <1>14 DEF IInv, c

\* A turn, as the round robin sees it.
TakesTurn ==
    /\ ring' = Append(Tail(ring), Head(ring))
    /\ done' = [done EXCEPT ![Head(ring)] = (@ + 1) % Laps]

\* list_empty looks at one link.
LEMMA EmptyFacts ==
    ASSUME IInv
    PROVE  /\ list_empty(links, Active) <=> RunList = <<>>
           /\ RunList # <<>> => Head(RunList) \in Tasks /\ Head(RunList) \in ToSet(RunList)
<1>1. /\ links \in LinkRecords /\ RunList \in Seq(Tasks) /\ RunList \in Seq(Nodes)
      /\ IsInjective(RunList) /\ Linked(links, Active, RunList)
      /\ Active \notin ToSet(RunList)
  BY ListFacts
<1>2. CASE RunList = <<>>
  <2>1. Circle(links.next, links.prev, Active, <<>>)
    BY <1>1, <1>2, LinkedAt, NodesFacts
  <2>2. Len(<<>>) = 0
    OBVIOUS
  <2>3. links.next[Active] = Active
    BY <2>1, <2>2 DEF Circle, At
  <2> QED BY <1>2, <2>3 DEF list_empty
<1>3. CASE RunList # <<>>
  <2>1. links.next[Active] = Head(RunList)
    BY <1>1, <1>3, UnlinkFirst, NodesFacts DEF LinkRecords
  <2>2. Head(RunList) \in ToSet(RunList) /\ Head(RunList) \in Tasks
    <3>1. Head(RunList) = RunList[1] /\ 1 \in DOMAIN RunList
      BY <1>1, <1>3
    <3> QED BY <1>1, <3>1 DEF ToSet
  <2> QED BY <1>1, <1>3, <2>1, <2>2 DEF list_empty
<1> QED BY <1>2, <1>3

\* Nobody waits: the task goes on and counts a turn.
LEMMA ScheduleAloneStep ==
    ASSUME IInv, schedule, list_empty(links, Active)
    PROVE  IInv' /\ TakesTurn
<1> DEFINE c == current_task
           turns == (cpu.turns + 1) % Laps
<1>1. /\ Ready /\ cpu' = [cpu EXCEPT !.turns = turns]
      /\ UNCHANGED <<links, gdt, tr, state, life>>
  <2>1. cpu' = [cpu EXCEPT !.turns = (@ + 1) % Laps]
    BY DEF schedule
  <2>2. cpu' = [cpu EXCEPT !.turns = turns]
    BY <2>1
  <2> QED BY <2>2 DEF schedule
<1>2. /\ cpu = [esp |-> cpu.esp, turns |-> cpu.turns, cr3 |-> cpu.cr3]
      /\ cpu.turns \in 0 .. Laps - 1 /\ cpu.cr3 \in {"swapper_page_dir", NULL}
      /\ c \in Tasks /\ cpu.esp = c /\ life[c] = "ready"
  BY TypeFacts
<1>3. turns \in 0 .. Laps - 1
  BY <1>2, TasksAssumption
<1> HIDE DEF turns
<1>4. cpu'.esp = cpu.esp /\ cpu'.turns = turns /\ cpu'.cr3 = cpu.cr3
      /\ cpu' = [esp |-> cpu.esp, turns |-> turns, cr3 |-> cpu.cr3]
  BY <1>1, <1>2
<1>5. /\ c' = c /\ c' \in ReadyTasks'
      /\ RunList' = RunList /\ RunList' \in Seq(Tasks) /\ RunListIntact'
      /\ ReadyTasks' = ReadyTasks
  BY <1>1, <1>4, ListFrame
<1>6. TypeOK'
  <2>1. TypeOK
    BY DEF IInv
  <2> QED BY <1>1, <1>2, <1>3, <1>4, <2>1 DEF TypeOK
<1>7. SwitchesSafe'
  BY <1>1, <1>4, <1>5 DEF IInv, SwitchesSafe, Ready
<1>8. BootingAlone' /\ NewTasksClean'
  BY <1>1, <1>4, <1>5 DEF IInv, BootingAlone, NewTasksClean, Ready
<1>9. TakesTurn
  <2>1. RunList = <<>>
    BY EmptyFacts
  <2>2. ring = <<c>> /\ ring' = <<c>> /\ Head(ring) = c /\ Append(Tail(ring), Head(ring)) = <<c>>
    BY <1>5, <2>1 DEF ring
  <2>3. done'[c] = turns /\ done[c] = cpu.turns
    BY <1>2, <1>4, <1>5 DEF done, TurnsOf
  <2>4. \A u \in Tasks : u # c => done'[u] = done[u]
    BY <1>1, <1>5 DEF done, TurnsOf
  <2>5. done' = [done EXCEPT ![c] = turns]
    BY <1>2, <2>3, <2>4 DEF done
  <2> QED BY <2>2, <2>3, <2>5 DEF TakesTurn, turns
<1> QED BY <1>5, <1>6, <1>7, <1>8, <1>9 DEF IInv

\* A list that is not empty is its head before its tail.
LEMMA HeadTailList ==
    ASSUME NEW S, NEW q \in Seq(S), q # <<>>
    PROVE  <<Head(q)>> \o Tail(q) = q
<1> DEFINE a == <<Head(q)>>
           t == Tail(q)
           b == a \o t
<1>1. /\ a \in Seq(S) /\ Len(a) = 1 /\ a[1] = q[1] /\ Len(q) \in Nat /\ Len(q) >= 1
      /\ t \in Seq(S) /\ Len(t) = Len(q) - 1 /\ \A i \in 1 .. Len(q) - 1 : t[i] = q[i + 1]
  OBVIOUS
<1> HIDE DEF a, t
<1>2. /\ b \in Seq(S) /\ Len(b) = Len(a) + Len(t)
      /\ \A i \in 1 .. Len(a) + Len(t) : b[i] = IF i <= Len(a) THEN a[i] ELSE t[i - Len(a)]
  <2>1. a \in Seq(S) /\ t \in Seq(S)
    BY <1>1
  <2> QED BY <2>1, ConcatProperties
<1>3. Len(b) = Len(q) /\ Len(a) + Len(t) = Len(q)
  BY <1>1, <1>2
<1> HIDE DEF b
<1>4. ASSUME NEW i \in 1 .. Len(q) PROVE b[i] = q[i]
  <2>1. CASE i = 1
    BY <1>1, <1>2, <1>3, <2>1
  <2>2. CASE i # 1
    <3>1. i - 1 \in 1 .. Len(q) - 1 /\ ~ (i <= Len(a)) /\ (i - 1) + 1 = i
      BY <1>1, <2>2
    <3>2. b[i] = t[i - 1]
      BY <1>1, <1>2, <1>3, <3>1
    <3> QED BY <1>1, <3>1, <3>2
  <2> QED BY <2>1, <2>2
<1>5. b = q
  BY <1>2, <1>3, <1>4
<1> QED BY <1>5 DEF a, t, b

\* The first task that waits is loaded, and the one that leaves waits last.
LEMMA ScheduleSwitchStep ==
    ASSUME IInv, schedule, ~ list_empty(links, Active)
    PROVE  IInv' /\ TakesTurn
<1> DEFINE c     == current_task
           q     == RunList
           next  == links.next[Active]
           turns == (cpu.turns + 1) % Laps
           regs  == [cpu EXCEPT !.turns = turns]
           tss   == state[c].prev_tss
           sel   == IF tss = TSS1 THEN TSS1 ELSE TSS2
           table == [gdt EXCEPT ![tss] = FreeTss(next)]
           states == [state EXCEPT ![next].prev_tss = PrevTss(tss)]
           saved == [states EXCEPT ![tr.base].esp = regs.esp, ![tr.base].turns = regs.turns]
           to    == SegBase(table[sel])
<1>1. /\ Ready /\ UNCHANGED life
      /\ links' = list_insert_before(list_remove(links, next), Active, c)
      /\ state' = saved
      /\ gdt' = [s \in Selectors |-> IF s = tr.selector THEN MarkFree(table[s])
                                     ELSE IF s = sel THEN MarkBusy(table[s]) ELSE table[s]]
      /\ tr' = [selector |-> sel, base |-> to]
      /\ cpu' = [esp |-> saved[to].esp, turns |-> saved[to].turns, cr3 |-> saved[to].cr3]
  BY DEF schedule, task_switch, ljmp, NextState
<1>2. /\ cpu = [esp |-> cpu.esp, turns |-> cpu.turns, cr3 |-> cpu.cr3]
      /\ cpu.turns \in 0 .. Laps - 1
      /\ c \in Tasks /\ cpu.esp = c /\ life[c] = "ready"
      /\ gdt \in [Selectors -> SUBSET (0 .. 63)]
      /\ state \in [Tasks -> TaskStates] /\ tr.selector \in Selectors
      /\ \A t \in Tasks : state[t] \in TaskStates
      /\ life \in [Tasks -> {"none", "new", "ready"}]
  BY TypeFacts
<1>3. turns \in 0 .. Laps - 1 /\ regs.esp = c /\ regs.turns = turns
  BY <1>2, TasksAssumption
<1>4. /\ tr.base = c /\ cpu.cr3 = "swapper_page_dir"
      /\ \A s \in Selectors : SegBusy(gdt[s]) <=> s = tr.selector
      /\ {tr.selector, tss} = {TSS1, TSS2}
      /\ \A t \in Tasks : life[t] # "none" => state[t].cr3 = "swapper_page_dir"
      /\ \A t \in ReadyTasks \ {c} : state[t].esp = t
  BY <1>1 DEF IInv, SwitchesSafe
<1>5. /\ links \in LinkRecords /\ q \in Seq(Tasks) /\ q \in Seq(Nodes)
      /\ IsInjective(q) /\ Linked(links, Active, q)
      /\ ToSet(q) = ReadyTasks \ {c} /\ Active \notin ToSet(q)
  BY ListFacts
<1>6. q # <<>> /\ Head(q) \in Tasks /\ Head(q) \in ToSet(q)
  BY EmptyFacts
<1> HIDE DEF c, q
<1>7. /\ next = Head(q)
      /\ list_remove(links, next) \in LinkRecords
      /\ Linked(list_remove(links, next), Active, Tail(q))
  BY <1>5, <1>6, NodesFacts, UnlinkFirst DEF LinkRecords
<1>8. next \in Tasks /\ next # c /\ next \in ReadyTasks /\ life[next] = "ready"
  BY <1>5, <1>6, <1>7 DEF ReadyTasks
<1>9. /\ Tail(q) \in Seq(Tasks) /\ Tail(q) \in Seq(Nodes) /\ IsInjective(Tail(q))
      /\ ToSet(Tail(q)) = ToSet(q) \ {next}
  <2>1. Tail(q) \in Seq(Tasks) /\ Tail(q) \in Seq(Nodes)
    BY <1>5, <1>6
  <2> QED BY <1>5, <1>6, <1>7, <2>1, TailList
<1>10. /\ links' \in LinkRecords /\ Linked(links', Active, Append(Tail(q), c))
  <2>1. /\ c \in Nodes /\ Active \in Nodes /\ c # Active /\ c \notin ToSet(Tail(q))
        /\ Active \notin ToSet(Tail(q))
    BY <1>2, <1>5, <1>9, NodesFacts
  <2> QED BY <1>1, <1>7, <1>9, <2>1, InsertLast DEF LinkRecords
<1>11. /\ Append(Tail(q), c) \in Seq(Tasks) /\ IsInjective(Append(Tail(q), c))
       /\ ToSet(Append(Tail(q), c)) = (ToSet(q) \ {next}) \cup {c}
  <2> DEFINE rest == Tail(q)
  <2>1. c \in Tasks /\ rest \in Seq(Tasks) /\ IsInjective(rest) /\ c \notin ToSet(rest)
    BY <1>2, <1>5, <1>9
  <2>2. ToSet(rest) = ToSet(q) \ {next}
    BY <1>9
  <2> HIDE DEF rest, next
  <2>3. /\ Append(rest, c) \in Seq(Tasks) /\ IsInjective(Append(rest, c))
        /\ ToSet(Append(rest, c)) = ToSet(rest) \cup {c}
    BY <2>1, AppendList
  <2> QED BY <2>2, <2>3 DEF rest
<1> HIDE DEF next
<1>12. /\ tss \in {TSS1, TSS2} /\ sel = tss /\ sel # tr.selector
       /\ tr.selector \in {TSS1, TSS2} /\ TSS1 # TSS2
       /\ PrevTss(tss) = tr.selector
  <2>1. TSS1 # TSS2
    BY DEF TSS1, TSS2
  <2> QED BY <1>4, <2>1 DEF PrevTss
<1> HIDE DEF turns, regs, tss, sel
<1>13. /\ sel \in Selectors /\ table[sel] = FreeTss(next)
       /\ \A s \in Selectors : s # sel => table[s] = gdt[s]
       /\ \A s \in Selectors : table[s] \in SUBSET (0 .. 63)
  <2>1. sel \in Selectors
    BY <1>12 DEF Selectors
  <2>2. FreeTss(next) \in SUBSET (0 .. 63)
    BY <1>8, TssFacts
  <2> QED BY <1>2, <1>12, <2>1, <2>2
<1> HIDE DEF table
<1>14. to = next /\ ~ SegBusy(table[sel]) /\ SegBase(MarkBusy(table[sel])) = next
  <2>1. ~ SegBusy(FreeTss(next)) /\ SegBase(FreeTss(next)) = next
    BY <1>8, TssFacts
  <2>2. SegBase(MarkBusy(table[sel])) = SegBase(table[sel])
    BY <1>13, BusyFacts
  <2> QED BY <1>13, <2>1, <2>2
<1> HIDE DEF to
<1>15. /\ states \in [Tasks -> TaskStates]
       /\ states[next] = [state[next] EXCEPT !.prev_tss = tr.selector]
       /\ \A t \in Tasks : t # next => states[t] = state[t]
  <2>1. [state[next] EXCEPT !.prev_tss = tr.selector] \in TaskStates
    BY <1>2, <1>8 DEF TaskStates
  <2>2. states = [state EXCEPT ![next] = [state[next] EXCEPT !.prev_tss = tr.selector]]
    BY <1>2, <1>8, <1>12
  <2> HIDE DEF states
  <2> QED BY <1>2, <1>8, <2>1, <2>2
<1> HIDE DEF states
<1>16. /\ saved \in [Tasks -> TaskStates]
       /\ saved[c] = [state[c] EXCEPT !.esp = c, !.turns = turns]
       /\ \A t \in Tasks : t # c => saved[t] = states[t]
  <2>1. states[c] = state[c]
    BY <1>2, <1>8, <1>15
  <2>2. [state[c] EXCEPT !.esp = c, !.turns = turns] \in TaskStates
    BY <1>2, <1>3 DEF TaskStates
  <2>3. saved = [states EXCEPT ![c] = [state[c] EXCEPT !.esp = c, !.turns = turns]]
    BY <1>2, <1>3, <1>4, <1>15, <2>1
  <2> HIDE DEF saved
  <2> QED BY <1>2, <1>15, <2>2, <2>3
<1> HIDE DEF saved
<1>17. /\ state'[next].esp = next /\ state'[next].turns = state[next].turns
       /\ state'[next].cr3 = "swapper_page_dir" /\ state'[next].prev_tss = tr.selector
  <2>1. state'[next] = [state[next] EXCEPT !.prev_tss = tr.selector]
    BY <1>1, <1>8, <1>15, <1>16
  <2>2. state[next].esp = next /\ state[next].cr3 = "swapper_page_dir"
    BY <1>4, <1>8
  <2>3. state[next] \in TaskStates
    BY <1>2, <1>8
  <2> QED BY <2>1, <2>2, <2>3 DEF TaskStates
<1>18. state'[c].esp = c /\ state'[c].turns = turns /\ state'[c].cr3 = "swapper_page_dir"
  <2>1. state'[c] = [state[c] EXCEPT !.esp = c, !.turns = turns]
    BY <1>1, <1>16
  <2>2. state[c].cr3 = "swapper_page_dir"
    BY <1>2, <1>4
  <2>3. state[c] \in TaskStates
    BY <1>2
  <2> QED BY <2>1, <2>2, <2>3 DEF TaskStates
<1>19. \A t \in Tasks : t # c /\ t # next => state'[t] = state[t]
  BY <1>1, <1>15, <1>16
<1>20. /\ cpu'.esp = next /\ cpu'.turns = state[next].turns /\ cpu'.cr3 = "swapper_page_dir"
       /\ c' = next /\ ReadyTasks' = ReadyTasks
  <2>1. cpu' = [esp |-> state'[next].esp, turns |-> state'[next].turns, cr3 |-> state'[next].cr3]
    BY <1>1, <1>14
  <2> QED BY <1>1, <1>17, <2>1 DEF c, current_task, ReadyTasks
<1>21. RunList' = Append(Tail(q), c) /\ RunList' \in Seq(Tasks) /\ RunListIntact'
  <2>1. ToSet(Append(Tail(q), c)) = ReadyTasks' \ {current_task'}
    <3>1. c \in ReadyTasks /\ current_task' = next
      BY <1>2, <1>20 DEF ReadyTasks, c
    <3> QED BY <1>5, <1>8, <1>11, <1>20, <3>1
  <2> QED BY <1>10, <1>11, <2>1, ListStep
<1>22. TypeOK' /\ c' \in ReadyTasks'
  <2>1. /\ life' \in [Tasks -> {"none", "new", "ready"}]
        /\ links' \in LinkRecords /\ state' \in [Tasks -> TaskStates]
    BY <1>1, <1>2, <1>10, <1>16
  <2>2. gdt' \in [Selectors -> SUBSET (0 .. 63)]
    <3>1. \A s \in Selectors : /\ MarkFree(table[s]) \in SUBSET (0 .. 63)
                               /\ MarkBusy(table[s]) \in SUBSET (0 .. 63)
      BY <1>13, BusyFacts
    <3> QED BY <1>1, <1>13, <3>1
  <2>3. tr' \in [selector : Selectors, base : Tasks \cup {{}}]
    BY <1>1, <1>8, <1>13, <1>14
  <2>4. cpu' \in [esp : Tasks \cup {NULL}, turns : 0 .. Laps - 1, cr3 : {"swapper_page_dir", NULL}]
    <3>1. state[next].turns \in 0 .. Laps - 1
      BY <1>2, <1>8 DEF TaskStates
    <3> QED BY <1>1, <1>8, <1>20, <3>1
  <2> QED BY <1>8, <1>20, <2>1, <2>2, <2>3, <2>4 DEF TypeOK, LinkRecords, TaskStates
<1>23. SwitchesSafe'
  <2>1. tr'.base = c' /\ tr'.selector = sel /\ cpu'.cr3 = "swapper_page_dir"
    BY <1>1, <1>14, <1>20
  <2>2. /\ gdt'[sel] = MarkBusy(table[sel])
        /\ gdt'[tr.selector] = MarkFree(table[tr.selector])
        /\ \A s \in Selectors : s # sel /\ s # tr.selector => gdt'[s] = table[s]
    BY <1>1, <1>2, <1>12, <1>13
  <2>3. \A s \in Selectors : SegBusy(gdt'[s]) <=> s = sel
    <3> TAKE s \in Selectors
    <3>1. CASE s = sel
      BY <1>13, <2>2, <3>1, BusyFacts
    <3>2. CASE s = tr.selector
      BY <1>12, <1>13, <2>2, <3>2, BusyFacts
    <3>3. CASE s # sel /\ s # tr.selector
      BY <1>4, <1>13, <2>2, <3>3
    <3> QED BY <3>1, <3>2, <3>3
  <2>4. SegBase(gdt'[sel]) = c'
    BY <1>14, <1>20, <2>2
  <2>5. {sel, state'[c'].prev_tss} = {TSS1, TSS2}
    BY <1>12, <1>17, <1>20
  <2>6. \A t \in Tasks : life'[t] # "none" => state'[t].cr3 = "swapper_page_dir"
    BY <1>1, <1>4, <1>17, <1>18, <1>19
  <2>7. \A t \in ReadyTasks' \ {c'} : state'[t].esp = t
    <3> TAKE t \in ReadyTasks' \ {c'}
    <3>1. t \in ReadyTasks /\ t # next /\ t \in Tasks
      BY <1>20 DEF ReadyTasks
    <3> QED BY <1>4, <1>18, <1>19, <3>1
  <2> QED BY <2>1, <2>3, <2>4, <2>5, <2>6, <2>7 DEF SwitchesSafe, c
<1>24. BootingAlone' /\ NewTasksClean'
  <2>1. Ready'
    BY <1>1, <1>12 DEF Ready, TSS1, TSS2
  <2>2. \A t \in Tasks : life'[t] = "new" => t # c /\ t # next
    BY <1>1, <1>2, <1>8
  <2>3. NewTasksClean
    BY DEF IInv
  <2> QED BY <1>1, <1>19, <2>1, <2>2, <2>3 DEF BootingAlone, NewTasksClean
<1>25. TakesTurn
  <2>1. /\ Head(ring) = c /\ Tail(ring) = q
    BY <1>2, <1>5, RingAppend DEF ring, c, q
  <2>2. ring' = Append(q, c)
    <3>1. ring' = <<next>> \o Append(Tail(q), c)
      BY <1>20, <1>21 DEF ring, c
    <3>2. <<next>> \o Append(Tail(q), c) = Append(<<next>> \o Tail(q), c)
      BY <1>2, <1>8, <1>9, RingAppend
    <3>3. <<next>> \o Tail(q) = q
      BY <1>5, <1>6, <1>7, HeadTailList
    <3> QED BY <3>1, <3>2, <3>3
  <2>3. done[c] = cpu.turns /\ done'[c] = turns
    BY <1>1, <1>2, <1>8, <1>18, <1>20 DEF done, TurnsOf, c
  <2>4. done'[next] = done[next]
    BY <1>1, <1>8, <1>20 DEF done, TurnsOf, c
  <2>5. \A t \in Tasks : t # c /\ t # next => done'[t] = done[t]
    BY <1>1, <1>19, <1>20 DEF done, TurnsOf, c
  <2>6. done' = [done EXCEPT ![c] = turns]
    BY <1>2, <2>3, <2>4, <2>5 DEF done
  <2> QED BY <2>1, <2>2, <2>3, <2>6 DEF TakesTurn, turns
<1> QED BY <1>21, <1>22, <1>23, <1>24, <1>25 DEF IInv, c

-----------------------------------------------------------------------------
(* The theorems.                                                           *)

\* Every step keeps the invariant, and is one of the round robin or none.
LEMMA NextIInv ==
    ASSUME IInv, [Next]_vars
    PROVE  /\ IInv'
           /\ [TakesTurn \/ \E t \in Tasks : Ring!Enter(t)]_<<ring, done>>
<1>1. ASSUME setup_swapper PROVE IInv' /\ UNCHANGED <<ring, done>>
  BY <1>1, SwapperStep
<1>2. ASSUME schedule PROVE IInv' /\ TakesTurn
  BY <1>2, ScheduleAloneStep, ScheduleSwitchStep
<1>3. ASSUME NEW t \in Tasks, task_init(t) PROVE IInv' /\ UNCHANGED <<ring, done>>
  BY <1>3, InitTaskStep
<1>4. ASSUME NEW t \in Tasks, schedule_task(t) PROVE IInv' /\ Ring!Enter(t)
  <2>1. IInv' /\ t \notin ToSet(ring) /\ ring' = Append(ring, t) /\ UNCHANGED done
    BY <1>4, ScheduleTaskStep
  <2>2. Ring!Enter(t)
    BY <2>1 DEF Ring!Enter, Ring!ToSet, ToSet, ring, done
  <2> QED BY <2>1, <2>2
<1>5. ASSUME UNCHANGED vars PROVE IInv' /\ UNCHANGED <<ring, done>>
  <2>1. UNCHANGED <<links, gdt, tr, state, cpu, life>>
    BY <1>5 DEF vars
  <2>2. /\ current_task' = current_task /\ current_task' \in ReadyTasks'
        /\ RunList' = RunList /\ RunList' \in Seq(Tasks) /\ RunListIntact'
    BY <2>1, ListFrame
  <2>3. TypeOK' /\ SwitchesSafe' /\ BootingAlone' /\ NewTasksClean'
    BY <2>1, <2>2 DEF IInv, TypeOK, SwitchesSafe, BootingAlone, NewTasksClean, Ready, ReadyTasks,
                      current_task
  <2>4. UNCHANGED done
    BY <2>1, <2>2 DEF done, TurnsOf
  <2> QED BY <2>2, <2>3, <2>4 DEF IInv, ring
<1> QED BY <1>1, <1>2, <1>3, <1>4, <1>5 DEF Next

\* The links, the descriptors and the saved registers of scheduler.c and
\* task_switch agree in every state, for any number of tasks.
THEOREM InvariantHolds == Spec => []IInv
<1>1. IInv /\ [Next]_vars => IInv'
  BY NextIInv
<1> QED BY InitIInv, <1>1, PTL DEF Spec

\* list_insert_before and list_remove, called by schedule_task and schedule,
\* keep the run list a circle through exactly the tasks that wait.
THEOREM RunListStaysIntact == Spec => []RunListIntact
<1>1. IInv => RunListIntact
  BY DEF IInv
<1> QED BY InvariantHolds, <1>1, PTL

\* task_switch saves into the task_state of the task that leaves and loads the
\* next task from its own, with the two descriptors taking turns.
THEOREM SwitchesStaySafe == Spec => []SwitchesSafe
<1>1. IInv => SwitchesSafe
  BY DEF IInv
<1> QED BY InvariantHolds, <1>1, PTL

\* The scheduler implements the round robin.
THEOREM RoundRobinImplemented == Spec => ImplementsRoundRobin
<1>1. Init => Ring!Init
  <2> SUFFICES ASSUME Init PROVE Ring!Init
    OBVIOUS
  <2>1. IInv /\ RunList = <<>>
    BY InitIInv
  <2>2. current_task = Swapper /\ cpu.turns = 0 /\ \A t \in Tasks : state[t].turns = 0
    BY DEF Init, current_task, Zeroed
  <2>3. <<current_task>> \o RunList = <<Swapper>>
    BY <2>1, <2>2
  <2>4. \A t \in Tasks : TurnsOf(t) = 0
    BY <2>2 DEF TurnsOf
  <2> QED BY <2>3, <2>4 DEF Ring!Init
<1>2. IInv /\ [Next]_vars => [Ring!Next]_<<ring, done>>
  <2> SUFFICES ASSUME IInv, [Next]_vars PROVE [Ring!Next]_<<ring, done>>
    OBVIOUS
  <2>1. TakesTurn => Ring!Turn
    BY DEF TakesTurn, Ring!Turn, ring, done
  <2> QED BY NextIInv, <2>1 DEF Ring!Next
<1>3. Spec => Ring!Spec
  BY <1>1, <1>2, InvariantHolds, PTL DEF Spec, Ring!Spec, ring, done
<1> QED BY <1>3 DEF ImplementsRoundRobin

\* Whatever the tasks did before, the far jump of schedule does not fault: the
\* descriptor it jumps to is a free one, of the size of a task_state, and its
\* base is the task that is first in the run list.
JumpFindsNextTask ==
    Ready /\ ~ list_empty(links, Active) =>
        LET next     == links.next[Active]
            tss      == state[current_task].prev_tss
            selector == IF tss = TSS1 THEN TSS1 ELSE TSS2
            d        == [gdt EXCEPT ![tss] = FreeTss(NextState(next))][selector]
        IN  /\ next \in ReadyTasks \ {current_task}
            /\ IsTss(d) /\ ~ SegBusy(d)
            /\ SegLimit(d) = SizeofTaskState /\ SegBase(d) = next

\* task_switch always jumps to the next task.
THEOREM JumpsNeverFault == Spec => []JumpFindsNextTask
<1>1. IInv => JumpFindsNextTask
  <2> DEFINE next == links.next[Active]
             tss  == state[current_task].prev_tss
             sel  == IF tss = TSS1 THEN TSS1 ELSE TSS2
  <2> SUFFICES ASSUME IInv, Ready, ~ list_empty(links, Active)
               PROVE  LET d == [gdt EXCEPT ![tss] = FreeTss(next)][sel]
                      IN  /\ next \in ReadyTasks \ {current_task}
                          /\ IsTss(d) /\ ~ SegBusy(d)
                          /\ SegLimit(d) = SizeofTaskState /\ SegBase(d) = next
    BY DEF JumpFindsNextTask, NextState
  <2>1. next \in ReadyTasks \ {current_task} /\ next \in Tasks
    <3>1. /\ links \in LinkRecords /\ RunList \in Seq(Nodes)
          /\ IsInjective(RunList) /\ Linked(links, Active, RunList)
          /\ ToSet(RunList) = ReadyTasks \ {current_task} /\ Active \notin ToSet(RunList)
      BY ListFacts
    <3>2. RunList # <<>> /\ Head(RunList) \in ToSet(RunList)
      BY EmptyFacts
    <3>3. next = Head(RunList)
      BY <3>1, <3>2, NodesFacts, UnlinkFirst DEF LinkRecords
    <3> QED BY <3>1, <3>2, <3>3 DEF ReadyTasks
  <2>2. tss \in {TSS1, TSS2} /\ sel = tss /\ tss \in Selectors
    BY DEF IInv, SwitchesSafe, Selectors
  <2>3. [gdt EXCEPT ![tss] = FreeTss(next)][sel] = FreeTss(next)
    BY <2>2, TypeFacts
  <2>4. /\ IsTss(FreeTss(next)) /\ ~ SegBusy(FreeTss(next))
        /\ SegLimit(FreeTss(next)) = SizeofTaskState /\ SegBase(FreeTss(next)) = next
    BY <2>1, TssFacts
  <2> HIDE DEF next, tss, sel
  <2> QED BY <2>1, <2>3, <2>4
<1> QED BY <1>1, InvariantHolds, PTL
=============================================================================
