------------------------------- MODULE Lists -------------------------------
(***************************************************************************)
(* The circular doubly linked lists of kernel/list.c.  The links of all    *)
(* nodes are a record of two functions, next and prev; NULL, the zero of   *)
(* cleared memory, is in their domain.                                     *)
(***************************************************************************)
EXTENDS Naturals, FiniteSets, Sequences

list_init_head(l, head) ==
    [next |-> [l.next EXCEPT ![head] = head], prev |-> [l.prev EXCEPT ![head] = head]]

list_insert_between(l, prev, next, node) ==
    [next |-> [l.next EXCEPT ![prev] = node, ![node] = next],
     prev |-> [l.prev EXCEPT ![next] = node, ![node] = prev]]

list_insert_after(l, pos, node) == list_insert_between(l, pos, l.next[pos], node)

(* A name with a suffix is its prefix with a bug, for the mutation runs.   *)

\* Variant: behind pos.
list_insert_before_after(l, pos, node) == list_insert_after(l, pos, node)

list_insert_before(l, pos, node) == list_insert_between(l, l.prev[pos], pos, node)

\* Variant: only the forward link.
list_remove_between_next(l, prev, next) == [l EXCEPT !.next[prev] = next]

list_remove_between(l, prev, next) == [l EXCEPT !.next[prev] = next, !.prev[next] = prev]

list_remove(l, node) == list_remove_between(l, l.prev[node], l.next[node])

list_empty(l, head) == l.next[head] = head

-----------------------------------------------------------------------------
\* The nodes from head up to its next occurrence, in the order of next.
Elements(l, head) ==
    LET N == Cardinality(DOMAIN l.next)
        node[i \in 0 .. N] == IF i = 0 THEN head ELSE l.next[node[i - 1]]
        size == CHOOSE n \in 0 .. N :
                    /\ n = N \/ node[n + 1] = head
                    /\ \A i \in 1 .. n : node[i] # head
    IN  [i \in 1 .. size |-> node[i]]

\* The nodes of q are linked in a circle through head, both ways.
Linked(l, head, q) ==
    LET circle == <<head>> \o q \o <<head>>
    IN  \A i \in 1 .. Len(q) + 1 :
            /\ l.next[circle[i]] = circle[i + 1]
            /\ l.prev[circle[i + 1]] = circle[i]
=============================================================================
