----------------------------- MODULE MCBootMem -----------------------------
(* An instance of BootMem for TLC: a few addresses, and every reserved      *)
(* range below MaxReserved.                                                *)
EXTENDS BootMem

CONSTANTS MaxAddr,      \* available memory lies in 0 .. MaxAddr
          MaxReserved   \* reserved ranges lie in 0 .. MaxReserved

\* Available memory with a hole in it, reported in pieces that touch.
MCMemoryRanges == {<<0, 1>>, <<1, 3>>, <<4, MaxAddr>>}

MCReservedRanges ==
    {r \in (0 .. MaxReserved) \X (0 .. MaxReserved) : r[1] < r[2]} \cup {<<1, 1>>}

MCRequests ==
    {[size |-> 1, align |-> 2, from |-> 1, to |-> MaxAddr],
     [size |-> 2, align |-> 1, from |-> 1, to |-> MaxAddr],
     [size |-> 0, align |-> 1, from |-> 2, to |-> MaxAddr],
     [size |-> 1, align |-> 1, from |-> 3, to |-> 2]}

\* An available piece, what encloses them all, and what ends before it begins.
MCQueries == {<<1, 3>>, <<1, MaxAddr>>, <<2, 1>>}
=============================================================================
