--------------------------- MODULE MCHw3Scheduler ---------------------------
(* An instance of Hw3Scheduler for TLC: main and two more tasks.           *)
EXTENDS Hw3Scheduler

\* Zeroed memory, as for the static tasks of main.c, and anything else.
MCGarbageRemain == {-1, 0, 3}
=============================================================================
