----------------------------- MODULE RoundRobin -----------------------------
(***************************************************************************)
(* What the scheduler of the kernel promises: the tasks take turns in a    *)
(* ring, and a task goes on with what it had when its last turn ended.     *)
(***************************************************************************)
EXTENDS Naturals, Sequences, SequencesExt

CONSTANTS Tasks, Swapper, Laps

VARIABLES ring,     \* the task that runs, then the others in their order
          done      \* per task the turns it knows to have had, modulo Laps

Init == ring = <<Swapper>> /\ done = [t \in Tasks |-> 0]

Enter(t) ==
    /\ t \notin ToSet(ring)
    /\ ring' = Append(ring, t)
    /\ UNCHANGED done

Turn ==
    /\ ring' = Append(Tail(ring), Head(ring))
    /\ done' = [done EXCEPT ![Head(ring)] = (@ + 1) % Laps]

Next == Turn \/ \E t \in Tasks : Enter(t)

Spec == Init /\ [][Next]_<<ring, done>>
=============================================================================
