---------------------------- MODULE Hw3Scheduler ----------------------------
(***************************************************************************)
(* The preemptive round-robin scheduler of hw3: scheduler.c, the interrupt *)
(* handler of irq.c and the timer of time.c.                               *)
(*                                                                         *)
(* schedule runs with interrupts off from irqsave to irqrestore, on one    *)
(* processor, so a call is one step: it leaves one thread inside           *)
(* task_state_switch and continues another one behind it.  Interrupts come *)
(* between any two steps of a thread that has them on, and a thread has    *)
(* them on from the first statement of task_start.                         *)
(*                                                                         *)
(* The queue is a sequence.  Where the code puts a node in that is in      *)
(* already, which AddsNewNodes is about, its links are no sequence any     *)
(* more: what the model does behind such a step means nothing.             *)
(*                                                                         *)
(* A thread is named by the task it was started for; what it believes to   *)
(* be its struct task is the variable this of its call of schedule.        *)
(***************************************************************************)
EXTENDS Integers, Sequences, SequencesExt

CONSTANTS Tasks,                  \* struct tasks
          Main,                   \* the task that main turns itself into
          NULL,                   \* current before its first assignment
          SCHEDULER_TIME_SLICE,
          GarbageRemain           \* task->remain, which task_new leaves unset

ASSUME SchedulerAssumption ==
    /\ Main \in Tasks
    /\ NULL \notin Tasks
    /\ SCHEDULER_TIME_SLICE \in Nat \ {0}
    /\ GarbageRemain \subseteq Int

VARIABLES tasks,        \* the run queue
          current,
          state,        \* task->state
          remain,       \* task->remain
          task_state,   \* task->task_state: the thread whose stack it points to
          thread,       \* the thread on the processor
          at,           \* where each thread is
          this          \* the variable of the schedule call it is in

vars == <<tasks, current, state, remain, task_state, thread, at, this>>

\* A store through a null current goes to the first bytes of memory.
Structs == Tasks \cup {NULL}

Init ==
    /\ tasks = <<>>
    /\ current = NULL
    /\ \E s \in {"READY", "FINISHED"} :
            state = [t \in Structs |-> IF t = NULL THEN s ELSE "READY"]
    /\ remain \in [Structs -> GarbageRemain]
    /\ task_state = [t \in Structs |-> NULL]
    /\ thread = Main
    /\ at = [t \in Tasks |-> IF t = Main THEN "new" ELSE "none"]
    /\ this = [t \in Tasks |-> NULL]

\* main creates tasks with interrupts off, a running task with them on; either
\* way task_new keeps them off while it changes the queue.
task_new(t) ==
    /\ at[t] = "none"
    /\ at[thread] = "run" \/ (thread = Main /\ at[Main] = "new")
    /\ at' = [at EXCEPT ![t] = "new"]
    /\ state' = [state EXCEPT ![t] = "READY"]
    /\ task_state' = [task_state EXCEPT ![t] = t]
    /\ tasks' = Append(tasks, t)
    /\ UNCHANGED <<current, remain, thread, this>>

-----------------------------------------------------------------------------
\* task_start up to enable_interrupts.  Interrupts are on behind it, while
\* current is still the task that was left.
enable_interrupts ==
    /\ at[thread] = "new"
    /\ at' = [at EXCEPT ![thread] = "start"]
    /\ UNCHANGED <<tasks, current, state, remain, task_state, thread, this>>

(* A name with a suffix is its prefix with a bug, for the mutation runs.       *)

\* Variant: current is left to the next call of schedule.
StartedTask_kept == current

\* What task_start stores in current.
StartedTask == thread

set_current ==
    /\ at[thread] = "start"
    /\ at' = [at EXCEPT ![thread] = "run"]
    /\ current' = StartedTask
    /\ UNCHANGED <<tasks, state, remain, task_state, thread, this>>

\* The function of the task returns.
task_finish ==
    /\ at[thread] = "run"
    /\ at' = [at EXCEPT ![thread] = "finished"]
    /\ state' = [state EXCEPT ![thread] = "FINISHED"]
    /\ UNCHANGED <<tasks, current, remain, task_state, thread, this>>

-----------------------------------------------------------------------------
\* Variant: every task goes back to the queue.
Requeued_always == Append(tasks, current)

\* Variant: the current task goes in front of the others that wait.
Requeued_front ==
    IF state[current] = "READY" THEN <<Head(tasks), current>> \o Tail(tasks) ELSE tasks

\* The queue once schedule has put the current task back.
Requeued == IF state[current] = "READY" THEN Append(tasks, current) ELSE tasks

\* schedule, called when task->remain is rem.  The thread that leaves saves
\* its context in the struct it takes for its own; the one that continues
\* restores current from its own variable, unless it is a new task.
schedule(rem) ==
    LET next    == Head(Requeued)
        resumed == task_state[next]
        its     == IF resumed = thread THEN current ELSE this[resumed]
    IN  IF tasks = <<>>
        THEN remain' = rem /\ UNCHANGED <<tasks, current, task_state, thread, this>>
        ELSE /\ tasks' = Tail(Requeued)
             /\ task_state' = [task_state EXCEPT ![current] = thread]
             /\ this' = [this EXCEPT ![thread] = current]
             /\ thread' = resumed
             /\ IF at[resumed] = "new" THEN remain' = rem /\ UNCHANGED current
                ELSE /\ current' = its
                     /\ remain' = [rem EXCEPT ![its] = SCHEDULER_TIME_SLICE]

\* A task calls schedule, or task_start does so for ever after it.
Yield ==
    /\ at[thread] \in {"run", "finished"}
    /\ schedule(remain)
    /\ UNCHANGED <<state, at>>

InterruptsOn == at[thread] \in {"start", "run", "finished"}

\* Variant: a counter that starts at 0 is missed.
Expired_equal(r) == r = 0

Expired(r) == r <= 0

\* irq_raw_handler behind the handler: the interrupt has been acknowledged.
irq_raw_handler(rem) ==
    /\ IF Expired(rem[current]) THEN schedule(rem)
       ELSE remain' = rem /\ UNCHANGED <<tasks, current, task_state, thread, this>>
    /\ UNCHANGED <<state, at>>

\* pit_irq_handler.  Of a negative counter only the sign is kept.
Tick(r) == IF r < 0 THEN r ELSE r - 1

TimerInterrupt ==
    /\ InterruptsOn
    /\ irq_raw_handler([remain EXCEPT ![current] = Tick(@)])

\* Any other interrupt.
OtherInterrupt ==
    /\ InterruptsOn
    /\ irq_raw_handler(remain)

Next ==
    \/ \E t \in Tasks : task_new(t)
    \/ enable_interrupts \/ set_current \/ task_finish
    \/ Yield \/ TimerInterrupt \/ OtherInterrupt

Spec == Init /\ [][Next]_vars

\* An interrupt takes the processor from task_start before it has set current.
StartInterrupted == at[thread] = "start" /\ thread' # thread

\* The code as long as that does not happen.  The processor goes on, and so does
\* the timer; tasks need not do anything.
UndisturbedSpec ==
    /\ Init
    /\ [][Next /\ ~ StartInterrupted]_vars
    /\ WF_vars(enable_interrupts)
    /\ WF_vars(set_current)
    /\ WF_vars(TimerInterrupt)

-----------------------------------------------------------------------------
(* Properties.                                                             *)

Places == {"none", "new", "start", "run", "finished"}

TypeOK ==
    /\ tasks \in Seq(Tasks)
    /\ current \in Structs
    /\ state \in [Structs -> {"READY", "FINISHED"}]
    /\ remain \in [Structs -> Int]
    /\ task_state \in [Structs -> Structs]
    /\ thread \in Tasks
    /\ at \in [Tasks -> Places]
    /\ this \in [Tasks -> Structs]

\* Tasks that wait for the processor.
Waiting == {t \in Tasks : at[t] \in {"new", "start", "run"} /\ t # thread}

\* The run queue holds the tasks that wait, each of them once, whatever
\* interrupts came between the steps of whatever tasks, but for those of
\* StartInterrupted.
QueueHoldsWaiting == IsInjective(tasks) /\ ToSet(tasks) = Waiting

\* current is the task that runs, and the others wait with their own context:
\* no thread continues on the stack or with the struct of another.
ThreadsKeepTheirTasks ==
    /\ at[thread] \in {"run", "finished"} => current = thread
    /\ \A t \in Waiting : task_state[t] = t /\ (at[t] = "run" => this[t] = t)

\* What the two rest on: only the thread on the processor can be in the middle
\* of task_start, with current not yet its own, and the state of a task says
\* whether its function returned.
StatesMatchThreads ==
    /\ at[thread] # "none"
    /\ at[thread] \in {"new", "start"} => current # thread
    /\ \A t \in Tasks :
        /\ at[t] = "start" => t = thread
        /\ at[t] # "none" => (state[t] = "READY" <=> at[t] # "finished")

IInv == TypeOK /\ QueueHoldsWaiting /\ ThreadsKeepTheirTasks /\ StatesMatchThreads

\* Whenever an interrupt may make schedule put the current task back, that task
\* is not in the queue: list.h:12 calls what list_add_tail is given new_node.
AddsNewNodes ==
    InterruptsOn /\ current \in Tasks /\ state[current] = "READY"
        => current \notin ToSet(tasks)

\* The queue stands still, but for new tasks at its end, or everyone in it
\* comes one place nearer and the first gets the processor.
QueueAdvances ==
    \/ /\ thread' = thread
       /\ Len(tasks) <= Len(tasks') /\ \A i \in 1 .. Len(tasks) : tasks'[i] = tasks[i]
    \/ /\ tasks # <<>> /\ thread' = tasks[1] /\ thread' # thread
       /\ \A i \in 2 .. Len(tasks) : i - 1 <= Len(tasks') /\ tasks'[i - 1] = tasks[i]

\* While a task waits, an interrupt of the timer ends the turn of the task that
\* runs or takes from the positive ticks left of it.
TimerEndsTurns ==
    TimerInterrupt /\ tasks # <<>> /\ at[thread] # "start" =>
        \/ thread' # thread
        \/ thread' = thread /\ 0 < remain'[thread] /\ remain'[thread] < remain[thread]

\* No task is overtaken while it waits, and none keeps the processor from the
\* others for longer than the ticks it has left, whatever it found in its struct.
TurnsAreTaken == [][QueueAdvances /\ TimerEndsTurns]_vars

\* Every task that waits gets the processor, although the tasks before it in
\* the queue need never call schedule and may find any counter in their struct.
WaitingTasksRun == \A t \in Tasks : (t \in Waiting) ~> (thread = t)
=============================================================================
