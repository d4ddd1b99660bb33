------------------------ MODULE Hw3SchedulerProofs ------------------------
(***************************************************************************)
(* What the one interrupt that task_start is open to does to the scheduler *)
(* of hw3, for every number of tasks, every time slice and every content   *)
(* of memory at the start: as long as it does not come, the queue, the     *)
(* contexts and the turns of the tasks are right, and the step in which it *)
(* does come is the one that breaks the queue.                             *)
(***************************************************************************)
EXTENDS Hw3Scheduler, BasicLemmas

\* At the start nothing waits.
LEMMA InitInv == Init => IInv
<1> SUFFICES ASSUME Init PROVE IInv
  OBVIOUS
<1>1. TypeOK
  <2>1. GarbageRemain \subseteq Int /\ Main \in Tasks
    BY SchedulerAssumption
  <2>2. state \in [Structs -> {"READY", "FINISHED"}] /\ remain \in [Structs -> Int]
    BY <2>1 DEF Init
  <2> QED BY <2>1, <2>2 DEF Init, TypeOK, Structs, Places
<1>2. Waiting = {}
  BY DEF Init, Waiting
<1>3. IsInjective(tasks) /\ ToSet(tasks) = {}
  BY DEF Init, IsInjective, ToSet
<1>4. /\ at[thread] = "new" /\ \A t \in Tasks : at[t] \in {"none", "new"}
      /\ current # thread
  BY SchedulerAssumption DEF Init
<1>5. \A t \in Tasks : state[t] = "READY"
  BY SchedulerAssumption DEF Init, Structs
<1> QED
  BY <1>1, <1>2, <1>3, <1>4, <1>5
     DEF IInv, QueueHoldsWaiting, ThreadsKeepTheirTasks, StatesMatchThreads, Waiting

\* A call of schedule, by the task that runs or by an interrupt that takes the
\* processor from it.
LEMMA ScheduleInv ==
    ASSUME IInv, at[thread] \in {"run", "finished"},
           NEW rem \in [Structs -> Int], schedule(rem), UNCHANGED <<state, at>>
    PROVE  IInv'
<1>1. /\ TypeOK /\ QueueHoldsWaiting /\ ThreadsKeepTheirTasks /\ StatesMatchThreads
      /\ thread \in Tasks /\ current = thread
      /\ Tasks \subseteq Structs
  BY DEF IInv, TypeOK, ThreadsKeepTheirTasks, Structs
<1>2. CASE tasks = <<>>
  <2>1. UNCHANGED <<tasks, current, task_state, thread, this, state, at>> /\ remain' = rem
    BY <1>2 DEF schedule
  <2> QED
    BY <1>1, <2>1 DEF IInv, TypeOK, QueueHoldsWaiting, ThreadsKeepTheirTasks, StatesMatchThreads, Waiting
<1>3. CASE tasks # <<>>
  <2> DEFINE next == Head(Requeued)
  <2>1. /\ tasks \in Seq(Tasks) /\ IsInjective(tasks) /\ ToSet(tasks) = Waiting
        /\ thread \notin ToSet(tasks)
    BY <1>1 DEF TypeOK, QueueHoldsWaiting, Waiting
  <2>2. /\ Requeued \in Seq(Tasks) /\ IsInjective(Requeued) /\ Requeued # <<>>
        /\ ToSet(Requeued) = Waiting \cup (IF at[thread] = "run" THEN {thread} ELSE {})
        /\ next = Head(tasks)
    <3>1. state[thread] = "READY" <=> at[thread] = "run"
      BY <1>1 DEF StatesMatchThreads
    <3>2. CASE at[thread] = "run"
      <4>1. Requeued = Append(tasks, thread)
        BY <1>1, <3>1, <3>2 DEF Requeued
      <4>2. /\ Append(tasks, thread) \in Seq(Tasks) /\ IsInjective(Append(tasks, thread))
            /\ ToSet(Append(tasks, thread)) = ToSet(tasks) \cup {thread}
        BY <1>1, <2>1, AppendList
      <4>3. Append(tasks, thread) # <<>> /\ Head(Append(tasks, thread)) = Head(tasks)
        BY <1>1, <1>3, <2>1
      <4> QED BY <2>1, <3>2, <4>1, <4>2, <4>3
    <3>3. CASE at[thread] # "run"
      BY <1>1, <1>3, <2>1, <3>1, <3>3 DEF Requeued
    <3> QED BY <3>2, <3>3
  <2>3. next \in Waiting
    BY <1>3, <2>1, <2>2, TailList
  <2>4. /\ Tail(Requeued) \in Seq(Tasks) /\ IsInjective(Tail(Requeued))
        /\ ToSet(Tail(Requeued)) = ToSet(Requeued) \ {next}
    BY <2>2, TailList
  <2> HIDE DEF next
  <2>5. /\ next \in Tasks /\ next # thread /\ at[next] \in {"new", "run"}
        /\ task_state[next] = next /\ (at[next] = "run" => this[next] = next)
    BY <1>1, <2>3 DEF Waiting, ThreadsKeepTheirTasks, StatesMatchThreads
  <2>6. /\ tasks' = Tail(Requeued)
        /\ task_state' = [task_state EXCEPT ![thread] = thread]
        /\ this' = [this EXCEPT ![thread] = thread]
        /\ thread' = next
        /\ IF at[next] = "new" THEN remain' = rem /\ current' = current
           ELSE current' = next /\ remain' = [rem EXCEPT ![next] = SCHEDULER_TIME_SLICE]
    BY <1>1, <1>3, <2>5 DEF schedule, next
  <2>7. TypeOK'
    <3>1. SCHEDULER_TIME_SLICE \in Int
      BY SchedulerAssumption
    <3>2. remain' \in [Structs -> Int]
      BY <1>1, <2>5, <2>6, <3>1
    <3> QED BY <1>1, <2>4, <2>5, <2>6, <3>2 DEF TypeOK
  <2>8. Waiting' = (Waiting \ {next}) \cup (IF at[thread] = "run" THEN {thread} ELSE {})
    BY <1>1, <2>5, <2>6 DEF Waiting
  <2>9. QueueHoldsWaiting'
    <3>1. ToSet(tasks') = (Waiting \cup (IF at[thread] = "run" THEN {thread} ELSE {})) \ {next}
      BY <2>2, <2>4, <2>6
    <3> QED BY <2>4, <2>5, <2>6, <2>8, <3>1 DEF QueueHoldsWaiting
  <2>10. ThreadsKeepTheirTasks'
    <3>1. at'[thread'] \in {"run", "finished"} => current' = thread'
      BY <2>5, <2>6
    <3>2. ASSUME NEW t \in Waiting' PROVE task_state'[t] = t /\ (at'[t] = "run" => this'[t] = t)
      <4>1. CASE t = thread
        BY <1>1, <2>6, <4>1 DEF TypeOK
      <4>2. CASE t # thread
        <5>1. t \in Waiting /\ t \in Tasks
          BY <2>8, <4>2 DEF Waiting
        <5> QED BY <1>1, <2>6, <4>2, <5>1 DEF TypeOK, ThreadsKeepTheirTasks
      <4> QED BY <4>1, <4>2
    <3> QED BY <3>1, <3>2 DEF ThreadsKeepTheirTasks
  <2>11. StatesMatchThreads'
    BY <1>1, <2>5, <2>6 DEF StatesMatchThreads
  <2> QED BY <2>7, <2>9, <2>10, <2>11 DEF IInv
<1> QED BY <1>2, <1>3

\* An interrupt, with the counters as its handler leaves them.
LEMMA InterruptInv ==
    ASSUME IInv, at[thread] \in {"run", "finished"},
           NEW rem \in [Structs -> Int], irq_raw_handler(rem)
    PROVE  IInv'
<1>1. UNCHANGED <<state, at>>
  BY DEF irq_raw_handler
<1>2. CASE Expired(rem[current])
  BY <1>1, <1>2, ScheduleInv DEF irq_raw_handler
<1>3. CASE ~ Expired(rem[current])
  <2>1. remain' = rem /\ UNCHANGED <<tasks, current, task_state, thread, this>>
    BY <1>3 DEF irq_raw_handler
  <2> QED
    BY <1>1, <2>1 DEF IInv, TypeOK, QueueHoldsWaiting, ThreadsKeepTheirTasks, StatesMatchThreads, Waiting
<1> QED BY <1>2, <1>3

\* A call of schedule in the middle of task_start takes the processor from it
\* as soon as a task waits.
LEMMA WindowSwitches ==
    ASSUME IInv, at[thread] = "start", NEW rem, schedule(rem), tasks # <<>>
    PROVE  /\ thread' # thread
           /\ tasks' = Tail(Requeued)
<1>1. /\ tasks \in Seq(Tasks) /\ ToSet(tasks) = Waiting
      /\ \A t \in Waiting : task_state[t] = t
  BY DEF IInv, TypeOK, QueueHoldsWaiting, ThreadsKeepTheirTasks
<1>2. Head(Requeued) = tasks[1]
  BY <1>1 DEF Requeued
<1>3. tasks[1] \in Waiting
  BY <1>1 DEF ToSet
<1>4. task_state[Head(Requeued)] # thread
  BY <1>1, <1>2, <1>3 DEF Waiting
<1> QED BY <1>4 DEF schedule

\* An interrupt there that leaves the processor to task_start changes the
\* counters only.
LEMMA WindowKeeps ==
    ASSUME IInv, at[thread] = "start", NEW rem, irq_raw_handler(rem), thread' = thread
    PROVE  remain' = rem /\ UNCHANGED <<tasks, current, state, task_state, thread, at, this>>
<1>1. CASE Expired(rem[current])
  <2>1. schedule(rem) /\ UNCHANGED <<state, at>>
    BY <1>1 DEF irq_raw_handler
  <2>2. tasks = <<>>
    BY <2>1, WindowSwitches
  <2> QED BY <2>1, <2>2 DEF schedule
<1>2. CASE ~ Expired(rem[current])
  BY <1>2 DEF irq_raw_handler
<1> QED BY <1>1, <1>2

\* An interrupt with the counters as its handler leaves them, wherever it comes.
LEMMA AnyInterruptInv ==
    ASSUME IInv, InterruptsOn, ~ StartInterrupted,
           NEW rem \in [Structs -> Int], irq_raw_handler(rem)
    PROVE  IInv'
<1>1. CASE at[thread] = "start"
  <2>1. thread' = thread
    BY <1>1 DEF StartInterrupted
  <2>2. remain' = rem /\ UNCHANGED <<tasks, current, state, task_state, thread, at, this>>
    BY <1>1, <2>1, WindowKeeps
  <2> QED
    BY <2>2 DEF IInv, TypeOK, QueueHoldsWaiting, ThreadsKeepTheirTasks, StatesMatchThreads, Waiting
<1>2. CASE at[thread] # "start"
  BY <1>2, InterruptInv DEF InterruptsOn
<1> QED BY <1>1, <1>2

\* Every step but that one keeps the invariant.
LEMMA NextInv ==
    ASSUME IInv, [Next]_vars, ~ StartInterrupted
    PROVE  IInv'
<1> USE DEF IInv
<1>1. /\ TypeOK /\ QueueHoldsWaiting /\ ThreadsKeepTheirTasks /\ StatesMatchThreads
      /\ thread \in Tasks /\ Tasks \subseteq Structs
  BY DEF TypeOK, Structs
<1>2. ASSUME NEW t \in Tasks, task_new(t) PROVE IInv'
  <2>1. /\ at[t] = "none" /\ t # thread /\ t \notin Waiting
    BY <1>1, <1>2 DEF task_new, StatesMatchThreads, Waiting
  <2>2. /\ at' = [at EXCEPT ![t] = "new"] /\ state' = [state EXCEPT ![t] = "READY"]
        /\ task_state' = [task_state EXCEPT ![t] = t] /\ tasks' = Append(tasks, t)
        /\ UNCHANGED <<current, remain, thread, this>>
    BY <1>2 DEF task_new
  <2>3. /\ Append(tasks, t) \in Seq(Tasks) /\ IsInjective(Append(tasks, t))
        /\ ToSet(Append(tasks, t)) = ToSet(tasks) \cup {t}
    BY <1>1, <2>1, AppendList DEF TypeOK, QueueHoldsWaiting
  <2>4. Waiting' = Waiting \cup {t}
    BY <1>1, <2>1, <2>2 DEF Waiting, TypeOK
  <2>5. TypeOK'
    BY <1>1, <2>2, <2>3 DEF TypeOK, Places
  <2>6. QueueHoldsWaiting'
    BY <1>1, <2>2, <2>3, <2>4 DEF QueueHoldsWaiting
  <2>7. ThreadsKeepTheirTasks'
    <3>1. at'[thread'] = at[thread] /\ current' = current /\ thread' = thread
      BY <1>1, <2>1, <2>2 DEF TypeOK
    <3>2. ASSUME NEW u \in Waiting' PROVE task_state'[u] = u /\ (at'[u] = "run" => this'[u] = u)
      <4>1. CASE u = t
        BY <1>1, <2>2, <4>1 DEF TypeOK
      <4>2. CASE u # t
        <5>1. u \in Waiting /\ u \in Tasks
          BY <2>4, <4>2 DEF Waiting
        <5> QED BY <1>1, <2>2, <4>2, <5>1 DEF TypeOK, ThreadsKeepTheirTasks
      <4> QED BY <4>1, <4>2
    <3> QED BY <1>1, <3>1, <3>2 DEF ThreadsKeepTheirTasks
  <2>8. StatesMatchThreads'
    BY <1>1, <2>1, <2>2 DEF StatesMatchThreads, TypeOK
  <2> QED BY <2>5, <2>6, <2>7, <2>8
<1>3. CASE enable_interrupts
  <2>1. /\ at[thread] = "new" /\ at' = [at EXCEPT ![thread] = "start"]
        /\ UNCHANGED <<tasks, current, state, remain, task_state, thread, this>>
    BY <1>3 DEF enable_interrupts
  <2>2. Waiting' = Waiting
    BY <1>1, <2>1 DEF Waiting, TypeOK
  <2> QED
    BY <1>1, <2>1, <2>2
       DEF TypeOK, QueueHoldsWaiting, ThreadsKeepTheirTasks, StatesMatchThreads, Waiting, Places
<1>4. CASE set_current
  <2>1. /\ at[thread] = "start" /\ at' = [at EXCEPT ![thread] = "run"] /\ current' = thread
        /\ UNCHANGED <<tasks, state, remain, task_state, thread, this>>
    BY <1>4 DEF set_current, StartedTask
  <2>2. Waiting' = Waiting
    BY <1>1, <2>1 DEF Waiting, TypeOK
  <2> QED
    BY <1>1, <2>1, <2>2
       DEF TypeOK, QueueHoldsWaiting, ThreadsKeepTheirTasks, StatesMatchThreads, Waiting, Places
<1>5. CASE task_finish
  <2>1. /\ at[thread] = "run" /\ at' = [at EXCEPT ![thread] = "finished"]
        /\ state' = [state EXCEPT ![thread] = "FINISHED"]
        /\ UNCHANGED <<tasks, current, remain, task_state, thread, this>>
    BY <1>5 DEF task_finish
  <2>2. Waiting' = Waiting
    BY <1>1, <2>1 DEF Waiting, TypeOK
  <2> QED
    BY <1>1, <2>1, <2>2
       DEF TypeOK, QueueHoldsWaiting, ThreadsKeepTheirTasks, StatesMatchThreads, Waiting, Places
<1>6. CASE Yield
  <2>1. /\ at[thread] \in {"run", "finished"} /\ schedule(remain) /\ UNCHANGED <<state, at>>
        /\ remain \in [Structs -> Int]
    BY <1>1, <1>6 DEF Yield, TypeOK
  <2> QED BY <2>1, ScheduleInv
<1>7. CASE TimerInterrupt
  <2> DEFINE rem == [remain EXCEPT ![current] = Tick(@)]
  <2>1. InterruptsOn /\ irq_raw_handler(rem)
    BY <1>7 DEF TimerInterrupt
  <2>2. rem \in [Structs -> Int]
    BY <1>1 DEF TypeOK, Tick
  <2> HIDE DEF rem
  <2> QED BY <2>1, <2>2, AnyInterruptInv
<1>8. CASE OtherInterrupt
  <2>1. /\ InterruptsOn /\ irq_raw_handler(remain)
        /\ remain \in [Structs -> Int]
    BY <1>1, <1>8 DEF OtherInterrupt, TypeOK
  <2> QED BY <2>1, AnyInterruptInv
<1>9. CASE UNCHANGED vars
  BY <1>1, <1>9
     DEF vars, TypeOK, QueueHoldsWaiting, ThreadsKeepTheirTasks, StatesMatchThreads, Waiting
<1> QED BY <1>2, <1>3, <1>4, <1>5, <1>6, <1>7, <1>8, <1>9 DEF Next

\* The step that takes the processor from task_start leaves a task that waits
\* outside the queue.
LEMMA WindowLosesTask ==
    ASSUME IInv, [Next]_vars, StartInterrupted
    PROVE  ~ QueueHoldsWaiting'
<1>1. /\ at[thread] = "start" /\ thread' # thread /\ thread \in Tasks
      /\ tasks \in Seq(Tasks) /\ ToSet(tasks) = Waiting /\ current # thread
  BY DEF StartInterrupted, IInv, TypeOK, QueueHoldsWaiting, StatesMatchThreads
<1>2. \E rem : irq_raw_handler(rem)
  <2>1. TimerInterrupt \/ OtherInterrupt
    BY <1>1 DEF Next, vars, task_new, enable_interrupts, set_current, task_finish, Yield
  <2> QED BY <2>1 DEF TimerInterrupt, OtherInterrupt
<1>3. PICK rem : irq_raw_handler(rem)
  BY <1>2
<1>4. schedule(rem) /\ tasks # <<>> /\ at' = at
  BY <1>1, <1>3 DEF irq_raw_handler, schedule
<1>5. tasks' = Tail(Requeued)
  BY <1>1, <1>4, WindowSwitches
<1>6. thread \notin ToSet(tasks')
  <2>1. thread \notin ToSet(tasks)
    BY <1>1 DEF Waiting
  <2>2. Requeued \in Seq(Tasks \cup {current}) /\ Requeued # <<>>
    BY <1>1, <1>4 DEF Requeued
  <2>3. \A i \in 1 .. Len(Requeued) : Requeued[i] # thread
    <3>1. \A i \in 1 .. Len(tasks) : tasks[i] # thread
      BY <1>1, <2>1 DEF ToSet
    <3>2. CASE Requeued = tasks
      BY <3>1, <3>2
    <3>3. CASE Requeued = Append(tasks, current)
      BY <1>1, <3>1, <3>3
    <3> QED BY <3>2, <3>3 DEF Requeued
  <2>4. \A i \in 1 .. Len(Tail(Requeued)) :
            Tail(Requeued)[i] = Requeued[i + 1] /\ i + 1 \in 1 .. Len(Requeued)
    BY <2>2
  <2> QED BY <1>5, <2>3, <2>4 DEF ToSet
<1>7. thread \in Waiting'
  BY <1>1, <1>4 DEF Waiting
<1> QED BY <1>6, <1>7 DEF QueueHoldsWaiting

\* The run queue holds exactly the tasks that wait, each of them once, in the
\* behaviours in which no interrupt takes the processor from task_start before
\* it has set current, and in no others.
THEOREM QueueCorrect ==
    Spec => ([]QueueHoldsWaiting <=> [][~ StartInterrupted]_vars)
<1>1. IInv /\ [Next]_vars /\ [~ StartInterrupted]_vars => IInv'
  <2>1. StartInterrupted => vars' # vars
    BY DEF StartInterrupted, vars
  <2> QED BY <2>1, NextInv
<1>2. IInv /\ [Next]_vars /\ QueueHoldsWaiting' => [~ StartInterrupted]_vars
  BY WindowLosesTask
<1>3. IInv => QueueHoldsWaiting
  BY DEF IInv
<1> QED BY <1>1, <1>2, <1>3, InitInv, PTL DEF Spec

\* The inductive invariant, as long as that interrupt does not come.
LEMMA Invariance == Spec => ([][~ StartInterrupted]_vars => []IInv)
<1>1. IInv /\ [Next]_vars /\ [~ StartInterrupted]_vars => IInv'
  <2>1. StartInterrupted => vars' # vars
    BY DEF StartInterrupted, vars
  <2> QED BY <2>1, NextInv
<1> QED BY <1>1, InitInv, PTL DEF Spec

\* Every task continues with its own stack and its own struct, as long as no
\* interrupt takes the processor from task_start before it has set current.
THEOREM ContextsKept ==
    Spec => ([][~ StartInterrupted]_vars => []ThreadsKeepTheirTasks)
<1>1. IInv => ThreadsKeepTheirTasks
  BY DEF IInv
<1> QED BY <1>1, Invariance, PTL

-----------------------------------------------------------------------------
(* Turns.                                                                  *)

\* A call of schedule gives the processor to the task that waits longest.
LEMMA ScheduleAdvances ==
    ASSUME IInv, at[thread] \in {"run", "finished"},
           NEW rem \in [Structs -> Int], schedule(rem)
    PROVE  QueueAdvances /\ (tasks # <<>> => thread' # thread)
<1>1. /\ tasks \in Seq(Tasks) /\ ToSet(tasks) = Waiting /\ current = thread
      /\ \A t \in Waiting : task_state[t] = t
  BY DEF IInv, TypeOK, QueueHoldsWaiting, ThreadsKeepTheirTasks
<1>2. CASE tasks = <<>>
  BY <1>1, <1>2 DEF schedule, QueueAdvances
<1>3. CASE tasks # <<>>
  <2>1. /\ Head(Requeued) = tasks[1] /\ Requeued # <<>>
        /\ Len(Tail(Requeued)) >= Len(tasks) - 1
        /\ \A i \in 2 .. Len(tasks) : Tail(Requeued)[i - 1] = tasks[i]
    <3>1. CASE Requeued = tasks
      BY <1>1, <1>3, <3>1
    <3>2. CASE Requeued = Append(tasks, current)
      BY <1>1, <1>3, <3>2
    <3> QED BY <3>1, <3>2 DEF Requeued
  <2>2. tasks[1] \in Waiting
    BY <1>1, <1>3 DEF ToSet
  <2>3. thread' = tasks[1] /\ tasks' = Tail(Requeued)
    BY <1>1, <1>3, <2>1, <2>2 DEF schedule
  <2>4. tasks[1] # thread
    BY <2>2 DEF Waiting
  <2>5. \A i \in 2 .. Len(tasks) : i - 1 <= Len(tasks') /\ tasks'[i - 1] = tasks[i]
    <3>1. Len(tasks) \in Nat /\ Len(tasks') >= Len(tasks) - 1 /\ Len(tasks') \in Nat
      <4>1. Requeued \in Seq(Tasks \cup {thread})
        BY <1>1 DEF Requeued
      <4> QED BY <1>1, <2>1, <2>3, <4>1
    <3> QED BY <2>1, <2>3, <3>1
  <2> QED BY <1>3, <2>3, <2>4, <2>5 DEF QueueAdvances
<1> QED BY <1>2, <1>3

\* An interrupt leaves the queue alone or calls schedule.
LEMMA InterruptAdvances ==
    ASSUME IInv, at[thread] \in {"run", "finished"},
           NEW rem \in [Structs -> Int], irq_raw_handler(rem)
    PROVE  QueueAdvances
<1>1. CASE Expired(rem[current])
  BY <1>1, ScheduleAdvances DEF irq_raw_handler
<1>2. CASE ~ Expired(rem[current])
  BY <1>2 DEF irq_raw_handler, QueueAdvances
<1> QED BY <1>1, <1>2

\* The same, wherever it comes.
LEMMA AnyInterruptAdvances ==
    ASSUME IInv, InterruptsOn, ~ StartInterrupted,
           NEW rem \in [Structs -> Int], irq_raw_handler(rem)
    PROVE  QueueAdvances
<1>1. CASE at[thread] = "start"
  <2>1. thread' = thread
    BY <1>1 DEF StartInterrupted
  <2>2. UNCHANGED <<tasks, thread>> /\ tasks \in Seq(Tasks)
    BY <1>1, <2>1, WindowKeeps DEF IInv, TypeOK
  <2> QED BY <2>2 DEF QueueAdvances
<1>2. CASE at[thread] # "start"
  BY <1>2, InterruptAdvances DEF InterruptsOn
<1> QED BY <1>1, <1>2

\* The counter of the running task, after a tick.
LEMMA TickEndsTurn ==
    ASSUME IInv
    PROVE  TimerEndsTurns
<1> SUFFICES ASSUME TimerInterrupt, tasks # <<>>, at[thread] # "start"
             PROVE  \/ thread' # thread
                    \/ thread' = thread /\ 0 < remain'[thread] /\ remain'[thread] < remain[thread]
  BY DEF TimerEndsTurns
<1> DEFINE rem == [remain EXCEPT ![current] = Tick(@)]
<1>1. at[thread] \in {"run", "finished"} /\ irq_raw_handler(rem)
  BY DEF TimerInterrupt, InterruptsOn
<1>2. /\ current = thread /\ thread \in Structs
      /\ remain \in [Structs -> Int] /\ rem \in [Structs -> Int]
      /\ rem[thread] = Tick(remain[thread]) /\ remain[thread] \in Int
  BY <1>1 DEF IInv, TypeOK, ThreadsKeepTheirTasks, Structs, Tick
<1> HIDE DEF rem
<1>3. CASE Expired(rem[current])
  BY <1>1, <1>2, <1>3, ScheduleAdvances DEF irq_raw_handler
<1>4. CASE ~ Expired(rem[current])
  <2>1. thread' = thread /\ remain' = rem
    BY <1>1, <1>4 DEF irq_raw_handler
  <2> QED BY <1>2, <1>4, <2>1 DEF Expired, Tick
<1> QED BY <1>3, <1>4

\* Every step keeps the order of the queue, and the timer bounds each turn.
LEMMA StepTakesTurns ==
    ASSUME IInv, [Next]_vars, ~ StartInterrupted
    PROVE  QueueAdvances /\ TimerEndsTurns
<1> SUFFICES QueueAdvances
  BY TickEndsTurn
<1>1. tasks \in Seq(Tasks) /\ remain \in [Structs -> Int] /\ remain[current] \in Int
  BY DEF IInv, TypeOK
<1>2. ASSUME NEW t \in Tasks, task_new(t) PROVE QueueAdvances
  <2>1. tasks' = Append(tasks, t) /\ thread' = thread
    BY <1>2 DEF task_new
  <2> QED BY <1>1, <2>1 DEF QueueAdvances
<1>3. CASE enable_interrupts \/ set_current \/ task_finish \/ UNCHANGED vars
  <2>1. UNCHANGED <<tasks, thread>>
    BY <1>3 DEF enable_interrupts, set_current, task_finish, vars
  <2> QED BY <1>1, <2>1 DEF QueueAdvances
<1>4. CASE Yield
  BY <1>1, <1>4, ScheduleAdvances DEF Yield
<1>5. CASE TimerInterrupt
  <2> DEFINE rem == [remain EXCEPT ![current] = Tick(@)]
  <2>1. InterruptsOn /\ irq_raw_handler(rem)
    BY <1>5 DEF TimerInterrupt
  <2>2. rem \in [Structs -> Int]
    <3>1. Tick(remain[current]) \in Int
      BY <1>1 DEF Tick
    <3> QED BY <1>1, <3>1
  <2> HIDE DEF rem
  <2> QED BY <2>1, <2>2, AnyInterruptAdvances
<1>6. CASE OtherInterrupt
  BY <1>1, <1>6, AnyInterruptAdvances DEF OtherInterrupt
<1> QED BY <1>2, <1>3, <1>4, <1>5, <1>6 DEF Next

\* A task that waits moves only toward the processor, one place with every call
\* of schedule that finds a task, and the timer leaves no turn without an end,
\* as long as no interrupt takes the processor from task_start before it has
\* set current: the steps that WaitingTasksRun is made of.
THEOREM TurnsTaken == Spec => ([][~ StartInterrupted]_vars => TurnsAreTaken)
<1>1. IInv /\ [Next]_vars /\ [~ StartInterrupted]_vars => [QueueAdvances /\ TimerEndsTurns]_vars
  <2>1. StartInterrupted => vars' # vars
    BY DEF StartInterrupted, vars
  <2> QED BY <2>1, StepTakesTurns
<1> QED BY <1>1, Invariance, PTL DEF Spec, TurnsAreTaken
=============================================================================
