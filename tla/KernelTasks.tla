---------------------------- MODULE KernelTasks ----------------------------
(***************************************************************************)
(* The tasks of the kernel: the run list of kernel/scheduler.c, start.c,   *)
(* and task_switch of arch/x86/setup.c with the two TSS descriptors it     *)
(* alternates between.  Interrupts are off and a task leaves the processor *)
(* only through schedule, so a call is one step.                           *)
(*                                                                         *)
(* A task stands for its struct task, the struct task_state behind it and  *)
(* the stack above both; they share one aligned block of two pages, from   *)
(* which current_task finds the struct by the stack pointer alone.  It is  *)
(* named by the address of its task_state, the set of the bits in it.      *)
(***************************************************************************)
EXTENDS Lists, Descriptors, SequencesExt

CONSTANTS Tasks,
          Swapper,      \* the task on the stack of boot.S
          Active,       \* the head of the run list
          NULL,
          Laps          \* bound: turns are counted modulo Laps

ASSUME TasksAssumption ==
    /\ Tasks \subseteq (SUBSET (0 .. 31)) \ {{}}
    /\ Swapper \in Tasks /\ IsFiniteSet(Tasks)
    /\ Active \notin Tasks /\ NULL \notin Tasks \cup {Active} /\ Active # NULL
    /\ Laps \in Nat \ {0, 1}

VARIABLES links,    \* next and prev of active and of every task->link
          gdt,      \* selector -> the descriptor behind it
          tr,       \* task register: the selector and the base it loaded
          state,    \* task -> its struct task_state
          cpu,      \* the registers that a hardware task switch replaces
          life      \* task -> none, new (task_init) or ready (schedule_task)

vars == <<links, gdt, tr, state, cpu, life>>

TSS1 == 5
TSS2 == 6
Selectors == {0, TSS1, TSS2}
Nodes == Tasks \cup {Active, NULL}

\* The fields of struct task_state that matter: the stack in esp, the turns
\* that the code on that stack has counted (all else in eip and the general
\* registers), the page directory, and the field that prev_tss names.
Zeroed == [esp |-> NULL, turns |-> 0, cr3 |-> NULL, prev_tss |-> 0]

current_task == cpu.esp

\* The memory of alloc_task and of boot.S's stack is cleared.
Init ==
    /\ links = LET zero == [n \in Nodes |-> NULL]
               IN  list_init_head([next |-> zero, prev |-> zero], Active)
    /\ gdt = [s \in Selectors |-> {}]
    /\ tr = [selector |-> 0, base |-> {}]
    /\ state = [t \in Tasks |-> Zeroed]
    /\ cpu = [esp |-> Swapper, turns |-> 0, cr3 |-> "swapper_page_dir"]
    /\ life = [t \in Tasks |-> IF t = Swapper THEN "ready" ELSE "none"]

SizeofTaskState == {3, 5, 6}        \* 104

\* The descriptor of a task_state that is free.
FreeTss(task) == init_gdt_segment(SizeofTaskState, task, FREE_TSS_TYPE)

-----------------------------------------------------------------------------
(* A name with a suffix is its prefix with a bug, for the mutation runs.   *)

\* Variant: no page directory.
SwapperState_no_cr3 == [Zeroed EXCEPT !.prev_tss = TSS2]

\* What setup_swapper leaves in the task_state of the running task.
SwapperState == [Zeroed EXCEPT !.prev_tss = TSS2, !.cr3 = "swapper_page_dir"]

\* load_tr marks the descriptor busy.
setup_swapper ==
    /\ tr.selector = 0
    /\ state' = [state EXCEPT ![current_task] = SwapperState]
    /\ gdt' = [gdt EXCEPT ![TSS1] = MarkBusy(FreeTss(current_task))]
    /\ tr' = [selector |-> TSS1, base |-> current_task]
    /\ UNCHANGED <<links, cpu, life>>

\* Calls of tasks come behind setup_arch.
Ready == tr.selector # 0

\* alloc_task and task_init, called by the running task.
task_init(t) ==
    /\ Ready /\ life[t] = "none"
    /\ state' = [state EXCEPT ![t] = [Zeroed EXCEPT !.esp = t, !.cr3 = "swapper_page_dir"]]
    /\ life' = [life EXCEPT ![t] = "new"]
    /\ UNCHANGED <<links, gdt, tr, cpu>>

schedule_task(t) ==
    /\ life[t] = "new"
    /\ links' = list_insert_before(links, Active, t)
    /\ life' = [life EXCEPT ![t] = "ready"]
    /\ UNCHANGED <<gdt, tr, state, cpu>>

-----------------------------------------------------------------------------
\* The processor's task switch through the descriptor at selector: it faults
\* if that is not one of a task that is free, saves the registers where tr
\* points, and takes the others from where the descriptor points.  cr3 and
\* prev_tss are not saved.
ljmp(selector, table, states, regs) ==
    LET to    == SegBase(table[selector])
        saved == [states EXCEPT ![tr.base].esp = regs.esp, ![tr.base].turns = regs.turns]
    IN  /\ IsTss(table[selector]) /\ ~SegBusy(table[selector])
        /\ SegLimit(table[selector]) = SizeofTaskState
        /\ state' = saved
        /\ gdt' = [s \in Selectors |-> IF s = tr.selector THEN MarkFree(table[s])
                                       ELSE IF s = selector THEN MarkBusy(table[s])
                                       ELSE table[s]]
        /\ tr' = [selector |-> selector, base |-> to]
        /\ cpu' = [esp |-> saved[to].esp, turns |-> saved[to].turns, cr3 |-> saved[to].cr3]

\* Variant: the next task comes back to the descriptor it was loaded from.
PrevTss_same(tss) == tss

\* The descriptor that the next task finds in its prev_tss, when it is loaded
\* through tss.
PrevTss(tss) == IF tss = TSS1 THEN TSS2 ELSE TSS1

\* Variant: the state of the task that leaves.
NextState_prev(next) == current_task

\* The task_state that the free descriptor is made to point to.
NextState(next) == next

task_switch(next, regs) ==
    LET tss == state[current_task].prev_tss
    IN  ljmp(IF tss = TSS1 THEN TSS1 ELSE TSS2,
             [gdt EXCEPT ![tss] = FreeTss(NextState(next))],
             [state EXCEPT ![next].prev_tss = PrevTss(tss)],
             regs)

\* The loops of start_kernel and init call schedule and count a turn.
schedule ==
    LET next == links.next[Active]
        regs == [cpu EXCEPT !.turns = (@ + 1) % Laps]
    IN  /\ Ready
        /\ UNCHANGED life
        /\ IF list_empty(links, Active)
           THEN cpu' = regs /\ UNCHANGED <<links, gdt, tr, state>>
           ELSE /\ links' = list_insert_before(list_remove(links, next), Active, current_task)
                /\ task_switch(next, regs)

Next ==
    \/ setup_swapper
    \/ schedule
    \/ \E t \in Tasks : task_init(t) \/ schedule_task(t)

Spec == Init /\ [][Next]_vars

\* start_kernel gets to its loop, and start_kernel and init call schedule for ever.
FairSpec == Spec /\ WF_vars(setup_swapper) /\ WF_vars(schedule)

-----------------------------------------------------------------------------
(* Properties.                                                             *)

RunList == Elements(links, Active)

ReadyTasks == {t \in Tasks : life[t] = "ready"}

TypeOK ==
    /\ links \in [next : [Nodes -> Nodes], prev : [Nodes -> Nodes]]
    /\ gdt \in [Selectors -> SUBSET (0 .. 63)]
    /\ tr \in [selector : Selectors, base : Tasks \cup {{}}]
    /\ state \in [Tasks -> [esp : Tasks \cup {NULL}, turns : 0 .. Laps - 1,
                            cr3 : {"swapper_page_dir", NULL}, prev_tss : Selectors]]
    /\ cpu \in [esp : Tasks \cup {NULL}, turns : 0 .. Laps - 1, cr3 : {"swapper_page_dir", NULL}]
    /\ life \in [Tasks -> {"none", "new", "ready"}]

\* Whatever was inserted and removed, the links go round through all tasks that
\* wait for the processor, each of them once, forwards and backwards.
RunListIntact ==
    /\ Linked(links, Active, RunList)
    /\ IsInjective(RunList)
    /\ ToSet(RunList) = ReadyTasks \ {current_task}

\* Between switches, the processor saves into the task_state of the task whose
\* stack it is on, through the one busy descriptor; the other descriptor is the
\* one this task will rewrite; and what a waiting task will be loaded from has
\* its own stack and the page directory.
SwitchesSafe ==
    Ready =>
        /\ tr.base = current_task /\ cpu.cr3 = "swapper_page_dir"
        /\ \A s \in Selectors : SegBusy(gdt[s]) <=> s = tr.selector
        /\ SegBase(gdt[tr.selector]) = current_task
        /\ {tr.selector, state[current_task].prev_tss} = {TSS1, TSS2}
        /\ \A t \in Tasks : life[t] # "none" => state[t].cr3 = "swapper_page_dir"
        /\ \A t \in ReadyTasks \ {current_task} : state[t].esp = t

TurnsOf(t) ==
    IF t = current_task THEN cpu.turns
    ELSE IF life[t] = "ready" THEN state[t].turns ELSE 0

Ring == INSTANCE RoundRobin WITH
            ring <- <<current_task>> \o RunList, done <- [t \in Tasks |-> TurnsOf(t)]

\* Tasks take turns in the order of the ring, and each goes on with the turns
\* it had counted: no switch loses, swaps or replays a context.
ImplementsRoundRobin == Ring!Spec

\* Every task that is scheduled runs, as long as tasks keep calling schedule.
EveryTaskRuns == \A t \in Tasks : (life[t] = "ready") ~> (current_task = t)
=============================================================================
