----------------------------- MODULE Hw3Serial -----------------------------
(***************************************************************************)
(* The serial line of hw3: the interrupt handler of serial.c behind irq.c  *)
(* and pic.c, its ring buffer, and the two tasks of main.c that hand what  *)
(* was received to the screen through one shared pointer.                  *)
(*                                                                         *)
(* The tasks interleave at every access to what they share, as the timer   *)
(* can switch them anywhere (Hw3Scheduler); their calls of schedule add    *)
(* nothing to that.  No task runs while the handler does.  The UART and    *)
(* the interrupt controller are external and act at any time.              *)
(*                                                                         *)
(* The bytes that arrive are never 0.  The code hands a chunk on as a      *)
(* string, so that one which is would hide the rest of its chunk: what is  *)
(* said of printed bytes is said of lines that carry none.                 *)
(***************************************************************************)
EXTENDS Naturals, Sequences, SequencesExt

CONSTANTS RING_BUFFER_SIZE,
          ChunkSize,        \* sizeof(buffer) - 1 in task1_function
          FifoSize,         \* of the UART
          FifoTrigger,      \* FIFO_BUFFER_14: bytes that raise an interrupt at once
          MaxBytes          \* bound: bytes that arrive, numbered in their order

ASSUME SerialAssumption ==
    /\ {RING_BUFFER_SIZE, ChunkSize, FifoSize, FifoTrigger} \subseteq Nat \ {0}
    /\ FifoTrigger <= FifoSize /\ MaxBytes \in Nat

VARIABLES setup,            \* what main does next, then "tasks"
          fifo, ie,         \* the UART's bytes, and ENABLE_RX_DATA
          timeout,          \* bytes have waited for some time: interrupt below the trigger
          masked, irr, isr, \* line 4 of the controller: mask, request, in service
          handler, data,    \* where irq_raw_handler is, and the byte it holds
          rx_buffer,        \* buffer, begin, end, size
          msg,              \* the word at address 0, which both tasks take *msg for
          buffer,           \* task1's, with its terminator
          task1, count,     \* where task1 is, and its variable
          task2, str,       \* where task2 is, and its position in the string
          arrived, accepted, printed    \* bytes so far: received, put, shown

uart  == <<fifo, ie, timeout, arrived>>
line  == <<masked, irr, isr>>
tasks == <<msg, buffer, task1, count, task2, str, printed>>
vars  == <<setup, uart, line, handler, data, rx_buffer, accepted, tasks>>

NUL == 0
Bytes == 1 .. MaxBytes      \* none is NUL: an assumption about the line

\* Nothing clears address 0.
Init ==
    /\ setup = "serial_setup"
    /\ fifo = <<>> /\ ie = FALSE /\ timeout = FALSE
    /\ masked = TRUE /\ irr = FALSE /\ isr = FALSE
    /\ handler = "idle" /\ data = NUL
    /\ rx_buffer = [buffer |-> [i \in 0 .. RING_BUFFER_SIZE - 1 |-> NUL],
                    begin |-> 0, end |-> 0, size |-> 0]
    /\ msg \in {"NULL", "garbage"}
    /\ buffer = [i \in 0 .. ChunkSize |-> NUL]
    /\ task1 = "wait" /\ count = 0
    /\ task2 = "wait" /\ str = 0
    /\ arrived = 0 /\ accepted = <<>> /\ printed = <<>>

-----------------------------------------------------------------------------
(* The UART and the controller.                                            *)

\* The UART's interrupt output.
Line == ie /\ (Len(fifo) >= FifoTrigger \/ timeout)

\* A rising edge is latched as a request; when the output falls again a
\* controller may drop it or keep it.
Latch ==
    /\ irr' \in IF Line' /\ ~Line THEN {TRUE}
                ELSE IF Line' THEN {irr} ELSE {irr, FALSE}
    /\ UNCHANGED <<masked, isr>>

\* A byte arrives; the FIFO must be enabled and have room, or it is not received.
Arrive ==
    /\ setup # "serial_setup" /\ arrived < MaxBytes /\ Len(fifo) < FifoSize
    /\ fifo' = Append(fifo, arrived + 1)
    /\ arrived' = arrived + 1
    /\ UNCHANGED <<ie, timeout>>
    /\ Latch
    /\ UNCHANGED <<setup, handler, data, rx_buffer, accepted, tasks>>

Timeout ==
    /\ fifo # <<>> /\ ~timeout
    /\ timeout' = TRUE
    /\ UNCHANGED <<fifo, ie, arrived>>
    /\ Latch
    /\ UNCHANGED <<setup, handler, data, rx_buffer, accepted, tasks>>

-----------------------------------------------------------------------------
(* main, with interrupts off up to task_start.                             *)

\* serial_setup up to the FIFO control register.
enable_fifo ==
    /\ setup = "serial_setup"
    /\ setup' = "irq_unmask"
    /\ UNCHANGED <<uart, line, handler, data, rx_buffer, accepted, tasks>>

irq_unmask ==
    /\ setup = "irq_unmask"
    /\ masked' = FALSE
    /\ setup' = "enable_rx_data"
    /\ UNCHANGED <<uart, irr, isr, handler, data, rx_buffer, accepted, tasks>>

enable_rx_data ==
    /\ setup = "enable_rx_data"
    /\ ie' = TRUE
    /\ setup' = "tasks"
    /\ UNCHANGED <<fifo, timeout, arrived>>
    /\ Latch
    /\ UNCHANGED <<handler, data, rx_buffer, accepted, tasks>>

-----------------------------------------------------------------------------
(* irq_raw_handler and serial_irq_handler.  A name with a suffix is its    *)
(* prefix with a bug, for the mutation runs.                               *)

\* The processor takes the interrupt between two steps of a task.
Interrupt ==
    /\ setup = "tasks" /\ handler = "idle"
    /\ irr /\ ~masked /\ ~isr
    /\ irr' = FALSE /\ isr' = TRUE
    /\ handler' = "status"
    /\ UNCHANGED <<setup, uart, masked, data, rx_buffer, accepted, tasks>>

\* The line status register.
read_status ==
    /\ handler = "status"
    /\ handler' = IF fifo # <<>> THEN "data" ELSE "eoi"
    /\ UNCHANGED <<setup, uart, line, data, rx_buffer, accepted, tasks>>

\* Reading the data register ends the timeout.
read_data ==
    /\ handler = "data"
    /\ data' = Head(fifo)
    /\ fifo' = Tail(fifo) /\ timeout' = FALSE
    /\ UNCHANGED <<ie, arrived>>
    /\ Latch
    /\ handler' = "put"
    /\ UNCHANGED <<setup, rx_buffer, accepted, tasks>>

\* Variant: also when it is full.
ring_buffer_full_never == FALSE

ring_buffer_full == rx_buffer.size = RING_BUFFER_SIZE

ring_buffer_putchar(r, d) ==
    [r EXCEPT !.buffer[r.end] = d, !.end = (@ + 1) % RING_BUFFER_SIZE, !.size = @ + 1]

\* Variant: one byte an interrupt.
AfterPut_once == "eoi"

\* The handler looks at the status again.
AfterPut == "status"

put ==
    /\ handler = "put"
    /\ IF ring_buffer_full THEN UNCHANGED <<rx_buffer, accepted>>
       ELSE /\ rx_buffer' = ring_buffer_putchar(rx_buffer, data)
            /\ accepted' = Append(accepted, data)
    /\ data' = NUL
    /\ handler' = AfterPut
    /\ UNCHANGED <<setup, uart, line, tasks>>

\* Then the handler returns, or schedule switches the tasks.
pic_eoi ==
    /\ handler = "eoi"
    /\ isr' = FALSE
    /\ handler' = "idle"
    /\ UNCHANGED <<setup, uart, masked, irr, data, rx_buffer, accepted, tasks>>

Handler == read_status \/ read_data \/ put \/ pic_eoi

-----------------------------------------------------------------------------
(* The tasks.                                                              *)

TasksRun == setup = "tasks" /\ handler = "idle"

Task1Same == UNCHANGED <<setup, uart, line, handler, data, accepted, task2, str, printed>>

\* while (*msg)
task1_wait ==
    /\ TasksRun /\ task1 = "wait" /\ msg = "NULL"
    /\ task1' = "read"
    /\ Task1Same /\ UNCHANGED <<rx_buffer, msg, buffer, count>>

Smaller(a, b) == IF a < b THEN a ELSE b

\* The i-th byte from the front of the ring.
RingByte(i) == rx_buffer.buffer[(rx_buffer.begin + i) % RING_BUFFER_SIZE]

\* serial_read keeps interrupts off.
serial_read ==
    LET n == Smaller(rx_buffer.size, ChunkSize)
    IN  /\ TasksRun /\ task1 = "read"
        /\ buffer' = [i \in DOMAIN buffer |-> IF i < n THEN RingByte(i) ELSE buffer[i]]
        /\ rx_buffer' = [rx_buffer EXCEPT !.begin = (@ + n) % RING_BUFFER_SIZE, !.size = @ - n]
        /\ count' = n
        /\ task1' = "terminate"
        /\ Task1Same /\ UNCHANGED msg

\* Variant: the terminator stays where it was.
Terminated_not == buffer

Terminated == [buffer EXCEPT ![count] = NUL]

task1_terminate ==
    /\ TasksRun /\ task1 = "terminate"
    /\ buffer' = Terminated
    /\ task1' = "publish"
    /\ Task1Same /\ UNCHANGED <<rx_buffer, msg, count>>

task1_publish ==
    /\ TasksRun /\ task1 = "publish"
    /\ msg' = IF count # 0 THEN "buffer" ELSE msg
    /\ task1' = "wait"
    /\ Task1Same /\ UNCHANGED <<rx_buffer, buffer, count>>

Task1 == task1_wait \/ serial_read \/ task1_terminate \/ task1_publish

Task2Same ==
    UNCHANGED <<setup, uart, line, handler, data, rx_buffer, accepted, buffer, task1, count>>

\* while (!*msg), and ptr = *msg.
task2_wait ==
    /\ TasksRun /\ task2 = "wait" /\ msg # "NULL"
    /\ task2' = "puts" /\ str' = 0
    /\ Task2Same /\ UNCHANGED <<msg, printed>>

\* A turn of the loop of myputs.  What stood at address 0 leads to some string
\* that ends.
myputs ==
    /\ TasksRun /\ task2 = "puts"
    /\ IF msg = "buffer" /\ buffer[str] # NUL
       THEN printed' = Append(printed, buffer[str]) /\ str' = str + 1 /\ UNCHANGED task2
       ELSE task2' = "clear" /\ UNCHANGED <<printed, str>>
    /\ Task2Same /\ UNCHANGED msg

task2_clear ==
    /\ TasksRun /\ task2 = "clear"
    /\ msg' = "NULL"
    /\ task2' = "wait"
    /\ Task2Same /\ UNCHANGED <<str, printed>>

Task2 == task2_wait \/ myputs \/ task2_clear

Main == enable_fifo \/ irq_unmask \/ enable_rx_data

Next == Arrive \/ Timeout \/ Main \/ Interrupt \/ Handler \/ Task1 \/ Task2

Spec == Init /\ [][Next]_vars

\* The processor goes on and takes interrupts, a waiting UART runs into its
\* timeout, and both tasks get the processor (WaitingTasksRun of Hw3Scheduler).
FairSpec ==
    /\ Spec
    /\ WF_vars(Main) /\ WF_vars(Timeout) /\ WF_vars(Interrupt) /\ WF_vars(Handler)
    /\ WF_vars(Task1) /\ WF_vars(Task2)

-----------------------------------------------------------------------------
(* Properties.                                                             *)

InRing == [i \in 1 .. rx_buffer.size |-> RingByte(i - 1)]

\* The bytes of buffer from position i to the terminator or to n.
From(i, n) ==
    LET end == CHOOSE e \in i .. n :
                    /\ e = n \/ buffer[e] = NUL
                    /\ \A j \in i .. e - 1 : buffer[j] # NUL
    IN  SubSeq([j \in 1 .. end |-> buffer[j - 1]], i + 1, end)

\* What task1 has read or published and task2 has not yet shown.
InHand ==
    IF task1 \in {"terminate", "publish"} THEN From(0, count)
    ELSE IF msg = "buffer" /\ task2 = "wait" THEN From(0, ChunkSize)
    ELSE IF msg = "buffer" /\ task2 = "puts" THEN From(str, ChunkSize)
    ELSE <<>>

TypeOK ==
    /\ setup \in {"serial_setup", "irq_unmask", "enable_rx_data", "tasks"}
    /\ fifo \in Seq(Bytes) /\ Len(fifo) <= FifoSize
    /\ {ie, timeout, masked, irr, isr} \subseteq BOOLEAN
    /\ handler \in {"idle", "status", "data", "put", "eoi"} /\ data \in Bytes \cup {NUL}
    /\ rx_buffer \in [buffer : [0 .. RING_BUFFER_SIZE - 1 -> Bytes \cup {NUL}],
                      begin : 0 .. RING_BUFFER_SIZE - 1, end : 0 .. RING_BUFFER_SIZE - 1,
                      size : 0 .. RING_BUFFER_SIZE]
    /\ msg \in {"NULL", "garbage", "buffer"}
    /\ buffer \in [0 .. ChunkSize -> Bytes \cup {NUL}]
    /\ task1 \in {"wait", "read", "terminate", "publish"} /\ count \in 0 .. ChunkSize
    /\ task2 \in {"wait", "puts", "clear"} /\ str \in 0 .. ChunkSize
    /\ arrived \in 0 .. MaxBytes
    /\ accepted \in Seq(Bytes) /\ printed \in Seq(Bytes)

\* Every byte that was put into the ring is shown, in the ring or in the buffer
\* between the tasks, in the order it came and once, whatever the tasks and the
\* handler do in between.
NothingLost == accepted = printed \o InHand \o InRing

\* Every byte the UART received leaves the machine's hands: it is shown, unless
\* the ring was full when it was put.
Pending(b) ==
    \/ b \in ToSet(fifo) \cup ToSet(InHand) \cup ToSet(InRing)
    \/ handler = "put" /\ b = data

EverythingPrinted == \A b \in Bytes : Pending(b) ~> ~Pending(b)
=============================================================================
