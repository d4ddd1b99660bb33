--------------------------- MODULE MCKernelTasks ---------------------------
(* An instance of KernelTasks for TLC: the swapper and three more tasks,   *)
(* at addresses that differ in every part of a descriptor's base.          *)
EXTENDS KernelTasks

MCSwapper == {4, 13, 20, 30, 31}
MCTasks == {MCSwapper, {4, 14, 20, 30, 31}, {4, 13, 22, 30, 31}, {4, 13, 20, 26, 30, 31}}
=============================================================================
