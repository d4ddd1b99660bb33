SPECIFICATION Spec
CONSTANTS
    Tasks = {task1, task2, task3}
    Main = task1
    NULL = NULL
    SCHEDULER_TIME_SLICE = 2
    GarbageRemain <- MCGarbageRemain
INVARIANT AddsNewNodes
