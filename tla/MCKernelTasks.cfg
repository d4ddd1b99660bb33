SPECIFICATION FairSpec
CONSTANTS
    Tasks <- MCTasks
    Swapper <- MCSwapper
    Active = active
    NULL = NULL
    Laps = 3
INVARIANTS
    RunListIntact
    SwitchesSafe
PROPERTIES
    ImplementsRoundRobin
    EveryTaskRuns
