SPECIFICATION Spec
CONSTANTS
    a = a
    b = b
    Engines <- MCTwo
    Turns <- MCTurns
    Dims <- MCDims
    MaxSpend <- MCRoom
    Spends <- MCUnit
    MaxModelCalls = 3
    MaxToolCalls = 1
    StepBudgets = {1}
    NC = 1
    Remote = {}
    NTools = 1
    Sandboxed = FALSE
    HasApprover = TRUE
    AutoCompaction = TRUE
    Parallel = FALSE
    Verdicts = {"allow"}
    MaxBatch = 1
    MaxEvents = 1
    MaxTrouble = 2
    MaxFaults = 1
    Interrupts = {}
    Crashes = TRUE
INVARIANTS
    ReplayAccepts
    SuccessIsAccounted
    FinishedIsAccounted
PROPERTIES
    EffectsAuthorized
    ImplementsDurableExecution
SYMMETRY MCSymmetry
CHECK_DEADLOCK FALSE
