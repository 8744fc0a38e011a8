SPECIFICATION Spec
CONSTANTS
    a = a
    b = b
    Engines <- MCTwo
    Turns <- MCTurns
    Dims <- MCDims
    MaxSpend <- MCMaxSpend
    Spends <- MCUnit
    MaxModelCalls = 2
    MaxToolCalls = 2
    StepBudgets = {1}
    NC = 1
    Remote = {}
    NTools = 1
    Sandboxed = FALSE
    HasApprover = FALSE
    AutoCompaction = FALSE
    Parallel = FALSE
    Verdicts = {"allow"}
    MaxBatch = 1
    MaxEvents = 1
    MaxTrouble = 2
    MaxFaults = 0
    Interrupts = {"wall"}
    Crashes = TRUE
INVARIANTS
    FinishedIsAccounted
SYMMETRY MCSymmetry
CHECK_DEADLOCK FALSE
