SPECIFICATION FairSpec
CONSTANTS
    a = a
    b = b
    Engines <- MCOne
    Turns <- MCTurns
    Dims <- MCDims
    MaxSpend <- MCMaxSpend
    Spends <- MCUnit
    MaxModelCalls = 1
    MaxToolCalls = 2
    StepBudgets = {0, 1}
    NC = 2
    Remote = {2}
    NTools = 1
    Sandboxed = TRUE
    HasApprover = TRUE
    AutoCompaction = FALSE
    Parallel = TRUE
    Verdicts = {"approve", "deny"}
    MaxBatch = 2
    MaxEvents = 2
    MaxTrouble = 0
    MaxFaults = 0
    Interrupts = {"user", "wall"}
    Crashes = FALSE
INVARIANTS
    CheckpointCoversTools
PROPERTIES
    EffectsAuthorized
    ImplementsDurableExecution
    EngineReturns
    WorkloadTerminates
CHECK_DEADLOCK FALSE
