SPECIFICATION Spec
CONSTANTS
    a = a
    b = b
    Engines <- MCEngines
    MaxBatch = 2
    MaxModelCalls = 3
    Dims <- MCDims
    MaxSpend <- MCMaxSpend
    Spends <- MCSpends
INVARIANTS
    AtMostOnce
    ResumePointCoversEffects
    SpendWithinBudget
    CallsWithinLimit
    Consistent
PROPERTY
    TerminalIsFinal
CHECK_DEADLOCK FALSE
SYMMETRY MCSymmetry
