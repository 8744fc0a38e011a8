SPECIFICATION Spec
CONSTANTS
    Handles = {g, h}
    None = None
    MaxFiles = 2
    MaxVersion = 2
    MaxBatch = 2
INVARIANTS
    AckedSurvive
CHECK_DEADLOCK FALSE
