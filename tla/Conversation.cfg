SPECIFICATION Spec
CONSTANTS
    near = near
    far = far
    Here = Here
    IDs = {a, b, c}
    MaxTurns = 4
    MaxBatch = 2
    Compacting = TRUE
    Candidates <- MCCandidates
    Remote <- MCRemote
    HasApprover = TRUE
    Requests <- MCRequests
    InitialClasses = {"public", "secret"}
    ResultClasses = {"public", "confidential", "secret"}
INVARIANTS
    UniqueUntilSummary
    SecretStays
    SentAsEvaluated
    BaselineKeepsZone
CHECK_DEADLOCK FALSE
