SPECIFICATION Spec
CONSTANTS
    near = near
    far = far
    Here = Here
    IDs = {a, b, c}
    MaxTurns = 4
    MaxBatch = 2
    Compacting = TRUE
    Candidates <- MCCandidates
    Remote <- MCRemote
    HasApprover = TRUE
    Requests <- MCRequests
    InitialClasses = {"public"}
    ResultClasses = {"public", "confidential", "secret"}
INVARIANTS
    UniqueToolCallIDs
CHECK_DEADLOCK FALSE
