SPECIFICATION FairFileSpec
CONSTANTS
    x = x
    y = y
    k = k
    l = l
    Free = Free
    Calls <- MCCalls
    Closers <- MCClosers
    Edits <- MCEdits
    Unwritable <- MCEdits
    Helped = TRUE
INVARIANTS
    NoSandboxLeft
    EffectsAreTold
    RootIsSound
PROPERTIES
    TeardownIsFinal
    ShutEndsProcesses
CHECK_DEADLOCK FALSE
