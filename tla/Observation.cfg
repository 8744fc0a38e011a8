SPECIFICATION FairObserveSpec
CONSTANTS
    p = p
    q = q
    g = g
    h = h
    u = u
    Runs <- MCRuns
    Emitters <- MCEmitters
    RunOf <- MCRunOf
    Engine = {g, h}
    Polite = {p}
    Slots = 2
    MaxRecords = 2
    EngineLabel = "public"
    Labels = {"", "public", "other"}
INVARIANTS
    SlotsAreAccounted
PROPERTIES
    
    EmittersFinish
    OnlyStuckRemain
CHECK_DEADLOCK FALSE
