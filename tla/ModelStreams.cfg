SPECIFICATION FairSpec
CONSTANTS
    idA = idA
    idB = idB
    Blank = Blank
    IDs = {idA, idB}
    MessageWire <- MCMessageWire
    ChatWire <- MCChatWire
    MaxFrames <- MCMaxFrames
    MaxRetries = 1
INVARIANTS
    WholeTurn
    OneReader
PROPERTIES
    KeepsContract
    StreamReleased
    CancelInterrupts
CHECK_DEADLOCK FALSE
