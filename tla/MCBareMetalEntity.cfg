SPECIFICATION Spec
CONSTANTS
    HeaderSize = 2
    RxCap = 6
    Addresses = {1, 2, 3}
    Clients = {1, 2}
    Lengths <- MCLengths
    MaxFrames = 3
INVARIANTS TypeOK BufferIsWindow NoFrameWaits AnsweredInOrder
    ServedAfterActivation OneTesterPerConnection StatusNeverOvercounts
PROPERTY ChunkingIsInvisible
