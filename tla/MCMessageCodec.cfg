SPECIFICATION FairSpec
CONSTANTS
    U32Max = 40
    Messages <- MCMessages
    ForeignFrames <- MCForeignFrames
    Chunks = {1, 7, 8}
    MaxFrames = 2
INVARIANT TypeOK
PROPERTIES
    StreamImplemented
    FramesAreTaken
CHECK_DEADLOCK FALSE
