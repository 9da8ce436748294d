SPECIFICATION Spec
CONSTANTS
    SocketCap = 1
    EntitySends = {"PositiveAck", "NegativeAck", "DiagnosticMessage",
                   "AliveCheckRequest", "Malformed"}
    EntityBudget = 2
    MaxRequest = 4
    ControlCap = 2
    UpdateCap = 1
    Activate = FALSE
    Patient = FALSE
INVARIANTS
    TypeOK
    NoRequestLost
    SupersededIsAbandoned
    PendingIsArmed
    PendingHasSocket
    NoWaitBesideBuffer
PROPERTIES
    BufferOutlivesSocket
    AnswersOnceInOrder
    LoopEndsOnlyForGivenUpCall
CHECK_DEADLOCK FALSE
