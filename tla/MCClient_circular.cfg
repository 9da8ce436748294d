SPECIFICATION FairSpec
CONSTANTS
    SocketCap = 1
    EntitySends = {"AliveCheckRequest"}
    EntityBudget = 4
    MaxRequest = 3
    ControlCap = 2
    UpdateCap = 4
    Activate = FALSE
    Patient = TRUE
PROPERTIES
    ShutDownEnds
CHECK_DEADLOCK FALSE
