SPECIFICATION FairSpec
CONSTANTS
    SocketCap = 2
    EntitySends = {"AliveCheckRequest"}
    EntityBudget = 3
    MaxRequest = 3
    ControlCap = 2
    UpdateCap = 1
    Activate = FALSE
    Patient = TRUE
PROPERTIES
    RequestsAnswered
CHECK_DEADLOCK FALSE
