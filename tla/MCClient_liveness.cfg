SPECIFICATION FairSpec
CONSTANTS
    SocketCap = 2
    EntitySends = {"ActivationGranted", "DiagnosticMessage", "AliveCheckRequest"}
    EntityBudget = 2
    MaxRequest = 3
    ControlCap = 2
    UpdateCap = 2
    Activate = TRUE
    Patient = FALSE
PROPERTIES
    RequestsAnswered
    ShutDownEnds
CHECK_DEADLOCK FALSE
