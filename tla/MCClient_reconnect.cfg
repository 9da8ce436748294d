SPECIFICATION Spec
CONSTANTS
    SocketCap = 1
    EntitySends = {"PositiveAck", "DiagnosticMessage"}
    EntityBudget = 2
    MaxRequest = 3
    ControlCap = 2
    UpdateCap = 1
    Activate = FALSE
    Patient = TRUE
PROPERTIES
    ReconnectFindsResponse
CHECK_DEADLOCK FALSE
