SPECIFICATION Spec
CONSTANTS
    SocketCap = 2
    EntitySends = {"ActivationGranted", "ActivationDenied", "PositiveAck", "NegativeAck",
                   "DiagnosticNack", "DiagnosticMessage", "AliveCheckRequest", "Other",
                   "Malformed"}
    EntityBudget = 2
    MaxRequest = 3
    ControlCap = 2
    UpdateCap = 2
    Activate = FALSE
    Patient = TRUE
PROPERTIES
    NegativeAckFailsSend
CHECK_DEADLOCK FALSE
