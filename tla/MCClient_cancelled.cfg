SPECIFICATION Spec
CONSTANTS
    SocketCap = 2
    EntitySends = {"DiagnosticMessage", "AliveCheckRequest"}
    EntityBudget = 2
    MaxRequest = 3
    ControlCap = 2
    UpdateCap = 2
    Activate = FALSE
    Patient = FALSE
INVARIANTS
    LoopSurvives
CHECK_DEADLOCK FALSE
