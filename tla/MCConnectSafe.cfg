SPECIFICATION Spec
CONSTANTS
    MAX_CHALLENGES = 2
    LanClient = FALSE
    MaxAttempts = 2
    MaxDisturbances = 1
    MaxInFlight = 2
INVARIANTS
    TypeOK
    ConnectionsAgree
CHECK_DEADLOCK FALSE
