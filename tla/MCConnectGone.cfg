SPECIFICATION LiveSpec
CONSTANTS
    MAX_CHALLENGES = 1
    LanClient = TRUE
    MaxAttempts = 1
    MaxDisturbances = 1
    MaxInFlight = 1
PROPERTIES
    DroppedClientLearns
CHECK_DEADLOCK FALSE
