SPECIFICATION LiveSpec
CONSTANTS
    MAX_CHALLENGES = 1
    LanClient = FALSE
    MaxAttempts = 2
    MaxDisturbances = 1
    MaxInFlight = 1
PROPERTIES
    EventuallyAnswered
    SlotFreed
CHECK_DEADLOCK FALSE
