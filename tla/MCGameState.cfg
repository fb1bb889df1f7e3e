SPECIFICATION LiveSpec
CONSTANTS
    Pure = TRUE
    Downloads = {"none", "id", "http"}
    MaxMaps = 2
    MaxRestarts = 1
    MaxVidRestarts = 1
    MaxInFlight = 2
INVARIANTS
    TypeOK
    MovesOfThisMap
    ActiveHoldsGamestate
    DroppedOnlyIfMisled
PROPERTIES
    EventuallyInWorld
CHECK_DEADLOCK FALSE
