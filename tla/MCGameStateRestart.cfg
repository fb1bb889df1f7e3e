SPECIFICATION LiveSpec
CONSTANTS
    Pure = TRUE
    Downloads = {"none"}
    MaxMaps = 1
    MaxRestarts = 1
    MaxVidRestarts = 0
    MaxInFlight = 2
PROPERTIES RestartCaught
CHECK_DEADLOCK FALSE
