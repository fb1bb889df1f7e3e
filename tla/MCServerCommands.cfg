SPECIFICATION FairSpec
CONSTANTS
    MAX_RELIABLE_COMMANDS = 2
    LongValues = {2}
    MaxChunks = 2
    MaxCommands = 3
    MaxValues = 3
    MaxMaps = 2
    MaxToClient = 1
    MaxToServer = 1
INVARIANTS
    AcknowledgesAgree
    CommandsBeforeSnapshot
    ConfigstringCurrent
    UnscramblesBelowLimit
PROPERTIES
    ImplementsReliableCommands
    EventuallyReceived
