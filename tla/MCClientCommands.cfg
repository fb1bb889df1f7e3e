SPECIFICATION FairSpec
CONSTANTS
    MAX_RELIABLE_COMMANDS = 2
    GameCommands = {2, 3}
    FloodProtect = FALSE
    MaxCommands = 4
    MaxInFlight = 3
INVARIANTS
    TypeOK
    AcknowledgesAgree
    CommandsBeforeUsercmds
    UnscramblesBelowLimit
PROPERTIES
    EventuallyExecuted
    ImplementsReliableCommands
