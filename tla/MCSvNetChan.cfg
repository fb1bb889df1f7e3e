SPECIFICATION SvSpec
CONSTANTS
    Byte <- MCByte
    Messages <- MCMessages
    FRAGMENT_SIZE = 2
    MAX_MSGLEN = 7
    MaxSends = 4
    MaxCommands = 1
INVARIANTS
    OrderKept
    FiledAndKeyed
    DroppedIfMissed
