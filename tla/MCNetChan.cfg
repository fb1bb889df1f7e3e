SPECIFICATION Spec
CONSTANTS
    Byte <- MCByte
    Messages <- MCMessages
    FRAGMENT_SIZE = 2
    MAX_MSGLEN = 4
    MaxSends = 4
INVARIANTS
    TypeOK
    DeliveredIntact
    CollectedIsPrefix
    NeverOverflows
PROPERTY ImplementsChannel
