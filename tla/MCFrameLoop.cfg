SPECIFICATION Spec
CONSTANTS
    MAX_QUED_EVENTS = 2
    MAX_PUSHED_EVENTS = 1
    MAX_LOOPBACK = 2
    MaxEvents = 2
    MaxPackets = 3
    MaxErrors = 1
    MaxDepth = 2
INVARIANTS
    EventsInOrder
    DataFreedOnce
    SentThisFrameHeard
PROPERTIES
    NewServerHearsNoOld
    LoopbackIsChannel
