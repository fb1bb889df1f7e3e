SPECIFICATION Spec
CONSTANTS
    Worlds <- MCWorlds
    Others <- MCOthers
    PACKET_BACKUP = 3
    BACKUP_MARGIN = 0
    numSnapshotEntities = 13
    MAX_PARSE_ENTITIES = 7
    PARSE_MARGIN = 1
    MaxMessages = 6
    MaxMaps = 2
    MaxInFlight = 1
INVARIANTS
    SnapshotsExact
    BasesKept
