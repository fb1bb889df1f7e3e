SPECIFICATION FairSpec
CONSTANTS
    fileA = fileA
    fileB = fileB
    fileC = fileC
    fileD = fileD
    None = None
    Files <- MCFiles
    Wanted <- MCWanted
    Blocks <- MCBlocks
    Refusable = {fileC}
    Unwritable = {fileC}
    MAX_DOWNLOAD_WINDOW = 3
    blockspersnap = 2
    MAX_MSG_BLOCKS = 2
    SHORT_BITS = 4
    MaxInFlight = 4
INVARIANTS
    FilesIntact
    AcksMatch
PROPERTY EventuallyFinished
CHECK_DEADLOCK FALSE
