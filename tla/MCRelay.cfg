SPECIFICATION FairSpec
CONSTANTS
    MAX_BUFFER = 1
    WINDOW = 1
    MaxRequest = 2
    MaxResponse = 2
    MaxFailovers = 1
INVARIANTS
    TypeOK
    NothingLost
    EndAfterData
    NoStalledOutput
PROPERTIES
    PairEnds
    ResponseDelivered
