SPECIFICATION FairSpec
CONSTANTS
    r1 = r1
    r2 = r2
    info = info
    error = error
    Nobody = Nobody
    Readers <- TwoReaders
    Levels <- TwoLevels
    Wanted <- Filters
    Pages <- PageSizes
    MaxLogRows = 3
    RowsEver = 5
INVARIANTS
    TypeOK
    RingIsNewest
    ReadOnce
PROPERTY MessagesAreLogged
