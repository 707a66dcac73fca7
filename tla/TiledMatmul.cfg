CONSTANTS
    kT = 2
    kChK = 2
    Packet = 2
    Dim = 2
    Products <- MCProducts
    Flips <- MCFlips
    Resident = 2
    NaN = NaN

SPECIFICATION FairSpec

INVARIANTS
    TypeOK
    TilesStable
    ResultExact

PROPERTY LaunchEnds
