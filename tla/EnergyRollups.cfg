\* One reading before the midnight, three after it; retention cuts at midnight or
\* within the second day.
CONSTANTS
    Times = {22, 26, 44}
    Samples <- MCSamples
    Cutoffs = {24, 30}
    PageSize = 2
    FirstDay <- MCFirstDay
    Year = 2026
    UtcShift = 7
SPECIFICATION FairSpec
INVARIANTS
    TypeOK
    RollupIsTheCounter
    MaximaCover
PROPERTY ArchiveFillsIn
