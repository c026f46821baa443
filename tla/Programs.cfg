\* The link loses two reads of a sweep, one of a snapshot; 14 reads are too few for
\* some sweeps.  Four things fail around the kiosk.  Commands end.
CONSTANTS
    Ranges <- MCNested
    Stride = 2
    EdgeRead = 3
    MaxReads = 14
    MapRetries = 1
    MaxLinkFailures = 2
    SampledRanges <- MCRanges
    Page <- MCPage
    Telemetry <- MCTelemetry
    Setting = 3
    Value = {0, 1, 65535}
    Undefined = 65535
    SampleChunkSize = 3
    Samples = 2
    ExtraReads = 3
    MaxLostChunks = 1
    Refreshes = {0, 35}
    MaxFaults = 4
SPECIFICATION ProgramSpec
INVARIANTS
    ProgramTypeOK
    MapIsTrueAndComplete
    SnapshotsFindTheSetting
    ScreenMatches
PROPERTIES
    MapEnds
    GivenUpAfterThree
    KioskFollowsMonitor
CHECK_DEADLOCK FALSE
