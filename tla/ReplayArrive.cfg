\* The loop alone under fairness: every sample arrives, and each step is one
\* the abstract archive may take.  Paging delivers the buffer.
CONSTANTS
    MaxStreams = 1
    MaxSeq = 2
    MaxPolls = 4
    BufferModes = {TRUE}
    Tasks = {loop}
    Loop = loop
    PageSize = 1
    MaxPages = 2
    LooseCap = 0
    NoSnapshot = NoSnapshot
SPECIFICATION FairSpec
INVARIANT PagesCoverBuffer
PROPERTIES
    SamplesArrive
    ArchivesSamples
