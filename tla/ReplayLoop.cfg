\* The loop alone, the buffer always on: two streams of three rows, pages of
\* two, so that a backfill takes one page or two and may fail within a page.
CONSTANTS
    MaxStreams = 2
    MaxSeq = 3
    MaxPolls = 4
    BufferModes = {TRUE}
    Tasks = {loop}
    Loop = loop
    PageSize = 2
    MaxPages = 2
    LooseCap = 0
    NoSnapshot = NoSnapshot
SPECIFICATION Spec
INVARIANTS
    TypeOK
    NoGap
    MarkerBacked
    Faithful
    SamplesInOrder
    LabelsInStep
