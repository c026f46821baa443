\* A forced cycle and the loop: a marker overtakes rows never archived.
CONSTANTS
    MaxStreams = 1
    MaxSeq = 2
    MaxPolls = 3
    BufferModes = {TRUE}
    Tasks = {loop, force}
    Loop = loop
    PageSize = 2
    MaxPages = 2
    LooseCap = 0
    NoSnapshot = NoSnapshot
SPECIFICATION Spec
INVARIANT
    NoGap
