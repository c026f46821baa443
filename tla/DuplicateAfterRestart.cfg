\* Restarted collector: its first readings carry no label, and are written again.
CONSTANTS
    MaxStreams = 1
    MaxSeq = 2
    MaxPolls = 3
    BufferModes = {TRUE}
    Tasks = {loop}
    Loop = loop
    PageSize = 2
    MaxPages = 2
    LooseCap = 2
    NoSnapshot = NoSnapshot
SPECIFICATION Spec
INVARIANT
    NoDuplicateRows
