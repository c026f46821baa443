\* A forced cycle interleaved with the loop; restarts switch the buffer on and off, so that
\* history comes and goes.  One page of one row: a backfill may stop with a row missing.
CONSTANTS
    MaxStreams = 1
    MaxSeq = 2
    MaxPolls = 3
    BufferModes = {TRUE, FALSE}
    Tasks = {loop, force}
    Loop = loop
    PageSize = 1
    MaxPages = 1
    LooseCap = 0
    NoSnapshot = NoSnapshot
SPECIFICATION Spec
VIEW WithoutErased
INVARIANTS
    NeverOlder
    LimitIsForExcess
PROPERTY RowsKeepContent
