\* The loop and a forced poll, two outages, pauses, forced polls or restarts, clocks
\* one tick apart; two admins.
CONSTANTS
    Loop = loop
    Tasks = {loop, forced}
    Gap = 1
    Timeout = 1
    StaleAfter = 4
    OfflineAfter = 5
    Skew = 1
    MaxEvents = 2
    Requests = {r1, r2}
    Blank = ""
    Names = {"", "garage", "default"}
    Numbers = {0, 1, 2, 3, 4}
    Text = Text
    NaN = NaN
    Base <- MCBase
    Junk <- MCJunk
    Patches <- MCPatches
SPECIFICATION StateSpec
INVARIANTS
    StateTypeOK
    ConnectionIsTrue
    ChangesAreNoticed
    PanelShowsWhatHolds
PROPERTY WritesOnlyItsFields
