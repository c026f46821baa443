\* Ends when the polls are used up.
CONSTANTS
    None = None
    Packs <- MCThreePacks
    Protocol = "pylontech"
    Disabled = {1}
    Payloads <- MCPayloads
    Unknown = {"management", "manufacturer"}
    MaxPackPolls = 2
    MaxBus = 2
    Transport = "serial"
    Retries = 1
    MaxPolls = 2
    MaxWire = 1
    MaxPower = 2
    MaxCells = 2
    MaxRanges = 1
SPECIFICATION PollSpec
INVARIANTS
    PollTypeOK
    PacksAreShownAsTheyAre
    StatusTellsThePoll
    RegistersAreTheirOwn
    GridGaugesAgree
CHECK_DEADLOCK FALSE
