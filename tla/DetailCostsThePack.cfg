\* One pack, every command known: an empty serial number takes it offline.
CONSTANTS
    None = None
    Packs <- MCOnePack
    Protocol = "pylontech"
    Disabled = {}
    Payloads <- MCPayloads
    Unknown = {}
    MaxPackPolls = 2
    MaxBus = 1
    Transport = "serial"
    Retries = 1
    MaxPolls = 1
    MaxWire = 1
    MaxPower = 1
    MaxCells = 1
    MaxRanges = 1
SPECIFICATION PollSpec
INVARIANT DetailNeverCostsThePack
CHECK_DEADLOCK FALSE
