\* Ends when the days or the slots are used up.
CONSTANTS
    None = None
    MonthLengths <- MCMonthLengths
    Stride = 2
    Summer <- MCSummer
    YearStart = 2
    Retention = 2
    Charges <- MCCharges
    Riders = 1
    Tier1 = 3
    Tier2 = 6
    PerDay = 2
    PeriodDays = 3
    Energies <- MCEnergies
    Horizon = 6
    WindowStart = 2
    WindowEnd = 8
    PerHour = 2
    Rolling = 3
    SeedReach = 4
    StartsAt = 8
    ResetSlots = {2, 3, 20}
    MayMiss = TRUE
    Packs = {p1, p2, p3}
    MaxSamples = 2
    Readings <- MCConsistent
    Ids = {"rack-1", "rack-2", "rack-3"}
    Addresses = {1, 2}
    BaseProfiles <- MCProfiles
    Batteries <- MCBatteries
    MaxRows = 3
    MaxBatteries = 2
SYMMETRY PackSymmetry
SPECIFICATION PageSpec
INVARIANTS
    PageTypeOK
    BillsAreOfTheEnergyUsed
    BlocksAddUp
    BarsAddUp
    RackIsItsPacks
    CardsAreTheBatteries
CHECK_DEADLOCK FALSE
