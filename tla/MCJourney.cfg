SPECIFICATION Spec
CONSTANTS
    Scenarios <- MCScenarios
    EliteFloor = 1
    MerchantFloor = 2
    TreasureFloor = 1
INVARIANTS
    TypeOK
    ListenersAreOwned
    PowersEarned
    PickupsOnce
    CountersKept
    RevivesOnce
    MapClimbs
