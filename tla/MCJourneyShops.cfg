SPECIFICATION Spec
CONSTANTS
    Scenarios <- Shops
    EliteFloor = 1
    MerchantFloor = 2
    TreasureFloor = 1
INVARIANTS
    MawBankStaysOff
