SPECIFICATION FairSpec
CONSTANTS
    Kind <- Kinds
    Cards <- AllCards
    Decks <- SeparateDecks
    Innate <- FirstInHand
    HandLimit = 3
    TurnDraw = 2
    MaxStacks = 2
    MaxCreated = 1
INVARIANTS
    TypeOK
    OnePlace
    NothingLost
    HandWithinLimit
PROPERTIES
    EffectsEnd
