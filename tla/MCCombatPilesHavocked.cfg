SPECIFICATION Spec
CONSTANTS
    Kind <- Kinds
    Cards <- AllCards
    Decks <- MixedDecks
    Innate <- NoCards
    HandLimit = 3
    TurnDraw = 2
    MaxStacks = 2
    MaxCreated = 1
INVARIANTS OnePlace
