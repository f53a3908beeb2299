\* Nothing is left to write once every match of the instance is finalized.
SPECIFICATION Spec
CONSTANTS
    MaxPlacement = 2
    MaxStars = 1
    SlotCap = 3
    ItemCap = 1
    Labels = {blank}
    Results = {zero}
    NoResult = zero
    NoPro = NoPro
    SeedRows <- TwoHeroes
    BoardInputs <- PairBoards
    MaxRows <- TwoHeroes
    MaxMatches = 1
    MaxLineups = 2
    MaxSlots = 5
    MaxStack = 1
    MaxTime = 1
    LineageOf <- OneRace
    TiersOf <- PairTier
    Worth <- UnitWorth
INVARIANTS ItemLiftAsDefined
CHECK_DEADLOCK FALSE
