\* Nothing is left to write once every match of the instance is finalized.
SPECIFICATION Spec
CONSTANTS
    MaxPlacement = 1
    MaxStars = 1
    SlotCap = 2
    ItemCap = 2
    Labels = {blank}
    Results = {zero}
    NoResult = zero
    NoPro = NoPro
    SeedRows <- OneOfEach
    BoardInputs <- FormBoards
    MaxRows <- OneOfEach
    MaxMatches = 1
    MaxLineups = 1
    MaxSlots = 1
    MaxStack = 2
    MaxTime = 1
    LineageOf <- OneRace
    TiersOf <- PairTier
    Worth <- UnitWorth
PROPERTIES RemoveDetachesOne
CHECK_DEADLOCK FALSE
