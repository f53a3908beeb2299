\* Nothing is left to write once every match of the instance is finalized.
SPECIFICATION Spec
CONSTANTS
    MaxPlacement = 2
    MaxStars = 1
    SlotCap = 2
    ItemCap = 2
    Labels = {blank}
    Results = {zero}
    NoResult = zero
    NoPro = NoPro
    SeedRows <- OneOfEach
    BoardInputs <- AllBoards
    MaxRows <- OneOfEach
    MaxMatches = 1
    MaxLineups = 2
    MaxSlots = 3
    MaxStack = 1
    MaxTime = 1
    LineageOf <- OneRace
    TiersOf <- PairTier
    Worth <- UnitWorth
CONSTRAINT OneDressed
INVARIANTS TypeOK OwnersExist HistoryKept CellsUnique
    SamplesAddUp RelicLiftExact ItemLiftExact PickRateIsShare
PROPERTIES FinalizedFrozen ImplementsBook
CHECK_DEADLOCK FALSE
