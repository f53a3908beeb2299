SPECIFICATION DashSpec
CONSTANTS
    MaxPlacement = 2
    MaxStars = 1
    SlotCap = 1
    ItemCap = 1
    Labels = {blank}
    Results = {zero}
    NoResult = zero
    NoPro = NoPro
    SeedRows <- HeroSeed
    BoardInputs <- HeroBoards
    MaxRows <- HeroRows
    MaxMatches = 2
    MaxLineups = 2
    MaxSlots = 1
    MaxStack = 1
    MaxTime = 1
    LineageOf <- OneRace
    TiersOf <- PairTier
    Worth <- UnitWorth
    Readers = {r1}
    Versions = {v1, v2}
    NoVersion = NoVersion
    Urls <- SomeUrls
SYMMETRY VersionSymmetry
INVARIANTS ProFieldExact PageGrows PatchAsNamed FinalRowsStay
