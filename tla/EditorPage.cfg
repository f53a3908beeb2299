SPECIFICATION PageSpec
CONSTANTS
    MaxPlacement = 2
    MaxStars = 1
    SlotCap = 1
    ItemCap = 1
    Labels = {blank}
    Results = {zero}
    NoResult = zero
    NoPro = NoPro
    SeedRows <- OneHeroOneItem
    BoardInputs <- FormBoards
    MaxRows <- OneHeroOneItem
    MaxMatches = 1
    MaxLineups = 2
    MaxSlots = 1
    MaxStack = 1
    MaxTime = 1
    MaxSent = 4
    Workers = {w1, w2}
    Kinds <- PageKinds
SYMMETRY WorkerSymmetry
INVARIANTS RegionsExact DetailStays
