SPECIFICATION EditorSpec
CONSTANTS
    MaxPlacement = 1
    MaxStars = 1
    SlotCap = 1
    ItemCap = 1
    Labels = {blank}
    Results = {zero}
    NoResult = zero
    NoPro = NoPro
    SeedRows <- HeroesAndItems
    BoardInputs <- FormBoards
    MaxRows <- HeroesAndItems
    MaxMatches = 1
    MaxLineups = 1
    MaxSlots = 3
    MaxStack = 3
    MaxTime = 1
    Workers = {w1, w2}
    Kinds <- CellKinds
SYMMETRY WorkerSymmetry
INVARIANTS OvershootBounded ItemOvershootBounded DetailExact
