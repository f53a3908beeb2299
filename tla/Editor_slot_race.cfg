SPECIFICATION EditorSpec
CONSTANTS
    MaxPlacement = 2
    MaxStars = 1
    SlotCap = 1
    ItemCap = 2
    Labels = {blank}
    Results = {zero}
    NoResult = zero
    NoPro = NoPro
    SeedRows <- HeroesOnly
    BoardInputs <- FormBoards
    MaxRows <- HeroesOnly
    MaxMatches = 1
    MaxLineups = 1
    MaxSlots = 2
    MaxStack = 1
    MaxTime = 1
    Workers = {w1, w2}
    Kinds <- BoardKinds
INVARIANTS BoardCap
