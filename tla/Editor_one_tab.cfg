SPECIFICATION EditorSpec
CONSTANTS
    MaxPlacement = 2
    MaxStars = 1
    SlotCap = 2
    ItemCap = 1
    Labels = {blank}
    Results = {zero}
    NoResult = zero
    NoPro = NoPro
    SeedRows <- HeroesAndItems
    BoardInputs <- FormBoards
    MaxRows <- HeroesAndItems
    MaxMatches = 2
    MaxLineups = 2
    MaxSlots = 3
    MaxStack = 2
    MaxTime = 1
    Workers = {w1}
    Kinds <- AllKinds
INVARIANTS EditorTypeOK OvershootBounded CellsShown PlacementsUnique FinalizedLegal
PROPERTIES StaysInMatch
