SPECIFICATION DeskSpec
CONSTANTS
    Names = {n1, n2}
    NoName = NoName
    Counts = {2, 4}
    Effects = {e1}
    NoTier = NoTier
    MaxId = 2
    Limit <- Limits
    MaxHeld = 4
    Workers = {w1}
    Kinds = {"createSynergy", "rename", "saveTier", "deleteTier", "addSlot", "heroList"}
    FormTables = {"heroes", "races", "classes", "items", "relics", "patches", "pros"}
    MaxComponents = 2
CONSTRAINT OneTopic
SYMMETRY Symmetric
INVARIANTS NamesUnique LineagesComplete NoRemains ListingSound
PROPERTIES UndisturbedExact
