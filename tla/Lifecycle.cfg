SPECIFICATION LifeSpec
CONSTANTS
    Jobs = {j1, j2, j3}
    Kinds = {"tx", "direct", "read", "batch", "seed"}
    Tables = {matches, heroes}
    MatchTable = matches
    MaxVersion = 2
    LocksSeen = TRUE
    Nobody = Nobody
    NoJournal = NoJournal
SYMMETRY JobSymmetry
INVARIANTS TypeOK FileRestorable QuietClose HandlesOrdered UpgradesAlone
PROPERTIES SeedOnlyEmpty ImplementsTransactions OnlyBypassesOvertake
