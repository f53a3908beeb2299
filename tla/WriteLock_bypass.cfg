SPECIFICATION Spec
CONSTANTS
    Jobs = {j1, j2}
    Kinds = {"direct", "batch"}
    Tables = {matches, heroes}
    MatchTable = matches
    MaxVersion = 1
    LocksSeen = TRUE
    Nobody = Nobody
    NoJournal = NoJournal
PROPERTIES BatchUndisturbed
