SPECIFICATION FairSpec
CONSTANTS
    Jobs = {j1, j2, j3}
    Kinds = {"tx", "read", "batch"}
    Tables = {matches, heroes}
    MatchTable = matches
    MaxVersion = 2
    LocksSeen = FALSE
    Nobody = Nobody
    NoJournal = NoJournal
INVARIANTS ReadsCommitted
PROPERTIES Answered
