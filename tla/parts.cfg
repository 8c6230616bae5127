SPECIFICATION Spec
CONSTANTS
    Users = 2
    Words = 2
    KeyModes = {TRUE, FALSE}
    Octets = 2
    Sixes = 4
    Tokens <- AllTokens
    Lists <- AllLists
    Limits = {1, 2, 3, 5, 8}
    docs = docs
    Docs = Docs
    Names = {docs, Docs}
    Fold <- Lower
    Paths <- TwoLevels
    Archives <- Sendings
    i1 = i1
    i2 = i2
    Installers = {i1, i2}
    c1 = c1
    c2 = c2
    Commands = {c1, c2}
    Plans <- TwoPlans
    Settings <- SomeSettings
    Others = {theirs}
    Intervals <- SomeIntervals
    Starts = {0, 1, 59, 60, 719, 1439}
    Uploads = {u1, u2}
SYMMETRY Either
INVARIANTS
    SearchIsExhaustive
    TargetsAreExact
    TreeIsExact
    EntriesAreInstalled
    OthersAreKept
    RunsAreOnTime
    UploadIsComplete
    NothingStaysBehind
PROPERTY
    NoNeedlessAttempt
