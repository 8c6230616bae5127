SPECIFICATION CallsSpec
CONSTANTS
    Calls = {cmd1, stream}
    Streams = {stream}
    Behaviours = {"answering", "refusing", "silent"}
    Scripts = {s1, s2}
    Privileged = {TRUE, FALSE}
    FaultSets <- Trouble
    e1 = e1
    e2 = e2
    e3 = e3
    h1 = h1
    h2 = h2
    logs = logs
    logs_app = logs_app
    Entries = {e1, e2, e3}
    Hosts = {h1, h2}
    Host <- TwoHosts
    Threads = 2
    Target <- SamePath
    Paths = {logs, logs_app}
    Below <- Nested
    Present <- AnyEarlier
    Tools <- AllTools
INVARIANTS
    NoSessionLeaks
    ResultIsHonest
    ReportIsHonest
    OpenConnLeavesNoDir
    TypeOK
    WritersAreApart
    EarlierRunStays
    ReservationsAreReturned
PROPERTIES
    OpenAndWaitAreBounded
    ScriptsEnd
    EveryEntryEnds
