SPECIFICATION Spec
CONSTANTS
    e1 = e1
    e2 = e2
    e3 = e3
    h1 = h1
    h2 = h2
    logs = logs
    logs_app = logs_app
    Entries = {e1, e2, e3}
    Hosts = {h1, h2}
    Host <- OneHost
    Threads = 2
    Target <- SamePath
    Paths = {logs, logs_app}
    Below <- Nested
    Present <- AnyEarlier
    Tools <- AllTools
INVARIANT
    CompletedStays
