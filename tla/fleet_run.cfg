SPECIFICATION FleetSpec
CONSTANTS
    up1 = up1
    run1 = run1
    j1 = j1
    j2 = j2
    j3 = j3
    elsewhere = elsewhere
    Jobs = {j1, j2, j3}
    Addresses = {j1, j2, j3, elsewhere}
    Transfer = {up1}
    Payload = {run1}
    MaxHosts = 2
    StoreModes = {TRUE, FALSE}
    Starts <- AnyFile
    Contested = {elsewhere}
SYMMETRY Unknown
INVARIANTS
    HostsBounded
    ExitCodeIsHonest
    EveryJobIsCounted
    StoreIsComplete
    FileIsOldOrNew
