SPECIFICATION Spec
CONSTANTS
    j1 = j1
    j2 = j2
    key1 = key1
    key2 = key2
    Jobs = {j1, j2}
    RootJobs = {j2}
    InstallKeys = {key1, key2}
    InstallKey <- OneKey
    MaxOps = 2
    MaxTasks = 2
    Options <- Safety
    Faults = {"local", "remote", "timeout"}
INVARIANTS
    TypeOK
    PoolAccounting
    HostLimit
    PayloadsAfterTransfers
    NeverUnprivileged
    SuccessIsComplete
    InstallerExists
PROPERTY
    InstallIsMemoized
