SPECIFICATION Spec
CONSTANTS
    j1 = j1
    j2 = j2
    key1 = key1
    key2 = key2
    Jobs = {j1, j2}
    RootJobs = {j2}
    InstallKeys = {key1, key2}
    InstallKey <- OneKey
    MaxOps = 1
    MaxTasks = 1
    Options <- UploadAndRun
    Faults = {"remote", "timeout"}
PROPERTIES
    EveryJobFinishes
    KeepsPromise
