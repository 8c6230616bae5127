SPECIFICATION ScriptSpec
CONSTANTS
    Scripts = {s1}
    Privileged = {FALSE}
    FaultSets <- OwnTimeout
INVARIANT
    TimeoutCannotBypassCleanup
