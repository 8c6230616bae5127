\* The job ends: there is nothing to do after it.
SPECIFICATION SchedSpec
CHECK_DEADLOCK FALSE
CONSTANTS
    Installers = {i1}
    c1 = c1
    c2 = c2
    c3 = c3
    Commands = {c1}
    Plans <- OneCommand
    Settings <- OneSetting
    Others = {theirs}
INVARIANT
    UpdateIsAtomic
