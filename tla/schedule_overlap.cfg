\* The jobs end: there is nothing to do after them.
SPECIFICATION SchedSpec
CHECK_DEADLOCK FALSE
CONSTANTS
    Installers = {i1, i2}
    c1 = c1
    c2 = c2
    c3 = c3
    Commands = {c1, c2, c3}
    Plans <- OnePlan
    Settings <- OneSetting
    Others = {}
INVARIANT
    AllAreInstalled
