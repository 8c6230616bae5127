SPECIFICATION PayloadSpec
CONSTANTS
    jobA = jobA
    jobB = jobB
    t1 = t1
    t2 = t2
    t3 = t3
    day = day
    hostA = hostA
    Nobody = Nobody
    Stranger = Stranger
    Jobs = {jobA, jobB}
    Each = 2
    Targets = {t1, t2, t3}
    Target <- Shared
    Dirs = {day, hostA}
    Path <- Nested
    Earlier <- Some
    FaultSets <- AFault
    pw = pw
    b1 = b1
    b2 = b2
    text = text
    Lines = {pw, b1, b2, text}
    Inputs <- SomeInputs
    Packet = 1
    Tries = 3
    Ceiling = 2
    MaxOutput = 2
INVARIANTS
    PayloadGetsItsInput
    
    NoSharedOutput
    SavedIsComplete
PROPERTY
    NothingIsReplaced
