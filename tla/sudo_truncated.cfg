\* A call that has returned is not followed further.
CHECK_DEADLOCK FALSE
SPECIFICATION SudoSpec
CONSTANTS
    pw = pw
    b1 = b1
    b2 = b2
    text = text
    Lines = {pw, b1, b2, text}
    Inputs <- SomeInputs
    Packet = 3
    Tries = 3
    Ceiling = 2
    MaxOutput = 2
INVARIANT
    OnlyExactInput
