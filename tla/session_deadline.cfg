SPECIFICATION SessionSpec
CONSTANTS
    Calls = {cmd1}
    Streams = {}
    Behaviours = {"silent"}
PROPERTY
    CallIsBounded
