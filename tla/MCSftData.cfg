SPECIFICATION SftSpec
CONSTANTS
    World = 2
    Sizes <- MCSizes
    Timeout = 0
    Lengths = {0, 1, 2, 9}
    Packings = {"cat", "stack"}
    MaxPosition = 7
    MaxRestarts = 1
INVARIANTS SftTypeOK SamplesOnce
CHECK_DEADLOCK FALSE
