SPECIFICATION Spec
CONSTANTS
    ByteBits = 3
    Codes <- SmallCodes
    MaxGroups = 1
    MaxRange = 4
INVARIANT EveryHintArrives
CHECK_DEADLOCK FALSE
