SPECIFICATION Spec
CONSTANTS
    ByteBits = 3
    Codes <- SmallCodes
    MaxGroups = 3
    MaxRange = 9
INVARIANTS
    HintArrives
    DecodingArrives
    EncodingArrives
CHECK_DEADLOCK FALSE
