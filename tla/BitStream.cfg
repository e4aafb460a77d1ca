SPECIFICATION Spec
CONSTANTS
    ByteBits = 3
    MaxWidth = 5
    MaxFields = 3
INVARIANTS
    SizeIsAnnounced
    ReadsBack
    NeverReadsAhead
CHECK_DEADLOCK FALSE
