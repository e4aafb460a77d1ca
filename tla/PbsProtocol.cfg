SPECIFICATION Spec
CONSTANTS
    Bit = {1, 2, 3}
    NumGroups = 2
    BchN = 3
    BchT = 1
    Splits = 3
    MaxRounds = 3
    Inputs <- ProtocolInputs
    Hashes <- ProtocolHashes
INVARIANTS
    Aligned
    CommonKeysCancel
    PiecesOfOriginalGroup
    NeverAborts
    HintReadable
    Conservation
    InStep
    AccumulatorsFresh
    CompletesTogether
    CompletedUpToZeroXor
PROPERTY
    CleanRoundCompletes
