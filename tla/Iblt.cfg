SPECIFICATION FairSpec
CONSTANTS
    Bit = {1, 2, 3}
    NumHashes = 2
    Buckets = 3
    MaxCount = 7
    Inputs <- IbltInputs
    Hashes <- AllHashes
INVARIANTS
    HoldsTheRest
    ListedAreDifferences
    TrueMeansAll
    FalseMeansStuck
    PureCellsHaveValues
PROPERTY
    ListingEnds
