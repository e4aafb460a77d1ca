SPECIFICATION Spec
CONSTANTS
    Clients = {alice}
    Bit = {1, 2, 3}
    NumGroups = 1
    BchN = 3
    BchM = 2
    BchT = 1
    Splits = 3
    ClientRounds = 3
    Sessions = 2
    MaxMaps = 2
    MaxRounds = 6
    ByteBits = 8
    Inputs <- ServiceInputs
    Hashes <- ServiceHashes
INVARIANT
    TrueAlwaysMeansAgreement
