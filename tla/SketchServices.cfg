SPECIFICATION Spec
CONSTANTS
    a = a
    b = b
    Clients <- TwoClients
    Key <- ThreeKeys
    Sketches = 1
    Hashes <- SomeHashes
    Inputs <- SomeInputs
    Experiments <- SomeExperiments
    Estimates = {1}
    Calls = 4
INVARIANTS
    DDigestTrueMeansAll
    PinSketchTrueMeansAgreement
    GrapheneTrueMeansPushed
    SmallDifferencesReconciled
    OnlyZeroCrashes
PROPERTY
    ExchangesKeys
SYMMETRY Exchangeable
