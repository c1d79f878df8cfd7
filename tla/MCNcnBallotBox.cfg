SPECIFICATION Spec
CONSTANTS
    Keys = {k1}
    DefaultKey = DefaultKey
    None = None
    Operators = {o1, o2, o3}
    Nominees = {}
    Programs = {svmgov}
    Thresholds = {6000}
    Durations = {2}
    MAX_OPERATOR_WHITELIST = 3
    Roots = {Zero, r1, r2}
    ZeroRoot = Zero
    Hashes = {h0}
    ZeroHash = h0
    SnapshotSlots = {2}
    MAX_OPERATOR_VOTES = 3
    MAX_BALLOT_TALLIES = 2
    Unopened = Unopened
    Open = Open
    MaxSlot = 3
    MaxTime = 3
SYMMETRY OperatorSymmetry
INVARIANTS
    IndInv
    ConsensusBacked
    MajorityIsUnique
    ResultMatchesBox
PROPERTIES
    DecisionIsFinal
    OneWayToDecide
    ImplementsConsensus
