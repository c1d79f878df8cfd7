SPECIFICATION FairSpec
CONSTANTS
    Keys = {k1}
    DefaultKey = DefaultKey
    None = None
    Operators = {o1, o2}
    Nominees = {}
    Programs = {svmgov}
    Thresholds = {6000}
    Durations = {2}
    MAX_OPERATOR_WHITELIST = 2
    Roots = {Zero, r1}
    ZeroRoot = Zero
    Hashes = {h0}
    ZeroHash = h0
    SnapshotSlots = {2}
    MAX_OPERATOR_VOTES = 2
    MAX_BALLOT_TALLIES = 1
    Unopened = Unopened
    Open = Open
    MaxSlot = 3
    MaxTime = 3
PROPERTIES
    EveryBoxIsSettled
