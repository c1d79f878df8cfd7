SPECIFICATION ProposalSpec
CONSTANTS
    k1 = k1
    v1 = v1
    v2 = v2
    p1 = p1
    p2 = p2
    Keys = {k1}
    DefaultKey = DefaultKey
    None = None
    Nominees = {}
    Settings <- MCSettings
    Updates <- MCUpdatesZero
    Legacy = {}
    MAX_SUPPORTERS_LIMIT = 2
    Validators = {v1, v2}
    Proposals = {p1}
    AuthorOf <- MCAuthorOfOne
    StakeMaps <- MCStakeMaps
    SLOTS_PER_EPOCH = 2
    SnapshotSlots = {1, 3, 5}
    Roots = {r1}
    ZeroRoot = Zero
    Unopened = Unopened
    Open = Open
    MaxSlot = 6
    MaxEpochs = 6
CHECK_DEADLOCK FALSE
INVARIANTS
    VotingWindowNonEmpty
