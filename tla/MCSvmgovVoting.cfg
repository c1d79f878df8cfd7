SPECIFICATION Spec
CONSTANTS
    k1 = k1
    v1 = v1
    v2 = v2
    a1 = a1
    a2 = a2
    p1 = p1
    r1 = r1
    r2 = r2
    Keys = {k1}
    DefaultKey = DefaultKey
    None = None
    Nominees = {}
    Settings <- MCSettings
    Updates = {}
    Legacy = {}
    MAX_SUPPORTERS_LIMIT = 2
    Validators = {v1, v2}
    Proposals = {p1}
    AuthorOf <- MCAuthorOf
    StakeMaps <- MCStakeMaps
    SLOTS_PER_EPOCH = 1
    SnapshotSlots = {1, 2, 3}
    Roots = {Zero, r1, r2}
    ZeroRoot = Zero
    Unopened = Unopened
    Open = Open
    MaxSlot = 4
    StakeAccounts = {a1, a2}
    Distributions <- MCDistributions
    Leaves <- MCLeaves
CHECK_DEADLOCK FALSE
INVARIANTS
    TotalsAreOutcome
    OverridesAreRemembered
    NobodyIsLockedOut
    RoundingIsBounded
    WeighedByOneSnapshot
PROPERTIES
    TotalsMoveInWindow
