SPECIFICATION PathSpec
CONSTANTS
    wv = wv  ws = ws  va = va  vb = vb  st = st  p = p
    c1 = c1  c2 = c2  u1 = u1  u2 = u2  r1 = r1  t1 = t1  t2 = t2
    None = None
    Wallets = {wv, ws}
    VoteAccounts = {va, vb}
    Stakes = {st}
    Proposals = {p}
    Identity <- MCIdentity
    VotingWallet <- MCVotingWallet
    DelegatedTo <- MCDelegatedTo
    LiveDelegation <- MCLiveDelegation
    Owner <- MCOwner
    Extension = 1
    VotingLengths = {1}
    MaxEpoch = 3
    MaxMutations = 3
    NoAccount = NoAccount  NoStake = NoStake
INVARIANTS
    SignedByTheVoter
    OverridesFollowTheSnapshot
    TransactionsAreSound
    SnapshotsAreServed
    RequestsAreRouted
PROPERTY EffectsAreWarranted
CHECK_DEADLOCK FALSE
