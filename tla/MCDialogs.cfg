SPECIFICATION DialogsSpec
CONSTANTS
    wv = wv  ws = ws  pa = pa  pb = pb  crp = crp  crq = crq  sv = sv  st = st
    v1 = v1  v2 = v2
    None = None  Unset = Unset
    Wallets = {wv, ws}
    Validators = {wv}
    Proposals = {pa}
    Results = {crp, crq}
    ConsensusOf <- MCConsensusOf
    Stakes = {sv, st}
    StakesOf <- MCStakesOf
    Recorded <- MCRecorded
    Whole = 1
    MaxModals = 2
    NoWallet = NoWallet  NoProposal = NoProposal  NoResult = NoResult  NoStake = NoStake
INVARIANTS
    ModalsInv
    DialogsAreSound
PROPERTIES
    LateAnswersTouchNothing
    DialogsAskTheRightOnes
CHECK_DEADLOCK FALSE
