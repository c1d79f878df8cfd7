---------------------- MODULE VoteTransactionsProofs ----------------------
(***************************************************************************)
(* For any number of wallets, proposals, stakes and mutations: what is     *)
(* sent is signed by the account that started the vote, an override names  *)
(* the vote account of the snapshot, a vote that is ready is refused only  *)
(* for what happened on chain meanwhile, and what the transactions contain *)
(* of estimates (budget, close time) is enough; a support names the ballot *)
(* box the program asks for and has the units it needs.                    *)
(***************************************************************************)
EXTENDS VoteTransactions, TransactionEstimates, TLAPS

\* An override in progress has a stake account, and from the proofs on the
\* vote account this stake was delegated to.
RequestLineage(r) ==
    r.op \in OverrideOps /\ r.pc # "idle" =>
        /\ r.stake \in Stakes
        /\ r.pc \notin {"proposal", "proofs"} => r.va = DelegatedTo[r.stake]

\* What makes the two invariants inductive: the same of every request under way.
LineageInv ==
    /\ reqs \in [Wallets -> Requests]
    /\ \A w \in Wallets : RequestLineage(reqs[w])
    /\ SignedByTheVoter
    /\ OverridesFollowTheSnapshot

USE DEF Ops, ValidatorOps, OverrideOps

\* The idle record has the type of a request and carries no lineage.
LEMMA IdleIsARequest ==
    ASSUME Proposals # {}
    PROVE  Idle \in Requests /\ RequestLineage(Idle) /\ Idle.pc = "idle"
<1>1. (CHOOSE p \in Proposals : TRUE) \in Proposals
  OBVIOUS
<1>2. QED BY <1>1 DEF Idle, Requests, RequestLineage

\* Replacing one wallet's request by one that has the lineage keeps everybody's.
LEMMA ContinueKeepsLineage ==
    ASSUME LineageInv, NEW w \in Wallets, NEW r \in Requests, RequestLineage(r),
           Continue(w, r)
    PROVE  /\ reqs' \in [Wallets -> Requests]
           /\ \A x \in Wallets : RequestLineage(reqs'[x])
<1>1. reqs' = [reqs EXCEPT ![w] = r] BY DEF Continue
<1>2. reqs \in [Wallets -> Requests] BY DEF LineageInv
<1>3. reqs' \in [Wallets -> Requests] BY <1>1, <1>2
<1>4. \A x \in Wallets : reqs'[x] = IF x = w THEN r ELSE reqs[x] BY <1>1, <1>2
<1>5. \A x \in Wallets : RequestLineage(reqs'[x]) BY <1>4 DEF LineageInv
<1>6. QED BY <1>3, <1>5

\* An exception ends the request.
LEMMA ThrowKeepsLineage ==
    ASSUME LineageInv, Proposals # {}, NEW w \in Wallets, Throw(w)
    PROVE  /\ reqs' \in [Wallets -> Requests]
           /\ \A x \in Wallets : RequestLineage(reqs'[x])
BY IdleIsARequest, ContinueKeepsLineage DEF Throw

\* Starting a mutation.
LEMMA MutateKeepsLineage ==
    ASSUME LineageInv, TransactionsAssumption, listed \in [Proposals -> Nat], NEW w \in Wallets, NEW op \in Ops,
           NEW p \in Proposals, NEW s \in Stakes \cup {NoStake}, Mutate(w, op, p, s)
    PROVE  LineageInv'
<1> DEFINE r == [Idle EXCEPT !.pc = "proposal", !.op = op, !.p = p,
                             !.stake = s, !.cr = listed[p]]
<1>1. Idle \in Requests BY IdleIsARequest
<1>2. listed[p] \in Nat OBVIOUS
<1>3. op \in OverrideOps => s \in Stakes BY DEF Mutate
<1>4. r \in Requests /\ r.op = op /\ r.pc = "proposal" /\ r.stake = s
  BY <1>1, <1>2 DEF Requests
<1>5. RequestLineage(r) BY <1>3, <1>4 DEF RequestLineage
<1>6. Continue(w, r) /\ txs' = txs BY DEF Mutate
<1> HIDE DEF r
<1>7. QED BY <1>4, <1>5, <1>6, ContinueKeepsLineage
       DEF LineageInv, SignedByTheVoter, OverridesFollowTheSnapshot

\* The awaits that only read: the proposal, the proofs, the proof account.
LEMMA FetchesKeepLineage ==
    ASSUME LineageInv, TransactionsAssumption, Proposals # {},
           prop \in [Proposals -> [slot : Nat, start : Nat, end : Nat, moved : BOOLEAN]],
           NEW w \in Wallets, NEW ops \in SUBSET Ops,
           \/ FetchProposal(w, ops)
           \/ ops \subseteq ValidatorOps /\ FetchVoteAccountProof(w, ops)
           \/ \E leaf \in VoteAccounts : FetchOverrideProofs(w, ops, leaf)
           \/ FetchProofAccount(w, ops)
    PROVE  LineageInv'
<1>0. reqs[w] \in Requests /\ RequestLineage(reqs[w]) /\ reqs \in [Wallets -> Requests]
  BY DEF LineageInv
<1>1. txs' = txs
  BY DEF FetchProposal, FetchVoteAccountProof, FetchOverrideProofs, FetchProofAccount
<1>2. Throw(w) \/ \E r \in Requests : RequestLineage(r) /\ Continue(w, r)
  <2>1. CASE FetchProposal(w, ops)
    <3> DEFINE s == resolveProposalSnapshotSlot(reqs[w].p)
               r == [reqs[w] EXCEPT !.pc = "proofs", !.slot = s, !.end = prop[reqs[w].p].end]
    <3>1. reqs[w].p \in Proposals /\ s \in Nat /\ prop[reqs[w].p].end \in Nat
      BY <1>0 DEF Requests, resolveProposalSnapshotSlot
    <3>2. r \in Requests BY <1>0, <3>1 DEF Requests
    <3>3. RequestLineage(r) BY <1>0, <2>1 DEF RequestLineage, Requests, FetchProposal, At
    <3>4. Throw(w) \/ Continue(w, r) BY <2>1 DEF FetchProposal
    <3>5. QED BY <3>2, <3>3, <3>4
  <2>2. CASE ops \subseteq ValidatorOps /\ FetchVoteAccountProof(w, ops)
    <3> DEFINE r == [reqs[w] EXCEPT !.pc = "account", !.va = Identity[w]]
    <3>1. Identity[w] \in VoteAccounts \cup {NoAccount} BY DEF TransactionsAssumption
    <3>2. r \in Requests BY <1>0, <3>1 DEF Requests
    <3>3. reqs[w].op \notin OverrideOps BY <2>2 DEF FetchVoteAccountProof, At
    <3>4. RequestLineage(r) BY <1>0, <3>3 DEF RequestLineage, Requests
    <3>5. Throw(w) \/ Continue(w, r) BY <2>2 DEF FetchVoteAccountProof
    <3>6. QED BY <3>2, <3>4, <3>5
  <2>3. ASSUME NEW leaf \in VoteAccounts, FetchOverrideProofs(w, ops, leaf)
        PROVE  Throw(w) \/ \E r \in Requests : RequestLineage(r) /\ Continue(w, r)
    <3> DEFINE r == [reqs[w] EXCEPT !.pc = "account", !.va = leaf]
    <3>1. r \in Requests BY <1>0 DEF Requests
    <3>2. Throw(w) \/ (leaf = DelegatedTo[reqs[w].stake] /\ Continue(w, r))
      BY <2>3 DEF FetchOverrideProofs, assertOverrideProofLineage, resolveSnapshotVoteAccount
    <3>3. leaf = DelegatedTo[reqs[w].stake] => RequestLineage(r)
      BY <1>0, <2>3 DEF RequestLineage, Requests, FetchOverrideProofs, At
    <3>4. QED BY <3>1, <3>2, <3>3
  <2>4. CASE FetchProofAccount(w, ops)
    <3> DEFINE a == [reqs[w] EXCEPT !.pc = "sign"]
               b == [reqs[w] EXCEPT !.pc = "signInit"]
               c == [reqs[w] EXCEPT !.pc = "sign", !.init = TRUE]
    <3>1. a \in Requests /\ b \in Requests /\ c \in Requests BY <1>0 DEF Requests
    <3>2. reqs[w].pc = "account" BY <2>4 DEF FetchProofAccount, At
    <3>3. RequestLineage(a) /\ RequestLineage(b) /\ RequestLineage(c)
      BY <1>0, <3>2 DEF RequestLineage, Requests
    <3>4. Continue(w, a) \/ Continue(w, b) \/ Continue(w, c) BY <2>4 DEF FetchProofAccount
    <3>5. QED BY <3>1, <3>3, <3>4
  <2>5. QED BY <2>1, <2>2, <2>3, <2>4
<1>3. /\ reqs' \in [Wallets -> Requests]
      /\ \A x \in Wallets : RequestLineage(reqs'[x])
  BY <1>2, ThrowKeepsLineage, ContinueKeepsLineage
<1>4. QED BY <1>1, <1>3 DEF LineageInv, SignedByTheVoter, OverridesFollowTheSnapshot

\* Signing and sending, of either transaction.
LEMMA SendsKeepLineage ==
    ASSUME LineageInv, TransactionsAssumption, Proposals # {},
           NEW w \in Wallets, NEW ops \in SUBSET Ops, NEW by \in Wallets,
           SendInit(w, ops, by) \/ SendVote(w, ops, by)
    PROVE  LineageInv'
<1>0. reqs[w] \in Requests /\ RequestLineage(reqs[w]) /\ reqs \in [Wallets -> Requests]
  BY DEF LineageInv
<1>1. reqs[w].pc \in {"signInit", "sign"} BY DEF SendInit, SendVote, At
<1>2. \E kind \in {"init", "vote"} :
         txs' = txs \/ (by = w /\ txs' = txs \cup {Transaction(w, kind, by)})
  BY DEF SendInit, SendVote, signTransactionForWallet
<1>3. ASSUME NEW kind \in {"init", "vote"}
      PROVE  LET t == Transaction(w, kind, w)
             IN  /\ t.signer = t.w
                 /\ t.op \in OverrideOps => t.stake \in Stakes /\ t.va = DelegatedTo[t.stake]
  BY <1>0, <1>1 DEF Transaction, RequestLineage
<1>4. SignedByTheVoter' /\ OverridesFollowTheSnapshot'
  BY <1>2, <1>3 DEF LineageInv, SignedByTheVoter, OverridesFollowTheSnapshot
<1>5. Throw(w) \/ Continue(w, Idle) \/ Continue(w, [reqs[w] EXCEPT !.pc = "confirm"])
  BY DEF SendInit, SendVote
<1> DEFINE r == [reqs[w] EXCEPT !.pc = "confirm"]
<1>6. r \in Requests BY <1>0 DEF Requests
<1>7. RequestLineage(r) BY <1>0, <1>1 DEF RequestLineage, Requests
<1>8. /\ reqs' \in [Wallets -> Requests]
      /\ \A x \in Wallets : RequestLineage(reqs'[x])
  BY <1>5, <1>6, <1>7, ThrowKeepsLineage, ContinueKeepsLineage DEF Throw
<1>9. QED BY <1>4, <1>8 DEF LineageInv

\* Landing and expiry remove a transaction and settle the request that waits.
LEMMA SettlingKeepsLineage ==
    ASSUME LineageInv, Proposals # {}, NEW t \in txs, t.w \in Wallets,
           Land(t) \/ Expire(t)
    PROVE  LineageInv'
<1>1. txs' \subseteq txs BY DEF Land, Expire
<1>2. SignedByTheVoter' /\ OverridesFollowTheSnapshot'
  BY <1>1 DEF LineageInv, SignedByTheVoter, OverridesFollowTheSnapshot
<1>3. t.w \in Wallets OBVIOUS
<1>0. reqs[t.w] \in Requests /\ RequestLineage(reqs[t.w]) /\ reqs \in [Wallets -> Requests]
  BY <1>3 DEF LineageInv
<1> DEFINE r == [reqs[t.w] EXCEPT !.pc = "sign", !.inited = TRUE]
<1>4. Settle(t, Accepts(t)) \/ Settle(t, FALSE) BY DEF Land, Expire
<1>5. \/ reqs' = reqs
      \/ reqs[t.w].pc = "confirm" /\ Continue(t.w, r)
      \/ Continue(t.w, Idle)
  BY <1>4, <1>0 DEF Settle, Continue
<1>6. r \in Requests BY <1>0 DEF Requests
<1>7. reqs[t.w].pc = "confirm" => RequestLineage(r) BY <1>0 DEF RequestLineage, Requests
<1>8. /\ reqs' \in [Wallets -> Requests]
      /\ \A x \in Wallets : RequestLineage(reqs'[x])
  <2>1. CASE reqs' = reqs BY <2>1 DEF LineageInv
  <2>2. CASE reqs[t.w].pc = "confirm" /\ Continue(t.w, r)
    BY <2>2, <1>3, <1>6, <1>7, ContinueKeepsLineage
  <2>3. CASE Continue(t.w, Idle) BY <2>3, <1>3, ThrowKeepsLineage DEF Throw
  <2>4. QED BY <1>5, <2>1, <2>2, <2>3
<1>9. QED BY <1>2, <1>8 DEF LineageInv

\* The types the steps above rely on.
ChainTypes ==
    /\ epoch \in Nat
    /\ prop \in [Proposals -> [slot : Nat, start : Nat, end : Nat, moved : BOOLEAN]]
    /\ listed \in [Proposals -> Nat]
    /\ \A t \in txs : t.w \in Wallets

\* No step leaves these types.
LEMMA ChainTypesKept ==
    ASSUME ChainTypes, TransactionsAssumption, Next
    PROVE  ChainTypes'
<1>1. CASE \E w \in Wallets, op \in Ops, p \in Proposals, s \in Stakes \cup {NoStake} :
              Mutate(w, op, p, s)
  BY <1>1 DEF Mutate, World, chain, ChainTypes
<1>2. CASE \E w \in Wallets : castVote(w) \/ modifyVote(w) \/ castVoteOverride(w) \/ modifyVoteOverride(w)
  <2>1. PICK w \in Wallets : castVote(w) \/ modifyVote(w) \/ castVoteOverride(w) \/ modifyVoteOverride(w)
    BY <1>2
  <2>2. UNCHANGED <<epoch, prop, listed>>
    BY <2>1 DEF castVote, modifyVote, castVoteOverride, modifyVoteOverride, FetchProposal,
        FetchVoteAccountProof, FetchOverrideProofs, FetchProofAccount, SendInit, SendVote, Rest,
        World, chain
  <2>3. \/ txs' = txs
        \/ \E by \in Wallets, kind \in {"init", "vote"} : txs' = txs \cup {Transaction(w, kind, by)}
    BY <2>1 DEF castVote, modifyVote, castVoteOverride, modifyVoteOverride, FetchProposal,
        FetchVoteAccountProof, FetchOverrideProofs, FetchProofAccount, SendInit, SendVote
  <2>4. \A by, kind : Transaction(w, kind, by).w = w BY DEF Transaction
  <2>5. QED BY <2>2, <2>3, <2>4 DEF ChainTypes
<1>3. CASE \E w \in Wallets : Fail(w)
  BY <1>3 DEF Fail, Rest, World, chain, ChainTypes
<1>4. CASE \E t \in txs : Land(t) \/ Expire(t)
  BY <1>4 DEF Land, Expire, Rest, World, chain, ChainTypes
<1>5. CASE ChainSteps
  <2>1. CASE NextEpoch BY <2>1 DEF NextEpoch, ChainTypes
  <2>2. ASSUME NEW p \in Proposals, NEW length \in VotingLengths, NEW moved \in BOOLEAN,
               Bind(p, length, moved)
        PROVE  ChainTypes'
    <3> DEFINE b == [slot |-> epoch + Extension, start |-> epoch + Extension + 1,
                     end |-> epoch + Extension + 1 + length, moved |-> moved]
    <3>1. epoch \in Nat /\ Extension \in Nat /\ length \in Nat
      BY DEF ChainTypes, TransactionsAssumption
    <3>2. b \in [slot : Nat, start : Nat, end : Nat, moved : BOOLEAN] BY <3>1
    <3>3. prop' = [prop EXCEPT ![p] = b] /\ UNCHANGED <<epoch, listed, txs>>
      BY <2>2 DEF Bind
    <3> HIDE DEF b
    <3>4. QED BY <3>2, <3>3 DEF ChainTypes
  <2>3. CASE \E p \in Proposals, length \in VotingLengths :
                ActivateVoting(p, length) \/ FlushMerkleRoot(p, length)
    BY <2>3, <2>2 DEF ActivateVoting, FlushMerkleRoot
  <2>4. CASE \E s \in Slots : FinalizeConsensus(s) BY <2>4 DEF FinalizeConsensus, ChainTypes
  <2>5. CASE \E k \in Slots \X VoteAccounts : ReclaimProof(k) \/ CloseExpiredProof(k)
    BY <2>5 DEF ReclaimProof, CloseExpiredProof, chain, ChainTypes
  <2>6. QED BY <1>5, <2>1, <2>3, <2>4, <2>5 DEF ChainSteps
<1>6. CASE RefetchProposals
  BY <1>6 DEF RefetchProposals, chain, ChainTypes
<1>7. QED BY <1>1, <1>2, <1>3, <1>4, <1>5, <1>6 DEF Next

\* One step, whoever takes it.
LEMMA LineageKept ==
    ASSUME LineageInv, ChainTypes, TransactionsAssumption, Next
    PROVE  LineageInv'
<1>0. Proposals # {} BY DEF TransactionsAssumption
<1> DEFINE Same == reqs' = reqs /\ txs' = txs
<1>s. ASSUME Same PROVE LineageInv'
  BY <1>s DEF LineageInv, SignedByTheVoter, OverridesFollowTheSnapshot
<1>1. CASE \E w \in Wallets, op \in Ops, p \in Proposals, s \in Stakes \cup {NoStake} :
              Mutate(w, op, p, s)
  BY <1>1, MutateKeepsLineage DEF ChainTypes
<1>2. ASSUME NEW w \in Wallets,
             castVote(w) \/ modifyVote(w) \/ castVoteOverride(w) \/ modifyVoteOverride(w)
      PROVE  LineageInv'
  <2>1. \E ops \in SUBSET Ops :
           \/ FetchProposal(w, ops)
           \/ ops \subseteq ValidatorOps /\ FetchVoteAccountProof(w, ops)
           \/ \E leaf \in VoteAccounts : FetchOverrideProofs(w, ops, leaf)
           \/ FetchProofAccount(w, ops)
           \/ \E by \in Wallets : SendInit(w, ops, by) \/ SendVote(w, ops, by)
    <3>1. CASE castVote(w) BY <3>1, Zenon DEF castVote
    <3>2. CASE modifyVote(w) BY <3>2, Zenon DEF modifyVote
    <3>3. CASE castVoteOverride(w) BY <3>3, Zenon DEF castVoteOverride
    <3>4. CASE modifyVoteOverride(w) BY <3>4, Zenon DEF modifyVoteOverride
    <3>5. QED BY <1>2, <3>1, <3>2, <3>3, <3>4
  <2>2. QED BY <2>1, <1>0, FetchesKeepLineage, SendsKeepLineage DEF ChainTypes
<1>3. ASSUME NEW w \in Wallets, Fail(w) PROVE LineageInv'
  BY <1>3, <1>0, ThrowKeepsLineage
     DEF Fail, LineageInv, SignedByTheVoter, OverridesFollowTheSnapshot
<1>4. CASE \E t \in txs : Land(t) \/ Expire(t)
  BY <1>4, <1>0, SettlingKeepsLineage DEF ChainTypes
<1>5. CASE ChainSteps
  BY <1>5, <1>s DEF ChainSteps, NextEpoch, ActivateVoting, FlushMerkleRoot, Bind,
     FinalizeConsensus, ReclaimProof, CloseExpiredProof
<1>6. CASE RefetchProposals BY <1>6, <1>s DEF RefetchProposals
<1>7. QED BY <1>1, <1>2, <1>3, <1>4, <1>5, <1>6 DEF Next

\* The inductive invariant holds in every reachable state.
THEOREM LineageInvHolds == Spec => [](LineageInv /\ ChainTypes)
<1> USE TransactionsAssumption
<1>1. Init => LineageInv /\ ChainTypes
  <2> SUFFICES ASSUME Init PROVE LineageInv /\ ChainTypes
    OBVIOUS
  <2>1. Idle \in Requests /\ RequestLineage(Idle)
    BY IdleIsARequest DEF TransactionsAssumption
  <2>2. reqs = [w \in Wallets |-> Idle] /\ txs = {} BY DEF Init
  <2>3. LineageInv
    BY <2>1, <2>2 DEF LineageInv, SignedByTheVoter, OverridesFollowTheSnapshot
  <2>4. ChainTypes BY DEF Init, ChainTypes
  <2>5. QED BY <2>3, <2>4
<1>2. LineageInv /\ ChainTypes /\ [Next]_vars => (LineageInv /\ ChainTypes)'
  <2> SUFFICES ASSUME LineageInv, ChainTypes, [Next]_vars
               PROVE  LineageInv' /\ ChainTypes'
    OBVIOUS
  <2>1. CASE Next BY <2>1, LineageKept, ChainTypesKept
  <2>2. CASE UNCHANGED vars
    BY <2>2 DEF vars, LineageInv, ChainTypes, SignedByTheVoter, OverridesFollowTheSnapshot
  <2>3. QED BY <2>1, <2>2
<1>3. QED BY <1>1, <1>2, PTL DEF Spec

\* Every transaction is signed by the account that started the vote.
THEOREM AlwaysSignedByTheVoter == Spec => []SignedByTheVoter
<1>1. LineageInv /\ ChainTypes => SignedByTheVoter BY DEF LineageInv
<1>2. QED BY <1>1, LineageInvHolds, PTL

\* Every override in flight names its stake's vote account of the snapshot.
THEOREM AlwaysTheSnapshotsValidator == Spec => []OverridesFollowTheSnapshot
<1>1. LineageInv /\ ChainTypes => OverridesFollowTheSnapshot BY DEF LineageInv
<1>2. QED BY <1>1, LineageInvHolds, PTL

-----------------------------------------------------------------------------
(***************************************************************************)
(* The estimates that go into the transactions hold for every input, not   *)
(* only for those a run tries.                                             *)
(***************************************************************************)

USE DEF SUPPORT_CU_BASE, SUPPORT_CU_PER_SUPPORTER, SUPPORT_CU_ACTIVATION,
        SUPPORT_CU_HEADROOM_PERCENT, MAX_COMPUTE_UNIT_LIMIT, MAX_SUPPORTERS,
        MS_PER_SLOT, BUFFER_PCT, MIN_BUFFER_SECONDS, Headroom

\* The quotient of a division that rounds down.
LEMMA FloorBounds ==
    ASSUME NEW n \in Nat, NEW d \in Nat, d > 0
    PROVE  /\ n \div d \in Nat
           /\ d * (n \div d) <= n
           /\ n < d * (n \div d) + d
BY SMT

\* Up to the program's cap on supporters the requested budget is never cut off
\* at what a transaction may ask for, and it pays for the worst case even when
\* Headroom more supports have landed since they were counted.
THEOREM HeadroomIsEnough ==
    ASSUME NEW n \in 0 .. MAX_SUPPORTERS, NEW k \in 0 .. Headroom, NEW activates \in BOOLEAN
    PROVE  /\ SupportCost(n + k, activates) <= supportComputeUnitLimit(n)
           /\ supportComputeUnitLimit(n) < MAX_COMPUTE_UNIT_LIMIT
<1> DEFINE x == 5807599 + 15180 * n
           y == x \div 100
<1>1. n \in Nat /\ n <= 2000 /\ k \in Nat /\ k <= 57 BY SMT
<1>3. x \in Nat BY SMT, <1>1
<1>4. y \in Nat /\ 100 * y <= x /\ x < 100 * y + 100 BY SMT, <1>3, FloorBounds
<1>5. y < 1400000 BY SMT, <1>1, <1>4
<1>6. supportComputeUnitLimit(n) = y
  BY SMT, <1>1, <1>5 DEF supportComputeUnitLimit, SupportCost
<1>7. SupportCost(n + k, activates) <= 50500 + 132 * n + 132 * k BY SMT, <1>1 DEF SupportCost
<1> HIDE DEF y
<1>8. 50500 + 132 * n + 132 * k <= y
  <2>1. 132 * k <= 7524 BY SMT, <1>1
  <2>3. 50500 + 132 * n + 132 * k <= 58024 + 132 * n BY SMT, <1>1, <2>1
  <2>4. 100 * (58024 + 132 * n) <= 5807500 + 15180 * n BY SMT, <1>1
  <2>5. QED BY SMT, <1>1, <1>4, <2>3, <2>4
<1>9. SupportCost(n + k, activates) \in Int BY SMT, <1>1 DEF SupportCost
<1>10. QED BY SMT, <1>1, <1>4, <1>5, <1>6, <1>7, <1>8, <1>9

\* A support within Headroom of the count it was budgeted for has the units it needs.
LEMMA BudgetCovers ==
    ASSUME NEW n \in 0 .. MAX_SUPPORTERS, NEW m \in 0 .. MAX_SUPPORTERS,
           m - n <= Headroom, NEW activates \in BOOLEAN
    PROVE  SupportCost(m, activates) <= supportComputeUnitLimit(n)
<1>1. CASE m < n
  <2>1. SupportCost(m, activates) <= SupportCost(n, activates)
    BY SMT, <1>1 DEF SupportCost
  <2>2. SupportCost(n, activates) <= supportComputeUnitLimit(n)
    <3>1. \A k \in 0 .. Headroom : SupportCost(n + k, activates) <= supportComputeUnitLimit(n)
      <4> HIDE DEF MAX_SUPPORTERS, Headroom, MAX_COMPUTE_UNIT_LIMIT
      <4>1. QED
        BY HeadroomIsEnough, Zenon
    <3>2. PICK k : k = 0 /\ k \in 0 .. Headroom
      BY SMT
    <3>3. n + k = n
      BY SMT, <3>2
    <3>4. QED
      BY SMT, <3>1, <3>2, <3>3
  <2>3. SupportCost(m, activates) \in Int /\ SupportCost(n, activates) \in Int
    BY SMT DEF SupportCost
  <2>4. supportComputeUnitLimit(n) \in Int
    BY SMT DEF SupportCost, supportComputeUnitLimit
  <2>5. QED
    BY SMT, <2>1, <2>2, <2>3, <2>4
<1>2. CASE n <= m
  <2>1. m - n \in 0 .. Headroom /\ n + (m - n) = m
    BY SMT, <1>2
  <2>2. SupportCost(n + (m - n), activates) <= supportComputeUnitLimit(n)
    <3> HIDE DEF MAX_SUPPORTERS, Headroom, MAX_COMPUTE_UNIT_LIMIT
    <3>1. QED
      BY <2>1, HeadroomIsEnough, Zenon
  <2>3. QED
    BY SMT, <2>1, <2>2
<1>3. QED
  BY SMT, <1>1, <1>2

\* An estimate at least three slots ahead of the end of voting, for a chain
\* whose slots take at most 479 ms on average, is not before that end, by more
\* than what is lost where times are rounded to seconds.
THEOREM EstimateIsSafe ==
    ASSUME NEW info \in [epoch : Nat, slotIndex : Nat, slotsInEpoch : Nat, absoluteSlot : Nat],
           NEW endEpoch \in Int, NEW refSlot \in Nat, NEW refTime \in Nat,
           NEW d \in Nat, d = TargetSlot(info, endEpoch) - refSlot, d >= 3
    PROVE  1000 * (computeProofCloseTimestamp(info, endEpoch, refSlot, refTime) - refTime)
               >= 479 * d + 2000
<1> DEFINE n == d * 400
           p == n \div 1000
           m == p * 20
           q == m \div 100
<1>1. n \in Nat /\ n >= 1200 BY SMT
<1>2. p \in Nat /\ 1000 * p <= n /\ n < 1000 * p + 1000 BY SMT, <1>1, FloorBounds
<1>3. p >= 1 BY SMT, <1>1, <1>2
<1> HIDE DEF p
<1>4. m \in Nat BY SMT, <1>2
<1>5. q \in Nat /\ 100 * q <= m /\ m < 100 * q + 100 BY SMT, <1>4, FloorBounds
<1>6. Trunc(d * MS_PER_SLOT, 1000) = p BY SMT, <1>1 DEF Trunc, p
<1>7. Buffer(p) = IF q > 3600 THEN q ELSE 3600 BY SMT, <1>2, <1>3 DEF Buffer
<1>8. computeProofCloseTimestamp(info, endEpoch, refSlot, refTime) = refTime + p + Buffer(p)
  BY SMT, <1>6 DEF computeProofCloseTimestamp
<1> HIDE DEF q
<1>9. 1000 * (p + Buffer(p)) >= 479 * d + 2000
  <2>1. CASE q > 3600
    <3>1. Buffer(p) = q BY SMT, <2>1, <1>7
    <3>2. 400 * d < 1000 * p + 1000 BY SMT, <1>2
    <3>3. 20 * p < 100 * q + 100 BY SMT, <1>2, <1>5
    <3>4. p >= 17900 BY SMT, <2>1, <1>2, <1>5
    <3>5. 5 * (p + q) > 6 * p - 5 BY SMT, <1>2, <1>5, <3>3
    <3>6. 2000 * (p + q) > 2400 * p - 2000 BY SMT, <1>2, <1>5, <3>5
    <3>7. 958 * d <= 2396 * p + 2396 BY SMT, <1>2, <3>2
    <3>8. 2400 * p - 2000 >= 2396 * p + 2396 + 4000 BY SMT, <1>2, <3>4
    <3>9. QED BY SMT, <1>2, <1>5, <3>1, <3>6, <3>7, <3>8
  <2>2. CASE ~ (q > 3600)
    <3>1. Buffer(p) = 3600 BY SMT, <2>2, <1>7
    <3>2. 20 * p < 360100 BY SMT, <2>2, <1>2, <1>5
    <3>3. 400 * d < 1000 * p + 1000 BY SMT, <1>2
    <3>4. 79 * d <= 3597000 BY SMT, <3>2, <3>3, <1>2
    <3>5. QED BY SMT, <1>2, <3>1, <3>3, <3>4
  <2>3. QED BY SMT, <2>1, <2>2
<1>10. Buffer(p) \in Int BY SMT, <1>5, <1>7
<1>11. QED BY SMT, <1>2, <1>8, <1>9, <1>10

-----------------------------------------------------------------------------
(***************************************************************************)
(* The walk to a slot with a block time, and the estimate made from it     *)
(* (ProofExpiry), for epochs of any length and any number of skipped slots. *)
(***************************************************************************)
CONSTANTS SlotsInEpoch, EpochsAhead, SlotIndexes, Paces, MaxSkipped, CurrentEpoch, Genesis
VARIABLES info, endEpoch, skipped, candidate, attempts, outcome, close

Expiry == INSTANCE ProofExpiry

Infos == [epoch : Nat, slotIndex : Nat, slotsInEpoch : Nat, absoluteSlot : Nat]

\* Each attempt goes back one slot, and the estimate is of the slot that resolved.
WalkInv ==
    /\ info \in Infos /\ endEpoch \in Int /\ candidate \in Nat /\ attempts \in 0 .. Expiry!MAX_ATTEMPTS
    /\ outcome \in {"walking", "failed", "done"}
    /\ outcome = "walking" => candidate = info.absoluteSlot - attempts /\ attempts < Expiry!MAX_ATTEMPTS
    /\ outcome = "done" =>
          /\ candidate <= info.absoluteSlot
          /\ info.absoluteSlot - candidate < Expiry!MAX_ATTEMPTS
          /\ close = computeProofCloseTimestamp(info, endEpoch, candidate, Expiry!BlockTime(candidate))

\* The estimates here and in the walk are the same.
LEMMA SameEstimate ==
    ASSUME NEW i, NEW e, NEW s, NEW t
    PROVE  /\ Expiry!computeProofCloseTimestamp(i, e, s, t) = computeProofCloseTimestamp(i, e, s, t)
           /\ Expiry!TargetSlot(i, e) = TargetSlot(i, e)
<1>1. \A x, y : Expiry!Trunc(x, y) = Trunc(x, y) BY DEF Expiry!Trunc, Trunc
<1>2. \A x : Expiry!Buffer(x) = Buffer(x)
  BY DEF Expiry!Buffer, Buffer, Expiry!BUFFER_PCT, Expiry!MIN_BUFFER_SECONDS
<1>3. Expiry!TargetSlot(i, e) = TargetSlot(i, e) BY DEF Expiry!TargetSlot, TargetSlot
<1>4. Expiry!MS_PER_SLOT = MS_PER_SLOT BY DEF Expiry!MS_PER_SLOT
<1> DEFINE secs == Trunc((TargetSlot(i, e) - s) * MS_PER_SLOT, 1000)
<1>5. Expiry!Trunc((Expiry!TargetSlot(i, e) - s) * Expiry!MS_PER_SLOT, 1000) = secs
  BY <1>1, <1>3, <1>4
<1>6. computeProofCloseTimestamp(i, e, s, t) = t + secs + Buffer(secs)
  BY DEF computeProofCloseTimestamp
<1> HIDE DEF secs
<1>7. Expiry!computeProofCloseTimestamp(i, e, s, t) = t + secs + Expiry!Buffer(secs)
  BY <1>5 DEF Expiry!computeProofCloseTimestamp
<1>8. QED BY <1>2, <1>3, <1>6, <1>7

LEMMA WalkStarts ==
    ASSUME Expiry!ExpiryAssumption, Expiry!Init
    PROVE  WalkInv
<1>1. /\ SlotsInEpoch \in Nat /\ CurrentEpoch \in Nat /\ EpochsAhead \subseteq Int
      /\ SlotIndexes \subseteq 0 .. SlotsInEpoch - 1
  BY DEF Expiry!ExpiryAssumption
<1>2. PICK i \in SlotIndexes :
        info = [epoch |-> CurrentEpoch, slotIndex |-> i, slotsInEpoch |-> SlotsInEpoch,
                absoluteSlot |-> CurrentEpoch * SlotsInEpoch + i]
  BY DEF Expiry!Init
<1>3. i \in Nat /\ CurrentEpoch * SlotsInEpoch + i \in Nat BY <1>1
<1>4. info \in Infos /\ info.absoluteSlot \in Nat BY <1>1, <1>2, <1>3 DEF Infos
<1>5. endEpoch \in Int BY <1>1 DEF Expiry!Init
<1>6. candidate = info.absoluteSlot /\ attempts = 0 /\ outcome = "walking" BY DEF Expiry!Init
<1>7. Expiry!MAX_ATTEMPTS = 8 BY DEF Expiry!MAX_ATTEMPTS
<1>8. candidate = info.absoluteSlot - attempts BY <1>4, <1>6
<1>9. QED BY <1>4, <1>5, <1>6, <1>7, <1>8 DEF WalkInv

LEMMA WalkGoesOn ==
    ASSUME WalkInv, Expiry!blockTimeAtOrBefore
    PROVE  WalkInv'
<1> DEFINE top == info.absoluteSlot
<1>1. Expiry!MAX_ATTEMPTS = 8 BY DEF Expiry!MAX_ATTEMPTS
<1>2. /\ info \in Infos /\ endEpoch \in Int /\ candidate \in Nat /\ attempts \in Nat /\ attempts < 8
      /\ candidate = top - attempts /\ outcome = "walking"
  BY <1>1 DEF WalkInv, Expiry!blockTimeAtOrBefore
<1>3. top \in Nat BY <1>2 DEF Infos
<1>4. attempts' = attempts + 1 /\ info' = info /\ endEpoch' = endEpoch BY DEF Expiry!blockTimeAtOrBefore
<1> HIDE DEF top
<1>5. attempts' \in 0 .. 8 BY <1>2, <1>4
<1>6. CASE Expiry!HasBlockTime(candidate)
  <2>1. /\ outcome' = "done" /\ candidate' = candidate
        /\ close' = Expiry!computeProofCloseTimestamp(info, endEpoch, candidate, Expiry!BlockTime(candidate))
    BY <1>6 DEF Expiry!blockTimeAtOrBefore, Expiry!ReferenceSlot
  <2>2. close' = computeProofCloseTimestamp(info, endEpoch, candidate, Expiry!BlockTime(candidate))
    BY <2>1, SameEstimate
  <2>3. candidate <= top /\ top - candidate < 8 BY <1>2, <1>3
  <2>4. Expiry!BlockTime(candidate)' = Expiry!BlockTime(candidate) BY <2>1 DEF Expiry!BlockTime
  <2>5. close' = computeProofCloseTimestamp(info', endEpoch', candidate', Expiry!BlockTime(candidate)')
    BY <1>4, <2>1, <2>2, <2>4
  <2>6. QED BY <1>1, <1>2, <1>4, <1>5, <2>1, <2>3, <2>5 DEF WalkInv, top, computeProofCloseTimestamp, TargetSlot
<1>7. CASE ~Expiry!HasBlockTime(candidate)
  <2>1. /\ outcome' = (IF attempts' = 8 \/ candidate = 0 THEN "failed" ELSE "walking")
        /\ candidate' = (IF candidate = 0 THEN 0 ELSE candidate - 1)
    BY <1>1, <1>2, <1>7 DEF Expiry!blockTimeAtOrBefore
  <2>2. candidate' \in Nat /\ outcome' \in {"walking", "failed"} BY <1>2, <2>1
  <2>3. outcome' = "walking" => candidate' = top - attempts' /\ attempts' < 8
    BY <1>2, <1>3, <1>4, <2>1
  <2>4. QED BY <1>1, <1>2, <1>4, <1>5, <2>2, <2>3 DEF WalkInv, top
<1>8. QED BY <1>6, <1>7

LEMMA WalkSteps ==
    ASSUME WalkInv, [Expiry!Next]_Expiry!vars
    PROVE  WalkInv'
<1>1. CASE Expiry!Next BY <1>1, WalkGoesOn DEF Expiry!Next
<1>2. CASE UNCHANGED Expiry!vars
  <2>1. /\ info' = info /\ endEpoch' = endEpoch /\ candidate' = candidate
        /\ attempts' = attempts /\ outcome' = outcome /\ close' = close
    BY <1>2 DEF Expiry!vars
  <2>2. QED BY <2>1 DEF WalkInv, Expiry!BlockTime, Expiry!MAX_ATTEMPTS, computeProofCloseTimestamp, TargetSlot
<1>3. QED BY <1>1, <1>2

\* What the block times of two slots differ by.
LEMMA BlockTimesApart ==
    ASSUME Genesis \in Nat, NEW s \in Nat, NEW t \in Nat, s <= t
    PROVE  /\ Expiry!BlockTime(s) \in Nat /\ Expiry!BlockTime(t) \in Nat
           /\ Expiry!BlockTime(s) <= Expiry!BlockTime(t)
           /\ 1000 * (Expiry!BlockTime(t) - Expiry!BlockTime(s)) <= 400 * (t - s) + 999
<1> DEFINE m == s * 400
           n == t * 400
           x == m \div 1000
           y == n \div 1000
<1>1. m \in Nat /\ n \in Nat /\ m <= n BY SMT
<1>2. n - m = 400 * (t - s) BY SMT
<1> HIDE DEF m, n
<1>3. x \in Nat /\ 1000 * x <= m /\ m < 1000 * x + 1000 BY SMT, <1>1, FloorBounds
<1>4. y \in Nat /\ 1000 * y <= n /\ n < 1000 * y + 1000 BY SMT, <1>1, FloorBounds
<1>5. Expiry!BlockTime(s) = Genesis + x /\ Expiry!BlockTime(t) = Genesis + y
  BY DEF Expiry!BlockTime, Expiry!MS_PER_SLOT, m, n
<1> HIDE DEF x, y
<1>6. x <= y BY SMT, <1>1, <1>3, <1>4
<1>7. 1000 * (y - x) <= (n - m) + 999 BY SMT, <1>1, <1>3, <1>4
<1>8. QED BY SMT, <1>2, <1>3, <1>4, <1>5, <1>6, <1>7

\* Voting ends no later than an estimate with enough slack says.
LEMMA EstimateOutlivesVoting ==
    ASSUME WalkInv, Genesis \in Nat, outcome = "done", Expiry!Remaining >= 3,
           NEW pace \in Nat, pace < 480
    PROVE  close >= Expiry!VotingEnds(pace)
<1> DEFINE top == info.absoluteSlot
           left == Expiry!Remaining
           d == TargetSlot(info, endEpoch) - candidate
           then == Expiry!BlockTime(candidate)
           now == Expiry!BlockTime(top)
           rest == left * pace + 999
           w == rest \div 1000
<1>1. /\ info \in Infos /\ endEpoch \in Int /\ candidate \in Nat /\ candidate <= top
      /\ close = computeProofCloseTimestamp(info, endEpoch, candidate, then)
  BY DEF WalkInv
<1>2. top \in Nat /\ TargetSlot(info, endEpoch) \in Int /\ left = TargetSlot(info, endEpoch) - top
  <2>1. /\ top \in Nat /\ info.slotIndex \in Nat /\ info.epoch \in Nat /\ info.slotsInEpoch \in Nat
    BY <1>1 DEF Infos
  <2>2. TargetSlot(info, endEpoch) \in Int BY <1>1, <2>1 DEF TargetSlot
  <2>3. left = TargetSlot(info, endEpoch) - top BY SameEstimate DEF Expiry!Remaining
  <2>4. QED BY <2>1, <2>2, <2>3
<1>3. /\ then \in Nat /\ now \in Nat /\ then <= now
      /\ 1000 * (now - then) <= 400 * (top - candidate) + 999
  <2> HIDE DEF top
  <2>1. QED BY <1>1, <1>2, BlockTimesApart
<1>4. Expiry!VotingEnds(pace) = now + w BY DEF Expiry!VotingEnds
<1> HIDE DEF top, now, then
<1>5. left \in Int /\ left >= 3 BY <1>2
<1> HIDE DEF left
<1>6. d = left + (top - candidate) /\ d \in Nat /\ d >= 3 BY <1>1, <1>2, <1>5
<1>7. 1000 * (close - then) >= 479 * d + 2000 /\ close \in Int
  <2>1. info \in [epoch : Nat, slotIndex : Nat, slotsInEpoch : Nat, absoluteSlot : Nat]
    BY <1>1 DEF Infos
  <2> DEFINE e == computeProofCloseTimestamp(info, endEpoch, candidate, then)
  <2>2. 1000 * (e - then) >= 479 * d + 2000 BY <1>1, <1>3, <1>6, <2>1, EstimateIsSafe
  <2>3. d * MS_PER_SLOT \in Nat BY <1>6, SMT
  <2>4. \A x \in Nat : Trunc(x, 1000) \in Nat BY SMT DEF Trunc
  <2>5. \A x \in Nat : Buffer(x) \in Nat
    <3>1. \A x \in Nat : (x * BUFFER_PCT) \div 100 \in Nat BY SMT
    <3>2. QED BY <3>1, SMT DEF Buffer
  <2>6. e \in Int
    <3> DEFINE q == Trunc(d * MS_PER_SLOT, 1000)
    <3>1. q \in Nat /\ Buffer(q) \in Nat BY <2>3, <2>4, <2>5
    <3>2. e = then + q + Buffer(q) BY DEF computeProofCloseTimestamp
    <3> HIDE DEF q, e
    <3>3. QED BY <1>3, <3>1, <3>2
  <2> HIDE DEF e
  <2>7. close = e BY <1>1 DEF e
  <2>8. QED BY <2>2, <2>6, <2>7
<1>8. rest \in Nat /\ rest <= 479 * left + 999
  <2>1. left \in Nat /\ pace \in 0 .. 479 BY <1>5
  <2>2. left * pace \in Nat /\ left * pace <= left * 479 BY ONLY <2>1, SMT
  <2>3. QED BY <2>1, <2>2, SMT
<1> HIDE DEF rest
<1>9. w \in Nat /\ 1000 * w <= rest BY <1>8, FloorBounds, SMT
<1> HIDE DEF w, d
<1>10. 1000 * (now + w) <= 1000 * close
  <2>1. top - candidate \in Nat BY <1>1, <1>2
  <2>2. 1000 * (now - then) <= 479 * (top - candidate) + 999 BY <1>3, <2>1, SMT
  <2>3. QED BY <1>3, <1>5, <1>6, <1>7, <1>8, <1>9, <2>1, <2>2, SMT
<1>11. QED BY <1>3, <1>4, <1>7, <1>9, <1>10, SMT

\* An estimate for a vote that has been over for long is no later than now.
LEMMA EstimateOfThePast ==
    ASSUME WalkInv, Genesis \in Nat, outcome = "done", Expiry!Remaining <= - Expiry!MAX_ATTEMPTS
    PROVE  close <= Expiry!BlockTime(info.absoluteSlot)
<1> DEFINE top == info.absoluteSlot
           d == TargetSlot(info, endEpoch) - candidate
           then == Expiry!BlockTime(candidate)
           now == Expiry!BlockTime(top)
<1>1. /\ info \in Infos /\ endEpoch \in Int /\ candidate \in Nat /\ candidate <= top
      /\ top - candidate < 8 /\ close = computeProofCloseTimestamp(info, endEpoch, candidate, then)
  BY DEF WalkInv, Expiry!MAX_ATTEMPTS
<1>2. top \in Nat /\ TargetSlot(info, endEpoch) \in Int /\ TargetSlot(info, endEpoch) - top <= -8
  <2>1. /\ top \in Nat /\ info.slotIndex \in Nat /\ info.epoch \in Nat /\ info.slotsInEpoch \in Nat
    BY <1>1 DEF Infos
  <2>2. TargetSlot(info, endEpoch) \in Int BY <1>1, <2>1 DEF TargetSlot
  <2>3. Expiry!Remaining = TargetSlot(info, endEpoch) - top BY SameEstimate DEF Expiry!Remaining
  <2>4. QED BY <2>1, <2>2, <2>3 DEF Expiry!MAX_ATTEMPTS
<1>3. then \in Nat /\ now \in Nat /\ then <= now
  <2> HIDE DEF top
  <2>1. QED BY <1>1, <1>2, BlockTimesApart
<1> HIDE DEF top, now, then
<1>4. d \in Int /\ d < 0 BY <1>1, <1>2
<1> DEFINE n == - (d * MS_PER_SLOT)
           q == n \div 1000
<1>5. n \in Nat /\ ~(d * MS_PER_SLOT >= 0)
  <2> HIDE DEF d
  <2>1. QED BY <1>4, SMT
<1> HIDE DEF d
<1>6. Trunc(d * MS_PER_SLOT, 1000) = - q BY <1>5 DEF Trunc
<1> HIDE DEF n
<1>7. q \in Nat BY <1>5, FloorBounds
<1> HIDE DEF q
<1>8. Buffer(- q) = 0 BY <1>7, SMT DEF Buffer
<1>9. close = then + (- q) + Buffer(- q) BY <1>1, <1>6 DEF computeProofCloseTimestamp, d
<1>10. QED BY <1>3, <1>7, <1>8, <1>9 DEF now, top

\* The invariant of the walk (ProofExpiry).
THEOREM WalkInvAlways ==
    ASSUME Expiry!ExpiryAssumption PROVE Expiry!Spec => []WalkInv
<1>1. Expiry!Init => WalkInv BY WalkStarts
<1>2. WalkInv /\ [Expiry!Next]_Expiry!vars => WalkInv' BY WalkSteps
<1>3. QED BY <1>1, <1>2, PTL DEF Expiry!Spec

\* helpers.ts:337-426: the account cannot be closed by strangers before voting ends,
\* wherever in an epoch of whatever length the vote is cast and however many slots
\* were skipped, as long as slots take less than 480 ms and three are left.
THEOREM ProofOutlivesVoting ==
    ASSUME Expiry!ExpiryAssumption PROVE Expiry!Spec => []Expiry!NotClosableWhileVoting
<1>1. ASSUME WalkInv PROVE Expiry!NotClosableWhileVoting
  <2>1. Genesis \in Nat /\ Paces \subseteq Nat BY DEF Expiry!ExpiryAssumption
  <2>2. QED BY <1>1, <2>1, EstimateOutlivesVoting DEF Expiry!NotClosableWhileVoting, Expiry!Done
<1>2. QED BY <1>1, WalkInvAlways, PTL

\* A proof of a vote that has long ended can be closed at once.
THEOREM PastIsClosable ==
    ASSUME Expiry!ExpiryAssumption PROVE Expiry!Spec => []Expiry!PastStaysClosable
<1>1. ASSUME WalkInv PROVE Expiry!PastStaysClosable
  <2>1. Genesis \in Nat BY DEF Expiry!ExpiryAssumption
  <2>2. QED BY <1>1, <2>1, EstimateOfThePast DEF Expiry!PastStaysClosable, Expiry!Done
<1>2. QED BY <1>1, WalkInvAlways, PTL

-----------------------------------------------------------------------------
(***************************************************************************)
(* What a vote rests on when it is signed (VoteTransactions): its consensus *)
(* result, its snapshot slot, its vote account and the account of its proof *)
(* fit together, unless the chain has moved on.                            *)
(***************************************************************************)
Status == {"none", "open", "reclaimed", "expired"}

\* What a request under way has read, by the await it is at.
Reads(r) ==
    /\ r.cr \in {0} \cup Slots
    /\ r.pc # "idle" => r.cr # 0 /\ (prop[r.p].moved \/ r.cr = prop[r.p].slot)
    /\ r.pc \notin {"idle", "proposal"} => r.slot # 0 /\ (prop[r.p].moved \/ r.slot = prop[r.p].slot)
    /\ r.pc \in {"account", "signInit", "confirm", "sign"} => r.va \in VoteAccounts
    /\ r.pc # "sign" => ~r.init
    /\ r.pc = "sign" /\ ~r.init => proofs[<<r.cr, r.va>>].status # "none"

\* A list of proposals is outdated only for those that have been moved.
ListsInv ==
    \A p \in Proposals :
        /\ prop[p].slot \in {0} \cup Slots /\ listed[p] \in {0} \cup Slots
        /\ prop[p].moved => prop[p].slot # 0
        /\ listed[p] # 0 => prop[p].slot # 0 /\ (prop[p].moved \/ listed[p] = prop[p].slot)

AccountsInv ==
    /\ results \subseteq Slots /\ started \in Nat
    /\ DOMAIN proofs = Slots \X VoteAccounts
    /\ \A k \in Slots \X VoteAccounts : proofs[k].status \in Status
    /\ votes \subseteq Proposals \X VoteAccounts /\ overrides \subseteq Proposals \X Stakes
    /\ txs \subseteq Transactions /\ \A t \in txs : t.cr \in Slots

ReadsInv == ListsInv /\ AccountsInv /\ \A w \in Wallets : Reads(reqs[w])

\* What no step does: change a snapshot that is not moved, or forget that there
\* was an account.
Remembered ==
    /\ \A p \in Proposals :
          prop'[p] = prop[p] \/ prop'[p].moved \/ (prop[p].slot = 0 /\ ~prop[p].moved)
    /\ \A k \in Slots \X VoteAccounts : proofs[k].status # "none" => proofs'[k].status # "none"

LEMMA ReadsSurvive ==
    ASSUME NEW r \in Requests, Reads(r), Remembered
    PROVE  Reads(r)'
<1>1. r.p \in Proposals /\ r.cr \in {0} \cup Slots BY DEF Requests, Reads
<1>2. \/ prop'[r.p] = prop[r.p]
      \/ prop'[r.p].moved
      \/ prop[r.p].slot = 0 /\ ~prop[r.p].moved
  BY <1>1 DEF Remembered
<1>3. r.pc # "idle" => prop'[r.p].moved \/ r.cr = prop'[r.p].slot BY <1>2 DEF Reads
<1>4. r.pc \notin {"idle", "proposal"} => prop'[r.p].moved \/ r.slot = prop'[r.p].slot BY <1>2 DEF Reads
<1>5. ASSUME r.pc = "sign", ~r.init PROVE proofs'[<<r.cr, r.va>>].status # "none"
  <2>1. <<r.cr, r.va>> \in Slots \X VoteAccounts /\ proofs[<<r.cr, r.va>>].status # "none"
    BY <1>1, <1>5 DEF Reads
  <2>2. QED BY <2>1 DEF Remembered
<1>6. QED BY <1>3, <1>4, <1>5 DEF Reads

LEMMA OneRequestReads ==
    ASSUME LineageInv, ReadsInv, Remembered, NEW w \in Wallets, NEW r, Continue(w, r), Reads(r)'
    PROVE  \A x \in Wallets : Reads(reqs[x])'
<1>1. SUFFICES ASSUME NEW x \in Wallets PROVE Reads(reqs[x])' OBVIOUS
<1>2. reqs \in [Wallets -> Requests] /\ reqs' = [reqs EXCEPT ![w] = r] BY DEF LineageInv, Continue
<1>3. ASSUME NEW q, q = reqs'[x], Reads(q)' PROVE Reads(reqs[x])'
  BY <1>3 DEF Reads
<1>4. CASE x = w BY <1>2, <1>3, <1>4
<1>5. CASE x # w
  <2>1. PICK q : q = reqs[x] OBVIOUS
  <2>2. q = reqs'[x] /\ q \in Requests BY <1>2, <1>5, <2>1
  <2>3. Reads(q) BY <2>1 DEF ReadsInv
  <2>4. Reads(q)' BY <2>2, <2>3, ReadsSurvive
  <2>5. QED BY <1>3, <2>2, <2>4
<1>6. QED BY <1>4, <1>5

LEMMA NoRequestMoves ==
    ASSUME LineageInv, ReadsInv, Remembered, reqs' = reqs
    PROVE  \A x \in Wallets : Reads(reqs[x])'
<1>1. SUFFICES ASSUME NEW x \in Wallets PROVE Reads(reqs[x])' OBVIOUS
<1>2. PICK q : q = reqs[x] OBVIOUS
<1>3. q = reqs'[x] /\ q \in Requests BY <1>2 DEF LineageInv
<1>4. Reads(q) BY <1>2 DEF ReadsInv
<1>5. Reads(q)' BY <1>3, <1>4, ReadsSurvive
<1>6. QED BY <1>3, <1>5 DEF Reads

\* A request that has ended reads nothing.
LEMMA IdleReads ==
    ASSUME Proposals # {} PROVE Reads(Idle) /\ Reads(Idle)'
<1>1. Idle.cr = 0 /\ Idle.pc = "idle" /\ ~Idle.init BY DEF Idle
<1>2. QED BY <1>1 DEF Reads

\* Nothing of the chain changes while a builder reads.
LEMMA WorldStays ==
    ASSUME World' = World
    PROVE  /\ Remembered /\ prop' = prop /\ proofs' = proofs
           /\ ListsInv => ListsInv'
<1>1. UNCHANGED <<epoch, prop, results, proofs, votes, overrides, listed>> BY DEF World, chain
<1>2. Remembered BY <1>1 DEF Remembered
<1>3. ListsInv => ListsInv' BY <1>1 DEF ListsInv
<1>4. QED BY <1>1, <1>2, <1>3

\* The awaits before a transaction is signed.
LEMMA FetchesRead ==
    ASSUME LineageInv, ChainTypes, ReadsInv, TransactionsAssumption,
           NEW w \in Wallets, NEW ops \in SUBSET Ops,
           \/ FetchProposal(w, ops)
           \/ ops \subseteq ValidatorOps /\ FetchVoteAccountProof(w, ops)
           \/ \E leaf \in VoteAccounts : FetchOverrideProofs(w, ops, leaf)
           \/ FetchProofAccount(w, ops)
    PROVE  ReadsInv'
<1> DEFINE r == reqs[w]
<1>0. r \in Requests /\ Reads(r) /\ Proposals # {} BY DEF LineageInv, ReadsInv, TransactionsAssumption
<1>1. World' = World /\ started' = started /\ txs' = txs
  BY DEF FetchProposal, FetchVoteAccountProof, FetchOverrideProofs, FetchProofAccount, Rest
<1>2. ListsInv' /\ AccountsInv' /\ Remembered /\ prop' = prop /\ proofs' = proofs
  BY <1>1, WorldStays DEF ReadsInv, AccountsInv, World, chain
<1>3. ASSUME Throw(w) PROVE ReadsInv'
  BY <1>0, <1>2, <1>3, IdleReads, OneRequestReads DEF Throw, ReadsInv
<1>4. ASSUME NEW a, Reads(a), Continue(w, a) PROVE ReadsInv'
  <2>1. Reads(a)' BY <1>2, <1>4 DEF Reads
  <2>2. QED BY <1>2, <1>4, <2>1, OneRequestReads DEF ReadsInv
<1>5. CASE FetchProposal(w, ops)
  <2> DEFINE a == [r EXCEPT !.pc = "proofs", !.slot = prop[r.p].slot, !.end = prop[r.p].end]
  <2>1. r.pc = "proposal" BY <1>5 DEF FetchProposal, At
  <2>2. Throw(w) \/ (prop[r.p].slot # 0 /\ Continue(w, a))
    BY <1>5 DEF FetchProposal, resolveProposalSnapshotSlot
  <2>3. /\ a.pc = "proofs" /\ a.slot = prop[r.p].slot /\ a.cr = r.cr /\ a.p = r.p /\ a.init = r.init
    BY <1>0 DEF Requests
  <2> HIDE DEF a
  <2>4. prop[r.p].slot # 0 => Reads(a) BY <1>0, <2>1, <2>3 DEF Reads
  <2>5. QED BY <1>3, <1>4, <2>2, <2>4
<1>6. ASSUME NEW v \in VoteAccounts, r.pc = "proofs",
             Continue(w, [r EXCEPT !.pc = "account", !.va = v])
      PROVE  ReadsInv'
  <2> DEFINE a == [r EXCEPT !.pc = "account", !.va = v]
  <2>1. /\ a.pc = "account" /\ a.va = v /\ a.slot = r.slot /\ a.cr = r.cr /\ a.p = r.p /\ a.init = r.init
    BY <1>0 DEF Requests
  <2>2. Continue(w, a) BY <1>6
  <2> HIDE DEF a
  <2>3. Reads(a) BY <1>0, <1>6, <2>1 DEF Reads
  <2>4. QED BY <1>4, <2>2, <2>3
<1>7. CASE ops \subseteq ValidatorOps /\ FetchVoteAccountProof(w, ops)
  <2>1. r.pc = "proofs" /\ Identity[w] \in VoteAccounts \cup {NoAccount}
    BY <1>7 DEF FetchVoteAccountProof, At, TransactionsAssumption
  <2>2. CASE Identity[w] = NoAccount BY <1>3, <1>7, <2>2 DEF FetchVoteAccountProof
  <2>3. CASE Identity[w] # NoAccount BY <1>6, <1>7, <2>1, <2>3 DEF FetchVoteAccountProof
  <2>4. QED BY <2>2, <2>3
<1>8. CASE \E leaf \in VoteAccounts : FetchOverrideProofs(w, ops, leaf)
  <2>1. PICK leaf \in VoteAccounts : FetchOverrideProofs(w, ops, leaf) BY <1>8
  <2>2. r.pc = "proofs" BY <2>1 DEF FetchOverrideProofs, At
  <2>3. Throw(w) \/ Continue(w, [r EXCEPT !.pc = "account", !.va = leaf])
    BY <2>1 DEF FetchOverrideProofs
  <2>4. QED BY <1>3, <1>6, <2>2, <2>3
<1>9. CASE FetchProofAccount(w, ops)
  <2> DEFINE a == [r EXCEPT !.pc = "sign"]
             b == [r EXCEPT !.pc = "signInit"]
             c == [r EXCEPT !.pc = "sign", !.init = TRUE]
  <2>1. r.pc = "account" BY <1>9 DEF FetchProofAccount, At
  <2>2. (IsOpen(<<r.cr, r.va>>) /\ Continue(w, a)) \/ Continue(w, b) \/ Continue(w, c)
    BY <1>9 DEF FetchProofAccount
  <2>3. /\ a.pc = "sign" /\ a.va = r.va /\ a.slot = r.slot /\ a.cr = r.cr /\ a.p = r.p /\ a.init = r.init
    BY <1>0 DEF Requests
  <2>4. /\ b.pc = "signInit" /\ b.va = r.va /\ b.slot = r.slot /\ b.cr = r.cr /\ b.p = r.p /\ b.init = r.init
    BY <1>0 DEF Requests
  <2>5. /\ c.pc = "sign" /\ c.va = r.va /\ c.slot = r.slot /\ c.cr = r.cr /\ c.p = r.p /\ c.init
    BY <1>0 DEF Requests
  <2> HIDE DEF a, b, c
  <2>6. IsOpen(<<r.cr, r.va>>) => Reads(a) BY <1>0, <2>1, <2>3 DEF Reads, IsOpen
  <2>7. Reads(b) BY <1>0, <2>1, <2>4 DEF Reads
  <2>8. Reads(c) BY <1>0, <2>1, <2>5 DEF Reads
  <2>9. QED BY <1>4, <2>2, <2>6, <2>7, <2>8
<1>10. QED BY <1>5, <1>7, <1>8, <1>9

LEMMA MutateReads ==
    ASSUME LineageInv, ChainTypes, ReadsInv, TransactionsAssumption,
           NEW w \in Wallets, NEW op \in Ops, NEW p \in Proposals, NEW s \in Stakes \cup {NoStake},
           Mutate(w, op, p, s)
    PROVE  ReadsInv'
<1> DEFINE r == [Idle EXCEPT !.pc = "proposal", !.op = op, !.p = p, !.stake = s, !.cr = listed[p]]
<1>1. Idle \in Requests /\ ~Idle.init BY IdleIsARequest DEF TransactionsAssumption, Idle
<1>2. Continue(w, r) /\ World' = World /\ txs' = txs /\ started' = started + 1 /\ listed[p] # 0
  BY DEF Mutate
<1>3. r.pc = "proposal" /\ r.cr = listed[p] /\ r.p = p /\ ~r.init BY <1>1 DEF Requests
<1> HIDE DEF r
<1>4. ListsInv' /\ AccountsInv' /\ Remembered /\ prop' = prop /\ proofs' = proofs
  <2>1. ListsInv /\ AccountsInv /\ started \in Nat BY DEF ReadsInv, AccountsInv
  <2>2. started' \in Nat BY <1>2, <2>1
  <2>3. QED BY <1>2, <2>1, <2>2, WorldStays DEF AccountsInv, World, chain
<1>5. Reads(r) BY <1>2, <1>3 DEF Reads, ReadsInv, ListsInv
<1>6. PICK c : c = r OBVIOUS
<1>7. Reads(c) /\ Continue(w, c) BY <1>2, <1>5, <1>6
<1>8. Reads(c)' BY <1>4, <1>7 DEF Reads
<1>9. QED BY <1>4, <1>7, <1>8, OneRequestReads DEF ReadsInv

\* What is sent has the type of a transaction and names what was read.
LEMMA Sendable ==
    ASSUME LineageInv, ReadsInv, NEW w \in Wallets, reqs[w].pc \in {"signInit", "sign"},
           NEW kind \in {"init", "vote"}, NEW by \in Wallets
    PROVE  Transaction(w, kind, by) \in Transactions /\ Transaction(w, kind, by).cr \in Slots
<1> DEFINE r == reqs[w]
<1>1. r \in Requests /\ Reads(r) BY DEF LineageInv, ReadsInv
<1>2. r.va \in VoteAccounts /\ r.cr \in Slots BY <1>1 DEF Reads
<1>3. Transaction(w, kind, by) \in Transactions BY <1>1, <1>2 DEF Transaction, Transactions, Requests
<1>4. Transaction(w, kind, by).cr = r.cr BY DEF Transaction
<1>5. QED BY <1>2, <1>3, <1>4

LEMMA SendsRead ==
    ASSUME LineageInv, ChainTypes, ReadsInv, TransactionsAssumption,
           NEW w \in Wallets, NEW ops \in SUBSET Ops, NEW by \in Wallets,
           SendInit(w, ops, by) \/ SendVote(w, ops, by)
    PROVE  ReadsInv'
<1> DEFINE r == reqs[w]
<1>0. r \in Requests /\ Reads(r) /\ Proposals # {} BY DEF LineageInv, ReadsInv, TransactionsAssumption
<1>1. World' = World /\ started' = started /\ r.pc \in {"signInit", "sign"}
  BY DEF SendInit, SendVote, Rest, At
<1>2. txs' = txs \/ \E kind \in {"init", "vote"} : txs' = txs \cup {Transaction(w, kind, by)}
  BY DEF SendInit, SendVote
<1>3. txs' \subseteq Transactions /\ \A t \in txs' : t.cr \in Slots
  BY <1>1, <1>2, Sendable DEF ReadsInv, AccountsInv
<1>4. ListsInv' /\ AccountsInv' /\ Remembered /\ prop' = prop /\ proofs' = proofs
  BY <1>1, <1>3, WorldStays DEF ReadsInv, AccountsInv, World, chain
<1> DEFINE a == [r EXCEPT !.pc = "confirm"]
<1>5. Continue(w, Idle) \/ (r.pc = "signInit" /\ Continue(w, a)) BY DEF SendInit, SendVote, Throw, At
<1>6. /\ a.pc = "confirm" /\ a.va = r.va /\ a.slot = r.slot /\ a.cr = r.cr /\ a.p = r.p /\ a.init = r.init
  BY <1>0 DEF Requests
<1> HIDE DEF a
<1>7. r.pc = "signInit" => Reads(a)
  BY <1>0, <1>6 DEF Reads
<1>12. PICK c : c = a OBVIOUS
<1>8. r.pc = "signInit" => Reads(c)' BY <1>4, <1>7, <1>12 DEF Reads
<1>9. CASE Continue(w, Idle) BY <1>0, <1>4, <1>9, IdleReads, OneRequestReads DEF ReadsInv
<1>10. CASE r.pc = "signInit" /\ Continue(w, a) 
  <2>1. Continue(w, c) /\ Reads(c)' BY <1>8, <1>10, <1>12
  <2>2. QED BY <1>4, <2>1, OneRequestReads DEF ReadsInv
<1>11. QED BY <1>5, <1>9, <1>10

\* A transaction lands or expires: the request that waits for it goes on with an
\* account there, or ends.
LEMMA SettlingReads ==
    ASSUME LineageInv, ChainTypes, ReadsInv, TransactionsAssumption, NEW t \in txs,
           Land(t) \/ Expire(t)
    PROVE  ReadsInv'
<1> DEFINE w == t.w
           r == reqs[w]
           k == <<t.cr, t.va>>
           a == [r EXCEPT !.pc = "sign", !.inited = TRUE]
<1>0. t \in Transactions /\ t.cr \in Slots /\ w \in Wallets /\ Proposals # {}
  BY DEF ReadsInv, AccountsInv, ChainTypes, TransactionsAssumption
<1>1. r \in Requests /\ Reads(r) /\ k \in Slots \X VoteAccounts /\ reqs \in [Wallets -> Requests]
  BY <1>0 DEF LineageInv, ReadsInv, Transactions
<1>2. /\ UNCHANGED <<chain, listed, started>> /\ txs' \subseteq txs
      /\ \/ proofs' = proofs
         \/ proofs' = [proofs EXCEPT ![k] = [status |-> "open", payer |-> w, until |-> closeEpoch(t)]]
      /\ votes' = votes \/ votes' = votes \cup {<<t.p, t.va>>}
      /\ overrides' = overrides \/ (t.op = "castVoteOverride" /\ overrides' = overrides \cup {<<t.p, t.stake>>})
  <2>1. CASE Land(t) BY <2>1 DEF Land
  <2>2. CASE Expire(t) BY <2>2 DEF Expire, Rest, World
  <2>3. QED BY <2>1, <2>2
<1>3. prop' = prop /\ results' = results BY <1>2 DEF chain
<1>4. /\ DOMAIN proofs = Slots \X VoteAccounts
      /\ \A j \in Slots \X VoteAccounts : proofs[j].status \in Status
  BY DEF ReadsInv, AccountsInv
<1>5. /\ DOMAIN proofs' = Slots \X VoteAccounts
      /\ \A j \in Slots \X VoteAccounts :
            proofs'[j].status = proofs[j].status \/ proofs'[j].status = "open"
  <2> DEFINE o == [status |-> "open", payer |-> w, until |-> closeEpoch(t)]
  <2>1. o.status = "open" OBVIOUS
  <2>2. proofs' = proofs \/ proofs' = [proofs EXCEPT ![k] = o] BY <1>2
  <2> HIDE DEF o, k
  <2>3. QED BY <1>1, <1>4, <2>1, <2>2
<1> HIDE DEF k
<1>6. Remembered BY <1>3, <1>5 DEF Remembered
<1>7. ListsInv' BY <1>2, <1>3 DEF ReadsInv, ListsInv
<1>8. AccountsInv'
  <2>1. t.p \in Proposals /\ t.va \in VoteAccounts BY <1>0 DEF Transactions
  <2>2. votes' \subseteq Proposals \X VoteAccounts BY <1>2, <2>1 DEF ReadsInv, AccountsInv
  <2>3. t.op = "castVoteOverride" => t.stake \in Stakes BY DEF LineageInv, OverridesFollowTheSnapshot
  <2>4. overrides' \subseteq Proposals \X Stakes BY <1>2, <2>1, <2>3 DEF ReadsInv, AccountsInv
  <2>5. \A j \in Slots \X VoteAccounts : proofs'[j].status \in Status BY <1>4, <1>5 DEF Status
  <2>6. txs' \subseteq Transactions /\ \A u \in txs' : u.cr \in Slots BY <1>2 DEF ReadsInv, AccountsInv
  <2>7. results' \subseteq Slots /\ started' \in Nat BY <1>2, <1>3 DEF ReadsInv, AccountsInv
  <2>8. QED BY <1>5, <2>2, <2>4, <2>5, <2>6, <2>7 DEF AccountsInv
<1>9. \/ reqs' = reqs
      \/ Continue(w, Idle)
      \/ r.pc = "confirm" /\ t = Transaction(w, "init", w) /\ Accepts(t) /\ Land(t) /\ Continue(w, a)
  <2>1. CASE Land(t)
    <3>1. Settle(t, Accepts(t)) BY <2>1 DEF Land
    <3>2. QED BY <1>1, <2>1, <3>1 DEF Settle, Continue
  <2>2. CASE Expire(t)
    <3>1. Settle(t, FALSE) BY <2>2 DEF Expire
    <3>2. QED BY <1>1, <2>2, <3>1 DEF Settle, Continue
  <2>3. QED BY <2>1, <2>2
<1>10. ASSUME NEW c, c = a, r.pc = "confirm", t = Transaction(w, "init", w), Accepts(t), Land(t)
       PROVE  Reads(c)'
  <2>1. /\ c.pc = "sign" /\ c.va = r.va /\ c.slot = r.slot /\ c.cr = r.cr /\ c.p = r.p /\ c.init = r.init
    BY <1>1, <1>10 DEF Requests
  <2>2. t.cr = r.cr /\ t.va = r.va /\ t.kind = "init" BY <1>10 DEF Transaction
  <2>3. proofs' = [proofs EXCEPT ![k] = [status |-> "open", payer |-> w, until |-> closeEpoch(t)]]
    BY <1>10, <2>2 DEF Land, k
  <2>4. k \in Slots \X VoteAccounts BY <1>1 DEF k
  <2> DEFINE o == [status |-> "open", payer |-> w, until |-> closeEpoch(t)]
  <2>5. proofs'[k] = o /\ o.status = "open" BY <1>4, <2>3, <2>4
  <2>6. k = <<r.cr, r.va>> BY <2>2 DEF k
  <2> HIDE DEF o, a
  <2>7. proofs'[<<c.cr, c.va>>].status = "open" BY <2>1, <2>5, <2>6
  <2>8. QED BY <1>1, <1>3, <1>10, <2>1, <2>7 DEF Reads
<1> HIDE DEF a, r, w
<1>11. \A x \in Wallets : Reads(reqs[x])'
  <2>1. CASE reqs' = reqs BY <1>6, <2>1, NoRequestMoves
  <2>2. CASE Continue(w, Idle) BY <1>0, <1>6, <2>2, IdleReads, OneRequestReads
  <2>3. CASE r.pc = "confirm" /\ t = Transaction(w, "init", w) /\ Accepts(t) /\ Land(t) /\ Continue(w, a)
    <3>1. PICK c : c = a OBVIOUS
    <3>2. Reads(c)' /\ Continue(w, c) BY <1>10, <2>3, <3>1
    <3>3. QED BY <1>0, <1>6, <3>2, OneRequestReads
  <2>4. QED BY <1>9, <2>1, <2>2, <2>3
<1>12. QED BY <1>7, <1>8, <1>11 DEF ReadsInv

LEMMA ChainReads ==
    ASSUME LineageInv, ChainTypes, ReadsInv, TransactionsAssumption, ChainSteps
    PROVE  ReadsInv'
<1>1. reqs' = reqs /\ UNCHANGED <<votes, overrides, listed, started, txs>>
  BY DEF ChainSteps, NextEpoch, ActivateVoting, FlushMerkleRoot, Bind, FinalizeConsensus,
     ReclaimProof, CloseExpiredProof
<1>2. SUFFICES ListsInv' /\ AccountsInv' /\ Remembered
  BY <1>1, NoRequestMoves DEF ReadsInv
<1>3. ListsInv /\ AccountsInv BY DEF ReadsInv
<1>4. ASSUME prop' = prop, results' \subseteq Slots, DOMAIN proofs' = Slots \X VoteAccounts,
             \A k \in Slots \X VoteAccounts :
                proofs'[k].status = proofs[k].status \/ proofs'[k].status \in {"reclaimed", "expired"}
      PROVE  ListsInv' /\ AccountsInv' /\ Remembered
  <2>1. ListsInv' BY <1>1, <1>3, <1>4 DEF ListsInv
  <2>2. AccountsInv' BY <1>1, <1>3, <1>4 DEF AccountsInv, Status
  <2>3. Remembered BY <1>4 DEF Remembered
  <2>4. QED BY <2>1, <2>2, <2>3
<1>5. CASE NextEpoch BY <1>3, <1>4, <1>5 DEF NextEpoch, AccountsInv
<1>6. ASSUME NEW s \in Slots, FinalizeConsensus(s) PROVE ListsInv' /\ AccountsInv' /\ Remembered
  BY <1>3, <1>4, <1>6 DEF FinalizeConsensus, AccountsInv
<1>7. ASSUME NEW k \in Slots \X VoteAccounts, ReclaimProof(k) \/ CloseExpiredProof(k)
      PROVE  ListsInv' /\ AccountsInv' /\ Remembered
  <2>1. /\ UNCHANGED chain
        /\ \E status \in {"reclaimed", "expired"} : proofs' = [proofs EXCEPT ![k].status = status]
    BY <1>7 DEF ReclaimProof, CloseExpiredProof
  <2>2. PICK status \in {"reclaimed", "expired"} :
          proofs' = [proofs EXCEPT ![k] = [proofs[k] EXCEPT !.status = status]]
    BY <2>1
  <2> DEFINE o == [proofs[k] EXCEPT !.status = status]
  <2>3. o.status = status \/ o.status = proofs[k].status OBVIOUS
  <2>4. proofs' = [proofs EXCEPT ![k] = o] BY <2>2
  <2> HIDE DEF o
  <2>5. DOMAIN proofs' = Slots \X VoteAccounts
        /\ \A j \in Slots \X VoteAccounts : proofs'[j] = IF j = k THEN o ELSE proofs[j]
    BY <1>3, <2>4 DEF AccountsInv
  <2>6. prop' = prop /\ results' = results BY <2>1 DEF chain
  <2>7. results' \subseteq Slots BY <1>3, <2>6 DEF AccountsInv
  <2>8. \A j \in Slots \X VoteAccounts :
           proofs'[j].status = proofs[j].status \/ proofs'[j].status \in {"reclaimed", "expired"}
    BY <2>3, <2>5
  <2>9. QED BY <1>4, <2>5, <2>6, <2>7, <2>8
<1>8. ASSUME NEW p \in Proposals, NEW length \in VotingLengths, NEW moved \in BOOLEAN,
             Bind(p, length, moved), (prop[p].slot = 0) \/ moved
      PROVE  ListsInv' /\ AccountsInv' /\ Remembered
  <2> DEFINE b == [slot |-> epoch + Extension, start |-> epoch + Extension + 1,
                   end |-> epoch + Extension + 1 + length, moved |-> moved]
  <2>1. /\ b.slot = epoch + Extension /\ b.moved = moved /\ epoch + Extension \in Slots
        /\ prop' = [prop EXCEPT ![p] = b] /\ UNCHANGED <<results, proofs>>
    BY <1>8 DEF Bind
  <2>2. b.slot \in Slots /\ b.slot # 0
    <3>1. \A x \in Slots : x # 0 BY DEF Slots
    <3>2. QED BY <2>1, <3>1
  <2>3. \A q \in Proposals : prop'[q] = IF q = p THEN b ELSE prop[q] BY <2>1 DEF ChainTypes
  <2>4. prop[p].slot = 0 => ~prop[p].moved /\ listed[p] = 0 BY <1>3 DEF ListsInv
  <2> HIDE DEF b
  <2>5. Remembered
    <3>1. \A q \in Proposals :
             prop'[q] = prop[q] \/ prop'[q].moved \/ (prop[q].slot = 0 /\ ~prop[q].moved)
      BY <1>8, <2>1, <2>3, <2>4
    <3>2. QED BY <2>1, <3>1 DEF Remembered
  <2>6. ListsInv'
    <3>1. SUFFICES ASSUME NEW q \in Proposals
                   PROVE  /\ prop'[q].slot \in {0} \cup Slots /\ listed'[q] \in {0} \cup Slots
                          /\ prop'[q].moved => prop'[q].slot # 0
                          /\ listed'[q] # 0 =>
                                prop'[q].slot # 0 /\ (prop'[q].moved \/ listed'[q] = prop'[q].slot)
      BY DEF ListsInv
    <3>2. CASE q = p BY <1>1, <1>3, <1>8, <2>1, <2>2, <2>3, <2>4, <3>2 DEF ListsInv
    <3>3. CASE q # p BY <1>1, <1>3, <2>3, <3>3 DEF ListsInv
    <3>4. QED BY <3>2, <3>3
  <2>7. AccountsInv' BY <1>1, <1>3, <2>1 DEF AccountsInv
  <2>8. QED BY <2>5, <2>6, <2>7
<1>9. ASSUME NEW p \in Proposals, NEW length \in VotingLengths,
             ActivateVoting(p, length) \/ FlushMerkleRoot(p, length)
      PROVE  ListsInv' /\ AccountsInv' /\ Remembered
  <2>1. CASE ActivateVoting(p, length) BY <1>8, <2>1 DEF ActivateVoting
  <2>2. CASE FlushMerkleRoot(p, length) BY <1>8, <2>2 DEF FlushMerkleRoot
  <2>3. QED BY <1>9, <2>1, <2>2
<1>10. QED BY <1>5, <1>6, <1>7, <1>9 DEF ChainSteps

LEMMA RefetchReads ==
    ASSUME LineageInv, ChainTypes, ReadsInv, RefetchProposals
    PROVE  ReadsInv'
<1>1. /\ listed' = [p \in Proposals |-> prop[p].slot] /\ reqs' = reqs
      /\ UNCHANGED <<chain, proofs, votes, overrides, started, txs>>
  BY DEF RefetchProposals
<1>2. prop' = prop /\ results' = results BY <1>1 DEF chain
<1>3. Remembered BY <1>1, <1>2 DEF Remembered
<1>4. ListsInv' BY <1>1, <1>2 DEF ReadsInv, ListsInv
<1>5. AccountsInv' BY <1>1, <1>2 DEF ReadsInv, AccountsInv
<1>6. QED BY <1>1, <1>3, <1>4, <1>5, NoRequestMoves DEF ReadsInv

LEMMA ReadsKept ==
    ASSUME LineageInv, ChainTypes, ReadsInv, TransactionsAssumption, Next
    PROVE  ReadsInv'
<1>1. CASE \E w \in Wallets, op \in Ops, p \in Proposals, s \in Stakes \cup {NoStake} :
              Mutate(w, op, p, s)
  BY <1>1, MutateReads
<1>2. ASSUME NEW w \in Wallets,
             castVote(w) \/ modifyVote(w) \/ castVoteOverride(w) \/ modifyVoteOverride(w)
      PROVE  ReadsInv'
  <2>1. \E ops \in SUBSET Ops :
           \/ FetchProposal(w, ops)
           \/ ops \subseteq ValidatorOps /\ FetchVoteAccountProof(w, ops)
           \/ \E leaf \in VoteAccounts : FetchOverrideProofs(w, ops, leaf)
           \/ FetchProofAccount(w, ops)
           \/ \E by \in Wallets : SendInit(w, ops, by) \/ SendVote(w, ops, by)
    <3>1. CASE castVote(w) BY <3>1, Zenon DEF castVote
    <3>2. CASE modifyVote(w) BY <3>2, Zenon DEF modifyVote
    <3>3. CASE castVoteOverride(w) BY <3>3, Zenon DEF castVoteOverride
    <3>4. CASE modifyVoteOverride(w) BY <3>4, Zenon DEF modifyVoteOverride
    <3>5. QED BY <1>2, <3>1, <3>2, <3>3, <3>4
  <2>2. QED BY <2>1, FetchesRead, SendsRead
<1>3. ASSUME NEW w \in Wallets, Fail(w) PROVE ReadsInv'
  <2>1. Continue(w, Idle) /\ World' = World /\ started' = started /\ txs' = txs
    BY <1>3 DEF Fail, Throw, Rest
  <2>2. Remembered /\ ListsInv' BY <2>1, WorldStays DEF ReadsInv
  <2>3. AccountsInv' BY <2>1 DEF ReadsInv, AccountsInv, World, chain
  <2>4. Reads(Idle)' BY IdleReads DEF TransactionsAssumption
  <2>5. QED BY <2>1, <2>2, <2>3, <2>4, OneRequestReads DEF ReadsInv
<1>4. CASE \E t \in txs : Land(t) \/ Expire(t) BY <1>4, SettlingReads
<1>5. CASE ChainSteps BY <1>5, ChainReads
<1>6. CASE RefetchProposals BY <1>6, RefetchReads
<1>7. QED BY <1>1, <1>2, <1>3, <1>4, <1>5, <1>6 DEF Next

\* What the builders have read stays together with what they sign.
THEOREM ReadsInvHolds == Spec => [](LineageInv /\ ChainTypes /\ ReadsInv)
<1> USE TransactionsAssumption
<1>1. Init => ReadsInv
  <2> SUFFICES ASSUME Init PROVE ReadsInv
    OBVIOUS
  <2>1. \A w \in Wallets : reqs[w] = Idle BY DEF Init
  <2>2. Proposals # {} BY DEF TransactionsAssumption
  <2>3. \A w \in Wallets : Reads(reqs[w]) BY <2>1, <2>2, IdleReads
  <2>4. \A p \in Proposals : prop[p].slot = 0 /\ ~prop[p].moved /\ listed[p] = 0 BY DEF Init
  <2>5. ListsInv BY <2>4 DEF ListsInv
  <2>6. AccountsInv BY DEF Init, AccountsInv, Status
  <2>7. QED BY <2>3, <2>5, <2>6 DEF ReadsInv
<1>2. LineageInv /\ ChainTypes /\ ReadsInv /\ [Next]_vars => ReadsInv'
  <2> SUFFICES ASSUME LineageInv, ChainTypes, ReadsInv, [Next]_vars PROVE ReadsInv'
    OBVIOUS
  <2>1. CASE Next BY <2>1, ReadsKept
  <2>2. CASE UNCHANGED vars
    <3>1. /\ prop' = prop /\ results' = results /\ proofs' = proofs /\ votes' = votes
          /\ overrides' = overrides /\ listed' = listed /\ reqs' = reqs /\ started' = started /\ txs' = txs
      BY <2>2 DEF vars
    <3>2. Remembered BY <3>1 DEF Remembered
    <3>3. ListsInv' /\ AccountsInv' BY <3>1 DEF ReadsInv, ListsInv, AccountsInv
    <3>4. QED BY <3>1, <3>2, <3>3, NoRequestMoves DEF ReadsInv
  <2>3. QED BY <2>1, <2>2
<1>3. QED BY <1>1, <1>2, LineageInvHolds, PTL DEF Spec

\* The types of chain, requests and transactions.
THEOREM TransactionsAreTyped == Spec => []TransactionsTypeOK
<1>1. LineageInv /\ ChainTypes /\ ReadsInv => TransactionsTypeOK
  BY DEF LineageInv, ChainTypes, ReadsInv, AccountsInv, Status, TransactionsTypeOK
<1>2. QED BY <1>1, ReadsInvHolds, PTL

\* A vote that is ready to be signed is refused only for what happened on chain
\* since the builder read it (castVote.ts:30-172 and its three siblings), for any number
\* of wallets, proposals and accounts.
THEOREM ReadyVotesFit == Spec => []RefusedOnlyForRaces
<1>1. ASSUME LineageInv, ChainTypes, ReadsInv, NEW w \in Wallets, reqs[w].pc = "sign",
             ~Excused(Transaction(w, "vote", w))
      PROVE  AcceptsVote(Transaction(w, "vote", w))
  <2> DEFINE r == reqs[w]
  <2>1. PICK t : t = Transaction(w, "vote", w) OBVIOUS
  <2>2. /\ t.p = r.p /\ t.cr = r.cr /\ t.slot = r.slot /\ t.va = r.va /\ t.init = r.init
        /\ t.op = r.op /\ t.stake = r.stake
    BY <2>1 DEF Transaction
  <2>3. r \in Requests /\ Reads(r) /\ RequestLineage(r) BY <1>1 DEF LineageInv, ReadsInv
  <2>4. /\ ~prop[t.p].moved /\ VotingOpen(t.p) /\ t.cr \in results /\ AcceptsVoter(t)
        /\ t.init => ~IsOpen(<<t.cr, t.va>>)
        /\ ~t.init => proofs[<<t.cr, t.va>>].status \notin {"reclaimed", "expired"}
    BY <1>1, <2>1 DEF Excused
  <2>5. prop[t.p].slot = t.cr /\ t.slot = t.cr /\ t.cr \in Slots /\ t.va \in VoteAccounts
    BY <1>1, <2>2, <2>3, <2>4 DEF Reads
  <2>6. ~t.init => IsOpen(<<t.cr, t.va>>)
    <3>1. <<t.cr, t.va>> \in Slots \X VoteAccounts BY <2>5
    <3>2. proofs[<<t.cr, t.va>>].status \in Status BY <1>1, <3>1 DEF ReadsInv, AccountsInv
    <3>3. ~t.init => proofs[<<t.cr, t.va>>].status # "none" BY <1>1, <2>2, <2>3 DEF Reads
    <3>4. QED BY <2>4, <3>2, <3>3 DEF IsOpen, Status
  <2>7. t.op \in OverrideOps => DelegatedTo[t.stake] = t.va BY <1>1, <2>2, <2>3 DEF RequestLineage
  <2>8. AcceptsVote(t) BY <2>4, <2>5, <2>6, <2>7 DEF AcceptsVote, AcceptsInit, AcceptsLineage
  <2>9. QED BY <2>1, <2>8
<1>2. LineageInv /\ ChainTypes /\ ReadsInv => RefusedOnlyForRaces BY <1>1 DEF RefusedOnlyForRaces
<1>3. QED BY <1>2, ReadsInvHolds, PTL

\* With votes of the same length, n epochs, an account's close time is the end of
\* every vote on its snapshot, whoever created it.
Closes(k, n) ==
    proofs[k].status # "none" =>
        /\ proofs[k] \in [status : Status, payer : Wallets, until : Nat]
        /\ proofs[k].until = k[1] + 1 + n
        /\ proofs[k].status = "expired" => epoch >= k[1] + 1 + n

EndsInv(n) ==
    /\ \A p \in Proposals : prop[p].slot # 0 => prop[p].end = prop[p].slot + 1 + n
    /\ \A w \in Wallets :
          /\ reqs[w].pc \notin {"idle", "proposal"} => reqs[w].end = reqs[w].slot + 1 + n
          /\ reqs[w].inited => reqs[w].slot = reqs[w].cr /\ reqs[w].pc \notin {"idle", "proposal"}
    /\ \A t \in txs : t.end = t.slot + 1 + n
    /\ \A k \in Slots \X VoteAccounts : Closes(k, n)

\* What the other invariants say of every request, and what they say when it moves.
RequestEndOK(r, n) ==
    /\ r.pc \notin {"idle", "proposal"} => r.end = r.slot + 1 + n
    /\ r.inited => r.slot = r.cr /\ r.pc \notin {"idle", "proposal"}

LEMMA OneRequestEnds ==
    ASSUME LineageInv, NEW n \in Nat, EndsInv(n), NEW w \in Wallets, NEW r, Continue(w, r),
           RequestEndOK(r, n)
    PROVE  \A x \in Wallets : RequestEndOK(reqs'[x], n)
<1>1. reqs \in [Wallets -> Requests] /\ reqs' = [reqs EXCEPT ![w] = r] BY DEF LineageInv, Continue
<1>2. \A x \in Wallets : reqs'[x] = IF x = w THEN r ELSE reqs[x] BY <1>1
<1>3. QED BY <1>2 DEF EndsInv, RequestEndOK

LEMMA IdleEnds ==
    ASSUME NEW n \in Nat PROVE RequestEndOK(Idle, n)
<1>1. Idle.pc = "idle" /\ ~Idle.inited BY DEF Idle
<1>2. QED BY <1>1 DEF RequestEndOK

LEMMA MutateEnds ==
    ASSUME LineageInv, TransactionsAssumption, NEW n \in Nat, EndsInv(n),
           NEW w \in Wallets, NEW op \in Ops, NEW p \in Proposals, NEW s \in Stakes \cup {NoStake},
           Mutate(w, op, p, s)
    PROVE  EndsInv(n)'
<1> DEFINE r == [Idle EXCEPT !.pc = "proposal", !.op = op, !.p = p, !.stake = s, !.cr = listed[p]]
<1>1. Idle \in Requests /\ ~Idle.inited BY IdleIsARequest DEF TransactionsAssumption, Idle
<1>2. Continue(w, r) /\ World' = World /\ txs' = txs BY DEF Mutate
<1>3. r.pc = "proposal" /\ ~r.inited BY <1>1 DEF Requests
<1> HIDE DEF r
<1>4. RequestEndOK(r, n) BY <1>3 DEF RequestEndOK
<1>5. \A x \in Wallets : RequestEndOK(reqs'[x], n) BY <1>2, <1>4, OneRequestEnds
<1>6. UNCHANGED <<epoch, prop, proofs>> BY <1>2 DEF World, chain
<1>7. QED BY <1>2, <1>5, <1>6 DEF EndsInv, RequestEndOK, Closes

LEMMA BuildersEnd ==
    ASSUME LineageInv, ReadsInv, TransactionsAssumption, NEW n \in Nat, EndsInv(n),
           NEW w \in Wallets, NEW ops \in SUBSET Ops,
           \/ FetchProposal(w, ops)
           \/ ops \subseteq ValidatorOps /\ FetchVoteAccountProof(w, ops)
           \/ \E leaf \in VoteAccounts : FetchOverrideProofs(w, ops, leaf)
           \/ FetchProofAccount(w, ops)
           \/ \E by \in Wallets : SendInit(w, ops, by) \/ SendVote(w, ops, by)
    PROVE  EndsInv(n)'
<1> DEFINE r == reqs[w]
<1>0. r \in Requests /\ RequestEndOK(r, n) /\ Reads(r)
  BY DEF LineageInv, ReadsInv, EndsInv, RequestEndOK
<1>1. World' = World
  BY DEF FetchProposal, FetchVoteAccountProof, FetchOverrideProofs, FetchProofAccount, SendInit, SendVote, Rest
<1>2. UNCHANGED <<epoch, prop, proofs>> BY <1>1 DEF World, chain
<1>3. ASSUME txs' = txs \/ \E kind \in {"init", "vote"}, by \in Wallets :
                              txs' = txs \cup {Transaction(w, kind, by)} /\ r.pc \in {"signInit", "sign"},
             NEW a, Continue(w, a), RequestEndOK(a, n)
      PROVE  EndsInv(n)'
  <2>1. \A x \in Wallets : RequestEndOK(reqs'[x], n) BY <1>3, OneRequestEnds
  <2>2. \A t \in txs' : t.end = t.slot + 1 + n
    <3>1. ASSUME NEW kind \in {"init", "vote"}, NEW by \in Wallets, r.pc \in {"signInit", "sign"}
          PROVE  Transaction(w, kind, by).end = Transaction(w, kind, by).slot + 1 + n
      <4>1. r.end = r.slot + 1 + n BY <1>0, <3>1 DEF RequestEndOK
      <4>2. Transaction(w, kind, by).end = r.end /\ Transaction(w, kind, by).slot = r.slot BY DEF Transaction
      <4>3. QED BY <4>1, <4>2
    <3>2. QED BY <1>3, <3>1 DEF EndsInv
  <2>3. QED BY <1>2, <2>1, <2>2 DEF EndsInv, RequestEndOK, Closes
<1>4. CASE FetchProposal(w, ops)
  <2> DEFINE a == [r EXCEPT !.pc = "proofs", !.slot = prop[r.p].slot, !.end = prop[r.p].end]
  <2>1. r.pc = "proposal" /\ txs' = txs BY <1>4 DEF FetchProposal, At
  <2>2. Continue(w, Idle) \/ (prop[r.p].slot # 0 /\ Continue(w, a))
    BY <1>4 DEF FetchProposal, resolveProposalSnapshotSlot, Throw
  <2>3. a.pc = "proofs" /\ a.slot = prop[r.p].slot /\ a.end = prop[r.p].end /\ a.inited = r.inited
    BY <1>0 DEF Requests
  <2> HIDE DEF a
  <2>4. ~r.inited BY <1>0, <2>1 DEF RequestEndOK
  <2>5. r.p \in Proposals BY <1>0 DEF Requests
  <2>6. prop[r.p].slot # 0 => RequestEndOK(a, n) BY <2>3, <2>4, <2>5 DEF EndsInv, RequestEndOK
  <2>7. QED BY <1>3, <2>1, <2>2, <2>6, IdleEnds
<1>5. ASSUME NEW a, r.pc \notin {"idle", "proposal"}, txs' = txs, Continue(w, a),
             a.pc \notin {"idle", "proposal"}, a.slot = r.slot, a.end = r.end, a.cr = r.cr, a.inited = r.inited
      PROVE  EndsInv(n)'
  <2>1. RequestEndOK(a, n) BY <1>0, <1>5 DEF RequestEndOK
  <2>2. QED BY <1>3, <1>5, <2>1
<1>6. ASSUME NEW v, r.pc = "proofs", txs' = txs, Continue(w, [r EXCEPT !.pc = "account", !.va = v])
      PROVE  EndsInv(n)'
  <2> DEFINE a == [r EXCEPT !.pc = "account", !.va = v]
  <2>1. a.pc = "account" /\ a.slot = r.slot /\ a.end = r.end /\ a.cr = r.cr /\ a.inited = r.inited
    BY <1>0 DEF Requests
  <2>2. Continue(w, a) BY <1>6
  <2> HIDE DEF a
  <2>3. QED BY <1>5, <1>6, <2>1, <2>2
<1>7. ASSUME Throw(w), txs' = txs PROVE EndsInv(n)' BY <1>3, <1>7, IdleEnds DEF Throw
<1>8. CASE ops \subseteq ValidatorOps /\ FetchVoteAccountProof(w, ops)
  BY <1>6, <1>7, <1>8 DEF FetchVoteAccountProof, At
<1>9. CASE \E leaf \in VoteAccounts : FetchOverrideProofs(w, ops, leaf)
  BY <1>6, <1>7, <1>9 DEF FetchOverrideProofs, At
<1>10. CASE FetchProofAccount(w, ops)
  <2> DEFINE a == [r EXCEPT !.pc = "sign"]
             b == [r EXCEPT !.pc = "signInit"]
             c == [r EXCEPT !.pc = "sign", !.init = TRUE]
  <2>1. r.pc = "account" /\ txs' = txs BY <1>10 DEF FetchProofAccount, At
  <2>2. Continue(w, a) \/ Continue(w, b) \/ Continue(w, c) BY <1>10 DEF FetchProofAccount
  <2>3. /\ a.pc = "sign" /\ a.slot = r.slot /\ a.end = r.end /\ a.cr = r.cr /\ a.inited = r.inited
        /\ b.pc = "signInit" /\ b.slot = r.slot /\ b.end = r.end /\ b.cr = r.cr /\ b.inited = r.inited
        /\ c.pc = "sign" /\ c.slot = r.slot /\ c.end = r.end /\ c.cr = r.cr /\ c.inited = r.inited
    BY <1>0 DEF Requests
  <2> HIDE DEF a, b, c
  <2>4. QED BY <1>5, <2>1, <2>2, <2>3
<1>11. ASSUME NEW by \in Wallets, SendInit(w, ops, by) \/ SendVote(w, ops, by)
       PROVE  EndsInv(n)'
  <2> DEFINE a == [r EXCEPT !.pc = "confirm"]
  <2>1. r.pc \in {"signInit", "sign"} BY <1>11 DEF SendInit, SendVote, At
  <2>2. txs' = txs \/ \E kind \in {"init", "vote"} : txs' = txs \cup {Transaction(w, kind, by)}
    BY <1>11 DEF SendInit, SendVote
  <2>3. Continue(w, Idle) \/ Continue(w, a) BY <1>11 DEF SendInit, SendVote, Throw
  <2>4. a.pc = "confirm" /\ a.slot = r.slot /\ a.end = r.end /\ a.cr = r.cr /\ a.inited = r.inited
    BY <1>0 DEF Requests
  <2> HIDE DEF a
  <2>5. RequestEndOK(a, n) BY <1>0, <2>1, <2>4 DEF RequestEndOK
  <2>6. QED BY <1>3, <2>1, <2>2, <2>3, <2>5, IdleEnds
<1>12. QED BY <1>4, <1>8, <1>9, <1>10, <1>11

LEMMA SettlingEnds ==
    ASSUME LineageInv, ChainTypes, ReadsInv, TransactionsAssumption, NEW n \in Nat, EndsInv(n),
           NEW t \in txs, Land(t) \/ Expire(t)
    PROVE  EndsInv(n)'
<1> DEFINE w == t.w
           r == reqs[w]
           k == <<t.cr, t.va>>
           o == [status |-> "open", payer |-> w, until |-> t.end]
           a == [r EXCEPT !.pc = "sign", !.inited = TRUE]
<1>1. t \in Transactions /\ t.cr \in Slots /\ w \in Wallets /\ t.end = t.slot + 1 + n
  BY DEF ReadsInv, AccountsInv, ChainTypes, EndsInv
<1>2. r \in Requests /\ RequestEndOK(r, n) /\ k \in Slots \X VoteAccounts /\ t.end \in Nat
  BY <1>1 DEF LineageInv, EndsInv, RequestEndOK, Transactions
<1>3. /\ UNCHANGED <<epoch, prop>> /\ txs' \subseteq txs
      /\ proofs' = proofs \/ (t.slot = t.cr /\ proofs' = [proofs EXCEPT ![k] = o])
  <2>1. CASE Land(t)
    <3>1. proofs' = proofs \/ (Accepts(t) /\ (t.kind = "init" \/ t.init) /\ proofs' = [proofs EXCEPT ![k] = o])
      BY <2>1 DEF Land, closeEpoch
    <3>2. Accepts(t) /\ (t.kind = "init" \/ t.init) => t.slot = t.cr
      BY DEF Accepts, AcceptsVote, AcceptsInit
    <3>3. QED BY <2>1, <3>1, <3>2 DEF Land, chain
  <2>2. CASE Expire(t) BY <2>2 DEF Expire, Rest, World, chain
  <2>3. QED BY <2>1, <2>2
<1>4. ASSUME NEW j \in Slots \X VoteAccounts PROVE Closes(j, n)'
  <2>1. DOMAIN proofs = Slots \X VoteAccounts /\ Closes(j, n) BY DEF ReadsInv, AccountsInv, EndsInv
  <2>2. CASE proofs'[j] = proofs[j] BY <1>3, <2>1, <2>2 DEF Closes
  <2>3. CASE j = k /\ t.slot = t.cr /\ proofs' = [proofs EXCEPT ![k] = o]
    <3>1. o \in [status : Status, payer : Wallets, until : Nat] /\ o.until = t.end /\ o.status = "open"
      BY <1>1, <1>2 DEF Status
    <3>2. proofs'[j] = o BY <1>2, <2>1, <2>3
    <3>3. j[1] = t.cr BY <2>3
    <3> HIDE DEF o
    <3>4. QED BY <1>1, <2>3, <3>1, <3>2, <3>3 DEF Closes
  <2>4. proofs'[j] = proofs[j] \/ (j = k /\ t.slot = t.cr /\ proofs' = [proofs EXCEPT ![k] = o])
    <3> HIDE DEF o, k
    <3>1. QED BY <1>3, <2>1
  <2>5. QED BY <2>2, <2>3, <2>4
<1>5. \/ reqs' = reqs
      \/ Continue(w, Idle)
      \/ r.pc = "confirm" /\ t = Transaction(w, "init", w) /\ Accepts(t) /\ Continue(w, a)
  <2>1. CASE Land(t)
    <3>1. Settle(t, Accepts(t)) BY <2>1 DEF Land
    <3>2. QED BY <1>2, <3>1 DEF Settle, Continue
  <2>2. CASE Expire(t)
    <3>1. Settle(t, FALSE) BY <2>2 DEF Expire
    <3>2. QED BY <1>2, <3>1 DEF Settle, Continue
  <2>3. QED BY <2>1, <2>2
<1>6. ASSUME r.pc = "confirm", t = Transaction(w, "init", w), Accepts(t) PROVE RequestEndOK(a, n)
  <2>1. a.pc = "sign" /\ a.slot = r.slot /\ a.end = r.end /\ a.cr = r.cr BY <1>2 DEF Requests
  <2>2. t.kind = "init" /\ t.slot = r.slot /\ t.cr = r.cr BY <1>6 DEF Transaction
  <2>3. t.slot = t.cr BY <1>6, <2>2 DEF Accepts, AcceptsInit
  <2> HIDE DEF a
  <2>4. QED BY <1>2, <1>6, <2>1, <2>2, <2>3 DEF RequestEndOK
<1> HIDE DEF a, r, w
<1>7. \A x \in Wallets : RequestEndOK(reqs'[x], n)
  <2>1. CASE reqs' = reqs BY <2>1 DEF EndsInv, RequestEndOK
  <2>2. CASE Continue(w, Idle) BY <1>1, <2>2, IdleEnds, OneRequestEnds
  <2>3. CASE r.pc = "confirm" /\ t = Transaction(w, "init", w) /\ Accepts(t) /\ Continue(w, a)
    BY <1>1, <1>6, <2>3, OneRequestEnds
  <2>4. QED BY <1>5, <2>1, <2>2, <2>3
<1>8. \A p \in Proposals : prop'[p].slot # 0 => prop'[p].end = prop'[p].slot + 1 + n BY <1>3 DEF EndsInv
<1>9. \A u \in txs' : u.end = u.slot + 1 + n BY <1>3 DEF EndsInv
<1>10. QED BY <1>4, <1>7, <1>8, <1>9 DEF EndsInv, RequestEndOK

LEMMA ChainEnds ==
    ASSUME ChainTypes, ReadsInv, TransactionsAssumption, NEW n \in Nat, VotingLengths = {n}, EndsInv(n),
           ChainSteps \/ RefetchProposals
    PROVE  EndsInv(n)'
<1>1. reqs' = reqs /\ txs' = txs
  BY DEF ChainSteps, NextEpoch, ActivateVoting, FlushMerkleRoot, Bind, FinalizeConsensus,
     ReclaimProof, CloseExpiredProof, RefetchProposals
<1>2. epoch \in Nat /\ DOMAIN proofs = Slots \X VoteAccounts BY DEF ChainTypes, ReadsInv, AccountsInv
<1>3. \A k \in Slots \X VoteAccounts : k[1] \in Nat /\ Closes(k, n) BY DEF Slots, EndsInv
<1>4. ASSUME prop' = prop, epoch' \in Nat, epoch' >= epoch, proofs' = proofs PROVE EndsInv(n)'
  <2>1. ASSUME NEW k \in Slots \X VoteAccounts PROVE Closes(k, n)'
    <3>1. k[1] + 1 + n \in Nat /\ Closes(k, n) BY <1>3
    <3>2. epoch >= k[1] + 1 + n => epoch' >= k[1] + 1 + n
      <4>1. \A x, y, z \in Nat : y >= x /\ x >= z => y >= z OBVIOUS
      <4>2. QED BY <1>2, <1>4, <3>1, <4>1
    <3>3. QED BY <1>4, <3>1, <3>2 DEF Closes
  <2>2. QED BY <1>1, <1>4, <2>1 DEF EndsInv
<1>5. CASE NextEpoch BY <1>2, <1>4, <1>5 DEF NextEpoch
<1>6. CASE (\E s \in Slots : FinalizeConsensus(s)) \/ RefetchProposals
  BY <1>2, <1>4, <1>6 DEF FinalizeConsensus, RefetchProposals, chain
<1>7. ASSUME NEW k \in Slots \X VoteAccounts, ReclaimProof(k) \/ CloseExpiredProof(k)
      PROVE  EndsInv(n)'
  <2>1. /\ prop' = prop /\ epoch' = epoch /\ IsOpen(k)
        /\ \/ proofs' = [proofs EXCEPT ![k] = [proofs[k] EXCEPT !.status = "reclaimed"]]
           \/ epoch >= proofs[k].until /\ proofs' = [proofs EXCEPT ![k] = [proofs[k] EXCEPT !.status = "expired"]]
    BY <1>7 DEF ReclaimProof, CloseExpiredProof, chain
  <2>2. PICK s \in {"reclaimed", "expired"} :
          /\ proofs' = [proofs EXCEPT ![k] = [proofs[k] EXCEPT !.status = s]]
          /\ s = "expired" => epoch >= proofs[k].until
    BY <2>1
  <2> DEFINE o == [proofs[k] EXCEPT !.status = s]
  <2>3. proofs[k] \in [status : Status, payer : Wallets, until : Nat] /\ proofs[k].until = k[1] + 1 + n
    BY <1>3, <2>1 DEF Closes, IsOpen
  <2>4. o \in [status : Status, payer : Wallets, until : Nat] /\ o.until = proofs[k].until /\ o.status = s
    BY <2>3 DEF Status
  <2>5. proofs' = [proofs EXCEPT ![k] = o] BY <2>2
  <2> HIDE DEF o
  <2>6. ASSUME NEW j \in Slots \X VoteAccounts PROVE Closes(j, n)'
    <3>1. CASE j = k
      <4>1. proofs'[j] = o BY <1>2, <2>5, <3>1
      <4>2. QED BY <2>1, <2>2, <2>3, <2>4, <3>1, <4>1 DEF Closes
    <3>2. CASE j # k
      <4>1. proofs'[j] = proofs[j] BY <1>2, <2>5, <3>2
      <4>2. QED BY <1>3, <2>1, <4>1 DEF Closes
    <3>3. QED BY <3>1, <3>2
  <2>7. QED BY <1>1, <2>1, <2>6 DEF EndsInv
<1>8. ASSUME NEW p \in Proposals, NEW length \in VotingLengths, NEW moved \in BOOLEAN, Bind(p, length, moved)
      PROVE  EndsInv(n)'
  <2> DEFINE b == [slot |-> epoch + Extension, start |-> epoch + Extension + 1,
                   end |-> epoch + Extension + 1 + length, moved |-> moved]
  <2>1. length = n OBVIOUS
  <2>2. b.end = b.slot + 1 + n BY <2>1
  <2>3. prop' = [prop EXCEPT ![p] = b] /\ UNCHANGED <<epoch, proofs>> BY <1>8 DEF Bind
  <2> HIDE DEF b
  <2>4. \A q \in Proposals : prop'[q] = IF q = p THEN b ELSE prop[q] BY <2>3 DEF ChainTypes
  <2>5. \A q \in Proposals : prop'[q].slot # 0 => prop'[q].end = prop'[q].slot + 1 + n
    BY <2>2, <2>4 DEF EndsInv
  <2>6. \A k \in Slots \X VoteAccounts : Closes(k, n)' BY <1>3, <2>3 DEF Closes
  <2>7. QED BY <1>1, <2>5, <2>6 DEF EndsInv
<1>9. ASSUME NEW p \in Proposals, NEW length \in VotingLengths,
             ActivateVoting(p, length) \/ FlushMerkleRoot(p, length)
      PROVE  EndsInv(n)'
  BY <1>8, <1>9 DEF ActivateVoting, FlushMerkleRoot
<1>10. QED BY <1>5, <1>6, <1>7, <1>9 DEF ChainSteps

\* Nobody can close the account of an override's proof between its two
\* transactions (castVoteOverride.ts, modifyVoteOverride.ts), for any number of
\* wallets and proposals, if voting takes the same number of epochs for all.
THEOREM AccountOutlivesVoting ==
    ASSUME NEW n \in Nat, VotingLengths = {n} PROVE Spec => []ProofSurvivesBetween
<1> USE TransactionsAssumption
<1>1. Init => EndsInv(n)
  <2> SUFFICES ASSUME Init PROVE EndsInv(n)
    OBVIOUS
  <2>1. \A w \in Wallets : reqs[w] = Idle BY DEF Init
  <2>2. Idle.pc = "idle" /\ ~Idle.inited BY DEF Idle
  <2>3. \A k \in Slots \X VoteAccounts : proofs[k].status = "none" BY DEF Init
  <2>4. QED BY <2>1, <2>2, <2>3 DEF Init, EndsInv, Closes
<1>2. LineageInv /\ ChainTypes /\ ReadsInv /\ EndsInv(n) /\ [Next]_vars => EndsInv(n)'
  <2> SUFFICES ASSUME LineageInv, ChainTypes, ReadsInv, EndsInv(n), [Next]_vars PROVE EndsInv(n)'
    OBVIOUS
  <2>1. CASE \E w \in Wallets, op \in Ops, p \in Proposals, s \in Stakes \cup {NoStake} :
                Mutate(w, op, p, s)
    BY <2>1, MutateEnds
  <2>2. ASSUME NEW w \in Wallets,
               castVote(w) \/ modifyVote(w) \/ castVoteOverride(w) \/ modifyVoteOverride(w)
        PROVE  EndsInv(n)'
    <3>1. \E ops \in SUBSET Ops :
             \/ FetchProposal(w, ops)
             \/ ops \subseteq ValidatorOps /\ FetchVoteAccountProof(w, ops)
             \/ \E leaf \in VoteAccounts : FetchOverrideProofs(w, ops, leaf)
             \/ FetchProofAccount(w, ops)
             \/ \E by \in Wallets : SendInit(w, ops, by) \/ SendVote(w, ops, by)
      <4>1. CASE castVote(w) BY <4>1, Zenon DEF castVote
      <4>2. CASE modifyVote(w) BY <4>2, Zenon DEF modifyVote
      <4>3. CASE castVoteOverride(w) BY <4>3, Zenon DEF castVoteOverride
      <4>4. CASE modifyVoteOverride(w) BY <4>4, Zenon DEF modifyVoteOverride
      <4>5. QED BY <2>2, <4>1, <4>2, <4>3, <4>4
    <3>2. QED BY <3>1, BuildersEnd
  <2>3. ASSUME NEW w \in Wallets, Fail(w) PROVE EndsInv(n)'
    <3>1. Continue(w, Idle) /\ World' = World /\ txs' = txs BY <2>3 DEF Fail, Throw, Rest
    <3>2. \A x \in Wallets : RequestEndOK(reqs'[x], n) BY <3>1, IdleEnds, OneRequestEnds
    <3>3. UNCHANGED <<epoch, prop, proofs>> BY <3>1 DEF World, chain
    <3>4. QED BY <3>1, <3>2, <3>3 DEF EndsInv, RequestEndOK, Closes
  <2>4. CASE \E t \in txs : Land(t) \/ Expire(t) BY <2>4, SettlingEnds
  <2>5. CASE ChainSteps \/ RefetchProposals BY <2>5, ChainEnds
  <2>6. CASE UNCHANGED vars BY <2>6 DEF vars, EndsInv, Closes
  <2>7. QED BY <2>1, <2>2, <2>3, <2>4, <2>5, <2>6 DEF Next
<1>3. ASSUME LineageInv, ChainTypes, ReadsInv, EndsInv(n) PROVE ProofSurvivesBetween
  <2>1. SUFFICES ASSUME NEW w \in Wallets, reqs[w].pc = "sign", reqs[w].inited, epoch < reqs[w].end,
                        proofs[<<reqs[w].cr, reqs[w].va>>].status = "expired"
                 PROVE  FALSE
    BY DEF ProofSurvivesBetween
  <2> DEFINE r == reqs[w]
             k == <<r.cr, r.va>>
  <2>2. r \in Requests /\ Reads(r) /\ RequestEndOK(r, n) BY <1>3 DEF LineageInv, ReadsInv, EndsInv, RequestEndOK
  <2>3. r.end = r.cr + 1 + n /\ r.cr \in Nat /\ epoch \in Nat
    BY <1>3, <2>1, <2>2 DEF RequestEndOK, Requests, ChainTypes
  <2>4. k \in Slots \X VoteAccounts BY <2>1, <2>2 DEF Reads
  <2>5. Closes(k, n) BY <1>3, <2>4 DEF EndsInv
  <2>6. epoch >= r.cr + 1 + n BY <2>1, <2>5 DEF Closes
  <2>7. QED BY <2>1, <2>3, <2>6
<1>4. QED BY <1>1, <1>2, <1>3, ReadsInvHolds, PTL DEF Spec

-----------------------------------------------------------------------------
(***************************************************************************)
(* A support (SupportTransaction), for any number of validators, other     *)
(* supports, configurations and thresholds.                                *)
(***************************************************************************)
CONSTANTS Supporters, SupportConfigs, FirstConfig, SlotsPerEpoch, FirstNormalEpoch,
          FirstNormalSlot, Threshold, Batches, MaxChanges
VARIABLES config, supporters, voting, supported, changes, server, client

Supporting == INSTANCE SupportTransaction WITH
    Validators <- Supporters, Configs <- SupportConfigs

\* What the instance takes from TransactionEstimates is what is defined above.
LEMMA SameConstants ==
    /\ Supporting!MAX_SUPPORTERS = MAX_SUPPORTERS /\ MAX_SUPPORTERS \in Nat
    /\ Supporting!Headroom = Headroom
    /\ Supporting!SUPPORT_CU_BASE = SUPPORT_CU_BASE
    /\ Supporting!SUPPORT_CU_PER_SUPPORTER = SUPPORT_CU_PER_SUPPORTER
    /\ Supporting!SUPPORT_CU_ACTIVATION = SUPPORT_CU_ACTIVATION
    /\ Supporting!SUPPORT_CU_HEADROOM_PERCENT = SUPPORT_CU_HEADROOM_PERCENT
    /\ Supporting!MAX_COMPUTE_UNIT_LIMIT = MAX_COMPUTE_UNIT_LIMIT
BY SMT DEF Supporting!SUPPORT_CU_BASE, Supporting!SUPPORT_CU_PER_SUPPORTER,
   Supporting!SUPPORT_CU_ACTIVATION, Supporting!SUPPORT_CU_HEADROOM_PERCENT,
   Supporting!MAX_COMPUTE_UNIT_LIMIT, Supporting!MAX_SUPPORTERS, Supporting!Headroom

HIDE DEF SUPPORT_CU_BASE, SUPPORT_CU_PER_SUPPORTER, SUPPORT_CU_ACTIVATION,
         SUPPORT_CU_HEADROOM_PERCENT, MAX_COMPUTE_UNIT_LIMIT, MAX_SUPPORTERS, Headroom

LEMMA SameEstimates ==
    ASSUME NEW n, NEW activates
    PROVE  /\ Supporting!SupportCost(n, activates) = SupportCost(n, activates)
           /\ Supporting!supportComputeUnitLimit(n) = supportComputeUnitLimit(n)
<1>1. \A b : Supporting!SupportCost(n, b) = SupportCost(n, b)
  BY SameConstants, Zenon DEF Supporting!SupportCost, SupportCost
<1>2. Supporting!SupportCost(n, TRUE) = SupportCost(n, TRUE)
  BY <1>1, Zenon
<1>3. Supporting!supportComputeUnitLimit(n) = supportComputeUnitLimit(n)
  <2> HIDE DEF SupportCost
  <2>1. QED
    BY <1>2, SameConstants DEF Supporting!supportComputeUnitLimit, supportComputeUnitLimit
<1>4. QED
  BY <1>1, <1>3, Zenon

\* On clusters without warm-up the client and the program number slots alike.
NoWarmUp == FirstNormalEpoch = 0 /\ FirstNormalSlot = 0

\* What a request or a transaction names was derived from the epoch and the
\* configuration it was built from.
BoxIsOf(r) == r.box = Supporting!compute_future_snapshot_slot(r.epoch, r.config)

Sent(t) == t.v \in Supporters /\ t.count \in 0 .. Supporting!MAX_SUPPORTERS /\ BoxIsOf(t)

SupportInv ==
    /\ Supporting!SupportTypeOK
    /\ \A v \in Supporters : reqs[v].pc = "sign" => BoxIsOf(reqs[v])
    /\ \A t \in txs : Sent(t)

\* The snapshot slot is a slot, and the one the program computes.
LEMMA BoxesAgree ==
    ASSUME Supporting!SupportAssumption, NoWarmUp,
           NEW e \in 0 .. MaxEpoch, NEW c \in SupportConfigs
    PROVE  /\ Supporting!SnapshotSlot(e, c) \in Nat
           /\ Supporting!SnapshotSlot(e, c) = Supporting!compute_future_snapshot_slot(e, c)
<1> DEFINE k == e + c.discussion + c.extension
<1>1. k \in Nat /\ c.offset \in Nat /\ SlotsPerEpoch \in Nat
  BY DEF Supporting!SupportAssumption
<1> HIDE DEF k
<1>2. Supporting!getFirstSlotInEpoch(k) = k * SlotsPerEpoch
  <2>1. ~ (k < 0) /\ (k - 0) * SlotsPerEpoch + 0 = k * SlotsPerEpoch
    BY <1>1
  <2>2. QED
    BY <2>1 DEF NoWarmUp, Supporting!getFirstSlotInEpoch
<1>3. k * SlotsPerEpoch + c.offset \in Nat
  BY <1>1
<1>4. QED
  BY <1>2, <1>3 DEF Supporting!SnapshotSlot, Supporting!compute_future_snapshot_slot, k

\* At first nobody has started.
LEMMA SupportInit ==
    ASSUME Supporting!SupportAssumption PROVE Supporting!Init => SupportInv
<1> SUFFICES ASSUME Supporting!Init PROVE SupportInv
  OBVIOUS
<1>1. Supporting!Idle \in Supporting!Requests /\ Supporting!Idle.pc = "idle"
  BY SameConstants DEF Supporting!Idle, Supporting!Requests, Supporting!SupportAssumption
<1>2. reqs \in [Supporters -> Supporting!Requests] /\ \A v \in Supporters : reqs[v].pc = "idle"
  BY <1>1 DEF Supporting!Init
<1>3. FirstConfig \in SupportConfigs /\ MaxEpoch \in Nat /\ MaxChanges \in Nat /\ MaxMutations \in Nat
  BY DEF Supporting!SupportAssumption
<1>4. Supporting!SupportTypeOK
  <2>1. /\ epoch = 0 /\ config = FirstConfig /\ supporters = 0 /\ voting = FALSE /\ supported = {}
        /\ changes = 0 /\ server = FirstConfig /\ client = FirstConfig /\ started = 0
    BY DEF Supporting!Init
  <2>2. Supporting!MAX_SUPPORTERS \in Nat
    BY SameConstants
  <2>3. /\ 0 \in 0 .. MaxEpoch /\ 0 \in 0 .. Supporting!MAX_SUPPORTERS /\ 0 \in 0 .. MaxChanges
        /\ 0 \in 0 .. MaxMutations
    BY <1>3, <2>2
  <2>4. QED
    BY <1>2, <1>3, <2>1, <2>3, Zenon DEF Supporting!SupportTypeOK
<1>5. QED
  BY <1>2, <1>4 DEF Supporting!Init, SupportInv

\* A step of one request keeps the invariant when the request it leaves behind is
\* typed and names its box.
LEMMA RequestKeeps ==
    ASSUME SupportInv, NEW v \in Supporters, NEW r \in Supporting!Requests,
           r.pc = "sign" => BoxIsOf(r), Supporting!Continue(v, r),
           started' \in 0 .. MaxMutations,
           \A t \in txs' : Sent(t),
           UNCHANGED <<Supporting!chain, server, client>>
    PROVE  SupportInv'
<1>1. reqs' = [reqs EXCEPT ![v] = r] /\ reqs \in [Supporters -> Supporting!Requests]
  BY DEF Supporting!Continue, SupportInv, Supporting!SupportTypeOK
<1>2. /\ reqs' \in [Supporters -> Supporting!Requests]
      /\ \A u \in Supporters : reqs'[u] = IF u = v THEN r ELSE reqs[u]
  BY <1>1
<1>3. \A u \in Supporters : reqs'[u].pc = "sign" => BoxIsOf(reqs'[u])
  BY <1>2 DEF SupportInv
<1>4. Supporting!SupportTypeOK'
  BY <1>2 DEF SupportInv, Supporting!SupportTypeOK, Supporting!chain, Supporting!Requests
<1>5. QED
  BY <1>3, <1>4 DEF SupportInv, Sent, BoxIsOf, Supporting!compute_future_snapshot_slot

\* Every step keeps the invariant.
LEMMA SupportStep ==
    ASSUME Supporting!SupportAssumption, NoWarmUp
    PROVE  SupportInv /\ [Supporting!Next]_(Supporting!vars) => SupportInv'
<1> SUFFICES ASSUME SupportInv, [Supporting!Next]_(Supporting!vars) PROVE SupportInv'
  OBVIOUS
<1>1. reqs \in [Supporters -> Supporting!Requests] /\ Supporting!SupportTypeOK
  BY DEF SupportInv, Supporting!SupportTypeOK
<1>2. Supporting!Idle \in Supporting!Requests /\ Supporting!Idle.pc = "idle"
  BY SameConstants DEF Supporting!Idle, Supporting!Requests, Supporting!SupportAssumption
<1>3. \A t \in txs : Sent(t)
  BY DEF SupportInv
<1>4. started \in 0 .. MaxMutations
  BY <1>1 DEF Supporting!SupportTypeOK
<1>5. ASSUME NEW v \in Supporters,
             Supporting!Mutate(v) \/ Supporting!supportProposal(v) \/ Supporting!Fail(v)
      PROVE  SupportInv'
  <2>1. CASE Supporting!Mutate(v)
    <3> DEFINE r == [Supporting!Idle EXCEPT !.pc = "count", !.config = client]
    <3>1. r \in Supporting!Requests /\ r.pc = "count"
      BY <1>1, <1>2 DEF Supporting!Idle, Supporting!Requests, Supporting!SupportTypeOK
    <3>2. /\ Supporting!Continue(v, r) /\ started < MaxMutations /\ started' = started + 1
          /\ UNCHANGED <<Supporting!chain, server, client, txs>>
      BY <2>1 DEF Supporting!Mutate
    <3>3. started' \in 0 .. MaxMutations
      BY <1>4, <3>2 DEF Supporting!SupportAssumption
    <3>4. \A t \in txs' : Sent(t)
      BY <1>3, <3>2
    <3> HIDE DEF r
    <3>5. QED
      BY <3>1, <3>2, <3>3, <3>4, RequestKeeps
  <2>2. ASSUME NEW answered \in BOOLEAN, Supporting!ReadSupporters(v, answered) PROVE SupportInv'
    <3> DEFINE r == [reqs[v] EXCEPT !.pc = "epoch",
                                    !.count = IF answered THEN supporters ELSE Supporting!MAX_SUPPORTERS]
    <3>1. r \in Supporting!Requests /\ r.pc = "epoch"
      <4>1. reqs[v] \in Supporting!Requests /\ supporters \in 0 .. Supporting!MAX_SUPPORTERS
        BY <1>1 DEF Supporting!SupportTypeOK
      <4>2. Supporting!MAX_SUPPORTERS \in 0 .. Supporting!MAX_SUPPORTERS
        BY SameConstants
      <4>3. (IF answered THEN supporters ELSE Supporting!MAX_SUPPORTERS)
               \in 0 .. Supporting!MAX_SUPPORTERS
        BY <4>1, <4>2, Zenon
      <4>4. QED
        BY <4>1, <4>3 DEF Supporting!Requests
    <3>2. /\ Supporting!Continue(v, r)
          /\ UNCHANGED <<Supporting!chain, server, client, started, txs>>
      BY <2>2 DEF Supporting!ReadSupporters
    <3>3. started' \in 0 .. MaxMutations
      BY <1>4, <3>2
    <3>4. \A t \in txs' : Sent(t)
      BY <1>3, <3>2
    <3> HIDE DEF r
    <3>5. QED
      BY <3>1, <3>2, <3>3, <3>4, RequestKeeps
  <2>3. CASE Supporting!ReadEpoch(v)
    <3> DEFINE slot == Supporting!SnapshotSlot(epoch, reqs[v].config)
               r == [reqs[v] EXCEPT !.pc = "sign", !.epoch = epoch, !.box = slot]
    <3>1. reqs[v] \in Supporting!Requests /\ epoch \in 0 .. MaxEpoch
      BY <1>1 DEF Supporting!SupportTypeOK
    <3>2. reqs[v].config \in SupportConfigs
      BY <3>1 DEF Supporting!Requests
    <3>3. slot \in Nat /\ slot = Supporting!compute_future_snapshot_slot(epoch, reqs[v].config)
      BY <3>1, <3>2, BoxesAgree
    <3> HIDE DEF slot
    <3>4. /\ r \in Supporting!Requests /\ r.box = slot /\ r.epoch = epoch
          /\ r.config = reqs[v].config
      BY <3>1, <3>3 DEF Supporting!Requests
    <3>5. BoxIsOf(r)
      BY <3>3, <3>4 DEF BoxIsOf
    <3>6. /\ Supporting!Continue(v, r)
          /\ UNCHANGED <<Supporting!chain, server, client, started, txs>>
      BY <2>3 DEF Supporting!ReadEpoch, slot
    <3>7. started' \in 0 .. MaxMutations
      BY <1>4, <3>6
    <3>8. \A t \in txs' : Sent(t)
      BY <1>3, <3>6
    <3> HIDE DEF r
    <3>9. QED
      BY <3>4, <3>5, <3>6, <3>7, <3>8, RequestKeeps
  <2>4. CASE Supporting!Send(v)
    <3> DEFINE t0 == Supporting!Transaction(v)
    <3>1. /\ reqs[v].pc = "sign" /\ Supporting!Continue(v, Supporting!Idle)
          /\ txs' \subseteq txs \cup {t0}
          /\ UNCHANGED <<Supporting!chain, server, client, started>>
      BY <2>4 DEF Supporting!Send
    <3>2. reqs[v].count \in 0 .. Supporting!MAX_SUPPORTERS /\ BoxIsOf(reqs[v])
      BY <1>1, <3>1 DEF Supporting!Requests, SupportInv
    <3>3. Sent(t0)
      BY <3>2 DEF Sent, Supporting!Transaction, BoxIsOf
    <3> HIDE DEF t0
    <3>4. \A t \in txs' : Sent(t)
      BY <1>3, <3>1, <3>3
    <3>5. QED
      BY <1>2, <1>4, <3>1, <3>4, RequestKeeps
  <2>5. CASE Supporting!Fail(v)
    <3>1. /\ Supporting!Continue(v, Supporting!Idle)
          /\ UNCHANGED <<Supporting!chain, server, client, started, txs>>
      BY <2>5 DEF Supporting!Fail
    <3>2. \A t \in txs' : Sent(t)
      BY <1>3, <3>1
    <3>3. QED
      BY <1>2, <1>4, <3>1, <3>2, RequestKeeps
  <2>6. QED
    BY <1>5, <2>1, <2>2, <2>3, <2>4, <2>5 DEF Supporting!supportProposal
<1>6. ASSUME UNCHANGED <<reqs, started>>, txs' \subseteq txs, Supporting!SupportTypeOK'
      PROVE  SupportInv'
  <2>1. \A v \in Supporters : reqs'[v].pc = "sign" => BoxIsOf(reqs'[v])
    BY <1>6 DEF SupportInv
  <2>2. \A t \in txs' : Sent(t)
    BY <1>3, <1>6
  <2>3. QED
    BY <1>6, <2>1, <2>2 DEF SupportInv, Sent, BoxIsOf, Supporting!compute_future_snapshot_slot
<1>7. ASSUME NEW t \in txs, Supporting!Land(t) \/ Supporting!Expire(t) PROVE SupportInv'
  <2>1. UNCHANGED <<reqs, started, epoch, config, changes, server, client>> /\ txs' \subseteq txs
    BY <1>7 DEF Supporting!Land, Supporting!Expire, Supporting!chain
  <2>2. \/ UNCHANGED <<supporters, voting, supported>>
        \/ /\ supporters' = supporters + 1 /\ supporters < Supporting!MAX_SUPPORTERS
           /\ supported' = supported \cup {t.v} /\ voting' = Supporting!Crosses
    BY <1>7 DEF Supporting!Land, Supporting!Expire, Supporting!chain, Supporting!Accepts
  <2>3. supporters' \in 0 .. Supporting!MAX_SUPPORTERS
    BY <1>1, <2>2, SameConstants DEF Supporting!SupportTypeOK
  <2>4. voting' \in BOOLEAN /\ supported' \subseteq Supporters
    <3>1. t.v \in Supporters
      BY DEF SupportInv, Sent
    <3>2. Supporting!Crosses \in BOOLEAN
      BY DEF Supporting!Crosses
    <3>3. voting \in BOOLEAN /\ supported \subseteq Supporters
      BY <1>1 DEF Supporting!SupportTypeOK
    <3>4. QED
      BY <2>2, <3>1, <3>2, <3>3, Zenon
  <2>5. QED
    BY <1>1, <1>6, <2>1, <2>3, <2>4 DEF Supporting!SupportTypeOK
<1>8. ASSUME NEW n \in Batches, Supporting!OthersSupport(n) PROVE SupportInv'
  BY <1>1, <1>6, <1>8, SameConstants DEF Supporting!OthersSupport, Supporting!SupportTypeOK,
     Supporting!SupportAssumption
<1>9. CASE Supporting!NextEpoch
  BY <1>1, <1>6, <1>9 DEF Supporting!NextEpoch, Supporting!SupportTypeOK,
     Supporting!SupportAssumption
<1>10. ASSUME NEW c \in SupportConfigs, Supporting!UpdateConfig(c) PROVE SupportInv'
  BY <1>1, <1>6, <1>10 DEF Supporting!UpdateConfig, Supporting!SupportTypeOK,
     Supporting!SupportAssumption
<1>11. CASE Supporting!getCachedGovernanceConfig \/ Supporting!useGovernanceConfig
  BY <1>1, <1>6, <1>11 DEF Supporting!getCachedGovernanceConfig, Supporting!useGovernanceConfig,
     Supporting!SupportTypeOK, Supporting!chain
<1>12. CASE UNCHANGED Supporting!vars
  BY <1>1, <1>6, <1>12 DEF Supporting!vars, Supporting!SupportTypeOK
<1>13. QED
  BY <1>5, <1>7, <1>8, <1>9, <1>10, <1>11, <1>12 DEF Supporting!Next

\* On a cluster without warm-up epochs a support names the ballot box the program
\* will ask for, unless the epoch or the configuration has moved on since it was
\* built, and does not run out of compute units as long as no more than Headroom
\* others land first; for any configurations, thresholds and numbers of supporters.
THEOREM SupportsGoThrough ==
    ASSUME Supporting!SupportAssumption, NoWarmUp
    PROVE  Supporting!Spec => [](/\ Supporting!SupportTypeOK /\ Supporting!NamesTheRightBox
                                 /\ Supporting!HeadroomSuffices)
<1>1. SupportInv => Supporting!NamesTheRightBox
  BY DEF SupportInv, Sent, BoxIsOf, Supporting!NamesTheRightBox
<1>2. SupportInv => Supporting!HeadroomSuffices
  <2> SUFFICES ASSUME SupportInv, NEW t \in txs, supporters - t.count <= Supporting!Headroom
               PROVE  Supporting!WithinBudget(t)
    BY DEF Supporting!HeadroomSuffices
  <2>1. t.count \in 0 .. Supporting!MAX_SUPPORTERS /\ supporters \in 0 .. Supporting!MAX_SUPPORTERS
    BY DEF SupportInv, Sent, Supporting!SupportTypeOK
  <2>2. Supporting!Crosses \in BOOLEAN
    BY DEF Supporting!Crosses
  <2>3. SupportCost(supporters, Supporting!Crosses) <= supportComputeUnitLimit(t.count)
    BY <2>1, <2>2, BudgetCovers, SameConstants
  <2>4. QED
    BY <2>3, SameEstimates DEF Supporting!WithinBudget
<1>3. SupportInv => Supporting!SupportTypeOK
  BY DEF SupportInv
<1>4. QED
  BY <1>1, <1>2, <1>3, SupportInit, SupportStep, PTL DEF Supporting!Spec
=============================================================================
