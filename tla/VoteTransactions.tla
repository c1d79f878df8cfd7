------------------------- MODULE VoteTransactions -------------------------
(***************************************************************************)
(* How the web client turns a vote into transactions: castVote,            *)
(* modifyVote, castVoteOverride and modifyVoteOverride.  Each is a chain   *)
(* of awaits (the proposal, the proofs, the proof account, the wallet, the *)
(* RPC node) that may fail at every one of them, while on chain epochs     *)
(* pass, proposals are activated and flushed, and the proof accounts that  *)
(* all voters of a validator share are created and closed by others.       *)
(*                                                                         *)
(* A consensus result is identified with its snapshot slot, and a snapshot *)
(* slot with its epoch.                                                    *)
(***************************************************************************)
EXTENDS Naturals, FiniteSets

CONSTANTS
    Wallets,       \* each with one browser tab
    VoteAccounts,
    Stakes,
    Proposals,
    Identity,      \* wallet -> vote account whose nodePubkey it is now
    VotingWallet,  \* vote account -> its voting_wallet in the snapshots
    DelegatedTo,   \* stake -> vote account in the snapshots
    LiveDelegation, \* stake -> vote account today
    Owner,         \* stake -> its voting_wallet in the snapshots
    Extension,     \* snapshot_epoch_extension
    VotingLengths, \* the values voting_epochs is set to
    MaxEpoch,      \* bound
    MaxMutations,  \* bound: votes started in all tabs together
    NoAccount, NoStake

VARIABLES
    epoch,    \* Clock.epoch
    prop,     \* proposal -> its snapshot slot (0: not activated) and window
    results,  \* slots whose consensus result is finalized
    proofs,   \* MetaMerkleProof accounts, by consensus result and vote account
    votes, overrides,  \* Vote and VoteOverride accounts
    listed,   \* consensus result of each proposal in the client's query cache
    reqs,     \* each wallet's mutation
    started,  \* how many mutations there have been
    txs       \* transactions sent and neither landed nor expired

chain == <<epoch, prop, results>>
vars == <<epoch, prop, results, proofs, votes, overrides, listed, reqs, started, txs>>

Slots == 1 .. MaxEpoch

ValidatorOps == {"castVote", "modifyVote"}
OverrideOps == {"castVoteOverride", "modifyVoteOverride"}
Ops == ValidatorOps \cup OverrideOps

ASSUME TransactionsAssumption ==
    /\ Identity \in [Wallets -> VoteAccounts \cup {NoAccount}]
    /\ VotingWallet \in [VoteAccounts -> Wallets]
    /\ DelegatedTo \in [Stakes -> VoteAccounts]
    /\ LiveDelegation \in [Stakes -> VoteAccounts]
    /\ Owner \in [Stakes -> Wallets]
    /\ Extension \in Nat \ {0} /\ MaxEpoch \in Nat /\ MaxMutations \in Nat
    /\ VotingLengths \subseteq Nat \ {0}
    /\ Proposals # {}
    /\ NoAccount \notin VoteAccounts /\ NoStake \notin Stakes

\* BlockchainParams and the parameters of the four builders, with what each
\* await has added to the local variables so far.
Idle ==
    [pc |-> "idle", op |-> "castVote", p |-> CHOOSE p \in Proposals : TRUE,
     stake |-> NoStake, cr |-> 0, slot |-> 0, end |-> 0, va |-> NoAccount,
     init |-> FALSE, inited |-> FALSE]

Init ==
    /\ epoch = 0
    /\ prop = [p \in Proposals |-> [slot |-> 0, start |-> 0, end |-> 0, moved |-> FALSE]]
    /\ results = {}
    /\ proofs = [k \in Slots \X VoteAccounts |-> [status |-> "none"]]
    /\ votes = {} /\ overrides = {}
    /\ listed = [p \in Proposals |-> 0]
    /\ reqs = [w \in Wallets |-> Idle]
    /\ started = 0
    /\ txs = {}

-----------------------------------------------------------------------------
(* What the program asks of a transaction.                                 *)

IsOpen(k) == proofs[k].status = "open"

VotingOpen(p) == prop[p].start <= epoch /\ epoch < prop[p].end

\* init_meta_merkle_proof: a new account whose leaf is in the result's root.
AcceptsInit(t) ==
    /\ t.cr \in results
    /\ t.slot = t.cr
    /\ ~ IsOpen(<<t.cr, t.va>>)

\* The voter's own part: cast creates the account that modify changes.
AcceptsVoter(t) ==
    CASE t.op = "castVote" -> VotingWallet[t.va] = t.w /\ <<t.p, t.va>> \notin votes
      [] t.op = "modifyVote" -> VotingWallet[t.va] = t.w /\ <<t.p, t.va>> \in votes
      [] t.op = "castVoteOverride" -> Owner[t.stake] = t.w /\ <<t.p, t.stake>> \notin overrides
      [] t.op = "modifyVoteOverride" -> Owner[t.stake] = t.w /\ <<t.p, t.stake>> \in overrides

\* The stake leaf has to lie under the meta leaf of the named vote account.
AcceptsLineage(t) ==
    t.op \in OverrideOps => t.slot = t.cr /\ DelegatedTo[t.stake] = t.va

AcceptsVote(t) ==
    /\ VotingOpen(t.p)
    /\ prop[t.p].slot = t.cr
    /\ t.cr \in results
    /\ IF t.init THEN AcceptsInit(t) ELSE IsOpen(<<t.cr, t.va>>)
    /\ AcceptsVoter(t)
    /\ AcceptsLineage(t)

Accepts(t) == IF t.kind = "init" THEN AcceptsInit(t) ELSE AcceptsVote(t)

-----------------------------------------------------------------------------
(* The builders, one action per await.                                     *)

At(w, pc, ops) == reqs[w].pc = pc /\ reqs[w].op \in ops

Continue(w, r) == reqs' = [reqs EXCEPT ![w] = r]

\* An exception leaves the builder; nothing is undone.
Throw(w) == Continue(w, Idle)

World == <<chain, proofs, votes, overrides, listed>>

Rest == UNCHANGED <<World, started>>

\* mutate: the dialog has the consensus result from the cached proposal, and
\* offers the wallet its own stake accounts.
Mutate(w, op, p, s) ==
    /\ reqs[w].pc = "idle"
    /\ started < MaxMutations /\ started' = started + 1
    /\ listed[p] # 0
    /\ IF op \in ValidatorOps THEN s = NoStake ELSE s \in Stakes /\ Owner[s] = w
    /\ Continue(w, [Idle EXCEPT !.pc = "proposal", !.op = op, !.p = p,
                                !.stake = s, !.cr = listed[p]])
    /\ UNCHANGED <<World, txs>>

resolveProposalSnapshotSlot(p) == prop[p].slot

FetchProposal(w, ops) ==
    LET r == reqs[w]
        s == resolveProposalSnapshotSlot(r.p)
    IN  /\ At(w, "proposal", ops)
        /\ IF s = 0 THEN Throw(w)
           ELSE Continue(w, [r EXCEPT !.pc = "proofs", !.slot = s, !.end = prop[r.p].end])
        /\ Rest /\ UNCHANGED txs

\* The validator's vote account is the one that has the wallet as its identity
\* today; its proof comes from the snapshot.
FetchVoteAccountProof(w, ops) ==
    LET r == reqs[w]
    IN  /\ At(w, "proofs", ops)
        /\ IF Identity[w] = NoAccount THEN Throw(w)
           ELSE Continue(w, [r EXCEPT !.pc = "account", !.va = Identity[w]])
        /\ Rest /\ UNCHANGED txs

\* Slip: the override is made out to the validator the stake is with today.
LiveVoteAccount(s) == LiveDelegation[s]

\* The stake proof names the vote account at snapshot time.
resolveSnapshotVoteAccount(s) == DelegatedTo[s]

assertOverrideProofLineage(s, leaf) == leaf = resolveSnapshotVoteAccount(s)

\* leaf is the vote account of the meta proof that the verifier returns; it
\* should be the one asked for.
FetchOverrideProofs(w, ops, leaf) ==
    LET r == reqs[w]
    IN  /\ At(w, "proofs", ops)
        /\ IF assertOverrideProofLineage(r.stake, leaf)
           THEN Continue(w, [r EXCEPT !.pc = "account", !.va = leaf])
           ELSE Throw(w)
        /\ Rest /\ UNCHANGED txs

\* Slip: the vote relies on a proof account that somebody else has created.
AssumeProofAccount(w, ops) ==
    /\ At(w, "account", ops)
    /\ Continue(w, [reqs[w] EXCEPT !.pc = "sign"])
    /\ Rest /\ UNCHANGED txs

\* A validator's transaction creates the missing proof account itself; an
\* override first sends a transaction that does.
FetchProofAccount(w, ops) ==
    LET r       == reqs[w]
        missing == ~ IsOpen(<<r.cr, r.va>>)
    IN  /\ At(w, "account", ops)
        /\ Continue(w,
              IF ~ missing THEN [r EXCEPT !.pc = "sign"]
              ELSE IF r.op \in OverrideOps THEN [r EXCEPT !.pc = "signInit"]
              ELSE [r EXCEPT !.pc = "sign", !.init = TRUE])
        /\ Rest /\ UNCHANGED txs

\* Slip: whatever the wallet returns is sent.
SignedBySomebody(w, by) == TRUE

\* The wallet signs with the account that is connected by then.
signTransactionForWallet(w, by) == by = w

Transaction(w, kind, by) ==
    LET r == reqs[w]
    IN  [kind |-> kind, signer |-> by, w |-> w, op |-> r.op, p |-> r.p,
         stake |-> r.stake, cr |-> r.cr, slot |-> r.slot, va |-> r.va,
         init |-> r.init, end |-> r.end]

\* sendRawTransaction simulates the transaction first and throws if it fails.
SendInit(w, ops, by) ==
    LET t == Transaction(w, "init", by)
    IN  /\ At(w, "signInit", ops)
        /\ IF signTransactionForWallet(w, by) /\ Accepts(t)
           THEN /\ txs' = txs \cup {t}
                /\ Continue(w, [reqs[w] EXCEPT !.pc = "confirm"])
           ELSE Throw(w) /\ UNCHANGED txs
        /\ Rest

\* The builder returns success with the signature, before the vote has landed.
SendVote(w, ops, by) ==
    LET t == Transaction(w, "vote", by)
    IN  /\ At(w, "sign", ops)
        /\ txs' = IF signTransactionForWallet(w, by) /\ Accepts(t) THEN txs \cup {t} ELSE txs
        /\ Continue(w, Idle)
        /\ Rest

castVote(w) ==
    \/ FetchProposal(w, {"castVote"})
    \/ FetchVoteAccountProof(w, {"castVote"})
    \/ FetchProofAccount(w, {"castVote"})
    \/ \E by \in Wallets : SendVote(w, {"castVote"}, by)

modifyVote(w) ==
    \/ FetchProposal(w, {"modifyVote"})
    \/ FetchVoteAccountProof(w, {"modifyVote"})
    \/ FetchProofAccount(w, {"modifyVote"})
    \/ \E by \in Wallets : SendVote(w, {"modifyVote"}, by)

castVoteOverride(w) ==
    \/ FetchProposal(w, {"castVoteOverride"})
    \/ \E leaf \in VoteAccounts : FetchOverrideProofs(w, {"castVoteOverride"}, leaf)
    \/ FetchProofAccount(w, {"castVoteOverride"})
    \/ \E by \in Wallets : \/ SendInit(w, {"castVoteOverride"}, by)
                           \/ SendVote(w, {"castVoteOverride"}, by)

modifyVoteOverride(w) ==
    \/ FetchProposal(w, {"modifyVoteOverride"})
    \/ \E leaf \in VoteAccounts : FetchOverrideProofs(w, {"modifyVoteOverride"}, leaf)
    \/ FetchProofAccount(w, {"modifyVoteOverride"})
    \/ \E by \in Wallets : \/ SendInit(w, {"modifyVoteOverride"}, by)
                           \/ SendVote(w, {"modifyVoteOverride"}, by)

\* Any await may fail: the RPC node, the verifier, or a user that declines.
Fail(w) ==
    /\ reqs[w].pc # "idle"
    /\ Throw(w)
    /\ Rest /\ UNCHANGED txs

-----------------------------------------------------------------------------
(* Transactions land, in any order, or expire with their blockhash.        *)

\* Slip: the account may be closed as soon as voting starts.
CloseAtStart(t) == prop[t.p].start

\* computeProofCloseTimestamp, as the epoch it estimates.
closeEpoch(t) == t.end

\* confirmTransaction settles when the transaction has landed or expired.
Settle(t, ok) ==
    reqs' = IF reqs[t.w].pc = "confirm" /\ t = Transaction(t.w, "init", t.w)
            THEN [reqs EXCEPT ![t.w] =
                     IF ok THEN [@ EXCEPT !.pc = "sign", !.inited = TRUE] ELSE Idle]
            ELSE reqs

Land(t) ==
    LET ok      == Accepts(t)
        creates == ok /\ (t.kind = "init" \/ t.init)
    IN  /\ t \in txs
        /\ txs' = txs \ {t}
        /\ proofs' = IF creates
                     THEN [proofs EXCEPT ![<<t.cr, t.va>>] =
                             [status |-> "open", payer |-> t.w, until |-> closeEpoch(t)]]
                     ELSE proofs
        /\ votes' = IF ok /\ t.kind = "vote" /\ t.op = "castVote"
                    THEN votes \cup {<<t.p, t.va>>} ELSE votes
        /\ overrides' = IF ok /\ t.kind = "vote" /\ t.op = "castVoteOverride"
                        THEN overrides \cup {<<t.p, t.stake>>} ELSE overrides
        /\ Settle(t, ok)
        /\ UNCHANGED <<chain, listed, started>>

Expire(t) ==
    /\ t \in txs
    /\ txs' = txs \ {t}
    /\ Settle(t, FALSE)
    /\ Rest

-----------------------------------------------------------------------------
(* The chain and the query cache.                                          *)

\* close_meta_merkle_proof: the payer at any time, anybody from the close
\* timestamp on.
ReclaimProof(k) ==
    /\ IsOpen(k)
    /\ proofs' = [proofs EXCEPT ![k].status = "reclaimed"]
    /\ UNCHANGED <<chain, votes, overrides, listed, reqs, started, txs>>

CloseExpiredProof(k) ==
    /\ IsOpen(k)
    /\ epoch >= proofs[k].until
    /\ proofs' = [proofs EXCEPT ![k].status = "expired"]
    /\ UNCHANGED <<chain, votes, overrides, listed, reqs, started, txs>>

NextEpoch ==
    /\ epoch < MaxEpoch
    /\ epoch' = epoch + 1
    /\ UNCHANGED <<prop, results, proofs, votes, overrides, listed, reqs, started, txs>>

\* support_proposal's activate_voting and flush_merkle_root: a snapshot some
\* epochs ahead, and the voting window that follows it.
Bind(p, length, moved) ==
    /\ epoch + Extension \in Slots
    /\ prop' = [prop EXCEPT ![p] =
                  [slot |-> epoch + Extension, start |-> epoch + Extension + 1,
                   end |-> epoch + Extension + 1 + length, moved |-> moved]]
    /\ UNCHANGED <<epoch, results, proofs, votes, overrides, listed, reqs, started, txs>>

ActivateVoting(p, length) == prop[p].slot = 0 /\ Bind(p, length, FALSE)

FlushMerkleRoot(p, length) ==
    prop[p].slot > 0 /\ epoch < prop[p].start /\ Bind(p, length, TRUE)

FinalizeConsensus(s) ==
    /\ s \notin results /\ s <= epoch
    /\ \E p \in Proposals : prop[p].slot = s
    /\ results' = results \cup {s}
    /\ UNCHANGED <<epoch, prop, proofs, votes, overrides, listed, reqs, started, txs>>

RefetchProposals ==
    /\ listed' = [p \in Proposals |-> prop[p].slot]
    /\ listed' # listed
    /\ UNCHANGED <<chain, proofs, votes, overrides, reqs, started, txs>>

ChainSteps ==
    \/ NextEpoch
    \/ \E p \in Proposals, length \in VotingLengths :
          ActivateVoting(p, length) \/ FlushMerkleRoot(p, length)
    \/ \E s \in Slots : FinalizeConsensus(s)
    \/ \E k \in Slots \X VoteAccounts : ReclaimProof(k) \/ CloseExpiredProof(k)

Next ==
    \/ \E w \in Wallets :
          \/ \E op \in Ops, p \in Proposals, s \in Stakes \cup {NoStake} : Mutate(w, op, p, s)
          \/ castVote(w) \/ modifyVote(w) \/ castVoteOverride(w) \/ modifyVoteOverride(w)
          \/ Fail(w)
    \/ \E t \in txs : Land(t) \/ Expire(t)
    \/ ChainSteps
    \/ RefetchProposals

Spec == Init /\ [][Next]_vars

-----------------------------------------------------------------------------
Requests ==
    [pc : {"idle", "proposal", "proofs", "account", "signInit", "confirm", "sign"},
     op : Ops, p : Proposals, stake : Stakes \cup {NoStake}, cr : Nat, slot : Nat,
     end : Nat, va : VoteAccounts \cup {NoAccount}, init : BOOLEAN, inited : BOOLEAN]

Transactions ==
    [kind : {"init", "vote"}, signer : Wallets, w : Wallets, op : Ops, p : Proposals,
     stake : Stakes \cup {NoStake}, cr : Nat, slot : Nat, va : VoteAccounts,
     init : BOOLEAN, end : Nat]

\* Every variable has its type; a transaction always names a vote account.
TransactionsTypeOK ==
    /\ epoch \in Nat
    /\ prop \in [Proposals -> [slot : Nat, start : Nat, end : Nat, moved : BOOLEAN]]
    /\ results \subseteq Slots
    /\ DOMAIN proofs = Slots \X VoteAccounts
    /\ \A k \in Slots \X VoteAccounts : proofs[k].status \in {"none", "open", "reclaimed", "expired"}
    /\ votes \subseteq Proposals \X VoteAccounts
    /\ overrides \subseteq Proposals \X Stakes
    /\ listed \in [Proposals -> Nat]
    /\ reqs \in [Wallets -> Requests]
    /\ started \in Nat
    /\ txs \subseteq Transactions

\* Whichever account the wallet has switched to by the time it is asked, what
\* is sent is signed by the account that started the vote.
SignedByTheVoter == \A t \in txs : t.signer = t.w

\* An override names the vote account its stake was delegated to in the
\* snapshot, wherever the stake is delegated today and whatever pairing of
\* proofs the verifier returns.
OverridesFollowTheSnapshot ==
    \A t \in txs : t.op \in OverrideOps =>
        t.stake \in Stakes /\ t.va = DelegatedTo[t.stake]

\* What may have gone wrong, through no fault of the builder, with a vote that
\* is about to be signed: the snapshot was moved, voting is not open, the
\* result is not final, others created or closed the proof account, or the
\* voter is not entitled to this operation.
Excused(t) ==
    \/ prop[t.p].moved
    \/ ~ VotingOpen(t.p)
    \/ t.cr \notin results
    \/ t.init /\ IsOpen(<<t.cr, t.va>>)
    \/ ~ t.init /\ proofs[<<t.cr, t.va>>].status \in {"reclaimed", "expired"}
    \/ ~ AcceptsVoter(t)

\* A vote that is ready to be signed would be accepted, unless the chain has
\* moved on since the builder read it: proofs, vote account, consensus result
\* and the decision to create the proof account always fit together.
RefusedOnlyForRaces ==
    \A w \in Wallets : reqs[w].pc = "sign" =>
        \/ AcceptsVote(Transaction(w, "vote", w))
        \/ Excused(Transaction(w, "vote", w))

\* Between the two transactions of an override nobody but its own wallet can
\* take away the proof account that the first one created, until voting ends,
\* as long as votes on one snapshot last equally long.  (Otherwise the wallet can
\* reclaim that account while an older transaction of its own is on the way, which
\* creates it again until the end of a shorter vote.)
ProofSurvivesBetween ==
    \A w \in Wallets :
        LET r == reqs[w]
            q == proofs[<<r.cr, r.va>>]
        IN  r.pc = "sign" /\ r.inited /\ epoch < r.end /\ q.payer = w
                => q.status # "expired"
=============================================================================
