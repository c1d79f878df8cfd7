---------------------------- MODULE MCVotePath ----------------------------
(***************************************************************************)
(* What carries a vote from a wallet to the chain, on small instances: the *)
(* transactions of the web client and the close time of their proof        *)
(* accounts, commands routed through a multisig, the trees their proofs    *)
(* come from, the verifier that serves them, the router in front of it and *)
(* the client that asks.                                                   *)
(*                                                                         *)
(* These parts share no variables, so a behaviour of all of them is a      *)
(* shuffle of behaviours of each.  One part moves in a behaviour, the      *)
(* others rest in an initial state.                                        *)
(***************************************************************************)
EXTENDS VoteTransactions, Integers, Sequences, TLC

CONSTANTS wv, ws, va, vb, st, p, c1, c2, u1, u2, r1, t1, t2, None

VARIABLES
    part,
    info, endEpoch, skipped, candidate, attempts, outcome, close,
    initiators, vaultTx, proof, cmd, budget,
    items, levels, index, level, nodeIndex, path, leaf, altered, node, used, pc,
    db, version, up, upload, summary, uploads,
    log, job, jobs, files, clock, written, cache, req, served,
    apiPc, kind, status, error, retry, failures, aborted, report, fetches,
    requests, seen, transient

-----------------------------------------------------------------------------
(* A validator's wallet and a staker's, whose stake was redelegated since    *)
(* the snapshot.                                                             *)
MCIdentity == [w \in Wallets |-> IF w = wv THEN va ELSE NoAccount]
MCVotingWallet == [v \in VoteAccounts |-> wv]
MCDelegatedTo == [s \in Stakes |-> va]
MCLiveDelegation == [s \in Stakes |-> vb]
MCOwner == [s \in Stakes |-> ws]

\* Epochs of the real length; votes cast at the start, in the middle and near
\* the end of one, for proposals that end up to five epochs ahead or have ended.
Expiry == INSTANCE ProofExpiry WITH
    SlotsInEpoch <- 432000, EpochsAhead <- -1 .. 5, Paces <- {400, 440, 479},
    SlotIndexes <- {0, 1, 7, 8, 9, 3000, 216000, 420000, 431996, 431997, 431998, 431999},
    MaxSkipped <- 9, CurrentEpoch <- 2, Genesis <- 0
expiryVars == <<info, endEpoch, skipped, candidate, attempts, outcome, close>>

\* Two commands whose runs compete for the same indices.
Squads == INSTANCE SquadsRouting WITH
    Commands <- {c1, c2}, MAX_INDEX_ATTEMPTS <- 3, MaxRuns <- 2, MaxOthers <- 2, MaxChanges <- 1
squadsVars == <<initiators, vaultTx, proof, cmd, budget>>

\* One tree of every size up to seven, and a leaf that is in none of them.
Merkle == INSTANCE MerkleProofs WITH
    Trees <- {[i \in 1 .. n |-> i] : n \in 0 .. 7}, Items <- 0 .. 7
merkleVars == <<items, levels, index, level, nodeIndex, path, leaf, altered, node, used, pc>>

-----------------------------------------------------------------------------
(* Two proper files of one slot, which disagree on who votes for what, and   *)
(* files that each fail one check; uploads of all of them, and one replayed  *)
(* to another network, one with another file and one that is not signed.     *)
Stake(account, wallet, stake) == [account |-> account, wallet |-> wallet, stake |-> stake]
Bundle(vote, wallet, stakes, stake) ==
    [leaf |-> [vote |-> vote, wallet |-> wallet, stakeRoot |-> stakes, stake |-> stake],
     stakes |-> stakes]
RootOf(bundles) == [i \in DOMAIN bundles |-> bundles[i].leaf]
File(slot, bundles) == [slot |-> slot, root |-> RootOf(bundles), bundles |-> bundles]

B1 == Bundle("v1", "w", <<Stake("s1", "w", 1), Stake("s2", "x", 1)>>, 2)
B2 == Bundle("v2", "x", <<Stake("s3", "x", 1)>>, 1)
B3 == Bundle("v1", "x", <<Stake("s1", "x", 2)>>, 2)

ProperFiles == [first |-> File(1, <<B1, B2>>), second |-> File(1, <<B3>>)]
OtherFiles ==
    [otherLeaves |-> [File(1, <<B3>>) EXCEPT !.root = RootOf(<<B1, B2>>)],
     otherStakes |-> File(1, <<[B3 EXCEPT !.leaf.stakeRoot = B2.stakes]>>),
     noStakes |-> File(1, <<Bundle("v1", "w", <<>>, 0)>>),
     wrongSum |-> File(1, <<Bundle("v1", "w", <<Stake("s1", "w", 1)>>, 2)>>),
     twice |-> File(1, <<B1, Bundle("v2", "x", <<Stake("s1", "x", 1)>>, 1)>>),
     empty |-> File(1, <<>>),
     wide |-> File(1, <<B2, Bundle("v3", "w", <<Stake("s4", "w", 4)>>, 4)>>),
     late |-> File(4, <<B1>>)]
AllFiles == ProperFiles @@ OtherFiles

Signed(h, n) == [network |-> n, slot |-> AllFiles[h].slot, root |-> AllFiles[h].root, hash |-> h]
Upload(h, n, signed) == Signed(h, n) @@ [signed |-> signed, file |-> h]
ProperRequests == {Upload(h, "mainnet", Signed(h, "mainnet")) : h \in DOMAIN ProperFiles}
AllRequests ==
    {Upload(h, "mainnet", Signed(h, "mainnet")) : h \in DOMAIN AllFiles}
    \cup {Upload("second", "testnet", Signed("second", "mainnet")),
          Upload("second", "testnet", None),
          Upload("first", "localnet", Signed("first", "localnet")),
          [Upload("first", "mainnet", Signed("first", "mainnet")) EXCEPT !.file = "second"],
          [Upload("first", "mainnet", Signed("first", "mainnet")) EXCEPT !.file = None]}
Before == {[network |-> "mainnet", file |-> "first"]}

\* Concurrent uploads of all files; and readers beside uploads of proper ones.
Store == INSTANCE VerifierService WITH
    Files <- AllFiles, Requests <- AllRequests, Wallets <- {"w"}, OldUploads <- Before,
    Uploaders <- {u1, u2}, Readers <- {}, I64Max <- 3, U64Max <- 7, MaxUploads <- 3
Reading == INSTANCE VerifierService WITH
    Files <- ProperFiles, Requests <- ProperRequests, Wallets <- {"w", "x"}, OldUploads <- Before,
    Uploaders <- {u1, u2}, Readers <- {r1}, I64Max <- 3, U64Max <- 7, MaxUploads <- 3
serviceVars == <<db, version, up, upload, summary, uploads>>

-----------------------------------------------------------------------------
(* The job by itself, with two origins one of which is listed under both     *)
(* spellings; requests of two threads beside it; and two networks configured *)
(* with one file, behind a proxy.                                            *)
Origin(name, slash) == [origin |-> name, slash |-> slash]
OneFile == [n \in {"mainnet"} |-> "main.json"]

Polls == INSTANCE NcnRouter WITH
    Networks <- <<"mainnet">>, PathOf <- OneFile, MaxLag <- 1, Slots <- {0, 1, 2, 4}, MaxJobs <- 1,
    Config <- <<Origin("a", FALSE), Origin("b", FALSE), Origin("a", TRUE)>>,
    Threads <- {t1, t2}, Queries <- {}, Proxy <- FALSE, MaxRequests <- 0
Routing == INSTANCE NcnRouter WITH
    Networks <- <<"mainnet">>, PathOf <- OneFile, MaxLag <- 1, Slots <- {2}, MaxJobs <- 2,
    Config <- <<Origin("a", FALSE)>>, Threads <- {t1, t2}, Proxy <- FALSE, MaxRequests <- 3,
    Queries <- {<<>>, <<"testnet">>, <<"mainnet", "mainnet">>}
Shared == INSTANCE NcnRouter WITH
    Networks <- <<"mainnet", "testnet">>, PathOf <- [n \in {"mainnet", "testnet"} |-> "both.json"],
    MaxLag <- 1, Slots <- {2}, MaxJobs <- 1, Config <- <<Origin("a", FALSE)>>,
    Threads <- {t1, t2}, Queries <- {<<"mainnet">>, <<"testnet">>}, Proxy <- TRUE, MaxRequests <- 2
routerVars == <<log, job, jobs, files, clock, written, cache, req, served>>

\* Two fetches, one after the other, with the retries of the code.
Api == INSTANCE NcnApiClient WITH
    MaxRetries <- 3, MaxQueryRetries <- 3, MaxFetches <- 2, pc <- apiPc
apiVars == <<apiPc, kind, status, error, retry, failures, aborted, report, fetches,
             requests, seen, transient>>

ASSUME Expiry!ExpiryAssumption /\ Squads!SquadsAssumption /\ Merkle!MerkleAssumption
ASSUME Store!ServiceAssumption /\ Reading!ServiceAssumption /\ Api!ApiAssumption
ASSUME Polls!RouterAssumption /\ Routing!RouterAssumption /\ Shared!RouterAssumption
ASSUME Polls!WhitelistAssumption /\ Routing!WhitelistAssumption /\ Shared!WhitelistAssumption

-----------------------------------------------------------------------------
Parts == {"transactions", "expiry", "squads", "trees", "uploads", "readers",
          "polls", "routing", "shared", "api"}

\* A part that rests does so in one of its initial states.
PathInit ==
    /\ part \in Parts
    /\ Init
    /\ Expiry!Init /\ (part # "expiry" => info.slotIndex = 0 /\ endEpoch = 2 /\ skipped = 0)
    /\ Squads!Init /\ (part # "squads" => initiators = {} /\ ~proof)
    /\ Merkle!Init /\ (part # "trees" => items = <<>> /\ leaf = 0)
    /\ IF part = "readers" THEN Reading!Init ELSE Store!Init
    /\ part \notin {"uploads", "readers"} => version = 0
    /\ IF part = "polls" THEN Polls!RouterInit
       ELSE IF part = "shared" THEN Shared!RouterInit ELSE Routing!RouterInit
    /\ Api!Init

PathNext ==
    /\ UNCHANGED part
    /\ IF part = "transactions" THEN Next ELSE UNCHANGED vars
    /\ IF part = "expiry" THEN Expiry!Next ELSE UNCHANGED expiryVars
    /\ IF part = "squads" THEN Squads!Next ELSE UNCHANGED squadsVars
    /\ IF part = "trees" THEN Merkle!Next ELSE UNCHANGED merkleVars
    /\ IF part = "uploads" THEN Store!Next
       ELSE IF part = "readers" THEN Reading!Next ELSE UNCHANGED serviceVars
    /\ IF part = "polls" THEN Polls!Next
       ELSE IF part = "routing" THEN Routing!Next
       ELSE IF part = "shared" THEN Shared!Next ELSE UNCHANGED routerVars
    /\ IF part = "api" THEN Api!Next ELSE UNCHANGED apiVars

pathVars == <<part, vars, expiryVars, squadsVars, merkleVars, serviceVars, routerVars, apiVars>>

PathSpec == PathInit /\ [][PathNext]_pathVars

-----------------------------------------------------------------------------
\* What is signed would be accepted unless the chain has moved on since the
\* builder read it, and the proof account a vote relies on outlives the voting
\* (VoteTransactions, ProofExpiry).  A run of a command leaves at most one
\* vault transaction, behind the proof account it needs, and what it prints is
\* true of it, so that running it again proposes nothing twice (SquadsRouting).
TransactionsAreSound ==
    /\ part = "transactions" =>
          TransactionsTypeOK /\ RefusedOnlyForRaces /\ ProofSurvivesBetween
    /\ part = "expiry" => Expiry!NotClosableWhileVoting /\ Expiry!PastStaysClosable
    /\ part = "squads" =>
          /\ Squads!TypeOK /\ Squads!OneTransactionPerRun /\ Squads!ReportedIsItsOwn
          /\ Squads!SafeToRunAgain /\ Squads!ProofThenProposal

\* A leaf's own proof verifies and nothing that is not a leaf of the tree does
\* (MerkleProofs).  Whatever uploads ran, failed or died half way, a verifier
\* serves one whole file per slot, with proofs that verify against the root
\* consensus is about and the stake the quorum is measured by; a query never
\* sees an upload half way (VerifierService).  A request for what is served uses
\* up its attempts before it fails, no more than that, and an outage of operators
\* is not reported as a fault of the application (NcnApiClient).
SnapshotsAreServed ==
    /\ part = "trees" => Merkle!TreeTypeOK /\ Merkle!OwnProofVerifies /\ Merkle!OnlyTheTreesLeavesVerify
    /\ part = "uploads" =>
          /\ Store!StoreTypeOK /\ Store!SnapshotIsWhole
          /\ Store!ServedProofsVerify /\ Store!QuorumIsOfTheSnapshot
    /\ part = "readers" => Reading!QueriesSeeOneSnapshot
    /\ part = "api" =>
          /\ Api!ApiTypeOK /\ Api!TransientFailuresAreRetried
          /\ Api!OutageIsAWarning /\ Api!NoMultiplication

\* Requests are routed by whitelists that were in force, and weigh every origin
\* once (NcnRouter!RequestsAreRouted), whichever of the three instances moves.
RequestsAreRouted ==
    /\ part = "polls" => Polls!RequestsAreRouted
    /\ part = "routing" => Routing!RequestsAreRouted
    /\ part = "shared" => Shared!RequestsAreRouted

\* A command gives up on the index only after that many other proposals; what a
\* verifier serves is replaced only by what its operator signed for that slot
\* and network; and a cancelled fetch sends and reports nothing any more,
\* whatever it raced with.
EffectsAreWarranted ==
    [][/\ part = "squads" => Squads!RaceMeansLosses
       /\ part = "uploads" => Store!OnlySignedUploads
       /\ part = "api" => Api!NothingAfterCancel]_pathVars
=============================================================================
