# Solana governance: specification and proofs

TLA+ specifications of this repository's two on-chain programs, of the services
and command lines around them and of the web client, the TLC configurations
that check them on small instances, and TLAPS proofs of the parts the rest
relies on.

* **ncn-snapshot** (`src/ncn/programs/ncn-snapshot`): whitelisted operators
  agree on the stake snapshot taken at a slot.
* **svmgov** (`src/svmgov/program`): validators propose, support and vote;
  delegators may override their validator. Votes are weighed by the snapshot.
* **Services** (`src/ncn/verifier-service`, `src/ncn-router`,
  `src/ncn/merkle-tree`): operators index snapshots and serve proofs; a router
  sends voters to an operator that agrees with the chain.
* **Clients** (`src/frontend`, `src/svmgov/cli`, `src/ncn/cli`,
  `src/squads-client`): show proposals and turn votes into transactions.

`PROJECT.json` holds the machine-readable side: components, runs, the map from
definitions to source lines, mutants, findings, hazards and theorems.

## 1. The system

### Components

| Component | State | Operations | What makes it correct |
|---|---|---|---|
| ncn-snapshot config | `ProgramConfig` PDA: authority, nominee, whitelist, threshold, tie breaker, duration, svmgov program | `init_program_config`, `update_program_config`, `finalize_proposed_authority`, `update_operator_whitelist` | the authority changes hands only by nomination and acceptance; the whitelist fits a box |
| ncn-snapshot ballot boxes | one `BallotBox` and one `ConsensusResult` PDA per snapshot slot | `init_ballot_box`, `cast_vote`, `remove_vote`, `reset_ballot_box`, `set_tie_breaker`, `finalize_ballot` | tallies are the votes; a decision is backed, final and unique; every box gets a result |
| ncn-snapshot merkle proofs, ncn/merkle-tree | `MetaMerkleProof` accounts; trees | `init_meta_merkle_proof`, `verify_merkle_proof`, `close_meta_merkle_proof`; building and walking a tree | exactly the leaves under the published root verify |
| svmgov config | `GlobalConfig` PDA: admin, nominee, parameters | `initialize_config`, `update_config` (with migration), `nominate_admin`, `accept_admin` | parameters stay within what the other instructions can use |
| svmgov proposals | `Proposal`, `ProposalIndex`, `Support` PDAs | `initialize_index`, `create_proposal`, `support_proposal`, `retally_support`, `flush_merkle_root`, `finalize_proposal` | voting starts with real support, on a snapshot of the future, and what it rests on does not change after it starts |
| svmgov voting | `Vote`, `VoteOverride`, `VoteOverrideCache` PDAs and the totals in `Proposal` | `cast_vote`, `modify_vote`, `cast_vote_override`, `modify_vote_override` | totals depend on the choices, not on their order; no stake twice or lost; nobody is locked out |
| ncn/verifier-service | SQLite tables of snapshot leaves | upload, migration, voter summaries, proofs | what is served is one whole snapshot, and its proofs verify |
| ncn-router | a whitelist file per network, a cache by mtime | the cron job, routing | routes only within a network, by the current whitelist, which is never emptied |
| frontend: dialogs, transactions, endpoint settings | forms, mutations, `localStorage` | one dialog per operation; builders of transactions | a vote is sent once, whole, by the voter, to the right accounts and the right cluster |
| frontend: pages | the query cache | status, timeline, figures, tables, documents, the wallet's own answers | what is shown and offered follows the chain, whatever queries are late, failed or stale |
| svmgov/cli, ncn/cli, squads-client | none of their own | phase of a proposal; routing through a multisig | the phase told is the program's; one vault transaction per run |
| ncn/ledger, widgets, generated interfaces | - | - | not modelled, section 6 |

### How they interact

`support_proposal`, `retally_support` and `flush_merkle_root` call
`init_ballot_box` of ncn-snapshot with the proposal PDA as signer, unless a box
for the slot exists already. The voting instructions read `ConsensusResult` and
call `verify_merkle_proof`. ncn-snapshot never calls back. Both programs read
the clock; svmgov also reads the epoch stakes. Off-chain, operators run
`ncn/cli` to compute a snapshot and vote, upload it to a verifier, and the
router hands voters to a verifier that agrees with the chain. The web client
reads accounts through an RPC endpoint and proofs through the router, each by
queries of their own age, and writes transactions, some in two steps: first the
shared proof account, then the vote.

### What is hard

On chain a transaction is atomic, so an instruction is one action and a failed
one changes nothing. What is left is the order of instructions of parties who
do not wait for each other: operators who vote, withdraw and are reset while
the configuration changes under an open box; a late vote against the tie
breaker at the expiry second; supporters who pledge in epochs with different
stakes; two proposals that share a box; an admin who flushes while voting is
about to start; a validator and its delegators who vote in any order and change
their minds; rounding; and values copied when an account is created but used
much later.

Off chain every await is a gap. A dialog is closed while its request is under
way; the wallet or the endpoint is switched under queries that are on their
way; a page mixes an epoch read now with stakes read minutes ago; a
transaction lands although its confirmation is lost; a deadline passes while an
answer is being read; a file is truncated while a thread reads it; an upload
commits between two queries of one request; the process dies between two
writes. The hazards in `PROJECT.json` name each at its line, with the
properties that watch it.

## 2. The modules

| Module | Models |
|---|---|
| `TwoStepHandover` | abstract: an office handed over by nomination and acceptance |
| `SnapshotConsensus` | abstract: what ncn-snapshot promises to svmgov |
| `NcnProgramConfig` | `instructions/program_config/*`, `state/program_config.rs` |
| `NcnBallotBox` (extends `NcnProgramConfig`) | `instructions/ballot/*`, `state/ballot_box.rs`, `state/consensus_result.rs` |
| `StakeArithmetic` | thresholds and rounded shares of `utils.rs`, `proposal.rs` |
| `SvmgovGlobalConfig` | `initialize_config.rs`, `update_config.rs`, `transfer_admin.rs` |
| `SvmgovProposal` (extends `SvmgovGlobalConfig`, uses `SnapshotConsensus`) | the proposal instructions |
| `SvmgovVoting` (extends `SvmgovProposal`) | the four voting instructions |
| `MerkleProofs` | `merkle_tree.rs`, `merkle_helper.rs` |
| `VerifierService` | `upload.rs`, `migrator.rs`, the voter summary of `main.rs` |
| `VerifierWhitelist` | `cron_job.rs`: polls, comparison with the chain, demotion, one row per origin, the files |
| `NcnRouter` (extends `VerifierWhitelist`) | `main.rs`, `router.rs`: request threads, cache, choice of a verifier |
| `CliPhases` (extends `SvmgovProposal`) | `svmgov/cli/src/utils/phase.rs` |
| `SquadsRouting` | `route_via_squads` of both command lines, `squads-client/src/client.rs` |
| `VoteModals` | the dialogs, `ModalProvider`, `useWalletRole`, the buttons that open them |
| `VoteTransactions` | `castVote`, `modifyVote`, `castVoteOverride`, `modifyVoteOverride` and their helpers |
| `TransactionEstimates` | compute budget of a support, close timestamp of a proof |
| `SupportTransaction` (extends `TransactionEstimates`) | `supportProposal`, the configuration's two caches |
| `ProofExpiry` (extends `TransactionEstimates`) | the walk back to a slot with a block time, against the end of voting |
| `NcnApiClient` | `ncnApi.ts` and the query client's retries (`providers.tsx`) |
| `EndpointSettings` | the settings dialog, both contexts, `localStorage`, the genesis hash |
| `ProposalPages` (extends `StakeArithmetic`) | `getProposalStatus` and what each page offers |
| `PhaseTimeline` | timelines, countdown, carousel, notification |
| `ProposalFigures` | support card, vote card, cells of the table |
| `ProposalLinks` | `validateProposalUrl`, `proposal_link.rs`, `is_valid_github_link`, the parsing of a stored link |
| `ProposalDocuments` | fetching, caching and showing the document behind a link |
| `VoterTables` | votes, overrides and supporters joined, searched, sorted, paged |
| `WalletAnswers` | has voted, can modify, has supported: queries that enable one another |
| `NcnBallotBoxProofs`, `SvmgovProposalProofs`, `SvmgovVotingProofs` | theorems about the two programs, section 4 |
| `SquadsRoutingProofs`, `NcnServicesProofs` | theorems about multisig routing; about job, router, trees, the verifier's tables and, with their sums and folds, the figures of the pages and the checks of links |
| `VoteTransactionsProofs`, `VoteModalsProofs`, `EndpointSettingsProofs` | theorems about transactions, estimates and supports; dialogs and documents; settings, the verifier's client, status, wallet, timeline and tables |
| `MCNcn*`, `MCSvmgov*` | instances of the two programs |
| `MCVotePath`, `MCDialogs`, `MCPages`, `MCSettling` | instances of the services and clients, several parts side by side |

Definitions keep the names of the code (`winning_ballot`, `has_vote_expired`,
`handleSubmit`); an action has the name of its instruction or handler. An
account is a record in a function from what its PDA is derived from, with
`None` where the account does not exist. Definitions introduced by a comment
"Mutant:" or "Slip:" are plausible mistakes; no specification uses them, and
each property is shown to be violated when one of them takes the place of the
original.

Abstractions, and why they are sound:

* Keys, roots, hashes, vote and stake accounts are model values. Signatures and
  PDA derivations become the guards they enforce.
* `whitelisted_operators` and `operator_votes` are sets: the code searches them
  by key only. `ballot_tallies` and the supporter list stay sequences, because
  positions in the first are stored in votes and the length of the second
  matters. Ballot positions count from 1, in the code from 0.
* `Clock.slot` grows by one. `unix_timestamp` does not decrease, but moves
  independently of the slot. `Clock.epoch` is the slot divided by
  `SLOTS_PER_EPOCH`, which is the assumption of 432,000 slots the program makes.
* The stakes of an epoch are any member of `StakeMaps`, chosen anew at each
  epoch boundary. Epoch stakes (support) and snapshot stakes (votes) are
  separate, as in the code.
* A snapshot is a function of its root (`Leaves`): `verify_merkle_proof` lets
  exactly its leaves through, which is what a collision-free hash gives, and
  anyone can store a proof account. Its assumption, that a validator has at
  least the stake delegated to it, is how `generate_meta_merkle_snapshot` adds
  a validator up. If a published root committed to other leaves, `cast_vote`'s
  subtraction could fail.
* Lamports are naturals; products go through `u128` in the code. Shares are
  rounded down one by one, as `calculate_vote_lamports` does.
* Vote and stake accounts exist throughout. The voting instructions check the
  owner and size of the vote account, the overrides the owner of the stake
  account too.
* Titles, descriptions, timestamps, bumps and events are left out; nothing
  decides on them later.

Off chain:

* **An await is a step boundary.** JavaScript runs to its next await, so a
  handler is as many actions as it has awaits; what it read before one may be
  stale after it. The transaction builders may fail at every await.
* **Queries.** An entry of react-query is loading, known or failed, and is
  answered with what the chain is when the answer is made, which may be older
  than the entry beside it. `ProposalPages` keeps only the entry of the current
  key. In `WalletAnswers` entries outlive the wallet they were made for.
* **The program in the client's modules.** `VoteTransactions`,
  `SupportTransaction` and `ProposalPages` restate the conditions under which
  the program accepts an instruction, over the few fields the client uses; the
  modules of the program are the full account.
* **Numbers.** Percentages are exact fractions, floating point in the code.
  `ProofExpiry` and `SupportTransaction` use the real constants.
* **Strings.** A link is a sequence of tokens; the length limit and warnings
  are left out. An address in the settings is a name with a number of trailing
  slashes.
* **Hashes** are free: in `MerkleProofs` a hash is what was hashed, and an
  inner node, whose children are sorted, is the set of its children; in
  `VerifierService` the root is the sequence of leaves.
* **External parts**: SQLite has one writer, a busy timeout and a committed
  state per statement; the file system truncates on open and then writes;
  GitHub, RPC nodes and verifiers answer anything or fail; the Squads program
  creates a transaction only at the next index. A verifier's requests of one
  query change nothing and are no actions. Old databases are whole snapshots;
  rows without vote accounts are not modelled.
* **Time in the router.** Two writes of a file get different modification
  times: an RPC request lies between two runs of the job.

## 3. What is model-checked

| Run | Instance | Properties |
|---|---|---|
| `ballot_box` | 3 operators, 2 nonzero roots and the zero root, 1 slot, threshold 60%, room for 2 tallies; operators symmetric | `IndInv`, `ConsensusBacked`, `MajorityIsUnique`, `ResultMatchesBox`, `DecisionIsFinal`, `OneWayToDecide`, `ImplementsConsensus` |
| `ballot_box_live` | 2 operators, 1 nonzero root, room for 1 tally | `EveryBoxIsSettled` |
| `program_config` | 3 keys, 3 operators, whitelist of 2; keys symmetric | `WhitelistFits`, `AuthorityHandover` |
| `global_config` | 3 keys; accounts of the old layout, with and without a nominee | `ParametersAreSane`, `AdminHandover` |
| `proposal` | 2 proposals, 2 validators, stakes 3+7 or 6+2, threshold 80%, 2 slots per epoch, 6 slots; the phase the command line tells of each | `BoundToABox`, `SupportersAreCounted`, `PhasesAreTrue`, `ActivationIsBacked`, `NeverBackdated`, `ScheduleIsFixed` |
| `window`, `flush` | 1 proposal | the two findings, section 5 |
| `voting` | 1 proposal, 2 validators, 2 delegators, 2 snapshots, 4 epochs | `TotalsAreOutcome`, `OverridesAreRemembered`, `NobodyIsLockedOut`, `RoundingIsBounded`, `WeighedByOneSnapshot`, `TotalsMoveInWindow` |
| `vote_path` | transactions, multisig, trees, verifier, router, client of the verifier | `SignedByTheVoter`, `OverridesFollowTheSnapshot`, `TransactionsAreSound`, `SnapshotsAreServed`, `RequestsAreRouted`, `EffectsAreWarranted` |
| `dialogs` | vote dialogs, support, links, documents | `ModalsInv`, `DialogsAreSound`, `LateAnswersTouchNothing`, `DialogsAskTheRightOnes` |
| `pages` | settings, status, timelines, figures, tables, the wallet's answers | `NetworkIsOfTheEndpoint`, `PhasesAreRight`, `PagesShowWhatIs`, `ReloadKeepsTheEndpoint`, `NothingIsTakenBack` |
| `settling` | the parts of the client that wait for something | `EverythingSettles` |

The last four runs hold several parts each. The parts share no variables, so a
behaviour of all of them together is a shuffle of behaviours of each, and a
property of one part holds in the shuffle when it holds in the part: the
variable `part` names the one that moves, and the others rest in an initial
state. A grouped property is a conjunction of `part = "..." => P`, where `P` is
a property of the part's own module, stated and explained there. A module's
type invariant is one of the conjuncts. The parts and their properties:

| Run, part | Module and bounds | Properties |
|---|---|---|
| `vote_path`: transactions | `VoteTransactions`: 2 wallets, 2 vote accounts, a redelegated stake | `SignedByTheVoter`, `OverridesFollowTheSnapshot`, `RefusedOnlyForRaces`, `ProofSurvivesBetween` |
| expiry | `ProofExpiry`: 432,000 slots per epoch, 3 paces, up to 9 skipped slots | `NotClosableWhileVoting`, `PastStaysClosable` |
| squads | `SquadsRouting`: 2 commands run twice, 3 attempts, 2 proposals of others, 1 change of members | `OneTransactionPerRun`, `ReportedIsItsOwn`, `SafeToRunAgain`, `ProofThenProposal`, `RaceMeansLosses` |
| trees | `MerkleProofs`: up to 7 leaves, a foreign leaf, cut and altered proofs | `OwnProofVerifies`, `OnlyTheTreesLeavesVerify` |
| uploads, readers | `VerifierService`: 2 uploaders, 3 uploads of proper and faulty files, a migrated database, crashes; 1 reader in the second | `SnapshotIsWhole`, `ServedProofsVerify`, `QuorumIsOfTheSnapshot`, `OnlySignedUploads`; `QueriesSeeOneSnapshot` |
| polls, routing, shared | `NcnRouter`: 3 rows for 2 origins, slots 0, 1, 2, 4; 2 threads, 3 requests, 2 runs of the job with crashes; 2 networks with one file | `PoolIsNeverEmptied`, `OneTicketPerFreshOrigin`; `RoutedByACurrentWhitelist`, `CacheIsCurrent`; `WhitelistIsOfItsNetwork`, `RoutedWithinTheNetwork` |
| api | `NcnApiClient`: 3 retries, 3 query retries, 2 fetches | `TransientFailuresAreRetried`, `OutageIsAWarning`, `NoMultiplication`, `NothingAfterCancel` |
| `dialogs`: modals, split | `VoteModals`: a validator and a staker; 2 dialogs in a row; 2 proposals and a vote that can be split | `ModalsInv` (of which `VotesAreWhole`, `PairedConsensus`, `NoDoubleSubmission` are parts), `LoadingIsAccountedFor`, `LateAnswersTouchNothing`, `StakersAreTurnedAway` |
| support | `SupportTransaction`: 2 validators, 3 mutations, 57 supports in between, 1 configuration change | `NamesTheRightBox`, `HeadroomSuffices` |
| links | `ProposalLinks`: 2 insertions into 6 links, at most 6 segments | `OneRepository`, `FormLinksNameADocument`, `CheckedLinksAreStored` |
| documents, otherLinks | `ProposalDocuments`: 2 links each, 2 pages of files, 1 or 2 entries of storage, 1 reload | `ShownIsTheSubject`, `HeadingNamesTheDocument`, `RefusalsAreFinal`, `OpensFreshOrAsking`, `ExpiredIsNotShown`, `AnswersAreReused` |
| `pages`: settings | `EndpointSettings`: 2 presets, 2 deployments, 3 edits, 2 loads | `NetworkIsOfTheEndpoint`, `ReloadKeepsTheEndpoint`, `UneditedSaveKeeps` |
| status | `ProposalPages`: epochs 0 to 6, 3 tallies, 1 change by the admin | `OfferedIffAccepted`, `PhaseEndsAsAnnounced`, `ThroughIsTheLastEpoch`, `NeverTakenBack` |
| timeline | `PhaseTimeline`: 20 slots per epoch, 27 seconds in steps of 3 | `MobileShowsTheSame`, `DateIsClose`, `OverReadsEnded`, `OnlyTheCurrentPhaseRuns`, `StageChangeTurnsTheCard` |
| support, vote | `ProposalFigures`: 2 validators, 1 move of stake, 2 snapshots, 1 or 2 refetches | `MissingStakeIsNotProgress`, `CrossedStaysCrossed`, `DonutAgreesWithVerdict`, `FreshVerdictIsTheProgramS`; `QuorumIsOfTheVotesSnapshot`, `MarkerMeansQuorum`, `UnknownIsShownAsUnknown`, `QuorumIsNotUnmet` |
| rows, paging | `VoterTables`: 2 vote accounts of one identity or of two, a staker, 1 new account in the first, 1 change of the cluster and 2 clicks in the second; pages of 1 and 2 rows | `RowsAreToldApart`, `NamesResolve`, `SupportersFollowTheList`, `NothingIsMissed`; `PageIsNotEmpty`, `LargestFirst`, `ResizeKeepsTheRow` |
| casting, modifying, switching | `WalletAnswers`: 2 wallets, one of them a validator with 2 stake accounts, 2 switches, 1 vote, 1 failure; 2 endpoints in the third | `AnswersAreOfTheWallet`, `OfferedToTheRightWallets`, `VotedStaysVoted`; `NothingOfAnotherEndpoint` |
| `settling` | the modules above, smaller, with fairness | `NetworkResolves`, `FetchSettles`, `VotingIsAnnounced`, `SkeletonsEnd`, `LoadingEnds` (documents and tables), `AnswerComes` |

In the runs of the programs, too, what holds a type is part of a property:
`WhitelistFits`, `ParametersAreSane`, `BoundToABox`, `TotalsAreOutcome` and
`IndInv` begin with the type of what they speak of. `PhasesAreTrue` and
`ScheduleIsFixed` are about the program and the phase of `CliPhases` at once.

**Ballot boxes.** Three operators at 60% need two votes, so one operator may
disagree, the third vote arrives after consensus, and a tie needs the tie
breaker. Two tallies can be exhausted by votes withdrawn. The configuration and
the whitelist change at every moment. Boxes do not refer to each other, so one
slot suffices. `ImplementsConsensus` is the refinement of `SnapshotConsensus`:
seen through the accounts svmgov reads, a slot is unopened, open or has one
result for good; before its slot, or with the zero root, only the tie breaker
publishes.

**Liveness.** `EveryBoxIsSettled` says that every opened box gets a result,
provided a key that can sign eventually stays tie breaker. Fairness is assumed
of the clock's timestamp, of the tie breaker once the box has expired, and of
somebody calling the permissionless `finalize_ballot`. Nothing is assumed of
the operators: they may fill the tallies, be reset for ever or never vote. The
tie breaker's fairness is an assumption about a person; the code offers no
other way out of an expired box.

**Configuration.** Arguments the validation refuses are among the inputs
(10001 basis points, 0 or too many supporters). Both handovers are checked to
implement `TwoStepHandover`.

**Proposals.** With 80%, v2 falls short with 7 of 10 and v1 suffices with 6 of
8, so a proposal may activate by its second supporter, by a retally in the next
epoch when stake has moved, or at once. Two proposals can land on one snapshot
slot, opened by either or known by the time the other binds. The admin drops
the discussion, extends the snapshot, lowers the supporter cap and flushes.
Slots 0 to 6 are epochs 0 to 3: creation, snapshot and voting all fit, and
the window ends inside the bound. The same states are read by the command line,
whose phase must name what the program would accept next. Deadlock is not checked in the svmgov runs, whose
clock stops at `MaxSlot`.

**Voting.** One slot per epoch. In snapshot `r1` both delegators belong to v1
and hold all of its stake, so overriding can leave nothing; in `r2` each
validator has one delegator and stake to spare. The votes tried are one without
rounding, one with rounding in all three shares, and one that does not add up.
`Outcome` computes the totals from the final choices alone, and
`TotalsAreOutcome` compares them with the running totals in every state, hence
after every order of votes, overrides and changes. `NobodyIsLockedOut` states
that the `checked_sub` calls cannot fail: whoever has stake can vote or change
a vote as long as voting is open and a usable root is published.

**Verifier and router.** Uploads interleave at their reads and at the writer's
lock, any statement may fail and the process may die anywhere: what is
committed is one whole file, and every served proof verifies against the root
stored with it. The job is checked apart for every outcome of every poll, then
together with the router: a truncated file, a file replaced between `stat` and
read, and a cache filled by a slower thread are all reached. A request is never
routed by a whitelist that was replaced before the request began.

**Votes.** `VoteModals` and `VoteTransactions` split a vote at the call of
the mutation. The stake is delegated elsewhere since the snapshot, so an
override that followed the live delegation would name the wrong vote account.
`RefusedOnlyForRaces` says that a transaction the client sends is refused only
when something changed after the client last read it. Two mutations suffice
for two voters who both find the shared proof account missing; the third is a
repetition after a failure.

**Pages.** Six epochs hold a support window, a discussion, a snapshot and a
vote, and one change of the configuration meets every phase. In
`PhaseTimeline` slots are 400 ms and epochs 20 slots, so that an epoch ends
between two refreshes. Bounds named `Max...` limit what people do and what
fails, never how queries are ordered.

**Squads.** Two proposals of others and those of the competing command are what
it takes to lose all three attempts, and a second run follows an error after
which the transaction had in fact landed.

**Fairness.** Only of steps the code or its runtime takes by itself: timers
that were set fire (`NcnApiClient`, the epoch refetch of `ProposalPages`);
rendering starts the queries it subscribes to, and every request is answered or
fails (`ProposalFigures`, `ProposalDocuments`, `VoterTables`, `WalletAnswers`,
`EndpointSettings`). In `ProposalPages` reads that never succeed are excluded: a
page behind a dead RPC node announces nothing. `FetchSettles`, `LoadingEnds` and
`SkeletonsEnd` do not need success. Nothing is assumed of users, the author,
the admin or other voters.

Deadlock is not checked in the runs of several parts: a client may be done, and
bounded users stop.

## 4. What is proved

For every finite set of operators, every set of roots, hashes and slots and
every capacity, from the named assumptions `KeysAssumption`,
`ConfigArgsAssumption`, `WhitelistAssumption`, `BoxAssumption`,
`StatusAssumption` and `NoneAssumption`:

* `IndInvHolds`, and from it `TypeCorrect`, `TalliesCorrect`,
  `ConsensusIsBacked`, `ResultIsDecision`, `MajorityWinnerUnique`
  (`NcnBallotBoxProofs`);
* `DecisionsAreFinal`, `TwoWaysToDecide` and `RefinesConsensus`, and of the
  configuration `WhitelistAlwaysFits` and `AuthorityIsHandedOver`
  (`NcnBallotBoxProofs` too).

**The invariant.** That tallies count votes is not inductive alone.
`cast_vote` adds to the *first* tally with the ballot and `remove_vote`
subtracts at a stored position, so `IndInv` adds that a ballot has one tally,
that votes point at tallies and that each operator has one vote. That a winner
stays backed needs that no vote disappears after consensus and that votes come
from the box's own list, whose size is the divisor of `tally_bps`.
`DecidedAfterSnapshot` and `NonzeroRoots` are what the refinement needs.

**The argument.** Lemmas describe what one vote (`VoteCast...`) and one
withdrawal (`VoteRemovedInv`) do to one box; `BoxReplaced` lifts them to the
function of boxes; `NextIndInv` has a step for each action.
`MajorityWinnerUnique` is two disjoint sets of voters against one list, with
the arithmetic apart in `MajorityArithmetic`. `RefinesConsensus` shows that
`init_ballot_box` is `OpenBox`, `finalize_ballot` is `Publish`, the clock
`Advance`, and everything else a stutter. `AuthorityIsHandedOver` maps both
instructions of a handover to `TwoStepHandover` in the same way.

**The governance program** (`SvmgovProposalProofs`, `SvmgovVotingProofs`), for
every finite set of validators and of stake accounts, any proposals, stakes that
differ from epoch to epoch, parameter updates, snapshots and distributions, from
`SettingsAssumption`, `ProposalAssumption`, `DistinctAssumption`,
`VotingAssumption` and `NoVoteAssumption`. These say what the arguments' types
are, that an account that exists differs from one that does not, and, the only
one about data, that in a snapshot the stake delegated to a validator is at most
the validator's, as `generate_meta_merkle_snapshot` adds it up.

| Theorem | Property |
|---|---|
| `ParametersStaySane`, `AdminIsHandedOver` | `ParametersAreSane`, `AdminHandover` |
| `ProposalsAreBound`, `SupportersStayCounted` | `BoundToABox`, `SupportersAreCounted` |
| `ActivationsAreBacked`, `BindingsLookAhead` | `ActivationIsBacked`, `NeverBackdated` |
| `SchedulesAreFixed` | `ScheduleIsFixed` |
| `CountdownsHold`, `StepsFitThePhase` | what the command line announces, for any look-ahead |
| `OneSnapshotWeighsAll` | `WeighedByOneSnapshot` |
| `TotalsStayTheOutcome`, `RoundingStaysBounded` | `TotalsAreOutcome`, `RoundingIsBounded` |
| `OverridesStayRemembered` | `OverridesAreRemembered` |
| `TotalsMoveInWindowOnly` | `TotalsMoveInWindow`; while the totals of a proposal move no other one changes |
| `NoCheckEverFails` | no checked subtraction of a voting instruction fails |
| `VotingKeepsTheLifeCycle` | the life cycle's properties under `SvmgovVoting!Spec` |

*Sums.* Totals, tallies and taken stakes are `Sum(f)`, the number of units
`<<x, i>>` with `i` up to `f[x]`. That needs no recursion, so the lemmas that open
`SvmgovProposalProofs` are about finite sets: a sum over two disjoint parts
(`SumSplit`), one more summand (`SumAdd`), one that changes (`SumChange`), a
comparison (`SumMonotone`), renamed summands (`SumRenamed`) and sums of sums
(`SumPlus`), where the units of one function are stacked on those of the other.

*`ProposalInv`* carries the life cycle. Neither `BoundToABox` nor
`SupportersAreCounted` is inductive. That the next window lies after the
creation, and that a new proposal is the youngest, needs that no creation is in
the future; that a new proposal's empty list is right needs that nobody supports
a proposal that does not exist; that windows are not empty needs the parameters
in their ranges. `NeverBackdated` needs `EarlyByTieBreaker`: a result that is
there before its snapshot slot is the tie breaker's, which every step of
`SnapshotConsensus` and of the clock keeps.

*`VotingInv`* says of each proposal that nobody has voted on it (`Untouched`), or
that voting has started, its result has a root, and its books are in order
(`InOrder`). The latter relates every account to every other: a vote's lamports
are the share of what is left of the validator's stake; what it gave up is what
its delegators hold who spoke; the cache of a validator without a vote adds up
their lamports; the totals add up both kinds of accounts; and what all
validators lost is what all delegators took. None of these is inductive alone.
`cast_vote` pays the totals from the cache's `total_stake`, so it needs
`CachesInOrder`; `cast_vote_override` subtracts the validator's old lamports and
adds recomputed ones, so it needs the formula for them and, lest the subtraction
fail, that the delegators of a validator never hold more than the validator
(`TakenFits`). That the snapshot under the books cannot be changed by
`flush_merkle_root` is `epoch >= start_epoch`, and that the root stays what it
was is the promise of `SnapshotConsensus`. Each instruction has a lemma about
the books, as operators of values (`CastInOrder`, `ModifyInOrder`,
`OverrideVotedInOrder`, `OverrideUnvotedInOrder`, `ModifyOverrideInOrder`) and
one that the action does that to one proposal and nothing to the others
(`CastVoteStep`, ..., `LifeCycleStep`).

*Rounding.* Three shares rounded down miss at most two lamports (`VoteRounds`);
`StakeTakingPart` recuts the stake that took part into what is left to voters
and what delegators hold, and `VotesRound` adds the bounds up.

*The lock-out.* `NobodyIsLockedOut` uses `ENABLED` and is model-checked;
`NoCheckEverFails` proves what it depends on: whatever others did before, the
totals cover what an instruction takes back, the validator's stake covers what
delegators took, and the cache a change needs is there.

### Services and clients

These theorems are about the modules' own specifications, of which the last four
runs check instances. Their assumptions are operators, `XAssumption` of the
module, since several instances of a module are checked side by side; the MC
modules assume them of the very instances they check, so TLC evaluates each.
They say that bounds are numbers, that what is enumerated is finite where the
code has a finite list, and that values of different kinds differ; what else
they say is named below.

| Theorem | Properties it states | From |
|---|---|---|
| `ModalsInvHolds`, `LateAnswersAreHarmless`, `LoadingIsAlwaysAccountedFor`, `StakersAreAlwaysTurnedAway` | all of `VoteModals` | `ModalsAssumption` |
| `AlwaysSignedByTheVoter`, `AlwaysTheSnapshotsValidator`, `ReadyVotesFit` | `SignedByTheVoter`, `OverridesFollowTheSnapshot`, `RefusedOnlyForRaces` | `TransactionsAssumption` |
| `AccountOutlivesVoting` | `ProofSurvivesBetween` | also one voting length for all proposals |
| `ProofOutlivesVoting`, `PastIsClosable`, `EstimateIsSafe` | `NotClosableWhileVoting`, `PastStaysClosable` | `ExpiryAssumption` |
| `SupportsGoThrough` | `NamesTheRightBox`, `HeadroomSuffices` | `SupportAssumption`, `NoWarmUp` |
| `RunsAreSound`, `RacesAreLost` | all of `SquadsRouting` | `SquadsAssumption` |
| `RoutingIsSound`, `TicketsAreFair`, `RoutingIsCurrent` | all of `VerifierWhitelist` and `NcnRouter` | `WhitelistAssumption`, `RouterAssumption` |
| `OwnProofsVerify`, `OnlyLeavesVerify` | all of `MerkleProofs` | `MerkleAssumption`: the leaves of a tree differ |
| `SnapshotsAreWhole`, `ServedProofs`, `OnlySigned`, `QueriesAreWhole`, `QuorumsAreOfTheSnapshot` | all of `VerifierService` | `ServiceAssumption` |
| `FetchesAreSound`, `NothingFollowsACancel` | `NcnApiClient`, without liveness | `ApiAssumption` |
| `NetworkIsAlwaysOfTheEndpoint`, `ReloadAlwaysKeepsTheEndpoint`, `UneditedSavesKeep` | `EndpointSettings`, without liveness | `SettingsAssumption` |
| `StatusIsSound` | `ProposalPages`, without liveness | `PagesAssumption` |
| `AnswersAreSound` | `WalletAnswers`, without liveness | `AnswersAssumption` |
| `TimelineIsSound` | `PhaseTimeline` | `TimelineAssumption` |
| `DocumentsAreSound` | `ProposalDocuments`, without liveness | `DocumentsAssumption` |
| `FiguresAreSound` | `ProposalFigures`, without liveness | `FiguresAssumption` |
| `TablesAreSound` | `VoterTables`, without `LargestFirst` and liveness | `TablesAssumption` |
| `LinksAreSound` | all of `ProposalLinks` | `LinksAssumption`: segments are strings |

**Dialogs.** `ModalsInv` ties each request under way to the dialog that made it
and a loading form to exactly one request; without the tie "no second request"
is not preserved by the answer to the first. `AdjustmentFits` says that an edit
of one share keeps the sum. `RoleIsOfTheWallet` is what turns stakers away
although summaries come late.

**Transactions.** `LineageInv`: from the request over every await to the
transaction in flight, the signer and the vote account are those of the request.
`ReadsInv` adds what a builder has read: it was so on chain, and what it is not
allowed to have become is excused by name (`Excused`). Then a transaction that is
refused is excused. `AccountOutlivesVoting` needs that voting takes equally long
for all proposals: TLC refutes it for two proposals on one snapshot whose lengths
differ, since the shared account expires with the first (section 5).

**Estimates and supports.** `EstimateIsSafe` is the arithmetic: over at least
three slots the close timestamp allows for slots of 479 ms. `WalkInv` is the walk
to a slot with a block time. `SupportInv` relates each support in flight to the
epoch and the configuration it was built from; `BudgetCovers` and
`HeadroomIsEnough` bound the compute units for every list up to the cap.
`NoWarmUp` is the program's own assumption that epochs have 432,000 slots.

**Squads.** `SquadsInv` accounts for every transaction of a command by what its
run says: a run that has not been processed has made nothing, one that has been
made what its fate says, one that lost the race has made nothing. From
it `OneTransaction`, `ReportsItsOwn`, `RunningAgainIsSafe` and
`ProofComesFirst`. `Losing` counts the indices lost to others for `RacesAreLost`.

**Whitelist and router.** `CronInv`: a run of the job has polled what it says it
has, of one network, and a whole file is the last one written. `RouterInv` adds
that what a thread has read under a modification time the file had at that time or
later, and that the cache keeps such pairs. `PoolNeverEmpties`, `NetworksStayApart`,
`CacheFollowsFile` and `RoutingStaysInNetwork` are the parts of `RoutingIsSound`
that are not listed by themselves.

**Trees.** `TreeInv`: each level is half of the one below, rounded up, node by
node, and the walker of a proof stands on the ancestor of its leaf; a stranger's
hash stays off the path from the first step on, for hashes are free.

**Verifier.** `StoreInv` says of an upload under way, bundle after bundle, what its
transaction holds (`HoldsUpTo`), so that what is committed is a whole file
(`DbInv`). `Built` is the table of contents after each bundle, described, not
computed; `TotalsInv` is about sums whose order does not matter: an amount is a
number of units, and a sum the number of units of its terms.

**Induction over data** is avoided in one way throughout: a claim about the first
`n` entries of a list, or about the least list that violates one, is shown with
`LeastNumber` and `UpTo`: a set of numbers has a least member. So the loop that
loads a file and the steps of a walk have theorems, although the library's
induction theorems cannot be instantiated.

**The verifier's client.** `ApiInv` counts attempts: a pending timer, a running
attempt and the failures so far add up to what the loops allow.

**Settings.** `SettingsInv`: a resolved network is that of the endpoint in force,
and a saved endpoint is usable. `StoredIsInForce`: what is stored, read back by the
deployment that stored it or a later one, is what is in force. `UneditedInv`: until
something is edited the form holds what is in force.

**Status.** `PagesInv` relates the account, the epoch and each page's entries: an
entry is the account as it was, the phase of an account is what the program would
say, and the clock never runs back.

**Wallet.** `AnswersInv`: the request under a key carries that key's wallet and
endpoint, also when the wallet has been switched since; an answer is one the chain
has given (`EntryInv`), and votes and supports only grow (`Grows`).

**Timeline.** `TimelineInv` and `DateInv`: what a date was projected from, and how
old that was. The totals of samples are assumed to be numbers (`TotalsAreNumbers`),
since they are computed by a fold; TLC evaluates that for the samples it checks.

**Documents.** `DocumentsInv`: a request under way knows of its link only what GitHub
has answered it (`RunInv`); caches hold the last answer; an answer that was evicted
had as many later ones as storage has room for; and a page that shows nothing has
found nothing good in storage (`Exhausted`).

**Figures.** `FiguresInv` has a part about the chain (`ChainInv`: the votes cast are
the sum over the voters of the vote's own snapshot) and one about the page
(`PageInv`: every proposal an entry holds is `Earlier`, of the same snapshot and
with no more votes). Sums are the units of the verifier's section, so that
`CastIsBounded`, without which a share could exceed the whole, needs no induction;
`SupportReads`, `VoteReads` and `QuorumReads` say what the cards compute. The
program rounds the threshold down to a lamport and the page does not, so with data
of the same age the page may say "not met" when the program activates. By
`WholeLamports` what it then says is missing is less than a lamport, and
`FreshVerdictIsTheProgramS` states exactly that.

**Tables.** `TablesInv`: a request has the list of its key and, in each part that is
answered, every account that was on chain when it began (`RequestOK`); the rows of
an entry are those of accounts of this proposal under a list of that key
(`EntryOK`); and the page is one that rows reach (`PageHolds`), which sorting does
not matter for. `RowsApart` is why ids differ: a staker's row carries its stake
account, and "validator" is none. Votes are accounts of a vote account and rows of
an identity, so the votes of one identity through two vote accounts share an id;
`RowsAreToldApart` says that these are the only rows that do. A list leads from
an identity to the vote account that is listed last, which the model leaves open.

**Links.** `LinksInv`: what was sent passed the checks of who sent it, and is stored
if the program's check says so. That the readings agree is a fact about paths, not
about steps. `IterationIsInOrder` turns the folds of parser and filter into
sequences of prefixes. A path that begins with the repository keeps doing so while
no segment leads up (`UrlPathOpens`, `NonEmptyOpens`), so a stored link can only be
resolved there; a path without dots is parsed as it is written (`PlainUrlPath`), and
dropping empty segments drops only those at its end (`NonEmptyPrefix`), so the
program counts what form and command line counted.

**Only model-checked:**

* liveness under fairness (`EveryBoxIsSettled`, and `EverythingSettles` with all its
  parts) and what uses `ENABLED` (`NobodyIsLockedOut`, and the part of `PhasesAreTrue`
  that says what is accepted: `StepsFitThePhase` is its converse, that nothing else
  is, and `CountdownsHold` its other part), which are out of the prover's reach;
* `LargestFirst` of `VoterTables`, which rests on the sorting of the community
  modules;
* the grouped properties of `MCVotePath`, `MCDialogs` and `MCPages` as such
  (`TransactionsAreSound`, `SnapshotsAreServed`, `RequestsAreRouted`, `DialogsAreSound`,
  `PhasesAreRight`, `PagesShowWhatIs` and the action properties beside them): they
  speak of instances with chosen constants. Their parts, but for those just named,
  are the properties of the table above, proved for all constants that meet the
  assumptions there.

## 5. Findings

Two statements of the documentation are violated by what the programs do; each
has a run in which TLC shows it, and the quotes are in `PROJECT.json`.

* **`window`.** `update_config` and `initialize_config` accept
  `voting_epochs = 0`, and a proposal activated then has `start_epoch =
  end_epoch`: nobody can vote on it. The error table says "Voting length must
  be > 0" (`InvalidVotingLength`), which nothing raises.
* **`flush`.** The error table gives `MerkleRootAlreadySet` for
  `flush_merkle_root` "called when root is already set". Nothing raises it: a
  proposal whose snapshot has a published root is rebound.

Seen while modelling: places where the code does otherwise than a comment, a
test or the documentation says. The modules model what the code does, and their
properties are stated accordingly. Paths are under `src/`.

* `ncn/verifier-service/src/main.rs:222`: a voter summary is two queries; a
  replacement that commits between them gives vote accounts of one file and
  stake accounts of another, although "readers never observe a partial state"
  (`upload.rs:273`). `QueriesSeeOneSnapshot` is therefore about each query.
* `svmgov/cli/src/utils/phase.rs:118`: a proposal past its window "can never
  advance", but a larger `max_support_epochs` revives it.
* `svmgov/cli/src/utils/phase.rs:180`: the snapshot is in `start_epoch - 1` "by
  construction", but not with a negative `snapshot_slot_offset`.
* `svmgov/cli/src/utils/proposal_link.rs:300`: a link with three trailing
  slashes passes the command line, which is "strictly stricter by construction"
  (line 11), and is refused on chain.
* `frontend/src/components/modals/OverrideVoteModal.tsx:210`: a validator that
  ticks "Submit stake override instead of validator vote" (line 367) is refused
  as soon as its role is known.
* `frontend/src/chain/instructions/castVote.ts:118`: the proof account is shared
  by proposals with one snapshot, and its close timestamp is that of the first
  one voted on, so for another one the proof can "be closed permissionlessly
  while voting is open" (line 119).
* `frontend/src/chain/instructions/helpers.ts:374`: when slots were skipped at
  the start of the end epoch, an expired proposal's proof gets the buffer that
  goes "never to already-expired proposals" (line 354).
* `frontend/src/chain/instructions/supportProposal.ts:89`: on a cluster with
  warm-up epochs the client derives another ballot box than the program, for
  which epochs "consist of 432,000 slots each" (`utils.rs:148`).
* `frontend/src/lib/ncnApi.ts:313`: a deadline that passes while an error's body
  is read does "trade a known status" (line 168) for a timeout, which is retried.
* `frontend/src/app/providers.tsx:37`: after an answer that is not JSON the query
  client does "multiply those attempts" (line 34).
* `frontend/src/components/proposals/detail/ProposalDetailView.tsx:88`: the
  narrow layout offers to vote on finalized proposals, not in the "voting phase
  only" (line 87).
* `frontend/src/lib/proposals.ts:213`: with delinquent stake, a proposal that
  missed the threshold is shown in discussion for an epoch, although "discussion"
  means "voting = true" (line 129); line 194: "voting" is shown while the
  snapshot has no root, although line 131 says "discussion" for that case.
* `frontend/src/lib/github/validateProposalUrl.ts:164`: a link with a `.` segment
  before the owner passes the form, whose result is "guaranteed to be accepted
  by the program" (line 162), and is refused on chain.
* `frontend/src/components/proposals/detail/support-phase-progress/stats.ts:76`:
  the threshold is compared exactly, while the program rounds it down
  (`min_stake_threshold`): with stakes of 1 and 1, one supporter and 60% the
  program activates and the page says "not met".
* `frontend/src/data/getValidatorProposalVoteAccount.ts:26`: a vote is looked up by
  the validator's identity, and one is expected "since PDA is unique per (proposal,
  spl_vote_account)" (line 48). An identity with several vote accounts has a vote
  for each, of which the first one found is taken; in the table of voters their
  rows share an id (`TopVotersTable.tsx:80`), which `RowsAreToldApart` allows for
  them alone.
* `frontend/src/hooks/useProposalVotes.ts:77`: when the validators cannot be
  loaded every voter is shown with 0.00%, the "plausible-looking zero"
  `useGetValidators.ts:20` rules out.
* `frontend/src/hooks/useHasUserVoted.ts:93`: the submit button is enabled for a
  validator that has voted, until its vote account is read; a test says it is
  kept disabled (`CastVoteModal.test.tsx:200`).
* `frontend/src/hooks/useHasUserVoted.ts:81`: when the role of a wallet with two
  stake accounts turns from staker to both, its vote account is read for the
  first time; meanwhile a refetch of its overrides changes the key of a query
  that is disabled for the moment, nothing counts as loading (lines 99-101), and
  voting is offered again to a wallet that has voted. `VotedStaysVoted` leaves
  this case out, by name.

Further observations:

* `set_tie_breaker` accepts the zero root, which the voting instructions
  refuse; `SnapshotConsensus` says so, and `Weighable` in `SvmgovVoting`
  excludes it.
* Between `init_program_config` and the first update the threshold and the
  duration are 0 and the tie breaker is the zero key; a box opened then has
  expired at once and waits until the configuration names a tie breaker.
* Two of three operators are 6666 basis points, rounded down, so a threshold of
  6667 needs all three.
* `flush_merkle_root` passes `ballot_box` to a call that creates it, but its
  accounts struct does not mark it `mut` (lines 31-32). The model takes the
  call to succeed, as it does when the caller marks the account writable.
* A lowered `max_supporters` does not shorten lists already longer.
* `snapshot_slot_offset` may exceed an epoch, which puts the snapshot after the
  start of voting.
* `epoch * 432,000` and `target_epoch + 1` are unchecked; only parameters near
  2^64 overflow.
* `route_via_squads` retries only errors that contain "already in use". The
  model lets the multisig program say so for every stale index; a cluster whose
  RPC node words it differently ends the command with an error, which the model
  allows too. When the answer to a landed transaction is lost, running the
  command again proposes the same instruction twice.
* Two override commands that both find the proof account missing race for it;
  the loser ends with an error before anything is proposed.
* With two slots or less before the end of voting a proof gets no buffer.
* The narrow timeline colours the line from created to failed differently.
* Descending order puts voters of unknown stake first.
* A disconnected page may show a former wallet's cached answer, with its
  buttons disabled. A wallet whose summary fails keeps the previous role. A
  failed read counts as not voted for casting and as voted for modifying. A
  failed request for overrides reads "No vote proposals". Nothing is
  invalidated after a vote; the answers change when they are next fetched.
* An address of the snapshot service with more than two trailing slashes loses
  one more at each reload. Addresses of presets kept in `localStorage` outlive a
  redeployment.
* The comment at `cron_job.rs:352` gives another reason than the code has; the
  code does prefer the fresh row of an origin.
* A crash of the job between truncation and write leaves an empty whitelist,
  and the router answers 503 until the next run.

## 6. What is not modelled, and the plan

Not modelled: `ncn/ledger` (replays a ledger with third-party code); the
snapshot generation of `ncn/cli`, of which only the shape of the result is
used; the command lines' argument parsing and keypairs (a command submits its
instructions once); rate limits, metrics and paths of the verifier; in the
frontend the generated interfaces of the programs, example data, widgets and
icons, static pages, formatting, error reporting, the dashboards' tables
(filters and pages of the same shape as `VoterTables`) and the configuration
endpoint, which maps one account to JSON. The exact parsing of 64-bit fields in
answers of the verifier, and the text of errors, are left out. Epoch arithmetic
near 2^64 is not modelled: the epochs are naturals, and the release build has
overflow checks.

Left for later:

1. `GovernanceSystem`: svmgov over the concrete ballot boxes instead of
   `SnapshotConsensus`, with both clocks, to state how late operators may be
   for a vote to have a root at all.
2. A proof of `LargestFirst`, which needs that the sorting of the community
   modules returns an ordered permutation.
