------------------------------ MODULE MCPages ------------------------------
(***************************************************************************)
(* What the web client shows, on small instances: the endpoint in use and  *)
(* its network, the status of a proposal and its timeline, the figures of  *)
(* support and vote, the tables of voters, and what a wallet has done.     *)
(*                                                                         *)
(* These parts share no variables, so a behaviour of all of them is a      *)
(* shuffle of behaviours of each.  One part moves in a behaviour, the      *)
(* others rest in an initial state.                                        *)
(***************************************************************************)
EXTENDS EndpointSettings, Integers, Sequences, TLC

CONSTANTS v1, v2, Unset, Loading, Missing

VARIABLES
    part,
    epoch, config, stake, account, root, changes, epochSeen, stakeSeen, configSeen,
    asked, record, seen,
    clock, fails, slotSeen, asking, date, nowShown, activeIndex, prevStage, showMessage,
    bps, stakes, stakeMoves, proposal, supporters, voters, snapshots, page, refetches,
    accounts, voting, online, listChanges, list, listing, votes, supports, fetches, new,
    clicks, view,
    chain, rpc, wallet, role, cache, moves, casts, waits, failures

-----------------------------------------------------------------------------
(* Two presets whose addresses differ between two deployments, and custom    *)
(* addresses of a known and of an unknown cluster.                           *)
MCRpcUrls == << [p \in Presets |-> IF p = "mainnet" THEN "main1" ELSE "dev1"],
                [p \in Presets |-> IF p = "mainnet" THEN "main2" ELSE "dev1"] >>
MCClusterOf == [main1 |-> "mainnet", main2 |-> "mainnet", dev1 |-> "devnet",
                own |-> "devnet", local |-> None]
MCDefaultApi == [host |-> "ncn", slashes |-> 0]

\* Two configurations that differ in every length, three stake distributions,
\* and tallies below, at and above the threshold.
Config(support, discussion, extension, length, minBps) ==
    [maxSupportEpochs |-> support, discussionEpochs |-> discussion,
     snapshotEpochExtension |-> extension, votingEpochs |-> length,
     clusterSupportPctMinBps |-> minBps]
Status == INSTANCE ProposalPages WITH
    Configs <- {Config(0, 1, 0, 1, 5000), Config(1, 0, 1, 2, 2500)},
    Stakes <- {[total |-> 8, current |-> 8], [total |-> 8, current |-> 4]},
    Tallies <- {1, 2, 4}, MaxEpoch <- 6, MaxChanges <- 1
statusVars == <<epoch, config, stake, account, root, changes, epochSeen, stakeSeen, configSeen,
                asked, record, seen>>

\* Epochs of twenty slots of 400 ms; samples that tell the pace, that mix empty
\* ones in, that are implausible, and none.
Sample(n, secs) == [numSlots |-> n, samplePeriodSecs |-> secs]
Timeline == INSTANCE PhaseTimeline WITH
    SlotsInEpoch <- 20, Pace <- 400, SupportEnd <- 1, DiscussionEnd <- 2, VotingEnd <- 3,
    SampleLists <- {"rejected", <<>>, <<Sample(150, 60), Sample(0, 60), Sample(50, 20)>>,
                    <<Sample(10, 60)>>, <<Sample(200, 60)>>},
    Step <- 3000, MaxTime <- 27000
timelineVars == <<clock, fails, slotSeen, asking, date, nowShown, activeIndex, prevStage, showMessage>>

\* Two validators, one with three times the stake of the other: the support
\* card with every order of its four queries, the vote card with two snapshots.
Support == INSTANCE ProposalFigures WITH
    Validators <- {v1, v2}, Stakes <- {1, 3}, FirstStake <- (v1 :> 1) @@ (v2 :> 3),
    Thresholds <- {0, 3333, 6000}, Asked <- {"proposal", "validators", "supporters", "config"},
    MaxMoves <- 1, MaxSnapshots <- 0, MaxRefetches <- 2, stake <- stakes, moves <- stakeMoves
Vote == INSTANCE ProposalFigures WITH
    Validators <- {v1, v2}, Stakes <- {1, 3}, FirstStake <- (v1 :> 1) @@ (v2 :> 3),
    Thresholds <- {3333}, Asked <- {"proposal", "meta"},
    MaxMoves <- 1, MaxSnapshots <- 2, MaxRefetches <- 1, stake <- stakes, moves <- stakeMoves
figureVars == <<bps, stakes, stakeMoves, proposal, supporters, voters, snapshots, page, refetches>>

-----------------------------------------------------------------------------
(* Two validators, one of them with two vote accounts of which StakeWiz knows *)
(* one, and a staker; accounts of two proposals, and many of one.             *)
MCIdentityOf == [a1 |-> "a", a2 |-> "a", b1 |-> "b"]
Voted(v, on) == [kind |-> "vote", seed |-> v, fields |-> <<MCIdentityOf[v], on>>]
Overrode(s, v, on) == [kind |-> "override", seed |-> s, fields |-> <<"delegator", s, v, on>>]
Supported(v, on) == [kind |-> "support", seed |-> v, fields |-> <<on, MCIdentityOf[v]>>]
StakeOf == [a1 |-> 2, a2 |-> 4, b1 |-> 3, s |-> 1]
Names == [n \in {"Alpha", "placeholder", "unknown"} |->
             CASE n = "Alpha" -> 1 [] n = "unknown" -> 2 [] n = "placeholder" -> 3]

Rows == INSTANCE VoterTables WITH
    VoteAccounts <- {"a1", "a2"}, IdentityOf <- MCIdentityOf,
    StakeAccounts <- {"s"}, DelegatedTo <- [s |-> "a1"],
    Proposals <- {"P", "Q"}, Shown <- "P", StakeOf <- StakeOf, Known <- {"a1"},
    NameOf <- [a1 |-> "Alpha"], Names <- Names,
    SearchTerms <- {}, PageSizes <- {2}, DefaultPageSize <- 2,
    InitialAccounts <- {{Supported("a1", "P")}, {Voted("a1", "P"), Overrode("s", "a1", "Q")}},
    MaxNew <- 1, MaxMoves <- 0, MaxChanges <- 0, MaxFetches <- 1,
    changes <- listChanges, moves <- clicks
Paging == INSTANCE VoterTables WITH
    VoteAccounts <- {"a1", "b1"}, IdentityOf <- MCIdentityOf,
    StakeAccounts <- {"s"}, DelegatedTo <- [s |-> "a1"],
    Proposals <- {"P", "Q"}, Shown <- "P", StakeOf <- StakeOf, Known <- {},
    NameOf <- [x \in {} |-> x], Names <- Names,
    SearchTerms <- {"unknown"}, PageSizes <- {1, 2}, DefaultPageSize <- 1,
    InitialAccounts <- {{Supported("a1", "P"), Supported("b1", "P")},
                        {Voted("a1", "P"), Voted("b1", "P"), Overrode("s", "a1", "P")}},
    MaxNew <- 0, MaxMoves <- 2, MaxChanges <- 1, MaxFetches <- 1,
    changes <- listChanges, moves <- clicks
tableVars == <<accounts, voting, online, listChanges, list, listing, votes, supports, fetches,
               new, clicks, view>>

-----------------------------------------------------------------------------
(* A validator that stakes and a staker, before the vote button; the former  *)
(* and a validator that does not, before the buttons to modify and to        *)
(* support; the first two with their stake accounts, at two endpoints that   *)
(* disagree.                                                                 *)
Chain(v, o, p) == [votes |-> v, overrides |-> o, supports |-> p]
Owners == [s1 |-> "both", s2 |-> "staker"]

Casting == INSTANCE WalletAnswers WITH
    Endpoints <- {"E"}, Wallets <- {"both", "staker"}, Validators <- {"both"},
    Stakes <- {"s1", "s2"}, Owner <- [s1 |-> "both", s2 |-> "both"], Mounted <- {"cast"},
    InitialChains <- {[E |-> c] : c \in {Chain({}, {}, {}), Chain({"both"}, {}, {}),
                                         Chain({}, {"s1"}, {})}},
    MaxMoves <- 2, MaxCasts <- 1, MaxWaits <- 1, MaxFailures <- 0, endpoint <- rpc
Modifying == INSTANCE WalletAnswers WITH
    Endpoints <- {"E"}, Wallets <- {"both", "validator"}, Validators <- {"both", "validator"},
    Stakes <- {"s1"}, Owner <- [s1 |-> "both"], Mounted <- {"modify", "support"},
    InitialChains <- {[E |-> Chain(v, {}, p)] : v \in {{}, {"both"}}, p \in {{}, {"validator"}}},
    MaxMoves <- 2, MaxCasts <- 1, MaxWaits <- 0, MaxFailures <- 1, endpoint <- rpc
Switching == INSTANCE WalletAnswers WITH
    Endpoints <- {"E", "F"}, Wallets <- {"both", "staker"}, Validators <- {"both"},
    Stakes <- {"s1", "s2"}, Owner <- Owners, Mounted <- {"stakes"},
    InitialChains <- {[E |-> Chain({}, o, {}), F |-> Chain({}, {}, {})] : o \in SUBSET {"s1", "s2"}},
    MaxMoves <- 2, MaxCasts <- 1, MaxWaits <- 1, MaxFailures <- 0, endpoint <- rpc
walletVars == <<chain, rpc, wallet, role, cache, moves, casts, waits, failures>>

ASSUME Status!PagesAssumption /\ Timeline!TimelineAssumption
ASSUME Support!FiguresAssumption /\ Vote!FiguresAssumption
ASSUME Rows!TablesAssumption /\ Paging!TablesAssumption
ASSUME Casting!AnswersAssumption /\ Modifying!AnswersAssumption /\ Switching!AnswersAssumption

-----------------------------------------------------------------------------
Parts == {"settings", "status", "timeline", "support", "vote", "rows", "paging",
          "casting", "modifying", "switching"}

\* A part that rests does so in one of its initial states.
PagesInit ==
    /\ part \in Parts
    /\ Init
    /\ part # "settings" => deployed = 1 /\ stored.rpc = None /\ stored.api = None
    /\ Status!Init
    /\ part # "status" => config.votingEpochs = 1 /\ stake.current = 8 /\ epochSeen = None
    /\ Timeline!Init /\ (part # "timeline" => ~fails)
    /\ IF part = "support" THEN Support!Init ELSE Vote!Init
    /\ IF part = "paging" THEN Paging!Init ELSE Rows!Init
    /\ part \notin {"rows", "paging"} => ~voting /\ online = {"a1"}
    /\ IF part = "modifying" THEN Modifying!Init
       ELSE IF part = "switching" THEN Switching!Init ELSE Casting!Init
    /\ part \notin {"casting", "modifying", "switching"} => chain.E = Chain({}, {}, {})

PagesNext ==
    /\ UNCHANGED part
    /\ IF part = "settings" THEN Next ELSE UNCHANGED vars
    /\ IF part = "status" THEN Status!Next ELSE UNCHANGED statusVars
    /\ IF part = "timeline" THEN Timeline!Next ELSE UNCHANGED timelineVars
    /\ IF part = "support" THEN Support!Next
       ELSE IF part = "vote" THEN Vote!Next ELSE UNCHANGED figureVars
    /\ IF part = "rows" THEN Rows!Next
       ELSE IF part = "paging" THEN Paging!Next ELSE UNCHANGED tableVars
    /\ IF part = "casting" THEN Casting!Next
       ELSE IF part = "modifying" THEN Modifying!Next
       ELSE IF part = "switching" THEN Switching!Next ELSE UNCHANGED walletVars

pagesVars == <<part, vars, statusVars, timelineVars, figureVars, tableVars, walletVars>>

PagesSpec == PagesInit /\ [][PagesNext]_pagesVars

-----------------------------------------------------------------------------
\* Pages that are up to date offer support and votes exactly as long as the
\* program takes them, and phases end when they are said to (ProposalPages).
\* The narrow timeline is a window on the wide one, its dates are right to a
\* second however old the slot they come from, and only the phase the proposal
\* is in is counted down (PhaseTimeline).
PhasesAreRight ==
    /\ part = "status" =>
          /\ Status!PagesTypeOK /\ Status!OfferedIffAccepted
          /\ Status!PhaseEndsAsAnnounced /\ Status!ThroughIsTheLastEpoch
    /\ part = "timeline" =>
          /\ Timeline!TimelineTypeOK /\ Timeline!MobileShowsTheSame /\ Timeline!DateIsClose
          /\ Timeline!OverReadsEnded /\ Timeline!OnlyTheCurrentPhaseRuns

\* Whatever is loaded and in whichever order, ring, verdict and amounts agree
\* with each other and, read at one moment, with the program to less than a
\* lamport; quorum is that of the vote's own snapshot, and what is not known is
\* shown as unknown (ProposalFigures).  Rows are told apart but for those of one
\* identity's vote accounts, have the names and stakes of the list in use, the
\* largest first, and a page with rows to show shows some (VoterTables).  Whichever
\* wallets were connected before and whichever answers came late, what is said of a
\* wallet is said of the one connected, at the endpoint in use, and buttons are
\* offered to those who have not acted yet (WalletAnswers).  What is in force in the
\* settings can be used.
PagesShowWhatIs ==
    /\ part = "support" =>
          /\ Support!FiguresTypeOK /\ Support!MissingStakeIsNotProgress
          /\ Support!CrossedStaysCrossed /\ Support!DonutAgreesWithVerdict
          /\ Support!FreshVerdictIsTheProgramS
    /\ part = "vote" =>
          /\ Vote!QuorumIsOfTheVotesSnapshot /\ Vote!MarkerMeansQuorum
          /\ Vote!UnknownIsShownAsUnknown
    /\ part = "rows" =>
          /\ Rows!TablesTypeOK /\ Rows!RowsAreToldApart
          /\ Rows!NamesResolve /\ Rows!SupportersFollowTheList
    /\ part = "paging" => Paging!PageIsNotEmpty /\ Paging!LargestFirst /\ Paging!NamesResolve
    /\ part = "casting" =>
          Casting!AnswersTypeOK /\ Casting!AnswersAreOfTheWallet /\ Casting!OfferedToTheRightWallets
    /\ part = "modifying" => Modifying!AnswersAreOfTheWallet /\ Modifying!OfferedToTheRightWallets
    /\ part = "switching" => Switching!NothingOfAnotherEndpoint
    /\ part = "settings" => SettingsTypeOK

\* Nothing shown is taken back: neither the opening of the vote nor its end, nor
\* a quorum that was met, nor that this wallet has voted; what was on chain when
\* a table asked is in it when the answer comes; a resize keeps the row in view;
\* the carousel follows the stage; and saving unedited settings changes nothing.
NothingIsTakenBack ==
    [][/\ part = "settings" => UneditedSaveKeeps
       /\ part = "status" => Status!NeverTakenBack
       /\ part = "timeline" => Timeline!StageChangeTurnsTheCard
       /\ part = "vote" => Vote!QuorumIsNotUnmet
       /\ part = "rows" => Rows!NothingIsMissed
       /\ part = "paging" => Paging!ResizeKeepsTheRow
       /\ part = "casting" => Casting!VotedStaysVoted]_pagesVars
=============================================================================
