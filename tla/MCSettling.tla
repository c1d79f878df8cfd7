----------------------------- MODULE MCSettling -----------------------------
(***************************************************************************)
(* That the web client does not leave a user waiting: requests end,        *)
(* skeletons give way, answers come, phases are announced, on instances    *)
(* small enough for liveness.  As in MCPages the parts share no variables, *)
(* and one of them moves in a behaviour.                                   *)
(***************************************************************************)
EXTENDS EndpointSettings, Integers, Sequences, TLC

CONSTANTS v1, Unset, Loading, Missing

VARIABLES
    part,
    pc, kind, status, error, retry, failed, aborted, report, calls, requests, ended, transient,
    epoch, config, stake, account, root, changes, epochSeen, stakeSeen, configSeen,
    asked, record, seen,
    bps, stakes, stakeMoves, proposal, supporters, voters, snapshots, page, refetches,
    clock, reloads, head, limited, storage, query, run, shown, answered,
    accounts, voting, online, listChanges, list, listing, votes, supports, fetches, new,
    clicks, view,
    chain, rpc, wallet, role, cache, moves, casts, waits, failures

-----------------------------------------------------------------------------
MCRpcUrls == << [p \in Presets |-> IF p = "mainnet" THEN "main1" ELSE "dev1"] >>
MCClusterOf == [main1 |-> "mainnet", dev1 |-> "devnet", own |-> "devnet", local |-> None]
MCDefaultApi == [host |-> "ncn", slashes |-> 0]

\* Fetches with the retries of the code.
Api == INSTANCE NcnApiClient WITH
    MaxRetries <- 3, MaxQueryRetries <- 3, MaxFetches <- 1,
    failures <- failed, fetches <- calls, seen <- ended
apiVars == <<pc, kind, status, error, retry, failed, aborted, report, calls, requests, ended,
             transient>>

\* A proposal that is discussed and voted on for one epoch each.
Status == INSTANCE ProposalPages WITH
    Configs <- {[maxSupportEpochs |-> 0, discussionEpochs |-> 1, snapshotEpochExtension |-> 0,
                 votingEpochs |-> 1, clusterSupportPctMinBps |-> 5000]},
    Stakes <- {[total |-> 8, current |-> 8]}, Tallies <- {2, 4}, MaxEpoch <- 5, MaxChanges <- 0
statusVars == <<epoch, config, stake, account, root, changes, epochSeen, stakeSeen, configSeen,
                asked, record, seen>>

\* Both cards of a proposal, all queries asked.
AskedFor == {"proposal", "validators", "supporters", "config", "dates", "meta", "own"}
Figures == INSTANCE ProposalFigures WITH
    Validators <- {v1}, Stakes <- {1}, FirstStake <- (v1 :> 1), Thresholds <- {6000},
    Asked <- AskedFor,
    MaxMoves <- 0, MaxSnapshots <- 1, MaxRefetches <- 0, stake <- stakes, moves <- stakeMoves
figureVars == <<bps, stakes, stakeMoves, proposal, supporters, voters, snapshots, page, refetches>>

\* A pull request whose proposal is on its second page, and a file.
Number(k, v) == [kind |-> k, value |-> v]
File(p, s, b) == [path |-> p, status |-> s, proposal |-> b]
DocLinks == {"pull", "blob"}
Documents == INSTANCE ProposalDocuments WITH
    Links <- DocLinks, KindOf <- [l \in DocLinks |-> l],
    History <- [pull |-> <<<<{File("readme", "modified", FALSE)}, {File("a", "added", TRUE)}>>>>,
                blob |-> <<"c">>],
    Docs <- [p \in {"a", "c"} |-> [front |-> Number("sgp", 1), name |-> Number("sgp", 9),
                                   section |-> "", paragraph |-> "text"]],
    TitleOf <- [l \in DocLinks |-> None], FileRef <- [l \in DocLinks |-> None],
    CacheTtl <- 2, NegativeTtl <- 1, MaxEntries <- 1, MaxPages <- 2,
    MaxTime <- 1, MaxReloads <- 0, open <- shown
documentVars == <<clock, reloads, head, limited, storage, query, run, shown, answered>>

\* Two validators that come and go, and a staker of the first.
Tables == INSTANCE VoterTables WITH
    VoteAccounts <- {"a1", "b1"}, IdentityOf <- [a1 |-> "a", b1 |-> "b"],
    StakeAccounts <- {"s"}, DelegatedTo <- [s |-> "a1"],
    Proposals <- {"P", "Q"}, Shown <- "P", StakeOf <- [a1 |-> 2, b1 |-> 3, s |-> 1],
    Known <- {"a1"}, NameOf <- [a1 |-> "Alpha"],
    Names <- [n \in {"Alpha", "placeholder", "unknown"} |->
                 CASE n = "Alpha" -> 1 [] n = "unknown" -> 2 [] n = "placeholder" -> 3],
    SearchTerms <- {}, PageSizes <- {2}, DefaultPageSize <- 2,
    InitialAccounts <- {{}, {[kind |-> "vote", seed |-> "a1", fields |-> <<"a", "P">>]}},
    MaxNew <- 0, MaxMoves <- 0, MaxChanges <- 0, MaxFetches <- 1,
    changes <- listChanges, moves <- clicks
tableVars == <<accounts, voting, online, listChanges, list, listing, votes, supports, fetches,
               new, clicks, view>>

\* Wallets that are connected in turn before the vote button.
Answers == INSTANCE WalletAnswers WITH
    Endpoints <- {"E"}, Wallets <- {"both", "staker"}, Validators <- {"both"},
    Stakes <- {"s1", "s2"}, Owner <- [s1 |-> "both", s2 |-> "staker"], Mounted <- {"cast"},
    InitialChains <- {[E |-> [votes |-> v, overrides |-> {}, supports |-> {}]] :
                         v \in {{}, {"both"}}},
    MaxMoves <- 2, MaxCasts <- 0, MaxWaits <- 0, MaxFailures <- 0, endpoint <- rpc
walletVars == <<chain, rpc, wallet, role, cache, moves, casts, waits, failures>>

ASSUME Status!PagesAssumption /\ Figures!FiguresAssumption /\ Tables!TablesAssumption
ASSUME Api!ApiAssumption /\ Documents!DocumentsAssumption /\ Answers!AnswersAssumption

-----------------------------------------------------------------------------
Parts == {"settings", "api", "status", "figures", "documents", "tables", "answers"}

\* A part that rests does so in one of its initial states.
SettlingInit ==
    /\ part \in Parts
    /\ Init
    /\ part # "settings" => stored.rpc = None /\ stored.api = None
    /\ Api!Init
    /\ Status!Init
    /\ part # "status" => epochSeen = None
    /\ Figures!Init
    /\ Documents!Init
    /\ Tables!Init
    /\ part # "tables" => ~voting /\ online = {"a1"}
    /\ Answers!Init
    /\ part # "answers" => chain.E.votes = {}

SettlingNext ==
    /\ UNCHANGED part
    /\ IF part = "settings" THEN Next ELSE UNCHANGED vars
    /\ IF part = "api" THEN Api!Next ELSE UNCHANGED apiVars
    /\ IF part = "status" THEN Status!Next ELSE UNCHANGED statusVars
    /\ IF part = "figures" THEN Figures!Next ELSE UNCHANGED figureVars
    /\ IF part = "documents" THEN Documents!Next ELSE UNCHANGED documentVars
    /\ IF part = "tables" THEN Tables!Next ELSE UNCHANGED tableVars
    /\ IF part = "answers" THEN Answers!Next ELSE UNCHANGED walletVars

settlingVars == <<part, vars, apiVars, statusVars, figureVars, documentVars, tableVars, walletVars>>

\* The fairness of the parts' own specifications: what was sent is answered,
\* refused or timed out, timers fire and effects run.
SettlingFairness ==
    /\ WF_vars(part = "settings" /\ resolveSnapshotNetwork)
    /\ WF_vars(part = "settings" /\ (GenesisHash \/ GenesisHashFails))
    /\ WF_apiVars(part = "api" /\ Api!EventLoop)
    /\ WF_statusVars(part = "status" /\ Status!RefetchEpochInfo)
    /\ WF_statusVars(part = "status" /\ stakeSeen = None /\ Status!RefetchVoteAccounts(TRUE))
    /\ WF_statusVars(part = "status" /\ configSeen = None /\ Status!RefetchConfig)
    /\ WF_statusVars(part = "status" /\ record = None /\ Status!AskProposals)
    /\ WF_statusVars(part = "status" /\ Status!ProposalsAnswer)
    /\ \A q \in AskedFor :
          WF_figureVars(part = "figures" /\ page[q] = Loading /\ (Figures!Fetch(q) \/ Figures!Fail(q)))
    /\ \A l \in DocLinks :
          WF_documentVars(/\ part = "documents"
                          /\ Documents!Respond(l) \/ Documents!Refuse(l) \/ Documents!Break(l))
    /\ WF_tableVars(part = "tables" /\ Tables!ListArrives)
    /\ WF_tableVars(part = "tables" /\ Tables!SupportsArrive)
    /\ \A k \in {None, 0, 1, 2} :
          WF_tableVars(part = "tables" /\ (Tables!PartArrives(k) \/ Tables!VotesFail(k)))
    /\ WF_walletVars(part = "answers" /\ \E k \in Answers!Subscribed : Answers!Fetch(k))
    /\ WF_walletVars(part = "answers" /\ \E k \in DOMAIN cache : Answers!Arrive(k) \/ Answers!Fail(k))
    /\ WF_walletVars(part = "answers" /\ Answers!useWalletRole)

SettlingSpec == SettlingInit /\ [][SettlingNext]_settlingVars /\ SettlingFairness

-----------------------------------------------------------------------------
\* Nobody is left waiting: a fetch settles even if nobody answers
\* (NcnApiClient), a vote that has begun is announced on an open page
\* (ProposalPages), skeletons give way to figures or to what is said of unknown
\* ones (ProposalFigures), documents and tables stop loading (ProposalDocuments,
\* VoterTables), a connected wallet learns whether it has voted (WalletAnswers),
\* and the network of a custom endpoint is found (EndpointSettings).
EverythingSettles ==
    /\ part = "settings" => NetworkResolves
    /\ part = "api" => Api!FetchSettles
    /\ part = "status" => Status!VotingIsAnnounced
    /\ part = "figures" => Figures!SkeletonsEnd
    /\ part = "documents" => Documents!LoadingEnds
    /\ part = "tables" => Tables!LoadingEnds
    /\ part = "answers" => Answers!AnswerComes
=============================================================================
