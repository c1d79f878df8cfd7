--------------------------- MODULE WalletAnswers ---------------------------
(***************************************************************************)
(* What the pages know of the connected wallet: whether it has voted on,   *)
(* modified or supported the proposal on the page, and how its stake       *)
(* accounts voted.  Each answer is put together by queries that enable     *)
(* one another and whose entries outlive the wallet and the role they were *)
(* made for; saving the settings switches the endpoint under all of them.  *)
(* The role's own queries are the subject of VoteModals: here they are one *)
(* request.                                                                *)
(***************************************************************************)
EXTENDS Naturals, FiniteSets

CONSTANTS
    Endpoints, Wallets,
    Validators,         \* wallets that are a validator's identity
    Stakes, Owner,      \* stake accounts, and the wallet each belongs to
    Mounted,            \* what is on the page: "cast", "modify", "support", "stakes"
    InitialChains,      \* what may be on chain when the page opens
    None,
    MaxMoves, MaxCasts, MaxFailures,
    MaxWaits            \* bounds; waits: times entries grow stale or are collected

AnswersAssumption ==
    /\ Validators \subseteq Wallets
    /\ Owner \in [Stakes -> Wallets]
    /\ Mounted \subseteq {"cast", "modify", "support", "stakes"}
    /\ IsFiniteSet(Stakes) /\ IsFiniteSet(Validators)
    /\ \A c \in InitialChains : c \in [Endpoints -> [votes : SUBSET Validators,
                                       overrides : SUBSET Stakes, supports : SUBSET Validators]]
    /\ None \notin Wallets /\ None \notin {"staker", "validator", "both"}
    /\ \A x \in BOOLEAN : x # None
    /\ \A x \in (SUBSET Stakes) \cup (SUBSET Validators) : x # None

VARIABLES
    chain,      \* accounts of the proposal at each endpoint
    endpoint, wallet,   \* EndpointContext and useWallet
    role,       \* walletRole of useWalletRole
    cache,      \* entries of the query client, by key: [state, data, closure]
    moves, casts, waits, failures

vars == <<chain, endpoint, wallet, role, cache, moves, casts, waits, failures>>
bounds == <<moves, casts, waits, failures>>

RoleOf(w) ==
    CASE w \notin Validators -> "staker"
      [] w \in Validators /\ (\E s \in Stakes : Owner[s] = w) -> "both"
      [] OTHER -> "validator"

-----------------------------------------------------------------------------
(* What a request reads. *)

\* No wallet, no delegator filter: the overrides of every delegator.
getVoteOverrideAccounts(e, w) == {s \in chain[e].overrides : w = None \/ Owner[s] = w}

getStakeOverrides(e, s) == chain[e].overrides \cap {s}

getValidatorProposalVoteAccount(e, w) == w \in chain[e].votes

getSupportAccounts(e, w) == {v \in chain[e].supports : w = None \/ v = w}

getUserHasVoted(overrides, voted) == overrides > 0 \/ voted

getUserHasSupported(supports) == supports > 0

-----------------------------------------------------------------------------
(* Entries of the query client. *)

Data(k) == IF k \in DOMAIN cache THEN cache[k].data ELSE None

Length(k) == IF Data(k) = None THEN 0 ELSE Cardinality(Data(k))

Is(k, state) == k \in DOMAIN cache /\ cache[k].state = state

\* isLoading: the first fetch is under way, or starts with this rendering.
isLoading(k, enabled) ==
    /\ Data(k) = None
    /\ Is(k, "fetching") \/ (enabled /\ k \notin DOMAIN cache)

\* isPending: there is neither data nor an error, enabled or not.
isPending(k) == Data(k) = None /\ ~Is(k, "failed")

-----------------------------------------------------------------------------
(* useWalletRole *)

RoleKey == <<"role", endpoint, wallet>>

isLoadingWalletRole == isLoading(RoleKey, wallet # None)

-----------------------------------------------------------------------------
(* useHasUserVoted and the two queries it waits for. *)

\* Slip: the delegator is left out of the filters.
FiltersWithoutDelegator == <<"overrides", endpoint, None>>

buildVoteOverrideFilters == <<"overrides", endpoint, wallet>>

\* Slip: a validator's own stake is forgotten.
OverridesOfStakers == role = "staker"

fetchVoteOverrideEnabled == role \in {"both", "staker"}

isLoadingVoteOverrideAccounts ==
    isLoading(buildVoteOverrideFilters, fetchVoteOverrideEnabled)

VoteAccountKey == <<"vote", endpoint, wallet>>

fetchVoteAccountsEnabled == wallet # None /\ role \in {"both", "validator"}

\* Slip: a query that is not enabled is waited for.
PendingVoteAccount == isPending(VoteAccountKey)

isLoadingVoteAccount == isLoading(VoteAccountKey, fetchVoteAccountsEnabled)

HasVotedKey ==
    <<"hasVoted", endpoint,
      <<Length(buildVoteOverrideFilters), Data(VoteAccountKey) = TRUE>>>>

hasVotedEnabled ==
    wallet # None /\ ~isLoadingVoteOverrideAccounts /\ ~isLoadingVoteAccount

\* Slip: only the accounts are waited for, not what is made of them.
LoadingOfAccounts == isLoadingVoteOverrideAccounts

isLoadingHasUserVoted ==
    isLoadingVoteOverrideAccounts \/ isLoading(HasVotedKey, hasVotedEnabled)

hasUserVoted == Data(HasVotedKey) = TRUE

-----------------------------------------------------------------------------
(* useHasValidatorVoted, useHasUserSupported, useStakerVotedProposals *)

ValidatorVotedKey == <<"validatorVoted", endpoint, wallet>>

validatorVotedEnabled == wallet # None /\ role \in {"both", "validator"}

\* Slip: the validator is left out of the filters.
FiltersWithoutValidator == <<"supports", endpoint, None>>

buildSupportFilters == <<"supports", endpoint, wallet>>

fetchSupportEnabled == role \in {"both", "validator"}

isLoadingSupportAccounts == isLoading(buildSupportFilters, fetchSupportEnabled)

HasSupportedKey == <<"hasSupported", endpoint, Length(buildSupportFilters)>>

hasSupportedEnabled == wallet # None /\ ~isLoadingSupportAccounts

isLoadingHasUserSupported ==
    isLoadingSupportAccounts \/ isLoading(HasSupportedKey, hasSupportedEnabled)

hasUserSupported == Data(HasSupportedKey) = TRUE

StakeOverridesKey(s) == <<"stakeOverrides", endpoint, s>>

\* The key does not name the endpoint.
VoteProposalsKey(s) == <<"voteProposals", s>>

dependenciesReady(s) == Data(StakeOverridesKey(s)) # None

\* The votes listed under a stake account.
StakeAccountVoteProposals(s) ==
    IF Data(VoteProposalsKey(s)) = None THEN {} ELSE Data(VoteProposalsKey(s))

-----------------------------------------------------------------------------
(* What the page subscribes to, and what of it is enabled. *)

Subscribed ==
    UNION {{RoleKey},
           IF "cast" \in Mounted
             THEN {buildVoteOverrideFilters, VoteAccountKey, HasVotedKey} ELSE {},
           IF "modify" \in Mounted THEN {ValidatorVotedKey} ELSE {},
           IF "support" \in Mounted THEN {buildSupportFilters, HasSupportedKey} ELSE {},
           IF "stakes" \in Mounted
             THEN UNION {{StakeOverridesKey(s), VoteProposalsKey(s)} :
                            s \in {t \in Stakes : Owner[t] = wallet}} ELSE {}}

Enabled(k) ==
    CASE k[1] = "role" -> wallet # None
      [] k[1] = "overrides" -> fetchVoteOverrideEnabled
      [] k[1] = "vote" -> fetchVoteAccountsEnabled
      [] k[1] = "hasVoted" -> hasVotedEnabled
      [] k[1] = "validatorVoted" -> validatorVotedEnabled
      [] k[1] = "supports" -> fetchSupportEnabled
      [] k[1] = "hasSupported" -> hasSupportedEnabled
      [] k[1] = "stakeOverrides" -> TRUE
      [] k[1] = "voteProposals" -> dependenciesReady(k[2])

\* Queries that only combine what others have read, and the value they close over.
Local == {"hasVoted", "hasSupported", "voteProposals"}

Closure(k) ==
    CASE k[1] = "hasVoted" ->
            getUserHasVoted(Length(buildVoteOverrideFilters), Data(VoteAccountKey) = TRUE)
      [] k[1] = "hasSupported" -> getUserHasSupported(Length(buildSupportFilters))
      [] k[1] = "voteProposals" -> Data(StakeOverridesKey(k[2]))
      [] OTHER -> None

Answer(k) ==
    CASE k[1] = "role" -> RoleOf(k[3])
      [] k[1] = "overrides" -> getVoteOverrideAccounts(k[2], k[3])
      [] k[1] \in {"vote", "validatorVoted"} -> getValidatorProposalVoteAccount(k[2], k[3])
      [] k[1] = "supports" -> getSupportAccounts(k[2], k[3])
      [] k[1] = "stakeOverrides" -> getStakeOverrides(k[2], k[3])
      [] OTHER -> cache[k].closure

-----------------------------------------------------------------------------
(* Buttons *)

\* The three buttons of the proposal's page (CastVote).
CastVoteEnabled ==
    wallet # None /\ ~isLoadingWalletRole /\ ~isLoadingHasUserVoted /\ ~hasUserVoted

\* Submit in the dialog (CastVoteModal).
CastVoteSubmit == wallet # None /\ ~hasUserVoted /\ ~isLoadingHasUserVoted

\* Slip: the dialog does not wait for the answer.
ModifyAtOnce == Data(ValidatorVotedKey) # FALSE

\* When the request failed the dialog assumes there is a vote to modify.
ModifyVoteSubmit ==
    ~isPending(ValidatorVotedKey) /\ Data(ValidatorVotedKey) # FALSE

SupportEnabled ==
    /\ ~isLoadingHasUserSupported /\ ~hasUserSupported
    /\ wallet # None /\ role \in {"both", "validator"}

-----------------------------------------------------------------------------
Init ==
    /\ chain \in InitialChains
    /\ endpoint \in Endpoints
    /\ wallet = None
    /\ role = "staker"
    /\ cache = [k \in {} |-> None]
    /\ moves = 0 /\ casts = 0 /\ waits = 0 /\ failures = 0

Fetched(k) == [state |-> "fetching", data |-> Data(k), closure |-> Closure(k)]

\* A query that is enabled and has no entry is fetched with the rendering.
Fetch(k) ==
    /\ k \notin DOMAIN cache /\ Enabled(k)
    /\ cache' = [x \in DOMAIN cache \cup {k} |-> IF x = k THEN Fetched(k) ELSE cache[x]]
    /\ UNCHANGED <<chain, endpoint, wallet, role, bounds>>

\* staleTime has passed and the window is focused or the page is mounted again.
Refetch(k) ==
    /\ waits < MaxWaits
    /\ k \in DOMAIN cache /\ Enabled(k) /\ cache[k].state # "fetching"
    /\ cache' = [cache EXCEPT ![k] = Fetched(k)]
    /\ waits' = waits + 1
    /\ UNCHANGED <<chain, endpoint, wallet, role, moves, casts, failures>>

\* An answer goes to the entry it was asked for, whether or not it is still shown.
Arrive(k) ==
    /\ Is(k, "fetching")
    /\ cache' = [cache EXCEPT ![k] = [state |-> "ok", data |-> Answer(k), closure |-> None]]
    /\ UNCHANGED <<chain, endpoint, wallet, role, bounds>>

\* All attempts have failed; earlier data stays.
Fail(k) ==
    /\ Is(k, "fetching") /\ k[1] \notin Local
    /\ failures < MaxFailures
    /\ cache' = [cache EXCEPT ![k].state = "failed", ![k].closure = None]
    /\ failures' = failures + 1
    /\ UNCHANGED <<chain, endpoint, wallet, role, moves, casts, waits>>

\* An entry nobody has subscribed to for gcTime is collected.
Collect(k) ==
    /\ waits < MaxWaits
    /\ k \in DOMAIN cache /\ k \notin Subscribed
    /\ cache' = [x \in DOMAIN cache \ {k} |-> cache[x]]
    /\ waits' = waits + 1
    /\ UNCHANGED <<chain, endpoint, wallet, role, moves, casts, failures>>

\* The effect of useWalletRole; a wallet without an answer keeps the role there was.
useWalletRole ==
    /\ ~isLoadingWalletRole /\ Data(RoleKey) # None
    /\ role # Data(RoleKey)
    /\ role' = Data(RoleKey)
    /\ UNCHANGED <<chain, endpoint, wallet, cache, bounds>>

\* The wallet adapter connects, switches or disconnects.
SwitchWallet(w) ==
    /\ moves < MaxMoves /\ w # wallet
    /\ wallet' = w
    /\ moves' = moves + 1
    /\ UNCHANGED <<chain, endpoint, role, cache, casts, waits, failures>>

\* Slip: the queries are left in the cache.
SetEndpointOnly(e) ==
    /\ moves < MaxMoves
    /\ endpoint' = e
    /\ moves' = moves + 1
    /\ UNCHANGED <<chain, wallet, role, cache, casts, waits, failures>>

\* The settings are saved, perhaps unchanged: every query is removed, and what
\* was being fetched is dropped.
setEndpoint(e) ==
    /\ moves < MaxMoves
    /\ endpoint' = e
    /\ cache' = [k \in {} |-> None]
    /\ moves' = moves + 1
    /\ UNCHANGED <<chain, wallet, role, casts, waits, failures>>

\* Votes, overrides and supports from this page or any other.
Add(e, field, x) ==
    /\ casts < MaxCasts /\ x \notin chain[e][field]
    /\ chain' = [chain EXCEPT ![e][field] = @ \cup {x}]
    /\ casts' = casts + 1
    /\ UNCHANGED <<endpoint, wallet, role, cache, moves, waits, failures>>

Next ==
    \/ \E k \in Subscribed : Fetch(k) \/ Refetch(k)
    \/ \E k \in DOMAIN cache : Arrive(k) \/ Fail(k) \/ Collect(k)
    \/ useWalletRole
    \/ \E w \in Wallets \cup {None} : SwitchWallet(w)
    \/ \E e \in Endpoints : setEndpoint(e)
    \/ \E e \in Endpoints, v \in Validators : Add(e, "votes", v) \/ Add(e, "supports", v)
    \/ \E e \in Endpoints, s \in Stakes : Add(e, "overrides", s)

\* Rendering and effects run, and every request is answered or fails.
Fairness ==
    /\ WF_vars(\E k \in Subscribed : Fetch(k))
    /\ WF_vars(\E k \in DOMAIN cache : Arrive(k) \/ Fail(k))
    /\ WF_vars(useWalletRole)

Spec == Init /\ [][Next]_vars /\ Fairness

-----------------------------------------------------------------------------
(* Properties *)

\* Entries, keys and answers are of their types.
AnswersTypeOK ==
    /\ endpoint \in Endpoints /\ wallet \in Wallets \cup {None}
    /\ role \in {"staker", "validator", "both"}
    /\ \A e \in Endpoints : /\ chain[e].votes \subseteq Validators
                            /\ chain[e].supports \subseteq Validators
                            /\ chain[e].overrides \subseteq Stakes
    /\ \A k \in DOMAIN cache :
          /\ cache[k].state = "ok" => cache[k].data # None
          /\ k[1] \in Local => cache[k].state # "failed"

\* Whatever wallets were connected before and whichever answers came late: a page
\* that says "voted" or "supported", or offers to modify a vote it has read, says
\* so of the wallet that is connected, at the endpoint in use.
AnswersAreOfTheWallet ==
    wallet # None =>
        /\ hasUserVoted =>
              \/ wallet \in chain[endpoint].votes
              \/ \E s \in chain[endpoint].overrides : Owner[s] = wallet
        /\ Data(ValidatorVotedKey) = TRUE => wallet \in chain[endpoint].votes
        /\ hasUserSupported => wallet \in chain[endpoint].supports

\* A page that has shown this wallet's vote never offers to cast it again, not
\* for a moment while accounts are read once more and the answer's key moves on.
\* Only the first read of the vote account is left out: meanwhile the answer to a
\* new key is neither known nor asked for.
VotedStaysVoted ==
    "cast" \in Mounted /\ wallet # None /\ hasUserVoted /\ UNCHANGED <<wallet, endpoint>>
       => ~CastVoteEnabled' \/ isLoadingVoteAccount'

Settled ==
    /\ wallet # None /\ role = RoleOf(wallet) /\ casts = 0 /\ failures = 0
    /\ Data(RoleKey) # None

AccountsRead == ~isLoadingVoteAccount /\ ~isLoadingVoteOverrideAccounts

\* With the role settled, every account read and nobody voting meanwhile, the
\* buttons are offered exactly to those who have not voted or supported yet.
OfferedToTheRightWallets ==
    Settled =>
        /\ AccountsRead /\ Data(HasVotedKey) # None =>
              (CastVoteEnabled <=>
                  /\ wallet \notin chain[endpoint].votes
                  /\ \A s \in chain[endpoint].overrides : Owner[s] # wallet)
        /\ "support" \in Mounted /\ ~isLoadingHasUserSupported =>
              (SupportEnabled <=>
                  wallet \in Validators /\ wallet \notin chain[endpoint].supports)
        /\ "modify" \in Mounted =>
              (ModifyVoteSubmit => wallet \in chain[endpoint].votes)

\* The votes listed under a stake account are those at the endpoint in use, although
\* the key of the list does not name it: saving the settings removes the list and
\* drops what is on its way.
NothingOfAnotherEndpoint ==
    \A s \in Stakes : StakeAccountVoteProposals(s) \subseteq chain[endpoint].overrides

\* A wallet that stays connected gets its answer, unless requests fail.
AnswerComes ==
    wallet # None ~> \/ wallet = None \/ failures > 0
                     \/ "cast" \in Mounted /\ Data(HasVotedKey) # None
                     \/ "support" \in Mounted /\ Data(HasSupportedKey) # None
=============================================================================
