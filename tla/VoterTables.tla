---------------------------- MODULE VoterTables ----------------------------
(***************************************************************************)
(* The tables under a proposal: its supporters while it gathers support,   *)
(* its voters (validators, and stakers who overrode one) afterwards.       *)
(* Votes and overrides are read from the chain by two requests, joined     *)
(* with a list of validators that is loaded and refreshed by another       *)
(* query, filtered, sorted and cut into pages while all of this changes.   *)
(***************************************************************************)
EXTENDS Integers, Sequences, FiniteSets, FiniteSetsExt, SequencesExt, Functions

CONSTANTS
    VoteAccounts, IdentityOf,       \* vote accounts, and the node identity of each
    StakeAccounts, DelegatedTo,     \* stake accounts of overriding stakers
    Proposals, Shown,   \* proposals with accounts on chain; the one the page is about
    StakeOf,            \* stake of vote accounts and stake accounts
    Known, NameOf,      \* vote accounts StakeWiz knows, and their names
    Names,              \* alphabetical order of all names
    SearchTerms,        \* what is typed into the search field
    PageSizes,          \* pageSizeOptions, the first page size among them
    DefaultPageSize,
    Unset, None,
    InitialAccounts,    \* what may be on chain when the page opens
    MaxNew, MaxChanges, MaxFetches, MaxMoves    \* bounds

VARIABLES
    accounts,   \* accounts of the program on chain
    voting,     \* whether voting has begun on chain
    online, changes,    \* vote accounts of the cluster; bound
    list, listing,  \* useGetValidators: its data, and whether it is fetching
    votes,      \* entries of the votes query, by key: [data, built, request]
    supports,   \* the entry of the support query
    fetches, new, moves,    \* bounds: requests made, accounts added, clicks
    view        \* the table on the page: [tab, search, sort, page, size]

vars == <<accounts, voting, online, changes, list, listing, votes, supports,
          fetches, new, moves, view>>
chain == <<accounts, voting, new>>
cluster == <<online, changes>>
queries == <<list, listing, votes, supports, fetches>>

-----------------------------------------------------------------------------
(* Accounts of the program: fields of 32 bytes after a discriminator of 8.   *)
(* Addresses are derived from the proposal and a seed.  One node identity    *)
(* may vote and support with several vote accounts, each seeding an account  *)
(* that names the identity as its validator; an override names the vote      *)
(* account.                                                                  *)

Vote(v, p) == [kind |-> "vote", seed |-> v, fields |-> <<IdentityOf[v], p>>]
Override(s, p) ==
    [kind |-> "override", seed |-> s, fields |-> <<"delegator", s, DelegatedTo[s], p>>]
Support(v, p) == [kind |-> "support", seed |-> v, fields |-> <<p, IdentityOf[v]>>]

IsAccount(a) ==
    \/ \E v \in VoteAccounts, p \in Proposals : a \in {Vote(v, p), Support(v, p)}
    \/ \E s \in StakeAccounts, p \in Proposals : a = Override(s, p)

Identities == {IdentityOf[v] : v \in VoteAccounts}

TablesAssumption ==
    /\ IsFiniteSet(VoteAccounts) /\ Identities \cap VoteAccounts = {}
    /\ DelegatedTo \in [StakeAccounts -> VoteAccounts]
    /\ Shown \in Proposals
    /\ Shown \notin Identities \cup VoteAccounts \cup StakeAccounts \cup {"delegator"}
    /\ DefaultPageSize \in PageSizes /\ PageSizes \subseteq Nat \ {0}
    /\ \A x \in VoteAccounts \cup StakeAccounts : StakeOf[x] \in Nat \ {0}
    /\ \A v \in Known : NameOf[v] # "unknown"
    /\ \A S \in InitialAccounts : IsFiniteSet(S) /\ \A a \in S : IsAccount(a)
    /\ None \notin Nat \cup StakeAccounts /\ "validator" \notin StakeAccounts /\ Unset \notin Nat
    /\ MaxNew \in Nat /\ MaxChanges \in Nat /\ MaxFetches \in Nat /\ MaxMoves \in Nat

\* The RPC node's filter: the field at the offset.
memcmp(kind, offset, key) ==
    {a \in accounts : a.kind = kind /\ a.fields[(offset - 8) \div 32 + 1] = key}

getProposalVotes(p) == memcmp("vote", 40, p)

\* Slip: the offset of an earlier layout.
OverridesAtOldOffset(p) == memcmp("override", 72, p)

getProposalVoteOverrides(p) == memcmp("override", 104, p)

getSupportAccounts(p) == memcmp("support", 8, p)

-----------------------------------------------------------------------------
(* The list of validators. *)

\* Where a vote account or an identity leads: of the vote accounts of an identity to
\* the one that is listed last, which is any.
validatorMaps ==
    {m \in [online \cup {IdentityOf[v] : v \in online} -> online] :
        \A v \in online : m[v] = v /\ IdentityOf[m[IdentityOf[v]]] = IdentityOf[v]}

getValidators(named) ==
    {[entries |-> [v \in online |-> [name |-> IF v \in named THEN NameOf[v] ELSE "placeholder",
                                     stake |-> StakeOf[v]]],
      map |-> m] : m \in validatorMaps}

TotalStake(l) == SumFunctionOnSet([v \in DOMAIN l.entries |-> l.entries[v].stake], DOMAIN l.entries)

\* Slip: one entry for every list.
OneKey(l) == 0

\* The part of the votes query's key that changes when validators load.
VotesKey(l) == IF l = Unset THEN None ELSE Cardinality(DOMAIN l.entries)

Keys == {None} \cup 0 .. Cardinality(VoteAccounts)

-----------------------------------------------------------------------------
(* Rows. *)

\* x: an identity or a vote account
Listed(l, x) == l # Unset /\ x \in DOMAIN l.map
Validator(l, x) == l.entries[l.map[x]]

\* A row of the voters' table, built when the votes arrive, from the list the
\* request started with.
VoterRow(a, l) ==
    LET staker == a.kind = "override"
        identity == IF staker THEN a.fields[3] ELSE a.fields[1]
        stake == StakeOf[a.seed]
        total == IF l = Unset THEN 0 ELSE TotalStake(l)
    IN [account |-> a, identity |-> identity,
        stakeAccount |-> IF staker THEN a.fields[2] ELSE None,
        walletType |-> IF staker THEN "staker" ELSE "validator",
        name |-> IF Listed(l, identity) THEN Validator(l, identity).name ELSE "unknown",
        stake |-> stake,
        percent |-> IF total > 0 THEN (stake * 10000) \div total ELSE 0]

\* Slip: a stake that is not known is zero.
SupporterOfNothing(a, l) ==
    LET v == a.fields[2]
    IN [account |-> a, identity |-> v, stakeAccount |-> None, walletType |-> "validator",
        name |-> IF Listed(l, v) THEN Validator(l, v).name ELSE "unknown",
        stake |-> IF Listed(l, v) THEN Validator(l, v).stake ELSE 0,
        percent |-> IF Listed(l, v) THEN (Validator(l, v).stake * 10000) \div TotalStake(l) ELSE 0]

\* A row of the supporters' table, rebuilt whenever the list changes.
SupporterRow(a, l) ==
    LET v == a.fields[2]
    IN [account |-> a, identity |-> v, stakeAccount |-> None, walletType |-> "validator",
        name |-> IF Listed(l, v) THEN Validator(l, v).name ELSE "unknown",
        stake |-> IF Listed(l, v) THEN Validator(l, v).stake ELSE Unset,
        percent |-> IF Listed(l, v) THEN (Validator(l, v).stake * 10000) \div TotalStake(l) ELSE Unset]

\* Slip: a row is that of its validator, whichever account it shows.
IdByIdentity(row) == <<row.identity>>

getRowId(row) ==
    IF view.tab = "supporters" THEN <<row.account>>
    ELSE <<row.identity, IF row.stakeAccount = None THEN row.walletType ELSE row.stakeAccount>>

Entry == votes[VotesKey(list)]

\* All rows, before the search.
Data ==
    IF view.tab = "voters"
    THEN IF Entry.data = Unset THEN {} ELSE Entry.data
    ELSE IF supports.data = Unset THEN {} ELSE {SupporterRow(a, list) : a \in supports.data}

IsLoadingVotes == Entry.data = Unset /\ Entry.request # None
IsLoadingSupporters ==
    \/ supports.data = Unset /\ supports.request # None
    \/ list = Unset /\ listing
IsLoading == IF view.tab = "voters" THEN IsLoadingVotes ELSE IsLoadingSupporters

VoterMatches(row, term) == term \in {row.name, row.identity, row.stakeAccount}
SupporterMatches(row, term) == term \in {row.name, row.identity}
Filtered ==
    {row \in Data : \/ view.search = None
                    \/ view.tab = "voters" /\ VoterMatches(row, view.search)
                    \/ view.tab = "supporters" /\ SupporterMatches(row, view.search)}

\* What the cells of a row say.
topVoterColumns(row) ==
    [voter |-> row.name, votedAs |-> <<row.walletType, row.stakeAccount>>,
     staked |-> row.stake, percentage |-> row.percent]

UnknownOr(x) == IF x = Unset THEN None ELSE x     \* None: a dash
topSupporterColumns(row) ==
    [supporter |-> row.name, staked |-> UnknownOr(row.stake),
     percentage |-> UnknownOr(row.percent)]

\* Ascending order of a column; unknown stakes count as the largest.
Precedes(column, x, y) ==
    IF column = "name" THEN x.name # y.name /\ Names[x.name] < Names[y.name]
    ELSE \/ x.stake # Unset /\ y.stake = Unset
         \/ x.stake # Unset /\ y.stake # Unset /\ x.stake < y.stake

\* Slip: ascending, whatever was asked for.
SortAscending(rows) == SetToSortSeq(rows, LAMBDA x, y : Precedes(view.sort.column, x, y))

\* Rows of equal value keep an order of their own, here any.
SortedRows(rows) ==
    SetToSortSeq(rows, LAMBDA x, y : IF view.sort.desc THEN Precedes(view.sort.column, y, x)
                                     ELSE Precedes(view.sort.column, x, y))

PageCount == (Cardinality(Filtered) + view.size - 1) \div view.size

\* The rows of a page, counted from 0.
PageRows(page) ==
    LET first == page * view.size + 1
    IN SubSeq(SortedRows(Filtered), first,
              Min({first + view.size - 1, Cardinality(Filtered)}))

Body ==
    IF IsLoading THEN "loading"
    ELSE IF PageRows(view.page) # <<>> THEN "rows"
    ELSE IF view.search # None THEN "no match" ELSE "none found"

-----------------------------------------------------------------------------
(* The table. *)

DefaultSort == [column |-> "stake", desc |-> TRUE]
Opened(tab) == [tab |-> tab, search |-> None, sort |-> DefaultSort, page |-> 0,
                size |-> DefaultPageSize]

\* Slip: the page stays when the rows change (autoResetPageIndex: false).
KeepPage == view' = view

\* The table goes to its first page whenever its rows are recomputed.
autoResetPageIndex == view' = [view EXCEPT !.page = 0]

Click == moves < MaxMoves /\ moves' = moves + 1

Search(term) ==
    /\ Click
    /\ view' = [view EXCEPT !.search = term, !.page = 0]
    /\ UNCHANGED <<chain, cluster, queries>>

toggleSorting(column) ==
    /\ Click
    /\ view' = [view EXCEPT !.page = 0, !.sort = [column |-> column,
                    desc |-> view.sort.column = column /\ ~view.sort.desc]]
    /\ UNCHANGED <<chain, cluster, queries>>

\* Slip: the first row shown is forgotten.
ResizeInPlace(size) == [view EXCEPT !.size = size]

Resized(size) ==
    [view EXCEPT !.size = size, !.page = (view.page * view.size) \div size]

setPageSize(size) ==
    /\ Click
    /\ view' = Resized(size)
    /\ UNCHANGED <<chain, cluster, queries>>

\* First, previous, next and last; each button is enabled only where it leads.
setPageIndex ==
    /\ Click
    /\ \/ view.page > 0 /\ \E p \in {0, view.page - 1} : view' = [view EXCEPT !.page = p]
       \/ /\ view.page < PageCount - 1
          /\ \E p \in {view.page + 1, PageCount - 1} : view' = [view EXCEPT !.page = p]
    /\ UNCHANGED <<chain, cluster, queries>>

handleReset ==
    /\ Click
    /\ view' = [view EXCEPT !.search = None, !.sort = DefaultSort, !.page = 0]
    /\ UNCHANGED <<chain, cluster, queries>>

-----------------------------------------------------------------------------
(* Queries.  A request for votes carries the list it started with and what    *)
(* its two parts have read.                                                   *)

NewRequest(l) == [list |-> l, votes |-> Unset, overrides |-> Unset, since |-> accounts]

\* The voters' table is mounted or the key of its query changes: an entry that
\* is missing is fetched.
Observe(entries, l) ==
    IF entries[VotesKey(l)].data = Unset /\ entries[VotesKey(l)].request = None
    THEN [entries EXCEPT ![VotesKey(l)].request = NewRequest(l)] ELSE entries

\* The list arrives, with or without metadata; or the RPC node fails.
ListArrives ==
    /\ listing
    /\ listing' = FALSE
    /\ \E l \in {list} \cup getValidators(Known) \cup getValidators({}) :
          /\ list' = l
          /\ votes' = IF view.tab = "voters" THEN Observe(votes, l) ELSE votes
          /\ IF l = list THEN view' = view ELSE autoResetPageIndex
    /\ UNCHANGED <<moves, chain, cluster, supports, fetches>>

\* One of the two requests of a votes query is answered; with the second the
\* rows are built.
PartArrives(k) ==
    LET r == votes[k].request
    IN /\ r # None
       /\ \E done \in {[r EXCEPT !.votes = getProposalVotes(Shown)],
                       [r EXCEPT !.overrides = getProposalVoteOverrides(Shown)]} :
             /\ r.votes = Unset \/ done.votes = r.votes
             /\ r.overrides = Unset \/ done.overrides = r.overrides
             /\ done # r
             /\ IF Unset \in {done.votes, done.overrides}
                THEN /\ votes' = [votes EXCEPT ![k].request = done]
                     /\ view' = view
                ELSE /\ votes' = [votes EXCEPT ![k] =
                            [data |-> {VoterRow(a, r.list) : a \in done.votes \cup done.overrides},
                             built |-> r.list, request |-> None]]
                     /\ IF k = VotesKey(list) /\ view.tab = "voters"
                        THEN autoResetPageIndex ELSE view' = view
       /\ UNCHANGED <<chain, cluster, list, listing, supports, fetches, moves>>

\* Slip: a failed request is made again, without limit.
AskAgain(k) ==
    /\ votes[k].request # None
    /\ votes' = [votes EXCEPT ![k].request = NewRequest(votes[k].request.list)]
    /\ UNCHANGED <<moves, chain, cluster, list, listing, supports, fetches, view>>

\* A request fails for good: what was there stays.
VotesFail(k) ==
    /\ votes[k].request # None
    /\ votes' = [votes EXCEPT ![k].request = None]
    /\ UNCHANGED <<moves, chain, cluster, list, listing, supports, fetches, view>>

SupportsArrive ==
    /\ supports.request # None
    /\ \/ /\ supports' = [data |-> getSupportAccounts(Shown), request |-> None]
          /\ IF view.tab = "supporters" THEN autoResetPageIndex ELSE view' = view
       \/ supports' = [supports EXCEPT !.request = None] /\ view' = view
    /\ UNCHANGED <<moves, chain, cluster, list, listing, votes, fetches>>

\* The window gets the focus and finds its data stale.
RefetchList ==
    /\ fetches < MaxFetches /\ ~listing
    /\ fetches' = fetches + 1
    /\ listing' = TRUE
    /\ UNCHANGED <<moves, chain, cluster, list, votes, supports, view>>

RefetchRows ==
    /\ fetches < MaxFetches
    /\ fetches' = fetches + 1
    /\ IF view.tab = "voters"
       THEN /\ Entry.request = None
            /\ votes' = [votes EXCEPT ![VotesKey(list)].request = NewRequest(list)]
            /\ supports' = supports
       ELSE /\ supports.request = None
            /\ supports' = [supports EXCEPT !.request = "asked"]
            /\ votes' = votes
    /\ UNCHANGED <<moves, chain, cluster, list, listing, view>>

\* The page learns that voting has begun (ProposalDetailView).
ShowVoters ==
    /\ voting /\ view.tab = "supporters"
    /\ view' = Opened("voters")
    /\ votes' = Observe(votes, list)
    /\ UNCHANGED <<moves, chain, cluster, list, listing, supports, fetches>>

-----------------------------------------------------------------------------
(* The world. *)

Add(a) ==
    /\ new < MaxNew /\ a \notin accounts
    /\ new' = new + 1
    /\ accounts' = accounts \cup {a}
    /\ UNCHANGED <<moves, voting, cluster, queries, view>>

SupportOnChain == ~voting /\ \E v \in VoteAccounts, p \in Proposals : Add(Support(v, p))

VoteOnChain ==
    /\ voting
    /\ \E p \in Proposals : \/ \E v \in VoteAccounts : Add(Vote(v, p))
                            \/ \E s \in StakeAccounts : Add(Override(s, p))

StartVoting ==
    /\ ~voting /\ voting' = TRUE
    /\ UNCHANGED <<moves, accounts, new, cluster, queries, view>>

\* Vote accounts join or leave the cluster.
ClusterChanges ==
    /\ changes < MaxChanges
    /\ changes' = changes + 1
    /\ online' \in SUBSET VoteAccounts \ {{}, online}
    /\ UNCHANGED <<moves, chain, queries, view>>

Init ==
    /\ accounts \in InitialAccounts /\ new = 0 /\ moves = 0
    /\ voting = (\E a \in accounts : a.kind # "support")
    /\ online \in SUBSET VoteAccounts \ {{}} /\ changes = 0
    /\ list = Unset /\ listing = TRUE
    /\ fetches = 0
    /\ view = Opened(IF voting THEN "voters" ELSE "supporters")
    /\ supports = [data |-> Unset, request |-> IF voting THEN None ELSE "asked"]
    /\ votes = LET empty == [k \in Keys |-> [data |-> Unset, built |-> Unset, request |-> None]]
               IN IF voting THEN Observe(empty, Unset) ELSE empty

Next ==
    \/ \E t \in {None} \cup SearchTerms : Search(t)
    \/ \E c \in {"stake", "name"} : toggleSorting(c)
    \/ \E n \in PageSizes : setPageSize(n)
    \/ setPageIndex \/ handleReset
    \/ \E k \in Keys : PartArrives(k) \/ VotesFail(k)
    \/ ListArrives \/ SupportsArrive \/ RefetchList \/ RefetchRows \/ ShowVoters
    \/ SupportOnChain \/ VoteOnChain \/ StartVoting \/ ClusterChanges

\* Every request is answered or fails.
Spec ==
    /\ Init /\ [][Next]_vars
    /\ WF_vars(ListArrives) /\ WF_vars(SupportsArrive)
    /\ \A k \in Keys : WF_vars(PartArrives(k) \/ VotesFail(k))

-----------------------------------------------------------------------------
TablesTypeOK ==
    /\ voting \in BOOLEAN /\ online \subseteq VoteAccounts /\ listing \in BOOLEAN
    /\ changes \in 0 .. MaxChanges /\ fetches \in 0 .. MaxFetches
    /\ view.page \in Nat /\ view.size \in PageSizes
    /\ view.tab = "voters" => voting

\* While any row matches, the table shows rows and not "No votes found", whatever
\* arrived, was searched for or was resized since the page was chosen
\* (TablePagination, setPageIndex).
PageIsNotEmpty == Filtered # {} => Body \in {"rows", "loading"}

\* Rows are of this proposal, and React tells them apart (getRowId): a validator's
\* vote from every override of it, overrides and supporters from each other.  The
\* rows that share an id are votes of one identity through several vote accounts.
RowsAreToldApart ==
    /\ \A row \in Data : Shown \in Range(row.account.fields)
    /\ \A x, y \in Data :
          x # y /\ getRowId(x) = getRowId(y) =>
              \E v, w \in VoteAccounts :
                 /\ v # w /\ IdentityOf[v] = IdentityOf[w]
                 /\ x.account = Vote(v, Shown) /\ y.account = Vote(w, Shown)

\* What was on chain when the request began is in the table when it has arrived.
NothingIsMissed ==
    \A k \in Keys :
       votes[k].request # None /\ votes'[k].data # votes[k].data =>
           {a \in votes[k].request.since :
               a.kind # "support" /\ Shown \in Range(a.fields)}
           \subseteq {row.account : row \in votes'[k].data}

\* Once validators are loaded the rows are those of a request that had a list,
\* and unless members of it were exchanged since, no voter in the list is shown as
\* unknown (the key of useProposalVotes).
NamesResolve ==
    view.tab = "voters" /\ list # Unset /\ Entry.data # Unset =>
        /\ Entry.built # Unset
        /\ DOMAIN Entry.built.map = DOMAIN list.map =>
              \A row \in Data : row.name = "unknown" => ~Listed(list, row.identity)

\* The supporters' table follows the list: a stake is shown if and only if one is
\* known now, it is never a made-up zero, and it is that of a vote account of the
\* supporter's identity, so of the one that supports if there is no other
\* (useProposalSupporters, UNKNOWN_VALUE).
SupportersFollowTheList ==
    view.tab = "supporters" =>
        \A row \in Data :
            LET cells == topSupporterColumns(row)
            IN IF Listed(list, row.identity)
               THEN \E v \in DOMAIN list.entries :
                       /\ IdentityOf[v] = IdentityOf[row.account.seed]
                       /\ cells.staked = list.entries[v].stake
                       /\ cells.supporter = list.entries[v].name
               ELSE cells.staked = None /\ cells.percentage = None

\* In the order a table opens with, no voter on a later page has more stake than
\* one on the first.
LargestFirst ==
    view.tab = "voters" /\ view.sort = DefaultSort =>
        LET rows == SortedRows(Filtered)
        IN \A i, j \in DOMAIN rows : i < j => rows[i].stake >= rows[j].stake

\* Resizing keeps the first row of the page in view (setPageSize).
ResizeKeepsTheRow ==
    view.tab = view'.tab /\ view.size # view'.size =>
       LET first == view.page * view.size + 1
       IN /\ first > view'.page * view'.size
          /\ first <= (view'.page + 1) * view'.size

\* "Loading votes..." ends.
LoadingEnds == IsLoading ~> ~IsLoading
=============================================================================
