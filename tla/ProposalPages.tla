--------------------------- MODULE ProposalPages ---------------------------
(***************************************************************************)
(* What the pages say of a proposal and offer to do with it.  The status   *)
(* is not on the chain: it is computed when the proposals are fetched,     *)
(* from the account, from the epoch, the stakes and the configuration the  *)
(* browser last read, each by a query of its own.  The chain meanwhile     *)
(* goes on, and decides by itself what it accepts.                         *)
(*                                                                         *)
(* Only the entry of the current query key is kept: an entry found again   *)
(* under an earlier key is one the browser might as well not have left.    *)
(***************************************************************************)
EXTENDS StakeArithmetic

CONSTANTS
    Configs,      \* GlobalConfigs the admin may set
    Stakes,       \* [total, current]: epoch stakes, and those of vote accounts not delinquent
    Tallies,      \* what the supporters may hold when they are measured
    None,
    MaxEpoch, MaxChanges    \* bounds on epochs and on the admin's and validators' changes

Statuses == {"supporting", "discussion", "voting", "finalized", "failed"}

GlobalConfig ==
    [maxSupportEpochs : Nat, discussionEpochs : Nat, snapshotEpochExtension : Nat,
     votingEpochs : Nat, clusterSupportPctMinBps : Nat]

PagesAssumption ==
    /\ Configs \subseteq GlobalConfig /\ \A c \in Configs : c.votingEpochs > 0
    /\ \A s \in Stakes : s.total \in Nat /\ s.current \in 1 .. s.total
    /\ Tallies \subseteq Nat /\ MaxEpoch \in Nat /\ MaxChanges \in Nat
    /\ None \notin Nat \cup Configs \cup Statuses

VARIABLES
    epoch, config, stake, account, root,    \* the chain; root: the snapshot has its root
    changes,                                \* how many changes there were
    epochSeen, stakeSeen, configSeen,       \* last answers of the three queries, or None
    asked,                                  \* inputs of the proposals query in flight, or None
    record,                                 \* the proposal as shown, or None
    seen                                    \* the last status shown

chain == <<epoch, config, stake, account, root, changes>>
queries == <<epochSeen, stakeSeen, configSeen, asked, record, seen>>
vars == <<chain, queries>>

-----------------------------------------------------------------------------
(* lib/proposals.ts *)

\* Slip: the epochs the program recorded are left out of account.
PhaseEpochsUnanchored(creationEpoch, c, voting, startEpoch) ==
    LET supportEnd == creationEpoch + c.maxSupportEpochs + 1
    IN [supportEndEpoch |-> supportEnd,
        discussionEndEpoch |-> supportEnd + c.discussionEpochs,
        snapshotEpoch |-> supportEnd + c.discussionEpochs + c.snapshotEpochExtension]

\* getProposalPhaseEpochs; voting and startEpoch anchor it once support succeeded.
getProposalPhaseEpochs(creationEpoch, c, voting, startEpoch) ==
    LET supportEnd == creationEpoch + c.maxSupportEpochs + 1
        anchored == voting /\ startEpoch > 0
    IN [supportEndEpoch |-> supportEnd,
        discussionEndEpoch |-> IF anchored THEN startEpoch
                               ELSE supportEnd + c.discussionEpochs,
        snapshotEpoch |-> IF anchored THEN startEpoch
                          ELSE supportEnd + c.discussionEpochs + c.snapshotEpochExtension]

\* Slip: the support phase is over one epoch early.
StatusWithShortSupport(p, e, total, c) ==
    CASE p.finalized -> "finalized"
      [] ~p.finalized /\ p.endEpoch # 0 /\ e >= p.endEpoch ->
            IF p.voting THEN "finalized" ELSE "failed"
      [] ~p.finalized /\ ~(p.endEpoch # 0 /\ e >= p.endEpoch) ->
            IF p.voting THEN IF e < p.startEpoch THEN "discussion" ELSE "voting"
            ELSE IF e < p.creationEpoch + c.maxSupportEpochs THEN "supporting" ELSE "failed"

\* getProposalStatus, of an account as it stands in epoch e.
getProposalStatus(p, e, total, c) ==
    LET supportEnd == getProposalPhaseEpochs(p.creationEpoch, c, FALSE, 0).supportEndEpoch
        ended == p.endEpoch # 0 /\ e >= p.endEpoch
        running == ~p.finalized /\ ~ended
        thresholdMet ==
            p.clusterSupportLamports * BASIS_POINTS_MAX >= total * c.clusterSupportPctMinBps
    IN CASE p.finalized -> "finalized"
         [] ended /\ ~p.finalized -> IF p.voting THEN "finalized" ELSE "failed"
         [] running /\ e < p.creationEpoch -> "supporting"
         [] running /\ e >= p.creationEpoch /\ p.voting ->
               IF e >= p.startEpoch /\ p.consensusResult THEN "voting" ELSE "discussion"
         [] running /\ e >= p.creationEpoch /\ ~p.voting ->
               IF e < supportEnd THEN "supporting"
               ELSE IF e = supportEnd /\ thresholdMet THEN "discussion" ELSE "failed"

-----------------------------------------------------------------------------
(* The svmgov program, as far as it concerns the phases of one proposal. *)

InSupportWindow ==
    /\ account.creationEpoch <= epoch
    /\ epoch <= account.creationEpoch + config.maxSupportEpochs

AcceptsSupport == ~account.finalized /\ ~account.voting /\ InSupportWindow

AcceptsVote ==
    /\ ~account.finalized
    /\ account.consensusResult
    /\ account.startEpoch <= epoch /\ epoch < account.endEpoch

\* The schedule that goes with a target epoch; the consensus result is a key
\* derived from the snapshot slot and is there from then on.
Scheduled(p, targetEpoch) ==
    [p EXCEPT !.startEpoch = targetEpoch + 1,
              !.endEpoch = targetEpoch + 1 + config.votingEpochs,
              !.consensusResult = TRUE,
              !.voting = TRUE]

\* support_proposal or retally_support, with the supporters measured at tally.
Measure(tally) ==
    /\ AcceptsSupport
    /\ LET p == [account EXCEPT !.clusterSupportLamports = tally]
       IN account' = IF tally >= min_stake_threshold(stake.total, config.clusterSupportPctMinBps)
                     THEN Scheduled(p, epoch + config.discussionEpochs
                                             + config.snapshotEpochExtension)
                     ELSE p
    /\ UNCHANGED <<epoch, config, stake, root, changes, queries>>

\* Slip: the snapshot can be replaced while votes are cast.
FlushAnyTime ==
    /\ changes < MaxChanges /\ changes' = changes + 1
    /\ account.consensusResult /\ ~account.finalized
    /\ account' = Scheduled(account, epoch + config.snapshotEpochExtension)
    /\ root' = FALSE
    /\ UNCHANGED <<epoch, config, stake, queries>>

FlushMerkleRoot ==
    /\ changes < MaxChanges /\ changes' = changes + 1
    /\ account.consensusResult
    /\ epoch < account.startEpoch
    /\ account' = Scheduled(account, epoch + config.snapshotEpochExtension)
    /\ root' = FALSE
    /\ UNCHANGED <<epoch, config, stake, queries>>

FinalizeProposal ==
    /\ account.voting /\ ~account.finalized
    /\ epoch >= account.endEpoch
    /\ account' = [account EXCEPT !.finalized = TRUE]
    /\ UNCHANGED <<epoch, config, stake, root, changes, queries>>

UpdateConfig(c) ==
    /\ changes < MaxChanges /\ changes' = changes + 1
    /\ c # config
    /\ config' = c
    /\ UNCHANGED <<epoch, stake, account, root, queries>>

\* The operators agree on the root of the snapshot, in its epoch or later.
PublishRoot ==
    /\ account.voting /\ ~root
    /\ epoch + 1 >= account.startEpoch
    /\ root' = TRUE
    /\ UNCHANGED <<epoch, config, stake, account, changes, queries>>

AdvanceEpoch(s) ==
    /\ epoch < MaxEpoch
    /\ epoch' = epoch + 1
    /\ stake' = s
    /\ UNCHANGED <<config, account, root, changes, queries>>

\* Vote accounts become delinquent, or current again, within an epoch.
DelinquencyChanges(s) ==
    /\ changes < MaxChanges /\ changes' = changes + 1
    /\ s # stake /\ s.total = stake.total
    /\ stake' = s
    /\ UNCHANGED <<epoch, config, account, root, queries>>

-----------------------------------------------------------------------------
(* The queries of the browser. *)

\* A new key of the proposals query: its entry is empty, and an answer to the
\* old key goes elsewhere.
Rekey(changed) ==
    /\ record' = IF changed THEN None ELSE record
    /\ asked' = IF changed THEN None ELSE asked

\* Slip: read once, without an interval.
ReadEpochInfoOnce ==
    /\ epochSeen = None
    /\ epochSeen' = epoch
    /\ Rekey(TRUE)
    /\ UNCHANGED <<chain, stakeSeen, configSeen, seen>>

\* useEpochInfo, on its five-minute interval.
RefetchEpochInfo ==
    /\ epochSeen # epoch
    /\ epochSeen' = epoch
    /\ Rekey(TRUE)
    /\ UNCHANGED <<chain, stakeSeen, configSeen, seen>>

\* useRawVoteAccounts; of what it reads the key holds only the number of accounts.
RefetchVoteAccounts(countChanged) ==
    /\ stakeSeen # stake.current
    /\ stakeSeen' = stake.current
    /\ Rekey(countChanged \/ stakeSeen = None)
    /\ UNCHANGED <<chain, epochSeen, configSeen, seen>>

\* governanceConfigKey; the support threshold is not in it.
governanceConfigKey(c) ==
    IF c = None THEN None
    ELSE <<c.maxSupportEpochs, c.discussionEpochs, c.snapshotEpochExtension, c.votingEpochs>>

RefetchConfig ==
    /\ configSeen # config
    /\ configSeen' = config
    /\ Rekey(configSeen = None \/ governanceConfigKey(config) # governanceConfigKey(configSeen))
    /\ UNCHANGED <<chain, epochSeen, stakeSeen, seen>>

\* useProposals: a fetch for an empty entry, or again for a stale one.
AskProposals ==
    /\ asked = None
    /\ epochSeen # None /\ stakeSeen # None /\ configSeen # None
    /\ asked' = [epoch |-> epochSeen, stake |-> stakeSeen, config |-> configSeen]
    /\ UNCHANGED <<chain, epochSeen, stakeSeen, configSeen, record, seen>>

\* mapProposalDto: the account with the status it has for the inputs of the fetch.
mapProposalDto(p, inputs) ==
    [account |-> p, inputs |-> inputs,
     status |-> getProposalStatus(p, inputs.epoch, inputs.stake, inputs.config)]

\* getProposals comes back with the account of that moment.
ProposalsAnswer ==
    /\ asked # None
    /\ record' = mapProposalDto(account, asked)
    /\ seen' = record'.status
    /\ asked' = None
    /\ UNCHANGED <<chain, epochSeen, stakeSeen, configSeen>>

-----------------------------------------------------------------------------
\* A proposal just created; the page may be open since the epoch before.
Init ==
    /\ epoch = 1 /\ changes = 0 /\ root = FALSE
    /\ config \in Configs /\ stake \in Stakes
    /\ account = [creationEpoch |-> 1, startEpoch |-> 0, endEpoch |-> 0,
                  clusterSupportLamports |-> 0, voting |-> FALSE, finalized |-> FALSE,
                  consensusResult |-> FALSE]
    /\ epochSeen \in {None, 0} /\ stakeSeen = None /\ configSeen = None
    /\ asked = None /\ record = None /\ seen = None

ChainStep ==
    \/ \E t \in Tallies : Measure(t)
    \/ FlushMerkleRoot \/ FinalizeProposal \/ PublishRoot
    \/ \E c \in Configs : UpdateConfig(c)
    \/ \E s \in Stakes : AdvanceEpoch(s) \/ DelinquencyChanges(s)

BrowserStep ==
    \/ RefetchEpochInfo \/ RefetchConfig
    \/ \E b \in BOOLEAN : RefetchVoteAccounts(b)
    \/ AskProposals \/ ProposalsAnswer

Next == ChainStep \/ BrowserStep

(***************************************************************************)
(* Fairness: the epoch is asked for on a timer and every query runs when   *)
(* its inputs are there; the RPC is taken to answer in the end.  Nothing   *)
(* is assumed of the chain, nor of queries repeated for an entry that is   *)
(* already there: the proposals have no timer.                             *)
(***************************************************************************)
Spec ==
    /\ Init /\ [][Next]_vars
    /\ WF_vars(RefetchEpochInfo)
    /\ WF_vars(stakeSeen = None /\ RefetchVoteAccounts(TRUE))
    /\ WF_vars(configSeen = None /\ RefetchConfig)
    /\ WF_vars(record = None /\ AskProposals)
    /\ WF_vars(ProposalsAnswer)

-----------------------------------------------------------------------------
(* What the pages offer to wallet w for a record r. *)

(***************************************************************************)
(* connected; role; loading: the vote identity is still being looked up;   *)
(* supported, voted: what useHasUserSupported and useHasUserVoted say.     *)
(***************************************************************************)
Wallets ==
    [connected : BOOLEAN, role : {"none", "staker", "validator", "both"}, loading : BOOLEAN,
     supported : {"yes", "no", "loading"}, voted : {"yes", "no", "loading"}]

IsValidator(w) == w.role \in {"validator", "both"}

\* getProposalAction and shouldShowModifyButton of the card, without "view-details".
getProposalAction(status) ==
    CASE status = "voting" -> {"cast-vote", "modify-vote"}
      [] status = "supporting" -> {"support"}
      [] OTHER -> {}

\* disabledActionButtons
disabledActionButtons(w, status) ==
    ~w.connected \/ w.loading \/ (w.role = "staker" /\ status = "supporting")

\* ProposalCard: the buttons that are enabled and open a dialog.
ProposalCard(w, r) ==
    {b \in getProposalAction(r.status) :
        ~disabledActionButtons(w, r.status) /\ (b = "support" \/ r.account.consensusResult)}

\* SupportButton
SupportButton(w, status) ==
    IF status = "supporting" /\ w.supported = "no" /\ w.connected /\ IsValidator(w)
    THEN {"support"} ELSE {}

\* VoteActions of the panel under a row of the table.
VoteActions(w, r) ==
    (IF r.status = "voting" /\ w.connected /\ r.account.consensusResult /\ ~w.loading
     THEN {"cast-vote", "modify-vote"} ELSE {})
        \cup SupportButton(w, r.status)

\* VotingPanel: no actions during discussion, nor once the proposal has ended.
VotingPanel(w, r) ==
    IF r.status \in {"supporting", "voting"} THEN VoteActions(w, r) ELSE {}

\* CastVote of the detail page; its buttons open a dialog only with a consensus result.
CastVote(w, r) ==
    IF w.connected /\ ~w.loading /\ w.voted = "no" /\ r.account.consensusResult
    THEN {"cast-vote"} ELSE {}

\* SupportProposalSection: only the "support" variant has the button.
SupportProposalSection(w, r, variant) ==
    IF variant = "support" THEN SupportButton(w, r.status) ELSE {}

(***************************************************************************)
(* ProposalDetailView.  wide: at least the md breakpoint; what is          *)
(* "md:hidden" is shown below it only, "hidden md:..." above it only.      *)
(***************************************************************************)
ProposalDetailView(w, r, wide) ==
    IF r.status \in {"supporting", "discussion", "failed"}
    THEN IF r.status = "supporting"
         THEN SupportProposalSection(w, r, "support")
         ELSE SupportProposalSection(w, r, r.status)
    ELSE IF wide
         THEN IF r.status = "finalized"
              THEN SupportProposalSection(w, r, "finalized")
              ELSE CastVote(w, r)
         ELSE IF r.status = "finalized" THEN CastVote(w, r) ELSE {}

\* Slip: the end epoch itself is announced.
ThroughEndEpoch(r) ==
    IF r.status \in {"finalized", "failed"} THEN "Ended"
    ELSE IF r.account.endEpoch > 0 THEN r.account.endEpoch ELSE "Not Started Yet"

\* getVotingStatusValue: the "Voting Through" of the card.
VotingThrough(r) ==
    IF r.status \in {"finalized", "failed"} THEN "Ended"
    ELSE IF r.account.endEpoch > 0 THEN r.account.endEpoch - 1 ELSE "Not Started Yet"

\* getActivePhaseEndEpoch of the timeline, for the configuration c.
ActivePhaseEndEpoch(r, c) ==
    LET p == r.account
        phases == getProposalPhaseEpochs(p.creationEpoch, c, p.voting, p.startEpoch)
    IN CASE r.status = "supporting" -> phases.supportEndEpoch
         [] r.status = "discussion" -> phases.discussionEndEpoch
         [] r.status \in {"voting", "finalized"} ->
               IF p.voting /\ p.endEpoch > 0 THEN p.endEpoch
               ELSE phases.snapshotEpoch + c.votingEpochs
         [] r.status = "failed" -> None

-----------------------------------------------------------------------------
\* What the page shows is what it would show if everything were read now.
UpToDate ==
    /\ record # None
    /\ epochSeen = epoch /\ stakeSeen = stake.current /\ configSeen = config
    /\ record = mapProposalDto(account,
                   [epoch |-> epochSeen, stake |-> stakeSeen, config |-> configSeen])

\* Every answer, and every record with the inputs of a fetch, is of its type.
PagesTypeOK ==
    /\ epochSeen \in {None} \cup 0 .. epoch
    /\ stakeSeen \in {None} \cup {s.current : s \in Stakes}
    /\ configSeen \in {None} \cup Configs
    /\ seen \in {None} \cup Statuses
    /\ record # None => record.status \in Statuses /\ record.inputs.epoch = epochSeen
    /\ asked # None => asked.epoch = epochSeen

\* Up to date, every page but the narrow detail page offers support to a
\* validator who has not given it, and a vote to whoever has not cast one,
\* exactly as long as the program takes them; no wallet is offered either at
\* another time.
OfferedIffAccepted ==
    UpToDate =>
        \A w \in Wallets :
            LET offers == {ProposalCard(w, record), VotingPanel(w, record),
                           ProposalDetailView(w, record, TRUE)}
                ready == w.connected /\ ~w.loading /\ IsValidator(w)
            IN \A o \in offers :
                  /\ "support" \in o => AcceptsSupport
                  /\ "cast-vote" \in o => AcceptsVote
                  /\ AcceptsSupport /\ ready /\ w.supported = "no" => "support" \in o
                  /\ AcceptsVote /\ ready /\ w.voted = "no" => "cast-vote" \in o

\* Left alone, the proposal keeps the status shown until the epoch the timeline
\* counts down to, and loses it then.  (A proposal whose supporters' stake has
\* moved may be shown in discussion without having been activated; that one is
\* left out here.)
PhaseEndsAsAnnounced ==
    UpToDate /\ record.status \in {"supporting", "discussion", "voting"}
             /\ (record.status = "discussion" => account.voting) =>
        \A e \in epoch .. MaxEpoch + 4 :
            (getProposalStatus(account, e, stakeSeen, configSeen) = record.status)
                <=> e < ActivePhaseEndEpoch(record, configSeen)

\* While voting is open, the epoch after "Voting Through" is the first one in
\* which the program refuses votes.
ThroughIsTheLastEpoch ==
    UpToDate /\ AcceptsVote => VotingThrough(record) + 1 = account.endEpoch

\* However late the queries are, a page that showed voting shows voting or the
\* end of it from then on, and one that showed the end stays there.
NeverTakenBack ==
    /\ seen = "voting" => seen' \in {"voting", "finalized"}
    /\ seen = "finalized" => seen' = "finalized"

\* An open page comes to show that voting has begun, without being reloaded.
VotingIsAnnounced ==
    (account.voting /\ epoch >= account.startEpoch) ~> seen \in {"voting", "finalized"}
=============================================================================
