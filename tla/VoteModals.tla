---------------------------- MODULE VoteModals ----------------------------
(***************************************************************************)
(* The web client's dialogs that end in a transaction: supporting and      *)
(* creating a proposal, casting and modifying a validator's vote, casting  *)
(* and modifying a stake override.  One dialog is mounted at a time by     *)
(* ModalProvider; it keeps the user's choice, the distribution of the vote *)
(* and a loading flag, hands a request to a react-query mutation and waits *)
(* for its callback, while the wallet may be switched and the queries the  *)
(* dialog reads (the wallet's summary, its vote account, its stake         *)
(* accounts, its earlier overrides) arrive, fail or are refetched.         *)
(***************************************************************************)
EXTENDS Naturals, FiniteSets

CONSTANTS
    Wallets,      \* public keys the browser wallet can be switched to
    Validators,   \* those that are the identity of a current vote account
    Proposals,    \* proposals in the voting phase
    Results,      \* consensus result accounts
    ConsensusOf,  \* a proposal's consensusResult as the client has it
    Stakes,       \* stake accounts
    StakesOf,     \* the stake accounts a wallet withdraws from
    Recorded,     \* <<proposal, stake>> -> distribution of overrides on chain
    Whole,        \* the percentage that a vote has to add up to (100)
    MaxModals,    \* bound: dialogs opened in one session
    NoWallet, NoProposal, NoResult, NoStake   \* undefined

VARIABLES
    wallet,    \* useAnchorWallet
    accounts,  \* the query for the current vote accounts: loading, failed, known
    summaries, \* wallets whose NCN summary has arrived
    listed,    \* wallets whose stake accounts have arrived
    kind,      \* modalState.type, "none" when null
    opened,    \* how many dialogs have been mounted; identifies the mounted one
    form,      \* the useState variables of the mounted dialog
    role,      \* walletRole of the dialog's useWalletRole
    pending    \* mutations that have not been answered

queries == <<accounts, summaries, listed>>

vars == <<wallet, accounts, summaries, listed, kind, opened, form, role, pending>>

VOTE_OPTIONS == {"for", "against", "abstain"}

\* Whatever is typed is parsed and clamped to this range.
Percentages == 0..Whole

Distributions == [VOTE_OPTIONS -> Percentages]

Total(d) == d["for"] + d["against"] + d["abstain"]

isValidDistribution(d) == Total(d) = Whole

DEFAULT_DISTRIBUTION == [o \in VOTE_OPTIONS |-> 0]

ASSUME ModalsAssumption ==
    /\ Whole \in Nat
    /\ Validators \subseteq Wallets
    /\ ConsensusOf \in [Proposals -> Results \cup {NoResult}]
    /\ StakesOf \in [Wallets -> SUBSET Stakes]
    /\ DOMAIN Recorded \subseteq Proposals \X Stakes
    /\ \A ps \in DOMAIN Recorded :
          Recorded[ps] \in Distributions /\ Total(Recorded[ps]) = Whole
    /\ MaxModals \in Nat
    /\ NoWallet \notin Wallets /\ NoProposal \notin Proposals
    /\ NoResult \notin Results /\ NoStake \notin Stakes

Kinds == {"support-proposal", "create-proposal", "cast-vote", "modify-vote",
          "override-vote", "modify-override-vote"}

ValidatorKinds == {"cast-vote", "modify-vote"}

OverrideKinds == {"override-vote", "modify-override-vote"}

-----------------------------------------------------------------------------
(* Editing the distribution.                                               *)

AtMost(a, b) == IF a <= b THEN a ELSE b

\* The two other options, in the order of VOTE_OPTIONS.
FirstOther(o) == IF o = "for" THEN "against" ELSE "for"

SecondOther(o) == IF o = "abstain" THEN "against" ELSE "abstain"

\* Slip: only the first of the other options gives way.
AdjustFirstOnly(d, o, v) ==
    LET sum    == v + d[FirstOther(o)] + d[SecondOther(o)]
        excess == IF sum > Whole THEN sum - Whole ELSE 0
    IN  [d EXCEPT ![o] = v, ![FirstOther(o)] = @ - AtMost(@, excess)]

\* What exceeds the whole is taken from the other options, in order.
adjustDistribution(d, o, v) ==
    LET sum    == v + d[FirstOther(o)] + d[SecondOther(o)]
        excess == IF sum > Whole THEN sum - Whole ELSE 0
        first  == AtMost(d[FirstOther(o)], excess)
        second == AtMost(d[SecondOther(o)], excess - first)
    IN  [x \in VOTE_OPTIONS |->
            IF x = o THEN v
            ELSE IF x = FirstOther(o) THEN d[x] - first
            ELSE d[x] - second]

QuickSelection(o) == [x \in VOTE_OPTIONS |-> IF x = o THEN Whole ELSE 0]

-----------------------------------------------------------------------------
(* What the queries tell about a wallet.                                   *)

\* A failed fetch of the vote accounts leaves an empty list, in which no
\* wallet is an identity.
isLoadingChainVoteAccount(w) == w # NoWallet /\ accounts = "loading"

hasOnChainValidatorIdentity(w) == w \in Validators /\ accounts = "known"

determineWalletRole(w, identity) ==
    IF ~ identity THEN "staker"
    ELSE IF StakesOf[w] # {} THEN "both" ELSE "validator"

\* useWalletRole keeps the last role until the summary and the vote account of
\* the connected wallet are there; the arguments are what the queries hold.
RoleFor(w, chain, known, before) ==
    IF w \in known /\ chain # "loading"
    THEN determineWalletRole(w, w \in Validators /\ chain = "known")
    ELSE before

getVoteModalNames(w) ==
    IF hasOnChainValidatorIdentity(w)
    THEN [cast |-> "cast-vote", modify |-> "modify-vote"]
    ELSE [cast |-> "override-vote", modify |-> "modify-override-vote"]

-----------------------------------------------------------------------------
EmptyForm(p) ==
    [sel |-> p, cr |-> IF p = NoProposal THEN NoResult ELSE ConsensusOf[p],
     stake |-> NoStake, dist |-> DEFAULT_DISTRIBUTION, loading |-> FALSE,
     confirmed |-> FALSE, fixed |-> p # NoProposal, text |-> FALSE]

Init ==
    /\ wallet = NoWallet
    /\ accounts = "loading" /\ summaries = {} /\ listed = {}
    /\ kind = "none"
    /\ opened = 0
    /\ form = EmptyForm(NoProposal)
    /\ role = "staker"
    /\ pending = {}

\* openModal mounts the dialog.  Its first effects install the vote that the
\* caller passed and then reset it, so that the dialog starts empty.
openModal(k, p) ==
    /\ kind = "none"
    /\ opened < MaxModals
    /\ kind' = k
    /\ opened' = opened + 1
    /\ form' = EmptyForm(p)
    /\ role' = RoleFor(wallet, accounts, summaries, "staker")
    /\ UNCHANGED <<wallet, queries, pending>>

\* The dashboard's buttons: which dialogs it offers depends on the view the
\* user selected, not on the wallet.
getValidatorConfig == {"create-proposal", "support-proposal", "cast-vote", "modify-vote"}

getStakerConfig == {"override-vote", "modify-override-vote"}

GovernanceActions(k) ==
    /\ wallet # NoWallet
    /\ k \in getValidatorConfig \cup getStakerConfig
    /\ openModal(k, NoProposal)

\* What a proposal's card offers: one main action, and modify beside cast.
getProposalAction(status) ==
    IF status = "voting" THEN {"cast-vote", "modify-vote"}
    ELSE IF status = "supporting" THEN {"support"} ELSE {}

ActionButtons(action) ==
    /\ wallet # NoWallet
    /\ ~ isLoadingChainVoteAccount(wallet)
    /\ action = "support" => RoleFor(wallet, accounts, summaries, "staker") # "staker"

ProposalCard(p, action) ==
    /\ ActionButtons(action)
    /\ CASE action = "support" ->
              openModal("support-proposal", p)
         [] action = "cast-vote" ->
              /\ ConsensusOf[p] # NoResult
              /\ openModal(getVoteModalNames(wallet).cast, p)
         [] action = "modify-vote" ->
              /\ ConsensusOf[p] # NoResult
              /\ openModal(getVoteModalNames(wallet).modify, p)

\* The three vote buttons of a proposal's page, live unless the wallet has
\* voted; the vote they pass does not survive the dialog's first effects.
CastVoteButton(p) ==
    /\ wallet # NoWallet
    /\ ~ isLoadingChainVoteAccount(wallet)
    /\ ConsensusOf[p] # NoResult
    /\ openModal(getVoteModalNames(wallet).cast, p)

\* The support button of a proposal's page is only live for validators.
SupportButton(p) ==
    /\ RoleFor(wallet, accounts, summaries, "staker") \in {"validator", "both"}
    /\ wallet # NoWallet
    /\ openModal("support-proposal", p)

\* closeModal unmounts the dialog, and its state is gone with it.
closeModal ==
    /\ kind' = "none"
    /\ form' = EmptyForm(NoProposal)
    /\ role' = "staker"

\* Cancel is disabled while loading; the overlay and Escape are not.
Dismiss ==
    /\ kind # "none"
    /\ closeModal
    /\ UNCHANGED <<wallet, queries, opened, pending>>

-----------------------------------------------------------------------------
(* Filling in the dialog.                                                  *)

\* Slip: the consensus result of the dialog's first proposal is kept.
KeepFirstConsensus(p) ==
    /\ kind \in ValidatorKinds \cup OverrideKinds
    /\ ~ form.fixed
    /\ ConsensusOf[p] # NoResult
    /\ form' = [form EXCEPT !.sel = p,
                            !.cr = IF @ = NoResult THEN ConsensusOf[p] ELSE @]
    /\ UNCHANGED <<wallet, queries, kind, opened, role, pending>>

\* The selection and its consensus result are replaced together; a stake
\* account that is selected already stays selected.
handleProposalChange(p) ==
    /\ kind \in ValidatorKinds \cup OverrideKinds
    /\ ~ form.fixed
    /\ ConsensusOf[p] # NoResult
    /\ form' = [form EXCEPT !.sel = p, !.cr = ConsensusOf[p]]
    /\ UNCHANGED <<wallet, queries, kind, opened, role, pending>>

TypeProposalId(p) ==
    /\ kind = "support-proposal"
    /\ ~ form.fixed /\ ~ form.loading
    /\ form' = [form EXCEPT !.sel = p]
    /\ UNCHANGED <<wallet, queries, kind, opened, role, pending>>

TypeProposalText ==
    /\ kind = "create-proposal"
    /\ form' = [form EXCEPT !.text = TRUE]
    /\ UNCHANGED <<wallet, queries, kind, opened, role, pending>>

\* The dropdown offers the accounts without an override when one is cast and
\* the accounts with one when it is modified.
IsOffered(s) ==
    (<<form.sel, s>> \in DOMAIN Recorded) <=> (kind = "modify-override-vote")

\* In the modify dialog the recorded vote of the account replaces the
\* distribution.
DistributionFor(s) ==
    IF kind = "modify-override-vote" /\ <<form.sel, s>> \in DOMAIN Recorded
    THEN Recorded[<<form.sel, s>>] ELSE form.dist

SelectStakeAccount(s) ==
    /\ kind \in OverrideKinds
    /\ wallet \in Wallets
    /\ wallet \in listed
    /\ s \in StakesOf[wallet]
    /\ IsOffered(s)
    /\ form' = [form EXCEPT !.stake = s, !.dist = DistributionFor(s)]
    /\ UNCHANGED <<wallet, queries, kind, opened, role, pending>>

\* A refetch of the overrides installs the recorded vote again, whatever the
\* user has entered since.
OverridesRefetched ==
    /\ kind = "modify-override-vote"
    /\ form.stake # NoStake
    /\ form' = [form EXCEPT !.dist = DistributionFor(form.stake)]
    /\ UNCHANGED <<wallet, queries, kind, opened, role, pending>>

handleOptionChange(o, v) ==
    /\ kind \in ValidatorKinds \cup OverrideKinds
    /\ form' = [form EXCEPT !.dist = adjustDistribution(form.dist, o, v)]
    /\ UNCHANGED <<wallet, queries, kind, opened, role, pending>>

handleQuickSelect(o) ==
    /\ kind \in ValidatorKinds \cup OverrideKinds
    /\ form' = [form EXCEPT !.dist = QuickSelection(o)]
    /\ UNCHANGED <<wallet, queries, kind, opened, role, pending>>

ConfirmValidatorOverride ==
    /\ kind = "override-vote"
    /\ hasOnChainValidatorIdentity(wallet)
    /\ form' = [form EXCEPT !.confirmed = ~ form.confirmed]
    /\ UNCHANGED <<wallet, queries, kind, opened, role, pending>>

-----------------------------------------------------------------------------
(* Submitting.                                                             *)

\* When the submit button of each dialog is live.  hasVoted comes from a query
\* that is up to two minutes old and may hold either answer, so that it does not
\* restrict the two validator dialogs.
VoteChosen == form.sel # NoProposal /\ isValidDistribution(form.dist)

CreateReady == kind = "create-proposal" /\ form.text

SupportReady == kind = "support-proposal" /\ form.sel # NoProposal

CastReady == kind = "cast-vote" /\ VoteChosen

ModifyReady == kind = "modify-vote" /\ VoteChosen

OverrideReady ==
    /\ kind = "override-vote"
    /\ VoteChosen
    /\ form.stake # NoStake
    /\ ~ isLoadingChainVoteAccount(wallet)
    /\ hasOnChainValidatorIdentity(wallet) => form.confirmed

ModifyOverrideReady ==
    kind = "modify-override-vote" /\ VoteChosen /\ form.stake # NoStake

Ready ==
    CreateReady \/ SupportReady \/ CastReady \/ ModifyReady
        \/ OverrideReady \/ ModifyOverrideReady

\* Slip: the button stays live while a request is under way.
SubmitWhileLoading == Ready

SubmitEnabled == Ready /\ ~ form.loading

Request ==
    [id |-> opened, kind |-> kind, wallet |-> wallet, proposal |-> form.sel,
     cr |-> form.cr, stake |-> form.stake, dist |-> form.dist]

\* mutate(...) with the callbacks of the mounted dialog.
Send ==
    /\ form' = [form EXCEPT !.loading = TRUE]
    /\ pending' = pending \cup {Request}

\* An early return, after setIsLoading(true) or after it was taken back.
Return(loading) ==
    /\ form' = [form EXCEPT !.loading = loading]
    /\ pending' = pending

Submission(k) ==
    /\ kind = k
    /\ SubmitEnabled
    /\ UNCHANGED <<wallet, queries, kind, opened, role>>

CreateProposalModal == Submission("create-proposal") /\ Send

\* A missing wallet is only noticed by the mutation, which then fails.
SupportProposalModal == Submission("support-proposal") /\ Send

\* Without wallet or consensus result the loading flag is left set.
CastVoteModal ==
    /\ Submission("cast-vote")
    /\ IF wallet = NoWallet \/ form.cr = NoResult THEN Return(TRUE)
       ELSE IF role \in {"validator", "both"} THEN Send
       ELSE Return(FALSE)

ModifyVoteModal ==
    /\ Submission("modify-vote")
    /\ IF wallet = NoWallet \/ form.cr = NoResult THEN Return(TRUE)
       ELSE IF role \in {"validator", "both"} THEN Send
       ELSE Return(FALSE)

\* Slip: refusing a wallet that is not a staker leaves the flag set.
OverrideVoteModalLeaks ==
    /\ Submission("override-vote")
    /\ IF wallet = NoWallet \/ form.cr = NoResult THEN Return(FALSE)
       ELSE IF role # "staker" THEN Return(TRUE)
       ELSE IF wallet \in listed THEN Send
       ELSE Return(FALSE)

\* Every early return of this dialog clears the flag.
OverrideVoteModal ==
    /\ Submission("override-vote")
    /\ IF wallet = NoWallet \/ form.cr = NoResult THEN Return(FALSE)
       ELSE IF role # "staker" THEN Return(FALSE)
       ELSE IF wallet \in listed THEN Send
       ELSE Return(FALSE)

\* This one leaves it set when the wallet is not a staker.
ModifyOverrideVoteModal ==
    /\ Submission("modify-override-vote")
    /\ IF wallet = NoWallet \/ form.cr = NoResult THEN Return(FALSE)
       ELSE IF role # "staker" THEN Return(TRUE)
       ELSE IF wallet \in listed THEN Send
       ELSE Return(FALSE)

handleSubmit ==
    \/ CreateProposalModal
    \/ SupportProposalModal
    \/ CastVoteModal
    \/ ModifyVoteModal
    \/ OverrideVoteModal
    \/ ModifyOverrideVoteModal

\* Slip: callbacks of the mutation itself, which outlive the dialog.
AlwaysListening(r) == kind # "none"

\* The callbacks given to mutate belong to the mounted observer: they are
\* dropped once it is unmounted.
Listening(r) == kind # "none" /\ r.id = opened

handleSuccess(r) ==
    /\ r \in pending
    /\ pending' = pending \ {r}
    /\ IF Listening(r) THEN closeModal ELSE UNCHANGED <<kind, form, role>>
    /\ UNCHANGED <<wallet, queries, opened>>

handleError(r) ==
    /\ r \in pending
    /\ pending' = pending \ {r}
    /\ form' = IF Listening(r) THEN [form EXCEPT !.loading = FALSE] ELSE form
    /\ UNCHANGED <<wallet, queries, kind, opened, role>>

-----------------------------------------------------------------------------
(* The wallet extension and the queries.                                   *)

KeepRole(w, chain, known) ==
    role' = IF kind = "none" THEN role ELSE RoleFor(w, chain, known, role)

\* Slip: the role is only determined when the dialog is mounted.
SwitchWalletOnly(w) ==
    /\ w # wallet
    /\ wallet' = w
    /\ UNCHANGED <<queries, kind, opened, form, role, pending>>

SwitchWallet(w) ==
    /\ w # wallet
    /\ wallet' = w
    /\ KeepRole(w, accounts, summaries)
    /\ UNCHANGED <<queries, kind, opened, form, pending>>

\* The queries about a wallet only run while it is the connected one.
SummaryArrives ==
    /\ wallet \in Wallets \ summaries
    /\ summaries' = summaries \cup {wallet}
    /\ KeepRole(wallet, accounts, summaries')
    /\ UNCHANGED <<wallet, accounts, listed, kind, opened, form, pending>>

StakeAccountsArrive ==
    /\ wallet \in Wallets \ listed
    /\ listed' = listed \cup {wallet}
    /\ UNCHANGED <<wallet, accounts, summaries, kind, opened, form, role, pending>>

VoteAccountsArrive(result) ==
    /\ accounts # "known" /\ accounts # result
    /\ accounts' = result
    /\ KeepRole(wallet, result, summaries)
    /\ UNCHANGED <<wallet, summaries, listed, kind, opened, form, pending>>

-----------------------------------------------------------------------------
Fill ==
    \/ \E p \in Proposals : handleProposalChange(p) \/ TypeProposalId(p)
    \/ TypeProposalText
    \/ \E s \in Stakes : SelectStakeAccount(s)
    \/ OverridesRefetched
    \/ \E o \in VOTE_OPTIONS :
          \/ \E v \in Percentages : handleOptionChange(o, v)
          \/ handleQuickSelect(o)
    \/ ConfirmValidatorOverride

Open ==
    \/ \E k \in Kinds : GovernanceActions(k)
    \/ \E p \in Proposals :
          \/ \E status \in {"supporting", "voting"} :
                \E action \in getProposalAction(status) : ProposalCard(p, action)
          \/ CastVoteButton(p)
          \/ SupportButton(p)

Environment ==
    \/ \E w \in Wallets \cup {NoWallet} : SwitchWallet(w)
    \/ SummaryArrives
    \/ StakeAccountsArrive
    \/ \E result \in {"known", "failed"} : VoteAccountsArrive(result)

Next ==
    \/ Open
    \/ Dismiss
    \/ Fill
    \/ handleSubmit
    \/ \E r \in pending : handleSuccess(r) \/ handleError(r)
    \/ Environment

Spec == Init /\ [][Next]_vars

-----------------------------------------------------------------------------
Forms ==
    [sel : Proposals \cup {NoProposal}, cr : Results \cup {NoResult},
     stake : Stakes \cup {NoStake}, dist : Distributions, loading : BOOLEAN,
     confirmed : BOOLEAN, fixed : BOOLEAN, text : BOOLEAN]

Requests ==
    [id : Nat, kind : Kinds, wallet : Wallets \cup {NoWallet},
     proposal : Proposals \cup {NoProposal}, cr : Results \cup {NoResult},
     stake : Stakes \cup {NoStake}, dist : Distributions]

\* Every variable has its type.
ModalsTypeOK ==
    /\ wallet \in Wallets \cup {NoWallet}
    /\ accounts \in {"loading", "failed", "known"}
    /\ summaries \subseteq Wallets /\ listed \subseteq Wallets
    /\ kind \in Kinds \cup {"none"}
    /\ opened \in Nat
    /\ form \in Forms
    /\ role \in {"staker", "validator", "both"}
    /\ pending \subseteq Requests

\* Whatever is typed, clicked or refetched, in any order, the sliders never add
\* up to more than the whole, and every vote handed to the program's
\* instructions adds up to exactly the whole (which the program insists on).
VotesAreWhole ==
    /\ Total(form.dist) <= Whole
    /\ \A r \in pending :
          r.kind \in ValidatorKinds \cup OverrideKinds => Total(r.dist) = Whole

\* A vote names the consensus result of the proposal it is for, although the
\* proposal can be changed in the dialog after it was opened for another one.
PairedConsensus ==
    \A r \in pending :
        r.kind \in ValidatorKinds \cup OverrideKinds =>
            r.proposal \in Proposals /\ r.cr = ConsensusOf[r.proposal]

\* The mounted dialog has at most one unanswered request, and while it has one
\* it is loading: a second click cannot send the vote again.
NoDoubleSubmission ==
    \A r \in pending :
        /\ Listening(r) => form.loading
        /\ \A s \in pending : r.id = s.id => r = s

\* A dialog in which nothing is under way can be submitted again: the override,
\* support and create dialogs only show "loading" while a request is
\* unanswered, on every path through their early returns.
LoadingIsAccountedFor ==
    kind \in {"override-vote", "support-proposal", "create-proposal"} /\ form.loading
        => \E r \in pending : Listening(r)

\* The strengthening that makes the three invariants above inductive: the form
\* is paired too, and requests carry the number of the dialog that sent them.
ModalsInv ==
    /\ ModalsTypeOK
    /\ VotesAreWhole
    /\ PairedConsensus
    /\ NoDoubleSubmission
    /\ kind \in ValidatorKinds \cup OverrideKinds /\ form.sel # NoProposal
          => form.cr = ConsensusOf[form.sel]
    /\ \A r \in pending : r.id <= opened

\* The answer to a request never closes or changes a dialog that was opened
\* after the one that sent it.
LateAnswersTouchNothing ==
    [][\A r \in pending :
          r \notin pending' /\ r.id # opened => UNCHANGED <<kind, form>>]_vars

\* A validator's vote is only sent for a wallet without a vote account when the
\* wallet was switched while the dialog was open (its role is then the previous
\* wallet's until its own summary has arrived).
StakersAreTurnedAway ==
    \A r \in pending' \ pending :
       r.kind \in ValidatorKinds /\ r.wallet \in summaries
           => hasOnChainValidatorIdentity(r.wallet)
                 \/ isLoadingChainVoteAccount(r.wallet)
=============================================================================
