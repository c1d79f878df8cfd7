-------------------------- MODULE VoteModalsProofs --------------------------
(***************************************************************************)
(* ModalsInv is inductive, for any wallets, proposals, stake accounts and  *)
(* any number of dialogs, and for every value of the whole.  At the end,   *)
(* DocumentsInv: the documents that proposals link to.                     *)
(***************************************************************************)
EXTENDS VoteModals, Integers, Sequences, TLAPS, FiniteSetTheorems

\* Taking the excess from the other options, in order, leaves a distribution
\* that adds up to at most the whole (useVoteDistribution's adjustDistribution).
LEMMA AdjustmentFits ==
    ASSUME NEW d \in Distributions, NEW o \in VOTE_OPTIONS, NEW v \in Percentages
    PROVE  /\ adjustDistribution(d, o, v) \in Distributions
           /\ Total(adjustDistribution(d, o, v)) <= Whole
<1>1. Whole \in Nat
  BY ModalsAssumption
<1>2. /\ d["for"] \in 0..Whole /\ d["against"] \in 0..Whole /\ d["abstain"] \in 0..Whole
      /\ v \in 0..Whole
  BY <1>1 DEF Distributions, VOTE_OPTIONS, Percentages
<1>3. CASE o = "for"
  BY <1>1, <1>2, <1>3 DEF adjustDistribution, FirstOther, SecondOther, AtMost, Total,
     Distributions, VOTE_OPTIONS, Percentages
<1>4. CASE o = "against"
  BY <1>1, <1>2, <1>4 DEF adjustDistribution, FirstOther, SecondOther, AtMost, Total,
     Distributions, VOTE_OPTIONS, Percentages
<1>5. CASE o = "abstain"
  BY <1>1, <1>2, <1>5 DEF adjustDistribution, FirstOther, SecondOther, AtMost, Total,
     Distributions, VOTE_OPTIONS, Percentages
<1> QED
  BY <1>3, <1>4, <1>5 DEF VOTE_OPTIONS

\* The empty distribution, a quick selection and a recorded vote all fit.
LEMMA GivenVotesFit ==
    /\ DEFAULT_DISTRIBUTION \in Distributions
    /\ Total(DEFAULT_DISTRIBUTION) <= Whole
    /\ \A o \in VOTE_OPTIONS :
          QuickSelection(o) \in Distributions /\ Total(QuickSelection(o)) <= Whole
<1>1. Whole \in Nat
  BY ModalsAssumption
<1> QED
  BY <1>1 DEF DEFAULT_DISTRIBUTION, QuickSelection, Distributions, Percentages, Total,
     VOTE_OPTIONS

\* A freshly mounted dialog is well formed and names its proposal's result.
LEMMA EmptyFormFits ==
    ASSUME NEW p \in Proposals \cup {NoProposal}
    PROVE  /\ EmptyForm(p) \in Forms
           /\ Total(EmptyForm(p).dist) <= Whole
           /\ EmptyForm(p).sel # NoProposal => EmptyForm(p).cr = ConsensusOf[EmptyForm(p).sel]
BY GivenVotesFit, ModalsAssumption DEF EmptyForm, Forms

\* The initial state satisfies the invariant.
LEMMA ModalsInit == Init => ModalsInv
BY EmptyFormFits, ModalsAssumption
   DEF Init, ModalsInv, ModalsTypeOK, VotesAreWhole, PairedConsensus,
       NoDoubleSubmission, Kinds, ValidatorKinds, OverrideKinds

\* The role stays one of the three whatever wallet and queries it is computed
\* from (useWalletRole).
LEMMA RoleIsARole ==
    ASSUME NEW w, NEW chain, NEW known, NEW before \in {"staker", "validator", "both"}
    PROVE  RoleFor(w, chain, known, before) \in {"staker", "validator", "both"}
BY DEF RoleFor, determineWalletRole

\* A step that only touches the form keeps the invariant when the new form is
\* well formed, fits, is paired and is still loading if it was.
LEMMA FormStep ==
    ASSUME ModalsInv, UNCHANGED <<wallet, queries, kind, opened, role, pending>>,
           form' \in Forms, Total(form'.dist) <= Whole,
           form.loading => form'.loading,
           kind \in ValidatorKinds \cup OverrideKinds /\ form'.sel # NoProposal
               => form'.cr = ConsensusOf[form'.sel]
    PROVE  ModalsInv'
BY DEF ModalsInv, ModalsTypeOK, VotesAreWhole, PairedConsensus, NoDoubleSubmission,
       Listening, queries

\* A step of the wallet or of a query keeps the invariant.
LEMMA QueryStep ==
    ASSUME ModalsInv, UNCHANGED <<kind, opened, form, pending>>,
           wallet' \in Wallets \cup {NoWallet},
           accounts' \in {"loading", "failed", "known"},
           summaries' \subseteq Wallets, listed' \subseteq Wallets,
           role' \in {"staker", "validator", "both"}
    PROVE  ModalsInv'
BY DEF ModalsInv, ModalsTypeOK, VotesAreWhole, PairedConsensus, NoDoubleSubmission,
       Listening

\* Opening a dialog keeps the invariant: its number is new.
LEMMA OpenStep ==
    ASSUME ModalsInv, NEW k \in Kinds, NEW p \in Proposals \cup {NoProposal},
           openModal(k, p)
    PROVE  ModalsInv'
<1>1. form' = EmptyForm(p) /\ kind' = k /\ opened' = opened + 1
      /\ UNCHANGED <<wallet, accounts, summaries, listed, pending>>
  BY DEF openModal, queries
<1>2. role' \in {"staker", "validator", "both"}
  BY RoleIsARole DEF openModal
<1>3. opened \in Nat /\ \A r \in pending : r.id \in Nat /\ r.id <= opened
  BY DEF ModalsInv, ModalsTypeOK, Requests
<1>4. \A r \in pending : r.id # opened' /\ r.id <= opened'
  BY <1>1, <1>3
<1>5. ModalsTypeOK' /\ VotesAreWhole'
  BY <1>1, <1>2, EmptyFormFits DEF ModalsInv, ModalsTypeOK, VotesAreWhole
<1>6. NoDoubleSubmission' /\ PairedConsensus'
  BY <1>1, <1>4 DEF ModalsInv, NoDoubleSubmission, PairedConsensus, Listening
<1> QED
  BY <1>1, <1>4, <1>5, <1>6, EmptyFormFits DEF ModalsInv

\* Unmounting a dialog keeps the invariant, with or without removing a request.
LEMMA CloseStep ==
    ASSUME ModalsInv, closeModal, pending' \subseteq pending,
           UNCHANGED <<wallet, queries, opened>>
    PROVE  ModalsInv'
<1>1. form' = EmptyForm(NoProposal) /\ kind' = "none" /\ role' = "staker"
      /\ form'.sel = NoProposal
  BY DEF closeModal, EmptyForm
<1>2. form' \in Forms /\ Total(form'.dist) <= Whole
  BY <1>1, EmptyFormFits
<1> QED
  BY <1>1, <1>2 DEF ModalsInv, ModalsTypeOK, VotesAreWhole, PairedConsensus,
     NoDoubleSubmission, Listening, queries

\* Handing a vote to a mutation keeps the invariant: the button is only live on
\* a whole vote, and not while a request of this dialog is unanswered.
LEMMA SendStep ==
    ASSUME ModalsInv, kind \in Kinds, Ready, ~ form.loading, Send,
           UNCHANGED <<wallet, queries, kind, opened, role>>
    PROVE  ModalsInv'
<1>1. form \in Forms /\ form' = [form EXCEPT !.loading = TRUE]
      /\ pending' = pending \cup {Request}
  BY DEF ModalsInv, ModalsTypeOK, Send
<1>2. /\ form' \in Forms /\ form'.loading = TRUE /\ form'.dist = form.dist
      /\ form'.sel = form.sel /\ form'.cr = form.cr
  BY <1>1 DEF Forms
<1>3. /\ Request \in Requests /\ Request.id = opened /\ Request.kind = kind
      /\ Request.dist = form.dist /\ Request.proposal = form.sel /\ Request.cr = form.cr
  BY <1>1 DEF Request, Requests, Forms, ModalsInv, ModalsTypeOK
<1>4. kind \in ValidatorKinds \cup OverrideKinds =>
         /\ Total(form.dist) = Whole /\ form.sel \in Proposals
         /\ form.cr = ConsensusOf[form.sel]
  BY <1>1 DEF Ready, CreateReady, SupportReady, CastReady, ModifyReady, OverrideReady,
     ModifyOverrideReady, VoteChosen, isValidDistribution, ValidatorKinds,
     OverrideKinds, ModalsInv, Forms
<1>5. \A r \in pending : r.id # opened
  BY DEF ModalsInv, NoDoubleSubmission, Listening, Kinds
<1>6. ModalsTypeOK'
  BY <1>1, <1>2, <1>3 DEF ModalsInv, ModalsTypeOK, queries
<1>7. VotesAreWhole' /\ PairedConsensus'
  BY <1>1, <1>2, <1>3, <1>4 DEF ModalsInv, VotesAreWhole, PairedConsensus
<1>8. NoDoubleSubmission'
  BY <1>1, <1>2, <1>3, <1>5 DEF ModalsInv, NoDoubleSubmission, Listening
<1>9. \A r \in pending' : r.id <= opened'
  BY <1>1, <1>3 DEF ModalsInv, ModalsTypeOK
<1> QED
  BY <1>2, <1>6, <1>7, <1>8, <1>9 DEF ModalsInv

\* An early return of a submission keeps the invariant.
LEMMA ReturnStep ==
    ASSUME ModalsInv, NEW l \in BOOLEAN, Return(l), ~ form.loading,
           UNCHANGED <<wallet, queries, kind, opened, role>>
    PROVE  ModalsInv'
<1>1. form \in Forms /\ form' = [form EXCEPT !.loading = l] /\ pending' = pending
  BY DEF ModalsInv, ModalsTypeOK, Return
<1>2. /\ form' \in Forms /\ form'.dist = form.dist
      /\ form'.sel = form.sel /\ form'.cr = form.cr
  BY <1>1 DEF Forms
<1>3. \A r \in pending : ~ Listening(r)
  BY DEF ModalsInv, NoDoubleSubmission
<1> QED
  BY <1>1, <1>2, <1>3 DEF ModalsInv, ModalsTypeOK, VotesAreWhole, PairedConsensus,
     NoDoubleSubmission, Listening, queries

\* Each of the six submit handlers keeps the invariant.
LEMMA SubmitStep == ModalsInv /\ handleSubmit => ModalsInv'
<1> SUFFICES ASSUME ModalsInv, handleSubmit PROVE ModalsInv'
  OBVIOUS
<1>1. kind \in Kinds /\ Ready /\ ~ form.loading
      /\ UNCHANGED <<wallet, queries, kind, opened, role>>
  BY DEF handleSubmit, CreateProposalModal, SupportProposalModal, CastVoteModal,
     ModifyVoteModal, OverrideVoteModal, ModifyOverrideVoteModal, Submission,
     SubmitEnabled, Kinds
<1>2. Send \/ Return(TRUE) \/ Return(FALSE)
  BY DEF handleSubmit, CreateProposalModal, SupportProposalModal, CastVoteModal,
     ModifyVoteModal, OverrideVoteModal, ModifyOverrideVoteModal
<1> QED
  BY <1>1, <1>2, SendStep, ReturnStep

\* Filling in the dialog keeps the invariant.
LEMMA FillStep == ModalsInv /\ Fill => ModalsInv'
<1> SUFFICES ASSUME ModalsInv, Fill PROVE ModalsInv'
  OBVIOUS
<1>t. /\ form \in Forms /\ form.dist \in Distributions /\ Total(form.dist) <= Whole
      /\ form.sel \in Proposals \cup {NoProposal}
      /\ kind \in ValidatorKinds \cup OverrideKinds /\ form.sel # NoProposal
            => form.cr = ConsensusOf[form.sel]
  BY DEF ModalsInv, ModalsTypeOK, VotesAreWhole, Forms
<1>d. ASSUME NEW d \in Distributions, NEW f, f = [form EXCEPT !.dist = d]
      PROVE  /\ f \in Forms /\ f.dist = d /\ f.loading = form.loading
             /\ f.sel = form.sel /\ f.cr = form.cr
  BY <1>t, <1>d DEF Forms
<1>e. ASSUME NEW d \in Distributions, Total(d) <= Whole,
             form' = [form EXCEPT !.dist = d],
             UNCHANGED <<wallet, queries, kind, opened, role, pending>>
      PROVE  ModalsInv'
  <2>1. /\ form' \in Forms /\ form'.dist = d /\ form'.loading = form.loading
        /\ form'.sel = form.sel /\ form'.cr = form.cr
    BY <1>d, <1>e
  <2> QED
    BY <2>1, <1>t, <1>e, FormStep
<1>1. ASSUME NEW p \in Proposals, handleProposalChange(p)
      PROVE  ModalsInv'
  <2>1. ConsensusOf[p] \in Results \cup {NoResult}
    BY ModalsAssumption
  <2>2. /\ form' \in Forms /\ form'.dist = form.dist /\ form'.loading = form.loading
        /\ form'.sel = p /\ form'.cr = ConsensusOf[p]
    BY <1>1, <1>t, <2>1 DEF handleProposalChange, Forms
  <2> QED
    BY <1>1, <1>t, <2>2, FormStep DEF handleProposalChange
<1>2. ASSUME NEW p \in Proposals, TypeProposalId(p)
      PROVE  ModalsInv'
  <2>1. /\ form' \in Forms /\ form'.dist = form.dist /\ form'.loading = form.loading
        /\ kind \notin ValidatorKinds \cup OverrideKinds
    BY <1>2, <1>t DEF TypeProposalId, Forms, ValidatorKinds, OverrideKinds
  <2> QED
    BY <1>2, <1>t, <2>1, FormStep DEF TypeProposalId
<1>3. ASSUME TypeProposalText
      PROVE  ModalsInv'
  <2>1. /\ form' \in Forms /\ form'.dist = form.dist /\ form'.loading = form.loading
        /\ kind \notin ValidatorKinds \cup OverrideKinds
    BY <1>3, <1>t DEF TypeProposalText, Forms, ValidatorKinds, OverrideKinds
  <2> QED
    BY <1>3, <1>t, <2>1, FormStep DEF TypeProposalText
<1>4. ASSUME NEW s \in Stakes
      PROVE  DistributionFor(s) \in Distributions /\ Total(DistributionFor(s)) <= Whole
  BY <1>t, ModalsAssumption DEF DistributionFor
<1>5. ASSUME NEW s \in Stakes, SelectStakeAccount(s)
      PROVE  ModalsInv'
  <2>1. /\ form' \in Forms /\ form'.dist = DistributionFor(s)
        /\ form'.loading = form.loading
        /\ form'.sel = form.sel /\ form'.cr = form.cr
    BY <1>5, <1>t, <1>4 DEF SelectStakeAccount, Forms
  <2> QED
    BY <1>5, <1>t, <1>4, <2>1, FormStep DEF SelectStakeAccount
<1>6. ASSUME OverridesRefetched
      PROVE  ModalsInv'
  <2>1. form.stake \in Stakes
    BY <1>6, <1>t DEF OverridesRefetched, Forms
  <2> QED
    BY <1>6, <2>1, <1>4, <1>e DEF OverridesRefetched
<1>7. ASSUME NEW o \in VOTE_OPTIONS, NEW v \in Percentages, handleOptionChange(o, v)
      PROVE  ModalsInv'
  BY <1>7, <1>t, <1>e, AdjustmentFits DEF handleOptionChange
<1>8. ASSUME NEW o \in VOTE_OPTIONS, handleQuickSelect(o)
      PROVE  ModalsInv'
  BY <1>8, <1>e, GivenVotesFit DEF handleQuickSelect
<1>9. ASSUME ConfirmValidatorOverride
      PROVE  ModalsInv'
  <2>1. /\ form' \in Forms /\ form'.dist = form.dist /\ form'.loading = form.loading
        /\ form'.sel = form.sel /\ form'.cr = form.cr
    BY <1>9, <1>t DEF ConfirmValidatorOverride, Forms
  <2> QED
    BY <1>9, <1>t, <2>1, FormStep DEF ConfirmValidatorOverride
<1> QED
  BY <1>1, <1>2, <1>3, <1>5, <1>6, <1>7, <1>8, <1>9 DEF Fill

\* Every opener ends in openModal.
LEMMA OpenersOpen ==
    Open => \E k \in Kinds, p \in Proposals \cup {NoProposal} : openModal(k, p)
<1> SUFFICES ASSUME Open
             PROVE  \E k \in Kinds, p \in Proposals \cup {NoProposal} : openModal(k, p)
  OBVIOUS
<1>1. CASE \E k \in Kinds : GovernanceActions(k)
  BY <1>1 DEF GovernanceActions
<1>2. ASSUME NEW p \in Proposals, NEW action \in {"cast-vote", "modify-vote", "support"},
             ProposalCard(p, action)
      PROVE  \E k \in Kinds : openModal(k, p)
  BY <1>2 DEF ProposalCard, getVoteModalNames, Kinds
<1>3. ASSUME NEW p \in Proposals, CastVoteButton(p) \/ SupportButton(p)
      PROVE  \E k \in Kinds : openModal(k, p)
  BY <1>3 DEF CastVoteButton, SupportButton, getVoteModalNames, Kinds
<1> QED
  BY <1>1, <1>2, <1>3 DEF Open, getProposalAction

\* Opening a dialog from any page keeps the invariant.
LEMMA OpenersStep == ModalsInv /\ Open => ModalsInv'
BY OpenersOpen, OpenStep

\* Answers keep the invariant, whichever dialog is mounted when they arrive.
LEMMA AnswerStep ==
    ASSUME ModalsInv, NEW r \in pending, handleSuccess(r) \/ handleError(r)
    PROVE  ModalsInv'
<1>1. CASE handleSuccess(r) /\ Listening(r)
  BY <1>1, CloseStep DEF handleSuccess
<1>2. CASE form' = form /\ pending' = pending \ {r}
           /\ UNCHANGED <<wallet, queries, kind, opened, role>>
  BY <1>2 DEF ModalsInv, ModalsTypeOK, VotesAreWhole, PairedConsensus,
     NoDoubleSubmission, Listening, queries
<1>3. CASE handleError(r) /\ Listening(r)
  <2>1. /\ form' \in Forms /\ form'.dist = form.dist
        /\ form'.sel = form.sel /\ form'.cr = form.cr
    BY <1>3 DEF handleError, ModalsInv, ModalsTypeOK, Forms
  <2>2. \A s \in pending' : s \in pending /\ s.id # opened
    BY <1>3 DEF handleError, ModalsInv, NoDoubleSubmission, Listening
  <2> QED
    BY <1>3, <2>1, <2>2 DEF handleError, ModalsInv, ModalsTypeOK, VotesAreWhole,
       PairedConsensus, NoDoubleSubmission, Listening, queries
<1> QED
  BY <1>1, <1>2, <1>3 DEF handleSuccess, handleError

\* The wallet and the queries keep the invariant.
LEMMA EnvironmentStep == ModalsInv /\ Environment => ModalsInv'
<1> SUFFICES ASSUME ModalsInv, Environment PROVE ModalsInv'
  OBVIOUS
<1>t. /\ wallet \in Wallets \cup {NoWallet} /\ accounts \in {"loading", "failed", "known"}
      /\ summaries \subseteq Wallets /\ listed \subseteq Wallets
      /\ role \in {"staker", "validator", "both"}
  BY DEF ModalsInv, ModalsTypeOK
<1>k. ASSUME NEW w, NEW chain, NEW known, KeepRole(w, chain, known)
      PROVE  role' \in {"staker", "validator", "both"}
  BY <1>t, <1>k, RoleIsARole DEF KeepRole
<1>1. ASSUME NEW w \in Wallets \cup {NoWallet}, SwitchWallet(w)
      PROVE  ModalsInv'
  BY <1>1, <1>t, <1>k, QueryStep DEF SwitchWallet, queries
<1>2. CASE SummaryArrives
  BY <1>2, <1>t, <1>k, QueryStep DEF SummaryArrives
<1>3. CASE StakeAccountsArrive
  BY <1>3, <1>t, QueryStep DEF StakeAccountsArrive
<1>4. ASSUME NEW result \in {"known", "failed"}, VoteAccountsArrive(result)
      PROVE  ModalsInv'
  BY <1>4, <1>t, <1>k, QueryStep DEF VoteAccountsArrive
<1> QED
  BY <1>1, <1>2, <1>3, <1>4 DEF Environment

\* Every step of the dialogs preserves the invariant.
LEMMA ModalsNext == ModalsInv /\ [Next]_vars => ModalsInv'
<1> SUFFICES ASSUME ModalsInv, [Next]_vars PROVE ModalsInv'
  OBVIOUS
<1>1. CASE Dismiss
  BY <1>1, CloseStep DEF Dismiss
<1>2. CASE UNCHANGED vars
  BY <1>2 DEF vars, ModalsInv, ModalsTypeOK, VotesAreWhole, PairedConsensus,
     NoDoubleSubmission, Listening
<1> QED
  BY <1>1, <1>2, OpenersStep, FillStep, SubmitStep, AnswerStep, EnvironmentStep DEF Next

\* ModalsInv holds in every reachable state of the dialogs.
THEOREM ModalsInvHolds == Spec => []ModalsInv
BY ModalsInit, ModalsNext, PTL DEF Spec

\* Whatever is typed, clicked, refetched or switched, in any order, a vote that
\* is handed to the program adds up to exactly the whole.
THEOREM VotesAddUp == Spec => []VotesAreWhole
<1>1. ModalsInv => VotesAreWhole
  BY DEF ModalsInv
<1> QED
  BY <1>1, ModalsInvHolds, PTL

\* A vote always names the consensus result of its own proposal.
THEOREM ConsensusIsPaired == Spec => []PairedConsensus
<1>1. ModalsInv => PairedConsensus
  BY DEF ModalsInv
<1> QED
  BY <1>1, ModalsInvHolds, PTL

\* No dialog has two unanswered requests.
THEOREM SubmittedOnce == Spec => []NoDoubleSubmission
<1>1. ModalsInv => NoDoubleSubmission
  BY DEF ModalsInv
<1> QED
  BY <1>1, ModalsInvHolds, PTL

\* Every variable of the dialogs keeps its type.
THEOREM ModalsTyped == Spec => []ModalsTypeOK
<1>1. ModalsInv => ModalsTypeOK
  BY DEF ModalsInv
<1> QED
  BY <1>1, ModalsInvHolds, PTL

\* The answer to a request of a dialog that was closed neither closes nor
\* changes the dialog that is open when it arrives.
THEOREM LateAnswersAreHarmless == Spec => LateAnswersTouchNothing
<1>1. ASSUME [Next]_vars, NEW r \in pending, r \notin pending', r.id # opened
      PROVE  UNCHANGED <<kind, form>>
  <2>1. ASSUME Open \/ Dismiss \/ Fill \/ Environment \/ UNCHANGED vars
        PROVE  pending' = pending
    <3>1. CASE Open
      BY <3>1, OpenersOpen DEF openModal
    <3>2. CASE Dismiss
      BY <3>2 DEF Dismiss
    <3>3. CASE Fill
      BY <3>3 DEF Fill, handleProposalChange, TypeProposalId, TypeProposalText,
         SelectStakeAccount, OverridesRefetched, handleOptionChange, handleQuickSelect,
         ConfirmValidatorOverride
    <3>4. CASE Environment
      BY <3>4 DEF Environment, SwitchWallet, SummaryArrives, StakeAccountsArrive,
         VoteAccountsArrive
    <3> QED
      BY <2>1, <3>1, <3>2, <3>3, <3>4 DEF vars
  <2>2. ASSUME handleSubmit PROVE pending \subseteq pending'
    BY <2>2 DEF handleSubmit, CreateProposalModal, SupportProposalModal, CastVoteModal,
       ModifyVoteModal, OverrideVoteModal, ModifyOverrideVoteModal, Send, Return
  <2>3. handleSuccess(r) \/ handleError(r)
    BY <1>1, <2>1, <2>2 DEF Next, handleSuccess, handleError
  <2> QED
    BY <1>1, <2>3 DEF handleSuccess, handleError, Listening
<1>2. [Next]_vars =>
        \A r \in pending :
            r \notin pending' /\ r.id # opened => UNCHANGED <<kind, form>>
  BY <1>1
<1> QED
  BY <1>2, PTL DEF Spec, LateAnswersTouchNothing

-----------------------------------------------------------------------------
(* Loading flags and roles.                                                *)

\* A step that leaves the dialog, its loading flag and the requests alone keeps
\* the account.
LEMMA StillUnderWay ==
    ASSUME LoadingIsAccountedFor, UNCHANGED <<kind, opened, pending>>,
           form'.loading = form.loading
    PROVE  LoadingIsAccountedFor'
BY DEF LoadingIsAccountedFor, Listening

\* Filling in a dialog leaves its loading flag and its requests alone.
LEMMA FillLeavesLoading ==
    ModalsInv /\ Fill =>
        UNCHANGED <<kind, opened, pending, role, wallet, queries>>
            /\ form'.loading = form.loading
<1> SUFFICES ASSUME ModalsInv, Fill
             PROVE  UNCHANGED <<kind, opened, pending, role, wallet, queries>>
                    /\ form'.loading = form.loading
  OBVIOUS
<1>1. form \in Forms
  BY DEF ModalsInv, ModalsTypeOK
<1>2. UNCHANGED <<kind, opened, pending, role, wallet, queries>>
  BY DEF Fill, handleProposalChange, TypeProposalId, TypeProposalText,
     SelectStakeAccount, OverridesRefetched, handleOptionChange, handleQuickSelect,
     ConfirmValidatorOverride
<1>3. form'.loading = form.loading
  BY <1>1 DEF Fill, handleProposalChange, TypeProposalId, TypeProposalText,
     SelectStakeAccount, OverridesRefetched, handleOptionChange, handleQuickSelect,
     ConfirmValidatorOverride, Forms
<1> QED
  BY <1>2, <1>3

\* The wallet and the queries leave the dialog's form and requests alone.
LEMMA EnvironmentLeavesTheDialog ==
    Environment => UNCHANGED <<kind, opened, form, pending>>
BY DEF Environment, SwitchWallet, SummaryArrives, StakeAccountsArrive,
   VoteAccountsArrive

\* An answer either is of another dialog, or ends the loading of this one, whose
\* only request it was.
LEMMA AnswerKeepsLoading ==
    ASSUME ModalsInv, LoadingIsAccountedFor, NEW r \in pending,
           handleSuccess(r) \/ handleError(r)
    PROVE  LoadingIsAccountedFor'
<1>1. CASE handleSuccess(r) /\ Listening(r)
  BY <1>1 DEF handleSuccess, closeModal, LoadingIsAccountedFor
<1>2. CASE handleError(r) /\ Listening(r)
  BY <1>2 DEF handleError, LoadingIsAccountedFor, ModalsInv, ModalsTypeOK, Forms
<1>3. CASE ~ Listening(r)
  <2>1. form' = form /\ UNCHANGED <<kind, opened>> /\ pending' = pending \ {r}
    BY <1>3 DEF handleSuccess, handleError
  <2>2. \A s \in pending : Listening(s) => s \in pending' /\ Listening(s)'
    BY <1>3, <2>1 DEF Listening
  <2> QED
    BY <2>1, <2>2 DEF LoadingIsAccountedFor
<1> QED
  BY <1>1, <1>2, <1>3

\* The override, support and create dialogs leave their submission either with a
\* request or with the flag cleared.
LEMMA SubmitKeepsLoading ==
    ASSUME ModalsInv, LoadingIsAccountedFor, handleSubmit
    PROVE  LoadingIsAccountedFor'
<1>1. form \in Forms /\ UNCHANGED <<kind, opened>> /\ kind # "none"
  BY DEF ModalsInv, ModalsTypeOK, handleSubmit, CreateProposalModal,
     SupportProposalModal, CastVoteModal, ModifyVoteModal, OverrideVoteModal,
     ModifyOverrideVoteModal, Submission
<1>2. CASE Send
  <2>1. Request \in pending' /\ Request.id = opened
    BY <1>2 DEF Send, Request
  <2> QED
    BY <1>1, <2>1 DEF LoadingIsAccountedFor, Listening
<1>3. CASE Return(FALSE)
  BY <1>1, <1>3 DEF Return, Forms, LoadingIsAccountedFor
<1>4. CASE kind \notin {"override-vote", "support-proposal", "create-proposal"}
  BY <1>1, <1>4 DEF LoadingIsAccountedFor
<1>5. Send \/ Return(FALSE)
      \/ kind \notin {"override-vote", "support-proposal", "create-proposal"}
  BY DEF handleSubmit, CreateProposalModal, SupportProposalModal, CastVoteModal,
     ModifyVoteModal, OverrideVoteModal, ModifyOverrideVoteModal, Submission
<1> QED
  BY <1>2, <1>3, <1>4, <1>5

\* Every step keeps the account of the loading flags.
LEMMA LoadingStep ==
    ModalsInv /\ LoadingIsAccountedFor /\ [Next]_vars => LoadingIsAccountedFor'
<1> SUFFICES ASSUME ModalsInv, LoadingIsAccountedFor, [Next]_vars
             PROVE  LoadingIsAccountedFor'
  OBVIOUS
<1>1. CASE Open
  BY <1>1, OpenersOpen DEF openModal, EmptyForm, LoadingIsAccountedFor
<1>2. CASE Dismiss
  BY <1>2 DEF Dismiss, closeModal, LoadingIsAccountedFor
<1>3. CASE Fill
  BY <1>3, FillLeavesLoading, StillUnderWay
<1>4. CASE handleSubmit
  BY <1>4, SubmitKeepsLoading
<1>5. CASE \E r \in pending : handleSuccess(r) \/ handleError(r)
  BY <1>5, AnswerKeepsLoading
<1>6. CASE Environment
  BY <1>6, EnvironmentLeavesTheDialog, StillUnderWay
<1>7. CASE UNCHANGED vars
  BY <1>7, StillUnderWay DEF vars
<1> QED
  BY <1>1, <1>2, <1>3, <1>4, <1>5, <1>6, <1>7 DEF Next

\* The override, support and create dialogs are never stuck in "loading": on
\* every path through their handlers the flag is on only while the request of
\* the mounted dialog is unanswered.
THEOREM LoadingIsAlwaysAccountedFor == Spec => []LoadingIsAccountedFor
<1>1. Init => LoadingIsAccountedFor
  BY DEF Init, LoadingIsAccountedFor
<1> QED
  BY <1>1, ModalsInvHolds, LoadingStep, PTL DEF Spec

\* What the role of a mounted dialog says once the wallet's summary is there:
\* a validator's role belongs to a wallet with a vote account, unless the vote
\* accounts are still being fetched.
RoleIsOfTheWallet ==
    kind # "none" /\ role \in {"validator", "both"} /\ wallet \in summaries
        => hasOnChainValidatorIdentity(wallet) \/ isLoadingChainVoteAccount(wallet)

\* useWalletRole's answer, once the summary and the vote accounts are there, is
\* a validator's for the identities of vote accounts only.
LEMMA RoleTellsIdentity ==
    ASSUME NEW w, NEW chain, NEW known, NEW before, w \in known, chain # "loading",
           RoleFor(w, chain, known, before) \in {"validator", "both"}
    PROVE  w \in Validators /\ chain = "known"
BY DEF RoleFor, determineWalletRole

\* The role follows wallet and queries.
LEMMA RoleStep ==
    ModalsInv /\ RoleIsOfTheWallet /\ [Next]_vars => RoleIsOfTheWallet'
<1> SUFFICES ASSUME ModalsInv, RoleIsOfTheWallet, [Next]_vars
             PROVE  RoleIsOfTheWallet'
  OBVIOUS
<1>t. wallet \in Wallets \cup {NoWallet} /\ summaries \subseteq Wallets
      /\ NoWallet \notin Wallets
  BY ModalsAssumption DEF ModalsInv, ModalsTypeOK
<1>u. ASSUME UNCHANGED <<wallet, accounts, summaries, kind, role>>
      PROVE  RoleIsOfTheWallet'
  BY <1>u DEF RoleIsOfTheWallet, hasOnChainValidatorIdentity, isLoadingChainVoteAccount
<1>r. ASSUME NEW before, role' = RoleFor(wallet', accounts', summaries', before),
             summaries' \subseteq Wallets
      PROVE  RoleIsOfTheWallet'
  BY <1>r, <1>t, RoleTellsIdentity
     DEF RoleIsOfTheWallet, hasOnChainValidatorIdentity, isLoadingChainVoteAccount
<1>n. ASSUME kind' = "none" PROVE RoleIsOfTheWallet'
  BY <1>n DEF RoleIsOfTheWallet
<1>1. CASE Open
  <2>1. PICK k \in Kinds, p \in Proposals \cup {NoProposal} : openModal(k, p)
    BY <1>1, OpenersOpen
  <2>2. role' = RoleFor(wallet', accounts', summaries', "staker")
        /\ summaries' = summaries
    BY <2>1 DEF openModal, queries
  <2> QED
    BY <2>2, <1>r, <1>t
<1>2. CASE Dismiss
  BY <1>2, <1>n DEF Dismiss, closeModal
<1>3. CASE Fill
  BY <1>3, <1>u, FillLeavesLoading DEF queries
<1>4. CASE handleSubmit
  BY <1>4, <1>u DEF queries, handleSubmit, CreateProposalModal, SupportProposalModal,
     CastVoteModal, ModifyVoteModal, OverrideVoteModal, ModifyOverrideVoteModal,
     Submission
<1>5. CASE \E r \in pending : handleSuccess(r) \/ handleError(r)
  <2>1. UNCHANGED <<wallet, queries>>
        /\ (kind' = "none" \/ UNCHANGED <<kind, role>>)
    BY <1>5 DEF handleSuccess, handleError, closeModal
  <2> QED
    BY <2>1, <1>u, <1>n DEF queries
<1>6. CASE Environment
  <2>1. ASSUME NEW w, NEW chain, NEW known, KeepRole(w, chain, known),
               wallet' = w, accounts' = chain, summaries' = known, kind' = kind,
               summaries' \subseteq Wallets
        PROVE  RoleIsOfTheWallet'
    <3>1. CASE kind = "none"
      BY <2>1, <3>1, <1>n
    <3>2. CASE kind # "none"
      BY <2>1, <3>2, <1>r DEF KeepRole
    <3> QED
      BY <3>1, <3>2
  <2>2. CASE \E w \in Wallets \cup {NoWallet} : SwitchWallet(w)
    BY <2>2, <2>1, <1>t DEF SwitchWallet, queries
  <2>3. CASE SummaryArrives
    <3>1. KeepRole(wallet, accounts, summaries \cup {wallet})
          /\ summaries' = summaries \cup {wallet} /\ wallet \in Wallets
          /\ UNCHANGED <<wallet, accounts, kind>>
      BY <2>3 DEF SummaryArrives, KeepRole
    <3> QED
      BY <3>1, <2>1, <1>t
  <2>4. CASE StakeAccountsArrive
    BY <2>4, <1>u DEF StakeAccountsArrive
  <2>5. ASSUME NEW result \in {"known", "failed"}, VoteAccountsArrive(result)
        PROVE  RoleIsOfTheWallet'
    BY <2>5, <2>1, <1>t DEF VoteAccountsArrive
  <2> QED
    BY <1>6, <2>2, <2>3, <2>4, <2>5 DEF Environment
<1>7. CASE UNCHANGED vars
  BY <1>7, <1>u DEF vars, queries
<1> QED
  BY <1>1, <1>2, <1>3, <1>4, <1>5, <1>6, <1>7 DEF Next

\* A validator's vote is handed over only for a wallet with a vote account,
\* once the wallet's summary has arrived: whatever wallets the user switches
\* between while the dialog is open, and however late the queries answer.
THEOREM StakersAreAlwaysTurnedAway == Spec => [][StakersAreTurnedAway]_vars
<1>1. Init => RoleIsOfTheWallet
  BY DEF Init, RoleIsOfTheWallet
<1>2. RoleIsOfTheWallet /\ [Next]_vars => [StakersAreTurnedAway]_vars
  <2> SUFFICES ASSUME RoleIsOfTheWallet, Next
               PROVE  StakersAreTurnedAway
    BY DEF vars
  <2>1. CASE handleSubmit
    <3>1. ASSUME NEW r \in pending' \ pending, r.kind \in ValidatorKinds
          PROVE  r = Request /\ kind \in ValidatorKinds
      BY <2>1, <3>1 DEF handleSubmit, CreateProposalModal, SupportProposalModal,
         CastVoteModal, ModifyVoteModal, OverrideVoteModal, ModifyOverrideVoteModal,
         Submission, Send, Return, Request
    <3>2. kind \in ValidatorKinds /\ pending' # pending => role \in {"validator", "both"}
      BY <2>1 DEF handleSubmit, CreateProposalModal, SupportProposalModal,
         CastVoteModal, ModifyVoteModal, OverrideVoteModal, ModifyOverrideVoteModal,
         Submission, Return, ValidatorKinds
    <3>3. Request.wallet = wallet
      BY DEF Request
    <3> QED
      BY <3>1, <3>2, <3>3 DEF StakersAreTurnedAway, RoleIsOfTheWallet, ValidatorKinds
  <2>2. ASSUME Open \/ Dismiss \/ Fill \/ Environment
               \/ \E r \in pending : handleSuccess(r) \/ handleError(r)
        PROVE  pending' \subseteq pending
    <3>1. CASE Open
      BY <3>1, OpenersOpen DEF openModal
    <3>2. CASE Dismiss
      BY <3>2 DEF Dismiss
    <3>3. CASE Fill
      BY <3>3 DEF Fill, handleProposalChange, TypeProposalId, TypeProposalText,
         SelectStakeAccount, OverridesRefetched, handleOptionChange, handleQuickSelect,
         ConfirmValidatorOverride
    <3>4. CASE Environment
      BY <3>4, EnvironmentLeavesTheDialog
    <3>5. CASE \E r \in pending : handleSuccess(r) \/ handleError(r)
      BY <3>5 DEF handleSuccess, handleError
    <3> QED
      BY <2>2, <3>1, <3>2, <3>3, <3>4, <3>5
  <2> QED
    BY <2>1, <2>2 DEF Next, StakersAreTurnedAway
<1> QED
  BY <1>1, <1>2, ModalsInvHolds, RoleStep, PTL DEF Spec

-----------------------------------------------------------------------------
(***************************************************************************)
(* The documents behind links (ProposalDocuments), for any links, listings *)
(* and pushes, any storage, and however GitHub fails.                      *)
(***************************************************************************)
CONSTANTS Links, KindOf, History, Docs, TitleOf, FileRef, CacheTtl, NegativeTtl, MaxEntries,
          MaxPages, Unset, None, MaxTime, MaxReloads
VARIABLES clock, reloads, head, limited, storage, query, run, open, answered

Documents == INSTANCE ProposalDocuments

\* Files of a pull request as it was after a push.
PageOf(l, c, i) == IF i <= Len(History[l][c]) THEN History[l][c][i] ELSE {}
FilesOf(l, c) == UNION {History[l][c][i] : i \in DOMAIN History[l][c]}

\* Files with the commit and the page they were listed for.
Marked(S, sha, page) ==
    {[path |-> f.path, status |-> f.status, proposal |-> f.proposal, sha |-> sha, page |-> page] :
        f \in S}

SameFile(f, g) == f.path = g.path /\ f.status = g.status /\ f.proposal = g.proposal

\* What n pages have listed: each file is of a commit a page was listed for, and
\* each of the pages is there, as of one of those commits.
Listed(l, files, heads, n) ==
    /\ IsFiniteSet(files)
    /\ \A f \in files : f.sha \in heads /\ \E g \in FilesOf(l, f.sha) : SameFile(f, g)
    /\ \A i \in 1 .. n : \E c \in heads : \A g \in PageOf(l, c, i) : \E f \in files : SameFile(f, g)

\* The file picked is a proposal of its commit, and its subject if only that commit
\* was listed, and completely.
Subject(l, path, sha, heads) ==
    /\ sha \in heads
    /\ path \in DOMAIN Docs
    /\ path \in {f.path : f \in Documents!Candidates(FilesOf(l, sha))}
    /\ Cardinality(heads) = 1 /\ Len(History[l][sha]) <= MaxPages =>
          {f.path : f \in Documents!Contenders(FilesOf(l, sha))} = {path}

Pushes(l) == 1 .. Len(History[l])

\* A record with the fields of a request.
IsRequest(r) ==
    DOMAIN r = {"stage", "page", "files", "heads", "pick", "failures", "refusals"}

\* A request in progress.
RunInv(l) ==
    LET r == run[l]
    IN /\ l \in open /\ IsRequest(r)
       /\ r.refusals = 0 /\ r.failures \in 0 .. 2
       /\ KindOf[l] = "pull" =>
             /\ r.heads \subseteq Pushes(l) /\ r.stage \in {"list", "raw"}
             /\ r.stage = "list" => r.page \in 1 .. MaxPages /\ Listed(l, r.files, r.heads, r.page - 1)
             /\ r.stage = "raw" => Subject(l, r.pick.path, r.pick.sha, r.heads)
       /\ KindOf[l] # "pull" => r.stage = "raw" /\ r.heads = {}

\* An answer: a document as it was parsed, of the right file; or none.
Sound(l, data) ==
    \/ data = None
    \/ /\ data \in Documents!Answers
       /\ Docs[data.path].front # None => data.ref = Docs[data.path].front
       /\ KindOf[l] = "pull" => data.heads \subseteq Pushes(l)
                                /\ Subject(l, data.path, data.sha, data.heads)

\* Links answered no earlier than this one.
Since(l) == {m \in Links \ {l} : answered[m].data # Unset /\ answered[m].at >= answered[l].at}

\* What memory and storage hold is the last answer; what storage dropped made room
\* for as many later ones as it holds.
CachesInv(l) ==
    /\ answered[l].data # Unset => answered[l].at \in 0 .. clock /\ Sound(l, answered[l].data)
    /\ query[l].data # Unset => query[l] = answered[l]
    /\ l \in DOMAIN storage => storage[l] = answered[l] /\ answered[l].data # Unset
    /\ answered[l].data # Unset /\ l \notin DOMAIN storage => Cardinality(Since(l)) >= MaxEntries

\* A page that shows nothing found nothing good in storage.
Exhausted(l) ==
    l \in open /\ query[l].data = Unset /\ l \in DOMAIN storage =>
        clock - storage[l].at >= Documents!Ttl(storage[l].data)

DocumentsInv ==
    /\ clock \in 0 .. MaxTime /\ reloads \in 0 .. MaxReloads /\ limited \in BOOLEAN
    /\ open \subseteq Links
    /\ DOMAIN head = Links /\ \A l \in Links : head[l] \in 0 .. Len(History[l])
    /\ DOMAIN run = Links /\ DOMAIN query = Links /\ DOMAIN answered = Links
    /\ DOMAIN storage \subseteq Links /\ Cardinality(DOMAIN storage) <= MaxEntries
    /\ \A l \in Links : (run[l] # None => RunInv(l)) /\ CachesInv(l) /\ Exhausted(l)

\* What the instance takes from FiniteSets is what is used here.
LEMMA SameSizes ==
    ASSUME NEW S
    PROVE  /\ Documents!Cardinality(S) = Cardinality(S)
           /\ Documents!IsFiniteSet(S) <=> IsFiniteSet(S)
<1>1. Documents!Cardinality(S) = Cardinality(S)
  BY DEF Documents!Cardinality, Cardinality
<1>2. Documents!IsFiniteSet(S) <=> IsFiniteSet(S)
  BY DEF Documents!IsFiniteSet, IsFiniteSet
<1>3. QED
  BY <1>1, <1>2

\* Finitely many files stay finitely many, and the same files.
LEMMA FinitelyMany ==
    ASSUME NEW S, IsFiniteSet(S), NEW sha, NEW page
    PROVE  /\ IsFiniteSet(Marked(S, sha, page))
           /\ \A f \in Marked(S, sha, page) : f.sha = sha /\ \E g \in S : SameFile(f, g)
           /\ \A g \in S : \E f \in Marked(S, sha, page) : SameFile(f, g)
<1> DEFINE g == [f \in S |-> [path |-> f.path, status |-> f.status, proposal |-> f.proposal,
                              sha |-> sha, page |-> page]]
<1>1. g \in Surjection(S, Marked(S, sha, page))
  BY DEF Surjection, Marked
<1>2. \A f \in Marked(S, sha, page) : f.sha = sha /\ \E h \in S : SameFile(f, h)
  BY DEF Marked, SameFile
<1>3. ASSUME NEW h \in S
      PROVE  \E f \in Marked(S, sha, page) : SameFile(f, h)
  <2> DEFINE f == [path |-> h.path, status |-> h.status, proposal |-> h.proposal,
                   sha |-> sha, page |-> page]
  <2>1. f \in Marked(S, sha, page)
    BY DEF Marked
  <2>2. SameFile(f, h)
    BY DEF SameFile
  <2>3. QED
    BY <2>1, <2>2
<1>4. QED
  BY <1>1, <1>2, <1>3, FS_Surjection

\* A request begins.
LEMMA RunBegins ==
    ASSUME Documents!DocumentsAssumption, NEW l \in Links, NEW n \in 0 .. 2, l \in open',
           run'[l] = Documents!NewRun(l, n)
    PROVE  RunInv(l)'
<1>1. Listed(l, {}, {}, 0)
  BY FS_EmptySet DEF Listed
<1>2. /\ run'[l].refusals = 0 /\ run'[l].failures = n /\ run'[l].heads = {} /\ run'[l].files = {}
      /\ run'[l].page = 1
      /\ run'[l].stage = IF KindOf[l] = "pull" THEN "list" ELSE "raw"
  BY DEF Documents!NewRun
<1>3. 1 \in 1 .. MaxPages /\ 1 - 1 = 0
  BY DEF Documents!DocumentsAssumption
<1>4. IsRequest(run'[l])
  BY DEF Documents!NewRun, IsRequest
<1>5. QED
  BY <1>1, <1>2, <1>3, <1>4 DEF RunInv

\* The one contender is the subject of a commit that was listed alone and completely.
LEMMA PickIsTheSubject ==
    ASSUME Documents!DocumentsAssumption, NEW l \in Links, KindOf[l] = "pull",
           NEW files, NEW heads \in SUBSET Pushes(l), NEW n \in Nat, Listed(l, files, heads, n),
           NEW last \in heads, n >= Len(History[l][last]) \/ n >= MaxPages,
           Documents!pickProposalFile(files) # None
    PROVE  LET picked == Documents!pickProposalFile(files)
           IN Subject(l, picked.path, picked.sha, heads)
<1> DEFINE picked == Documents!pickProposalFile(files)
<1>1. Documents!Contenders(files) = {picked}
  <2>1. Documents!Contenders(files) \subseteq files
    BY DEF Documents!Contenders, Documents!Candidates
  <2>2. IsFiniteSet(Documents!Contenders(files))
    BY <2>1, FS_Subset DEF Listed
  <2>3. Documents!Cardinality(Documents!Contenders(files)) = 1
    BY DEF Documents!pickProposalFile
  <2>4. PICK x : Documents!Contenders(files) = {x}
    BY <2>2, <2>3, SameSizes, FS_Singleton
  <2>5. picked = CHOOSE f \in Documents!Contenders(files) : TRUE
    BY <2>3 DEF Documents!pickProposalFile
  <2>6. QED
    BY <2>4, <2>5
<1> HIDE DEF picked
<1>2. picked \in files /\ picked \in Documents!Candidates(files)
  BY <1>1 DEF Documents!Contenders, Documents!Candidates
<1>3. picked.sha \in heads /\ \E g \in FilesOf(l, picked.sha) : SameFile(picked, g)
  BY <1>2 DEF Listed
<1>4. PICK g \in FilesOf(l, picked.sha) : SameFile(picked, g)
  BY <1>3
<1>5. g \in Documents!Candidates(FilesOf(l, picked.sha)) /\ g.path = picked.path /\ g.proposal
  BY <1>2, <1>4 DEF SameFile, Documents!Candidates
<1>6. picked.path \in DOMAIN Docs
  <2>1. Documents!IsListing(History[l][picked.sha])
    BY <1>3 DEF Pushes, Documents!DocumentsAssumption
  <2>2. QED
    BY <1>4, <1>5, <2>1 DEF FilesOf, Documents!IsListing
<1>7. ASSUME Cardinality(heads) = 1, Len(History[l][picked.sha]) <= MaxPages
      PROVE  {f.path : f \in Documents!Contenders(FilesOf(l, picked.sha))} = {picked.path}
  <2> DEFINE c == picked.sha
  <2>1. heads = {c} /\ last = c
    <3>1. IsFiniteSet(heads)
      <4>1. Len(History[l]) \in Int
        BY DEF Documents!DocumentsAssumption
      <4>2. IsFiniteSet(Pushes(l))
        BY <4>1, FS_Interval DEF Pushes
      <4>3. QED
        BY <4>2, FS_Subset
    <3>2. PICK x : heads = {x}
      BY <1>7, <3>1, FS_Singleton
    <3>3. QED
      BY <1>3, <3>2
  <2>2. Documents!IsListing(History[l][c])
    BY <1>3 DEF Pushes, Documents!DocumentsAssumption
  <2>3. Len(History[l][c]) <= n
    BY <1>7, <2>1, <2>2 DEF Documents!IsListing, Documents!DocumentsAssumption
  <2> HIDE DEF c
  <2>4. ASSUME NEW h \in FilesOf(l, c)
        PROVE  \E f \in files : SameFile(f, h)
    <3>1. PICK i \in DOMAIN History[l][c] : h \in History[l][c][i]
      BY DEF FilesOf
    <3>2. i \in 1 .. Len(History[l][c]) /\ Len(History[l][c]) \in Nat
      BY <2>2, <3>1 DEF Documents!IsListing
    <3>3. i \in 1 .. n /\ PageOf(l, c, i) = History[l][c][i]
      BY <2>3, <3>2 DEF PageOf
    <3>4. \A h2 \in PageOf(l, c, i) : \E f \in files : SameFile(f, h2)
      BY <2>1, <3>3 DEF Listed
    <3>5. QED
      BY <3>1, <3>3, <3>4
  <2>5. ASSUME NEW f \in files
        PROVE  \E h \in FilesOf(l, c) : SameFile(f, h)
    BY <2>1 DEF Listed
  <2>6. ASSUME NEW h \in Documents!Contenders(FilesOf(l, c))
        PROVE  h.path = picked.path
    <3>1. h \in FilesOf(l, c) /\ h \in Documents!Candidates(FilesOf(l, c))
      BY DEF Documents!Contenders, Documents!Candidates
    <3>2. PICK f \in files : SameFile(f, h)
      BY <2>4, <3>1
    <3>3. f \in Documents!Candidates(files)
      BY <3>1, <3>2 DEF SameFile, Documents!Candidates
    <3>4. f \in Documents!Contenders(files)
      <4>1. CASE h.status = "added"
        BY <3>2, <3>3, <4>1 DEF SameFile, Documents!Contenders
      <4>2. CASE h.status # "added"
        <5>1. {k \in Documents!Candidates(FilesOf(l, c)) : k.status = "added"} = {}
          BY <4>2 DEF Documents!Contenders
        <5>2. {k \in Documents!Candidates(files) : k.status = "added"} = {}
          BY <2>5, <5>1 DEF SameFile, Documents!Candidates
        <5>3. QED
          BY <3>3, <5>2 DEF Documents!Contenders
      <4>3. QED
        BY <4>1, <4>2
    <3>5. QED
      BY <1>1, <3>2, <3>4 DEF SameFile
  <2>7. g \in Documents!Contenders(FilesOf(l, c))
    <3>1. g \in Documents!Candidates(FilesOf(l, c)) /\ SameFile(picked, g)
      BY <1>4, <1>5 DEF c
    <3>2. CASE g.status = "added"
      BY <3>1, <3>2 DEF Documents!Contenders
    <3>3. CASE g.status # "added"
      <4>1. picked.status # "added"
        BY <3>1, <3>3 DEF SameFile
      <4>2. {k \in Documents!Candidates(files) : k.status = "added"} = {}
        BY <1>1, <4>1 DEF Documents!Contenders
      <4>3. {k \in Documents!Candidates(FilesOf(l, c)) : k.status = "added"} = {}
        BY <2>4, <4>2 DEF SameFile, Documents!Candidates
      <4>4. QED
        BY <3>1, <4>3 DEF Documents!Contenders
    <3>4. QED
      BY <3>2, <3>3
  <2>8. QED
    BY <1>5, <2>6, <2>7 DEF c
<1>8. QED
  BY <1>3, <1>5, <1>6, <1>7 DEF Subject, picked

\* Nothing but requests, open pages or the clock moves: what caches hold stays right.
LEMMA CachesStay ==
    ASSUME NEW l \in Links, CachesInv(l), UNCHANGED <<storage, answered>>,
           query'[l] \in {query[l], answered[l]} \/ query'[l].data = Unset,
           clock' \in {clock, clock + 1}, clock \in Nat
    PROVE  CachesInv(l)'
<1>1. Since(l)' = Since(l)
  BY DEF Since
<1>2. answered[l].data # Unset => Sound(l, answered[l].data) /\ answered[l].at \in 0 .. clock'
  BY DEF CachesInv
<1>3. query'[l].data # Unset => query'[l] = answered'[l]
  BY DEF CachesInv
<1>4. QED
  BY <1>1, <1>2, <1>3 DEF CachesInv

\* What is kept of a cache: all of it, or as many entries as storage holds, none of
\* them older than one that goes.
LEMMA OldestGo ==
    ASSUME Documents!DocumentsAssumption, NEW cache, IsFiniteSet(DOMAIN cache),
           NEW kept \in Documents!evictOldest(cache)
    PROVE  /\ DOMAIN kept \subseteq DOMAIN cache /\ Cardinality(DOMAIN kept) <= MaxEntries
           /\ \A l \in DOMAIN kept : kept[l] = cache[l]
           /\ \A l \in DOMAIN cache \ DOMAIN kept :
                 /\ Cardinality(DOMAIN kept) = MaxEntries
                 /\ \A m \in DOMAIN kept : kept[m].at >= cache[l].at
<1> DEFINE n == Cardinality(DOMAIN cache)
           least == Documents!Min({MaxEntries, n})
<1>1. n \in Nat /\ MaxEntries \in Nat
  BY FS_CardinalityType DEF Documents!DocumentsAssumption
<1>2. least = IF MaxEntries <= n THEN MaxEntries ELSE n
  <2>1. \E x \in {MaxEntries, n} : \A y \in {MaxEntries, n} : x <= y
    BY <1>1
  <2>2. least \in {MaxEntries, n} /\ \A y \in {MaxEntries, n} : least <= y
    BY <2>1 DEF Documents!Min
  <2>3. QED
    BY <1>1, <2>2
<1>3. PICK keep \in SUBSET DOMAIN cache :
         /\ kept = [l \in keep |-> cache[l]] /\ Cardinality(keep) = least
         /\ \A l \in keep, m \in DOMAIN cache \ keep : cache[l].at >= cache[m].at
  <2>1. Documents!Cardinality(DOMAIN cache) = n
    BY SameSizes
  <2>2. \A k : Documents!Cardinality(k) = Cardinality(k)
    BY SameSizes
  <2>3. QED
    BY <2>1, <2>2, Zenon DEF Documents!evictOldest
<1>4. DOMAIN kept = keep
  BY <1>3
<1>5. ASSUME NEW l \in DOMAIN cache \ keep
      PROVE  Cardinality(keep) = MaxEntries
  <2>1. CASE MaxEntries <= n
    BY <1>2, <1>3, <2>1
  <2>2. CASE ~ (MaxEntries <= n)
    <3>1. Cardinality(keep) = Cardinality(DOMAIN cache)
      BY <1>2, <1>3, <2>2
    <3>2. keep = DOMAIN cache
      BY <3>1, FS_Subset
    <3>3. QED
      BY <1>5, <3>2
  <2>3. QED
    BY <2>1, <2>2
<1>6. Cardinality(keep) <= MaxEntries
  BY <1>1, <1>2, <1>3
<1>7. QED
  BY <1>3, <1>4, <1>5, <1>6

\* An answer arrives and goes to memory and storage.
LEMMA AnswerIsKept ==
    ASSUME Documents!DocumentsAssumption, DocumentsInv, NEW l \in Links, NEW data,
           Sound(l, data), Documents!Answer(l, data),
           UNCHANGED <<clock, reloads, head, limited, open>>
    PROVE  DocumentsInv'
<1> DEFINE entry == [data |-> data, at |-> clock]
           cache == [m \in DOMAIN storage \cup {l} |-> IF m = l THEN entry ELSE storage[m]]
<1>0. /\ run' = [run EXCEPT ![l] = None] /\ query' = [query EXCEPT ![l] = entry]
      /\ answered' = [answered EXCEPT ![l] = entry]
      /\ storage' \in Documents!evictOldest(cache)
  BY DEF Documents!Answer, Documents!writeCache
<1>1. DOMAIN cache = DOMAIN storage \cup {l} /\ DOMAIN storage \subseteq Links
  BY DEF DocumentsInv
<1>2. IsFiniteSet(Links)
  BY SameSizes DEF Documents!DocumentsAssumption
<1>3. IsFiniteSet(DOMAIN cache)
  BY <1>1, <1>2, FS_Subset
<1>4. /\ DOMAIN storage' \subseteq DOMAIN cache /\ Cardinality(DOMAIN storage') <= MaxEntries
      /\ \A m \in DOMAIN storage' : storage'[m] = cache[m]
      /\ \A m \in DOMAIN cache \ DOMAIN storage' :
            /\ Cardinality(DOMAIN storage') = MaxEntries
            /\ \A k \in DOMAIN storage' : storage'[k].at >= cache[m].at
  <2> HIDE DEF cache
  <2>1. QED
    BY <1>0, <1>3, OldestGo
<1>5. clock \in Nat /\ data # Unset
  <2>1. clock \in Nat
    BY DEF DocumentsInv, Documents!DocumentsAssumption
  <2>2. Unset \notin Documents!Answers /\ Unset # None
    BY DEF Documents!DocumentsAssumption
  <2>3. QED
    BY <2>1, <2>2 DEF Sound
<1>6. /\ answered'[l] = entry /\ \A m \in Links \ {l} : answered'[m] = answered[m]
      /\ query'[l] = entry /\ \A m \in Links \ {l} : query'[m] = query[m]
      /\ run'[l] = None /\ \A m \in Links \ {l} : run'[m] = run[m]
      /\ DOMAIN run' = Links /\ DOMAIN query' = Links /\ DOMAIN answered' = Links
  BY <1>0 DEF DocumentsInv
<1>7. \A m \in DOMAIN storage' : storage'[m] = answered'[m] /\ answered'[m].data # Unset /\ m \in Links
  <2>1. SUFFICES ASSUME NEW m \in DOMAIN storage'
                 PROVE  storage'[m] = answered'[m] /\ answered'[m].data # Unset /\ m \in Links
    OBVIOUS
  <2>2. m \in DOMAIN storage \cup {l} /\ m \in Links /\ storage'[m] = IF m = l THEN entry ELSE storage[m]
    BY <1>1, <1>4
  <2>3. CASE m = l
    BY <1>5, <1>6, <2>2, <2>3
  <2>4. CASE m # l
    <3>1. storage[m] = answered[m] /\ answered[m].data # Unset
      BY <2>2, <2>4 DEF DocumentsInv, CachesInv
    <3>2. QED
      BY <1>6, <2>2, <2>4, <3>1
  <2>5. QED
    BY <2>3, <2>4
<1>8. ASSUME NEW m \in Links, answered'[m].data # Unset, m \notin DOMAIN storage'
      PROVE  Cardinality(Since(m)') >= MaxEntries
  <2>1. IsFiniteSet(Since(m)') /\ IsFiniteSet(Since(m))
    BY <1>2, FS_Subset DEF Since
  <2>2. CASE m \in DOMAIN cache
    <3>1. cache[m] = answered'[m]
      BY <1>1, <1>6, <2>2 DEF DocumentsInv, CachesInv
    <3>2. DOMAIN storage' \subseteq Since(m)'
      BY <1>4, <1>7, <1>8, <2>2, <3>1 DEF Since
    <3>3. Cardinality(DOMAIN storage') <= Cardinality(Since(m)')
      BY <2>1, <3>2, FS_Subset
    <3>4. Cardinality(DOMAIN storage') = MaxEntries
      BY <1>4, <1>8, <2>2
    <3>5. MaxEntries \in Nat /\ Cardinality(Since(m)') \in Nat
      BY <2>1, FS_CardinalityType DEF Documents!DocumentsAssumption
    <3>6. QED
      BY <3>3, <3>4, <3>5
  <2>3. CASE m \notin DOMAIN cache
    <3>1. m # l /\ m \notin DOMAIN storage /\ answered'[m] = answered[m]
      BY <1>1, <1>6, <2>3
    <3>2. Cardinality(Since(m)) >= MaxEntries
      BY <1>8, <3>1 DEF DocumentsInv, CachesInv
    <3>3. answered[m].at \in 0 .. clock
      BY <1>8, <3>1 DEF DocumentsInv, CachesInv
    <3>4. Since(m) \subseteq Since(m)'
      BY <1>5, <1>6, <3>1, <3>3 DEF Since
    <3>5. Cardinality(Since(m)) <= Cardinality(Since(m)')
      BY <2>1, <3>4, FS_Subset
    <3>6. /\ MaxEntries \in Nat /\ Cardinality(Since(m)') \in Nat
          /\ Cardinality(Since(m)) \in Nat
      BY <2>1, FS_CardinalityType DEF Documents!DocumentsAssumption
    <3>7. QED
      BY <3>2, <3>5, <3>6
  <2>4. QED
    BY <2>2, <2>3
<1>9. ASSUME NEW m \in Links
      PROVE  CachesInv(m)'
  <2>1. answered'[m].data # Unset => answered'[m].at \in 0 .. clock' /\ Sound(m, answered'[m].data)
    <3>1. CASE m = l
      BY <1>5, <1>6, <3>1
    <3>2. CASE m # l
      BY <1>6, <3>2 DEF DocumentsInv, CachesInv
    <3>3. QED
      BY <3>1, <3>2
  <2>2. query'[m].data # Unset => query'[m] = answered'[m]
    BY <1>6 DEF DocumentsInv, CachesInv
  <2>3. QED
    BY <1>7, <1>8, <2>1, <2>2 DEF CachesInv
<1>10. ASSUME NEW m \in Links, run'[m] # None
       PROVE  RunInv(m)'
  <2>1. m # l /\ run'[m] = run[m]
    BY <1>6, <1>10
  <2>2. RunInv(m)
    BY <1>10, <2>1 DEF DocumentsInv
  <2>3. QED
    BY <2>1, <2>2 DEF RunInv
<1>11. DOMAIN storage' \subseteq Links
  BY <1>1, <1>4
<1>12. ASSUME NEW m \in Links
       PROVE  Exhausted(m)'
  <2>1. CASE m = l
    BY <1>5, <1>6, <2>1 DEF Exhausted
  <2>2. CASE m # l
    <3>1. m \in DOMAIN storage' => m \in DOMAIN storage /\ storage'[m] = storage[m]
      BY <1>1, <1>4, <2>2
    <3>2. Exhausted(m) /\ query'[m] = query[m]
      BY <1>6, <2>2 DEF DocumentsInv
    <3>3. QED
      BY <3>1, <3>2 DEF Exhausted, Documents!Ttl
  <2>3. QED
    BY <2>1, <2>2
<1>13. QED
  BY <1>4, <1>6, <1>9, <1>10, <1>11, <1>12 DEF DocumentsInv

\* A request goes on, begins again or ends without an answer.
LEMMA RunGoesOn ==
    ASSUME Documents!DocumentsAssumption, DocumentsInv, NEW l \in Links, NEW r,
           Documents!Continue(l, r), UNCHANGED <<clock, reloads, head, limited, open>>,
           run'[l] = r /\ r # None => RunInv(l)'
    PROVE  DocumentsInv'
<1>1. /\ run'[l] = r /\ \A m \in Links \ {l} : run'[m] = run[m]
      /\ DOMAIN run' = Links /\ UNCHANGED <<query, storage, answered>>
  BY DEF Documents!Continue, DocumentsInv
<1>2. clock \in Nat
  BY DEF DocumentsInv, Documents!DocumentsAssumption
<1>3. ASSUME NEW m \in Links
      PROVE  CachesInv(m)'
  BY <1>1, <1>2, CachesStay DEF DocumentsInv
<1>4. ASSUME NEW m \in Links, run'[m] # None
      PROVE  RunInv(m)'
  <2>1. CASE m = l
    BY <1>1, <1>4, <2>1
  <2>2. CASE m # l
    <3>1. run'[m] = run[m] /\ RunInv(m)
      BY <1>1, <1>4, <2>2 DEF DocumentsInv
    <3>2. QED
      BY <3>1 DEF RunInv
  <2>3. QED
    BY <2>1, <2>2
<1>5. ASSUME NEW m \in Links
      PROVE  Exhausted(m)'
  BY <1>1 DEF DocumentsInv, Exhausted, Documents!Ttl
<1>6. QED
  BY <1>1, <1>3, <1>4, <1>5 DEF DocumentsInv

\* A failure is tried again at most twice, a refusal never.
LEMMA RunFails ==
    ASSUME Documents!DocumentsAssumption, DocumentsInv, NEW l \in Links, run[l] # None,
           NEW retryable \in BOOLEAN, Documents!Throw(l, retryable),
           UNCHANGED <<clock, reloads, head, limited, open>>
    PROVE  DocumentsInv'
<1> DEFINE again == retryable /\ run[l].failures < 2
           r == IF again THEN Documents!NewRun(l, run[l].failures + 1) ELSE None
<1>1. Documents!Continue(l, r)
  BY DEF Documents!Throw
<1>2. run[l].failures \in 0 .. 2 /\ l \in open
  BY DEF DocumentsInv, RunInv
<1>3. ASSUME run'[l] = r, r # None
      PROVE  RunInv(l)'
  <2>1. again /\ run'[l] = Documents!NewRun(l, run[l].failures + 1)
    BY <1>3
  <2>2. run[l].failures + 1 \in 0 .. 2 /\ l \in open'
    BY <1>2, <2>1
  <2>3. QED
    BY <2>1, <2>2, RunBegins
<1> HIDE DEF r
<1>4. QED
  BY <1>1, <1>3, RunGoesOn

\* A page of the listing arrives (listPullRequestFiles).
LEMMA PageArrives ==
    ASSUME Documents!DocumentsAssumption, DocumentsInv, NEW l \in Links, run[l] # None,
           run[l].stage = "list", Documents!ListPage(l),
           UNCHANGED <<clock, reloads, head, limited, open>>
    PROVE  DocumentsInv'
<1> DEFINE r == run[l]
           c == head[l]
           pages == History[l][c]
           batch == IF r.page <= Len(pages) THEN pages[r.page] ELSE {}
           new == Marked(batch, c, r.page)
           files == r.files \cup new
           heads == r.heads \cup {c}
           picked == Documents!pickProposalFile(files)
<1>1. /\ RunInv(l) /\ KindOf[l] = "pull" /\ l \in open /\ IsRequest(r)
      /\ r.refusals = 0 /\ r.failures \in 0 .. 2
  BY DEF DocumentsInv, RunInv
<1>2. r.heads \subseteq Pushes(l) /\ r.page \in 1 .. MaxPages /\ Listed(l, r.files, r.heads, r.page - 1)
  BY <1>1 DEF RunInv
<1>3. MaxPages \in Nat \ {0} /\ Len(History[l]) \in Nat /\ c \in 0 .. Len(History[l])
  BY DEF DocumentsInv, Documents!DocumentsAssumption
<1>4. CASE c = 0
  <2>1. Documents!Answer(l, None) \/ Documents!Throw(l, FALSE)
    BY <1>4 DEF Documents!ListPage
  <2>2. Sound(l, None)
    BY DEF Sound
  <2>3. QED
    BY <2>1, <2>2, AnswerIsKept, RunFails
<1>5. CASE c # 0
  <2>1. c \in Pushes(l) /\ heads \subseteq Pushes(l)
    BY <1>2, <1>3, <1>5 DEF Pushes
  <2>2. Documents!IsListing(pages)
    BY <1>1, <2>1 DEF Pushes, Documents!DocumentsAssumption
  <2>3. batch = PageOf(l, c, r.page)
    BY DEF PageOf
  <2>4. batch \subseteq FilesOf(l, c) /\ IsFiniteSet(batch)
    <3>1. CASE r.page <= Len(pages)
      <4>1. r.page \in DOMAIN pages
        BY <1>2, <1>3, <2>2, <3>1 DEF Documents!IsListing
      <4>2. Documents!IsFiniteSet(pages[r.page])
        BY <2>2, <4>1 DEF Documents!IsListing
      <4>3. QED
        BY <3>1, <4>1, <4>2, SameSizes DEF FilesOf
    <3>2. CASE ~ (r.page <= Len(pages))
      BY <3>2, FS_EmptySet
    <3>3. QED
      BY <3>1, <3>2
  <2> HIDE DEF batch
  <2>5. IsFiniteSet(new)
    BY <2>4, FinitelyMany
  <2>6. /\ \A f \in new : f.sha = c /\ \E g \in batch : SameFile(f, g)
        /\ \A g \in batch : \E f \in new : SameFile(f, g)
    BY <2>4, FinitelyMany
  <2> HIDE DEF new
  <2>7. Listed(l, files, heads, r.page)
    <3>1. IsFiniteSet(files)
      BY <1>2, <2>5, FS_Union DEF Listed
    <3>2. ASSUME NEW f \in files
          PROVE  f.sha \in heads /\ \E g \in FilesOf(l, f.sha) : SameFile(f, g)
      <4>1. CASE f \in r.files
        BY <1>2, <4>1 DEF Listed
      <4>2. CASE f \in new
        BY <2>4, <2>6, <4>2
      <4>3. QED
        BY <3>2, <4>1, <4>2
    <3>3. ASSUME NEW i \in 1 .. r.page
          PROVE  \E d \in heads : \A g \in PageOf(l, d, i) : \E f \in files : SameFile(f, g)
      <4>1. CASE i = r.page
        BY <2>3, <2>6, <4>1
      <4>2. CASE i # r.page
        <5>1. i \in 1 .. r.page - 1
          BY <1>2, <1>3, <3>3, <4>2
        <5>2. PICK d \in r.heads : \A g \in PageOf(l, d, i) : \E f \in r.files : SameFile(f, g)
          BY <1>2, <5>1 DEF Listed
        <5>3. QED
          BY <5>2
      <4>3. QED
        BY <4>1, <4>2
    <3>4. QED
      BY <3>1, <3>2, <3>3 DEF Listed
  <2>8. CASE r.page < Len(pages) /\ r.page < MaxPages
    <3> DEFINE next == [r EXCEPT !.page = @ + 1, !.files = files, !.heads = @ \cup {c}]
    <3>1. Documents!Continue(l, next)
      BY <1>5, <2>8 DEF Documents!ListPage, new, batch, Marked
    <3>2. r.page + 1 \in 1 .. MaxPages /\ (r.page + 1) - 1 = r.page
      BY <1>2, <1>3, <2>8
    <3>3. /\ next.refusals = 0 /\ next.failures \in 0 .. 2 /\ next.stage = "list"
          /\ next.page = r.page + 1 /\ next.files = files /\ next.heads = heads
          /\ IsRequest(next)
      <4>1. r.stage = "list"
        OBVIOUS
      <4> HIDE DEF files, r
      <4>2. QED
        BY <1>1, <4>1 DEF IsRequest
    <3> HIDE DEF next, files, heads
    <3>4. ASSUME run'[l] = next
          PROVE  RunInv(l)'
      BY <1>1, <2>1, <2>7, <3>2, <3>3, <3>4 DEF RunInv
    <3>5. QED
      BY <3>1, <3>4, RunGoesOn
  <2>9. CASE ~ (r.page < Len(pages) /\ r.page < MaxPages) /\ picked = None
    <3>1. Documents!Answer(l, None)
      BY <1>5, <2>9 DEF Documents!ListPage, new, batch, Marked
    <3>2. Sound(l, None)
      BY DEF Sound
    <3>3. QED
      BY <3>1, <3>2, AnswerIsKept
  <2>10. CASE ~ (r.page < Len(pages) /\ r.page < MaxPages) /\ picked # None
    <3> DEFINE chosen == [path |-> picked.path, sha |-> picked.sha]
               next == [r EXCEPT !.stage = "raw", !.files = {}, !.heads = @ \cup {c},
                                 !.pick = chosen]
    <3>1. Documents!Continue(l, next)
      BY <1>5, <2>10 DEF Documents!ListPage, new, batch, Marked
    <3>2. Subject(l, picked.path, picked.sha, heads)
      <4>1. r.page >= Len(pages) \/ r.page >= MaxPages
        BY <1>2, <1>3, <2>2, <2>10 DEF Documents!IsListing
      <4>2. r.page \in Nat
        BY <1>2, <1>3
      <4> HIDE DEF files, picked
      <4>3. files = r.files \cup new /\ picked = Documents!pickProposalFile(files)
        BY DEF files, picked
      <4>4. QED
        BY <1>1, <2>1, <2>7, <2>10, <4>1, <4>2, <4>3, PickIsTheSubject
    <3>3. /\ next.refusals = 0 /\ next.failures \in 0 .. 2 /\ next.stage = "raw"
          /\ next.pick.path = picked.path /\ next.pick.sha = picked.sha
          /\ next.heads = heads /\ IsRequest(next)
      <4> HIDE DEF files, r, picked
      <4>1. QED
        BY <1>1 DEF IsRequest
    <3> HIDE DEF next, files, heads, picked
    <3>4. ASSUME run'[l] = next
          PROVE  RunInv(l)'
      BY <1>1, <2>1, <3>2, <3>3, <3>4 DEF RunInv
    <3>5. QED
      BY <3>1, <3>4, RunGoesOn
  <2>11. QED
    BY <2>8, <2>9, <2>10
<1>6. QED
  BY <1>4, <1>5

\* The markdown arrives, or nothing is there (fetchProposalDocument).
LEMMA MarkdownArrives ==
    ASSUME Documents!DocumentsAssumption, DocumentsInv, NEW l \in Links, run[l] # None,
           run[l].stage # "list", Documents!FetchRaw(l),
           UNCHANGED <<clock, reloads, head, limited, open>>
    PROVE  DocumentsInv'
<1> DEFINE r == run[l]
           pick == IF KindOf[l] = "pull" THEN r.pick
                   ELSE [path |-> History[l][head[l]], sha |-> head[l]]
           doc == Documents!parseProposalMarkdown(Docs[pick.path],
                      IF KindOf[l] = "pull" THEN Docs[pick.path].name ELSE FileRef[l])
           data == [path |-> pick.path, sha |-> pick.sha, heads |-> r.heads,
                    ref |-> doc.ref, summary |-> doc.summary]
<1>1. Sound(l, None)
  BY DEF Sound
<1>2. CASE Documents!Answer(l, None)
  BY <1>1, <1>2, AnswerIsKept
<1>3. CASE /\ KindOf[l] # "unsupported" /\ ~ (KindOf[l] = "blob" /\ head[l] = 0)
           /\ Documents!Answer(l, data)
  <2>1. RunInv(l) /\ KindOf[l] \in {"blob", "pull"} /\ head[l] \in 0 .. Len(History[l])
        /\ Len(History[l]) \in Nat
    BY <1>3 DEF DocumentsInv, Documents!DocumentsAssumption
  <2>2. KindOf[l] = "pull" => /\ r.heads \subseteq Pushes(l) /\ r.stage = "raw"
                              /\ Subject(l, r.pick.path, r.pick.sha, r.heads)
    BY <2>1 DEF RunInv
  <2>3. pick.path \in DOMAIN Docs /\ pick.sha \in Nat /\ r.heads \subseteq Nat
    <3>1. CASE KindOf[l] = "pull"
      BY <2>1, <2>2, <3>1 DEF Subject, Pushes
    <3>2. CASE KindOf[l] = "blob"
      <4>1. head[l] \in 1 .. Len(History[l]) /\ r.heads = {}
        BY <1>3, <2>1, <3>2 DEF RunInv
      <4>2. History[l][head[l]] \in DOMAIN Docs
        BY <3>2, <4>1 DEF Documents!DocumentsAssumption
      <4>3. QED
        BY <2>1, <3>2, <4>1, <4>2
    <3>3. QED
      BY <2>1, <3>1, <3>2
  <2>4. KindOf[l] = "pull" => pick = r.pick
    OBVIOUS
  <2> HIDE DEF pick
  <2>5. /\ doc.ref = IF Docs[pick.path].front = None
                     THEN IF KindOf[l] = "pull" THEN Docs[pick.path].name ELSE FileRef[l]
                     ELSE Docs[pick.path].front
        /\ doc.summary \in {Docs[pick.path].section, Docs[pick.path].paragraph}
    BY DEF Documents!parseProposalMarkdown
  <2> HIDE DEF doc
  <2>6. data \in Documents!Answers
    BY <2>3, <2>5 DEF Documents!Answers
  <2>7. KindOf[l] = "pull" => Subject(l, data.path, data.sha, data.heads)
    BY <2>2, <2>4
  <2>8. Sound(l, data)
    BY <2>2, <2>5, <2>6, <2>7 DEF Sound
  <2> HIDE DEF data
  <2>9. QED
    BY <1>3, <2>8, AnswerIsKept
<1>4. QED
  BY <1>2, <1>3 DEF Documents!FetchRaw

\* Pages open and close, the clock runs, authors push: requests go on, begin or end,
\* and memory keeps, loses or takes from storage what was answered.
LEMMA PageMoves ==
    ASSUME Documents!DocumentsAssumption, DocumentsInv, UNCHANGED <<storage, answered>>,
           clock' \in {clock, clock + 1}, clock' \in 0 .. MaxTime, reloads' \in 0 .. MaxReloads,
           limited' \in BOOLEAN, open' \subseteq Links,
           DOMAIN head' = Links, \A m \in Links : head'[m] \in 0 .. Len(History[m]),
           DOMAIN run' = Links, DOMAIN query' = Links,
           \A m \in Links : run'[m] # None =>
               m \in open' /\ (run'[m] = run[m] \/ run'[m] = Documents!NewRun(m, 0)),
           \A m \in Links : query'[m] \in {query[m], answered[m]} \/ query'[m].data = Unset,
           \A m \in open' : query'[m].data = Unset =>
               \/ m \in open /\ query[m].data = Unset
               \/ m \notin DOMAIN storage
               \/ clock - storage[m].at >= Documents!Ttl(storage[m].data)
    PROVE  DocumentsInv'
<1>1. clock \in Nat
  BY DEF DocumentsInv, Documents!DocumentsAssumption
<1>2. ASSUME NEW m \in Links
      PROVE  CachesInv(m)'
  BY <1>1, CachesStay DEF DocumentsInv
<1>3. ASSUME NEW m \in Links, run'[m] # None
      PROVE  RunInv(m)'
  <2>1. CASE run'[m] = run[m]
    <3>1. RunInv(m) /\ m \in open'
      BY <1>3, <2>1 DEF DocumentsInv
    <3>2. QED
      BY <2>1, <3>1 DEF RunInv
  <2>2. CASE run'[m] = Documents!NewRun(m, 0)
    BY <1>3, <2>2, RunBegins
  <2>3. QED
    BY <1>3, <2>1, <2>2
<1>4. ASSUME NEW m \in Links
      PROVE  Exhausted(m)'
  <2>1. SUFFICES ASSUME m \in open', query'[m].data = Unset, m \in DOMAIN storage
                 PROVE  clock' - storage[m].at >= Documents!Ttl(storage[m].data)
    BY DEF Exhausted, Documents!Ttl
  <2>2. clock - storage[m].at >= Documents!Ttl(storage[m].data)
    BY <2>1 DEF DocumentsInv, Exhausted
  <2>3. storage[m].at \in Nat /\ Documents!Ttl(storage[m].data) \in Nat
    BY <2>1 DEF DocumentsInv, CachesInv, Documents!Ttl, Documents!DocumentsAssumption
  <2>4. QED
    BY <1>1, <2>2, <2>3
<1>5. QED
  BY <1>2, <1>3, <1>4 DEF DocumentsInv

\* What a page that opens finds: memory, or storage that has not expired, or nothing.
LEMMA FoundIsAnswered ==
    ASSUME Documents!DocumentsAssumption, DocumentsInv, NEW l \in Links
    PROVE  LET q == IF query[l].data = Unset THEN Documents!readCache(l) ELSE query[l]
           IN /\ q.data # Unset => q = answered[l]
              /\ query[l].data = Unset /\ q.data # Unset =>
                    clock - q.at < Documents!Ttl(q.data)
              /\ q.data = Unset =>
                    \/ l \notin DOMAIN storage
                    \/ clock - storage[l].at >= Documents!Ttl(storage[l].data)
<1>1. CachesInv(l) /\ Exhausted(l) /\ clock \in Nat
  BY DEF DocumentsInv, Documents!DocumentsAssumption
<1>2. CASE query[l].data # Unset
  BY <1>1, <1>2 DEF CachesInv
<1>3. CASE query[l].data = Unset
  <2>1. CASE l \in DOMAIN storage /\ clock - storage[l].at < Documents!Ttl(storage[l].data)
    BY <1>1, <1>3, <2>1 DEF CachesInv, Documents!readCache
  <2>2. CASE ~ (l \in DOMAIN storage /\ clock - storage[l].at < Documents!Ttl(storage[l].data))
    <3>1. l \in DOMAIN storage =>
             storage[l].at \in Nat /\ Documents!Ttl(storage[l].data) \in Nat
      BY <1>1 DEF CachesInv, Documents!Ttl, Documents!DocumentsAssumption
    <3>2. l \in DOMAIN storage => clock - storage[l].at >= Documents!Ttl(storage[l].data)
      BY <1>1, <2>2, <3>1
    <3>3. QED
      BY <1>3, <2>2, <3>2 DEF Documents!readCache
  <2>3. QED
    BY <2>1, <2>2
<1>4. QED
  BY <1>2, <1>3

\* A component opens (Mount), closes (Unmount) or is looked at again (Focus).
LEMMA PagesOpen ==
    ASSUME Documents!DocumentsAssumption, DocumentsInv, NEW l \in Links,
           Documents!Mount(l) \/ Documents!Unmount(l) \/ Documents!Focus(l)
    PROVE  DocumentsInv'
<1>0. /\ clock \in 0 .. MaxTime /\ reloads \in 0 .. MaxReloads /\ limited \in BOOLEAN
      /\ open \subseteq Links /\ DOMAIN head = Links /\ DOMAIN run = Links /\ DOMAIN query = Links
      /\ \A m \in Links : head[m] \in 0 .. Len(History[m])
      /\ \A m \in Links : run[m] # None => m \in open
  BY DEF DocumentsInv, RunInv
<1>1. CASE Documents!Mount(l)
  <2> DEFINE q == IF query[l].data = Unset THEN Documents!readCache(l) ELSE query[l]
  <2>1. /\ q.data # Unset => q = answered[l]
        /\ q.data = Unset => \/ l \notin DOMAIN storage
                             \/ clock - storage[l].at >= Documents!Ttl(storage[l].data)
    BY FoundIsAnswered
  <2>2. /\ open' = open \cup {l} /\ query' = [query EXCEPT ![l] = q]
        /\ run' = [run EXCEPT ![l] = IF Documents!isStale(q.data, q.at)
                                     THEN Documents!NewRun(l, 0) ELSE None]
        /\ UNCHANGED <<clock, reloads, head, limited, storage, answered>>
    BY <1>1 DEF Documents!Mount
  <2> HIDE DEF q
  <2>3. QED
    BY <1>0, <2>1, <2>2, PageMoves
<1>2. CASE Documents!Unmount(l)
  <2>1. /\ open' = open \ {l} /\ run' = [run EXCEPT ![l] = None]
        /\ UNCHANGED <<clock, reloads, head, limited, storage, query, answered>>
    BY <1>2 DEF Documents!Unmount
  <2>2. QED
    BY <1>0, <2>1, PageMoves
<1>3. CASE Documents!Focus(l)
  <2>1. /\ l \in open /\ run' = [run EXCEPT ![l] = Documents!NewRun(l, 0)]
        /\ UNCHANGED <<clock, reloads, head, limited, storage, query, open, answered>>
    BY <1>3 DEF Documents!Focus
  <2>2. QED
    BY <1>0, <2>1, PageMoves
<1>4. QED
  BY <1>1, <1>2, <1>3

\* The page is loaded again, time passes, the author pushes, the quota changes.
LEMMA WorldMoves ==
    ASSUME Documents!DocumentsAssumption, DocumentsInv,
           \/ Documents!Reload \/ Documents!Tick \/ Documents!ToggleLimit
           \/ \E l \in Links : Documents!Push(l)
    PROVE  DocumentsInv'
<1>0. /\ clock \in 0 .. MaxTime /\ reloads \in 0 .. MaxReloads /\ limited \in BOOLEAN
      /\ {MaxTime, MaxReloads} \subseteq Nat
      /\ open \subseteq Links /\ DOMAIN head = Links /\ DOMAIN run = Links /\ DOMAIN query = Links
      /\ \A m \in Links : head[m] \in 0 .. Len(History[m]) /\ Len(History[m]) \in Nat
      /\ \A m \in Links : run[m] # None => m \in open
  BY DEF DocumentsInv, RunInv, Documents!DocumentsAssumption
<1>1. CASE Documents!Reload
  <2>1. /\ reloads' \in 0 .. MaxReloads /\ open' = {} /\ run' = [m \in Links |-> None]
        /\ query' = [m \in Links |-> [data |-> Unset, at |-> 0]]
        /\ UNCHANGED <<clock, head, limited, storage, answered>>
    BY <1>0, <1>1 DEF Documents!Reload
  <2>2. QED
    BY <1>0, <2>1, PageMoves
<1>2. CASE Documents!Tick
  <2>1. /\ clock' = clock + 1 /\ clock' \in 0 .. MaxTime
        /\ UNCHANGED <<reloads, head, limited, storage, query, run, open, answered>>
    BY <1>0, <1>2 DEF Documents!Tick
  <2>2. QED
    BY <1>0, <2>1, PageMoves
<1>3. CASE Documents!ToggleLimit
  <2>1. /\ limited' \in BOOLEAN
        /\ UNCHANGED <<clock, reloads, head, storage, query, run, open, answered>>
    BY <1>3 DEF Documents!ToggleLimit
  <2>2. QED
    BY <1>0, <2>1, PageMoves
<1>4. CASE \E l \in Links : Documents!Push(l)
  <2>1. PICK l \in Links : Documents!Push(l)
    BY <1>4
  <2>2. /\ head[l] < Len(History[l]) /\ head' = [head EXCEPT ![l] = @ + 1]
        /\ UNCHANGED <<clock, reloads, limited, storage, query, run, open, answered>>
    BY <2>1 DEF Documents!Push
  <2>3. DOMAIN head' = Links /\ \A m \in Links : head'[m] \in 0 .. Len(History[m])
    BY <1>0, <2>2
  <2>4. QED
    BY <1>0, <2>2, <2>3, PageMoves
<1>5. QED
  BY <1>1, <1>2, <1>3, <1>4

LEMMA DocumentsStep ==
    ASSUME Documents!DocumentsAssumption, DocumentsInv, [Documents!Next]_Documents!vars
    PROVE  DocumentsInv'
<1>1. CASE \E l \in Links : Documents!Mount(l) \/ Documents!Unmount(l) \/ Documents!Focus(l)
  BY <1>1, PagesOpen
<1>2. CASE \/ Documents!Reload \/ Documents!Tick \/ Documents!ToggleLimit
           \/ \E l \in Links : Documents!Push(l)
  BY <1>2, WorldMoves
<1>3. ASSUME NEW l \in Links, Documents!Respond(l)
      PROVE  DocumentsInv'
  <2>1. run[l] # None /\ UNCHANGED <<clock, reloads, head, limited, open>>
    BY <1>3 DEF Documents!Respond
  <2>2. CASE run[l].stage = "list"
    <3>1. Documents!ListPage(l)
      BY <1>3, <2>2 DEF Documents!Respond
    <3>2. QED
      BY <2>1, <2>2, <3>1, PageArrives
  <2>3. CASE run[l].stage # "list"
    <3>1. Documents!FetchRaw(l)
      BY <1>3, <2>3 DEF Documents!Respond
    <3>2. QED
      BY <2>1, <2>3, <3>1, MarkdownArrives
  <2>4. QED
    BY <2>2, <2>3
<1>4. ASSUME NEW l \in Links, Documents!Refuse(l) \/ Documents!Break(l)
      PROVE  DocumentsInv'
  <2>1. run[l] # None /\ UNCHANGED <<clock, reloads, head, limited, open>>
    BY <1>4 DEF Documents!Refuse, Documents!Break
  <2>2. PICK retryable \in BOOLEAN : Documents!Throw(l, retryable)
    BY <1>4 DEF Documents!Refuse, Documents!Break
  <2>3. QED
    BY <2>1, <2>2, RunFails
<1>5. CASE UNCHANGED Documents!vars
  <2>1. UNCHANGED <<clock, reloads, head, limited, storage, query, run, open, answered>>
    BY <1>5 DEF Documents!vars
  <2>2. /\ clock \in 0 .. MaxTime /\ reloads \in 0 .. MaxReloads /\ limited \in BOOLEAN
        /\ open \subseteq Links /\ DOMAIN head = Links /\ DOMAIN run = Links
        /\ DOMAIN query = Links /\ \A m \in Links : head[m] \in 0 .. Len(History[m])
        /\ \A m \in Links : run[m] # None => m \in open
    BY DEF DocumentsInv, RunInv
  <2>3. QED
    BY <2>1, <2>2, PageMoves
<1>6. QED
  BY <1>1, <1>2, <1>3, <1>4, <1>5 DEF Documents!Next

\* Initially nothing was asked, answered or kept.
LEMMA DocumentsInit ==
    ASSUME Documents!DocumentsAssumption, Documents!Init
    PROVE  DocumentsInv
<1>0. DOMAIN storage = {}
  BY DEF Documents!Init
<1>1. DOMAIN storage = {} /\ Cardinality(DOMAIN storage) = 0
  BY <1>0, FS_EmptySet
<1>2. /\ MaxTime \in Nat /\ MaxReloads \in Nat /\ MaxEntries \in Nat
      /\ \A l \in Links : Len(History[l]) \in Nat
  BY DEF Documents!DocumentsAssumption
<1>3. /\ clock \in 0 .. MaxTime /\ reloads \in 0 .. MaxReloads
      /\ \A l \in Links : head[l] \in 0 .. Len(History[l])
  BY <1>2 DEF Documents!Init
<1>4. /\ limited \in BOOLEAN /\ open \subseteq Links /\ DOMAIN head = Links
      /\ DOMAIN run = Links /\ DOMAIN query = Links /\ DOMAIN answered = Links
  BY DEF Documents!Init
<1>5. \A l \in Links : run[l] = None /\ query[l].data = Unset /\ answered[l].data = Unset
  BY DEF Documents!Init
<1>6. open = {}
  BY DEF Documents!Init
<1>7. QED
  BY <1>1, <1>2, <1>3, <1>4, <1>5, <1>6 DEF DocumentsInv, CachesInv, Exhausted

\* A heading names the number that is its document's, once: the title's own, or
\* the prefix (formatProposalHeading).
LEMMA NamedOnce ==
    ASSUME NEW ref, NEW title, ref # None
    PROVE  LET shown == Documents!formatProposalHeading(ref, title)
           IN Cardinality({i \in DOMAIN shown : Documents!titleNamesProposal(shown[i], ref)}) = 1
<1> DEFINE shown == Documents!formatProposalHeading(ref, title)
           named == {i \in DOMAIN shown : Documents!titleNamesProposal(shown[i], ref)}
<1>1. named = {1}
  <2>1. CASE title = None
    <3>1. shown = <<ref>> \o <<>> /\ <<ref>> \in Seq({ref}) /\ <<>> \in Seq({ref})
      BY <2>1 DEF Documents!formatProposalHeading, Documents!titleNamesProposal
    <3>2. DOMAIN shown = {1} /\ shown[1] = ref
      BY <3>1
    <3> HIDE DEF shown
    <3>3. QED
      BY <3>2 DEF Documents!titleNamesProposal
  <2>2. CASE title # None /\ Documents!titleNamesProposal(title, ref)
    <3>1. shown = <<title>>
      BY <2>2 DEF Documents!formatProposalHeading
    <3>2. DOMAIN shown = {1} /\ shown[1] = title
      BY <3>1
    <3> HIDE DEF shown
    <3>3. QED
      BY <2>2, <3>2
  <2>3. CASE title # None /\ ~ Documents!titleNamesProposal(title, ref)
    <3>1. shown = <<ref>> \o <<title>>
          /\ <<ref>> \in Seq({ref, title}) /\ <<title>> \in Seq({ref, title})
      BY <2>3 DEF Documents!formatProposalHeading
    <3>2. DOMAIN shown = {1, 2} /\ shown[1] = ref /\ shown[2] = title
      BY <3>1
    <3> HIDE DEF shown
    <3>3. Documents!titleNamesProposal(ref, ref)
      BY DEF Documents!titleNamesProposal
    <3>4. QED
      BY <2>3, <3>2, <3>3
  <2>4. QED
    BY <2>1, <2>2, <2>3
<1>2. QED
  BY <1>1, FS_Singleton

LEMMA DocumentsAreRight ==
    ASSUME Documents!DocumentsAssumption, DocumentsInv
    PROVE  /\ Documents!DocumentsTypeOK /\ Documents!ShownIsTheSubject
           /\ Documents!HeadingNamesTheDocument /\ Documents!RefusalsAreFinal
<1>1. Documents!DocumentsTypeOK
  BY SameSizes DEF DocumentsInv, RunInv, Documents!DocumentsTypeOK
<1>2. ASSUME NEW l \in Links, Documents!HasDocument(l)
      PROVE  Sound(l, query[l].data) /\ query[l].data # None
  BY <1>2 DEF DocumentsInv, CachesInv, Documents!HasDocument
<1>3. Documents!ShownIsTheSubject
  <2>1. SUFFICES ASSUME NEW l \in Links, Documents!HasDocument(l), KindOf[l] = "pull"
                 PROVE  LET data == query[l].data
                        IN /\ data.path \in {f.path : f \in Documents!Candidates(FilesOf(l, data.sha))}
                           /\ /\ Documents!Cardinality(data.heads) = 1
                              /\ Len(History[l][data.sha]) <= MaxPages
                              => {f.path : f \in Documents!Contenders(FilesOf(l, data.sha))} = {data.path}
    BY Zenon DEF Documents!ShownIsTheSubject, FilesOf
  <2>2. Subject(l, query[l].data.path, query[l].data.sha, query[l].data.heads)
    BY <1>2, <2>1 DEF Sound
  <2>3. Documents!Cardinality(query[l].data.heads) = Cardinality(query[l].data.heads)
    BY SameSizes
  <2>4. QED
    BY <2>2, <2>3, Zenon DEF Subject
<1>4. Documents!HeadingNamesTheDocument
  <2>1. SUFFICES ASSUME NEW l \in Links, Documents!HasDocument(l),
                        Docs[query[l].data.path].front # None
                 PROVE  LET ref == Docs[query[l].data.path].front
                            shown == Documents!ProposalHeading(l)
                        IN Documents!Cardinality(
                              {i \in DOMAIN shown : Documents!titleNamesProposal(shown[i], ref)}) = 1
    BY Zenon DEF Documents!HeadingNamesTheDocument
  <2> DEFINE ref == Docs[query[l].data.path].front
  <2>2. query[l].data.ref = ref
    BY <1>2, <2>1 DEF Sound
  <2>3. Documents!useProposalRef(l) = ref
    BY <2>1, <2>2 DEF Documents!useProposalRef
  <2>4. Documents!ProposalHeading(l) = Documents!formatProposalHeading(ref, TitleOf[l])
    BY <2>3 DEF Documents!ProposalHeading
  <2> HIDE DEF ref
  <2>5. QED
    BY <2>1, <2>4, NamedOnce, SameSizes, Zenon DEF ref
<1>5. Documents!RefusalsAreFinal
  BY DEF DocumentsInv, RunInv, Documents!RefusalsAreFinal
<1>6. QED
  BY <1>1, <1>3, <1>4, <1>5

\* A component that opens has an answer that is still good or asks; what it takes
\* from storage has not expired (Mount).
LEMMA PagesOpenFresh ==
    ASSUME Documents!DocumentsAssumption, DocumentsInv, [Documents!Next]_Documents!vars
    PROVE  Documents!OpensFreshOrAsking /\ Documents!ExpiredIsNotShown
<1>1. SUFFICES ASSUME NEW l \in open' \ open
               PROVE  /\ \/ run'[l] # None
                         \/ query'[l].data # Unset /\ clock - query'[l].at < Documents!Ttl(query'[l].data)
                      /\ query[l].data = Unset /\ query'[l].data # Unset =>
                            clock - query'[l].at < Documents!Ttl(query'[l].data)
  BY DEF Documents!OpensFreshOrAsking, Documents!ExpiredIsNotShown
<1>2. Documents!Mount(l) /\ l \in Links
  <2>1. ~ (Documents!Tick \/ Documents!Reload \/ Documents!ToggleLimit \/ UNCHANGED Documents!vars)
    BY <1>1 DEF Documents!Tick, Documents!Reload, Documents!ToggleLimit, Documents!vars
  <2>2. ASSUME NEW m \in Links, \/ Documents!Unmount(m) \/ Documents!Focus(m) \/ Documents!Push(m)
                                \/ Documents!Respond(m) \/ Documents!Refuse(m) \/ Documents!Break(m)
        PROVE  FALSE
    BY <1>1, <2>2 DEF Documents!Unmount, Documents!Focus, Documents!Push, Documents!Respond,
                      Documents!Refuse, Documents!Break
  <2>3. PICK m \in Links : Documents!Mount(m)
    BY <2>1, <2>2 DEF Documents!Next
  <2>4. m = l
    BY <1>1, <2>3 DEF Documents!Mount
  <2>5. QED
    BY <2>3, <2>4
<1> DEFINE q == IF query[l].data = Unset THEN Documents!readCache(l) ELSE query[l]
<1>3. /\ query' = [query EXCEPT ![l] = q]
      /\ run' = [run EXCEPT ![l] = IF Documents!isStale(q.data, q.at)
                                   THEN Documents!NewRun(l, 0) ELSE None]
  BY <1>2 DEF Documents!Mount
<1>4. /\ q.data # Unset => q = answered[l]
      /\ query[l].data = Unset /\ q.data # Unset => clock - q.at < Documents!Ttl(q.data)
  BY <1>2, FoundIsAnswered
<1> HIDE DEF q
<1>5. query'[l] = q /\ run'[l] = IF Documents!isStale(q.data, q.at)
                                 THEN Documents!NewRun(l, 0) ELSE None
  BY <1>2, <1>3 DEF DocumentsInv
<1>6. CASE Documents!isStale(q.data, q.at)
  BY <1>2, <1>4, <1>5, <1>6 DEF Documents!DocumentsAssumption
<1>7. CASE ~ Documents!isStale(q.data, q.at)
  <2>1. q.data # Unset /\ ~ (clock - q.at >= Documents!Ttl(q.data))
    BY <1>7 DEF Documents!isStale
  <2>2. clock \in Nat /\ q.at \in Nat /\ Documents!Ttl(q.data) \in Nat
    BY <1>2, <1>4, <2>1
       DEF DocumentsInv, CachesInv, Documents!Ttl, Documents!DocumentsAssumption
  <2>3. QED
    BY <1>5, <2>1, <2>2
<1>8. QED
  BY <1>6, <1>7

\* A link whose answer is still good is asked for again only once storage was full
\* of later answers (useProposalDocument).
LEMMA AnswersGoAround ==
    ASSUME Documents!DocumentsAssumption, DocumentsInv, [Documents!Next]_Documents!vars
    PROVE  Documents!AnswersAreReused
<1>1. SUFFICES ASSUME NEW l \in Links, run[l] = None, run'[l] # None, answered[l].data # Unset,
                      clock - answered[l].at < Documents!Ttl(answered[l].data)
               PROVE  Cardinality(Since(l)) >= MaxEntries
  BY SameSizes, Zenon DEF Documents!AnswersAreReused, Since
<1>2. /\ clock \in Nat /\ answered[l].at \in Nat /\ Documents!Ttl(answered[l].data) \in Nat
      /\ CachesInv(l) /\ Exhausted(l) /\ DOMAIN run = Links
  BY <1>1 DEF DocumentsInv, CachesInv, Documents!Ttl, Documents!DocumentsAssumption
<1>3. Documents!Mount(l) \/ Documents!Focus(l)
  <2>1. ASSUME NEW m \in Links, Documents!Respond(m) \/ Documents!Refuse(m) \/ Documents!Break(m)
        PROVE  FALSE
    <3>1. m # l
      BY <1>1, <2>1 DEF Documents!Respond, Documents!Refuse, Documents!Break
    <3>2. \E r : run' = [run EXCEPT ![m] = r]
      BY <2>1 DEF Documents!Respond, Documents!Refuse, Documents!Break, Documents!ListPage,
                  Documents!FetchRaw, Documents!Throw, Documents!Continue, Documents!Answer
    <3>3. QED
      BY <1>1, <1>2, <3>1, <3>2
  <2>2. ASSUME NEW m \in Links, m # l, Documents!Mount(m) \/ Documents!Focus(m)
        PROVE  FALSE
    BY <1>1, <1>2, <2>2 DEF Documents!Mount, Documents!Focus
  <2>3. ASSUME NEW m \in Links, Documents!Unmount(m) \/ Documents!Push(m)
        PROVE  FALSE
    BY <1>1, <1>2, <2>3 DEF Documents!Unmount, Documents!Push
  <2>4. ~ (Documents!Tick \/ Documents!Reload \/ Documents!ToggleLimit \/ UNCHANGED Documents!vars)
    BY <1>1 DEF Documents!Tick, Documents!Reload, Documents!ToggleLimit, Documents!vars
  <2>5. QED
    BY <2>1, <2>2, <2>3, <2>4 DEF Documents!Next
<1>4. l \notin DOMAIN storage
  <2>1. SUFFICES ASSUME l \in DOMAIN storage PROVE FALSE
    OBVIOUS
  <2>2. storage[l] = answered[l]
    BY <1>2, <2>1 DEF CachesInv
  <2>3. CASE Documents!Focus(l)
    <3>1. l \in open /\ Documents!isStale(query[l].data, query[l].at)
      BY <2>3 DEF Documents!Focus
    <3>2. QED
      BY <1>1, <1>2, <2>1, <2>2, <3>1 DEF CachesInv, Exhausted, Documents!isStale
  <2>4. CASE Documents!Mount(l)
    <3> DEFINE q == IF query[l].data = Unset THEN Documents!readCache(l) ELSE query[l]
    <3>1. run' = [run EXCEPT ![l] = IF Documents!isStale(q.data, q.at)
                                   THEN Documents!NewRun(l, 0) ELSE None]
      BY <2>4 DEF Documents!Mount
    <3>2. /\ q.data # Unset => q = answered[l]
          /\ q.data = Unset => \/ l \notin DOMAIN storage
                               \/ clock - storage[l].at >= Documents!Ttl(storage[l].data)
      BY FoundIsAnswered
    <3> HIDE DEF q
    <3>3. Documents!isStale(q.data, q.at)
      BY <1>1, <1>2, <3>1
    <3>4. q.data = Unset \/ clock - q.at >= Documents!Ttl(q.data)
      BY <3>3 DEF Documents!isStale
    <3>5. QED
      BY <1>1, <1>2, <2>1, <2>2, <3>2, <3>4
  <2>5. QED
    BY <1>3, <2>3, <2>4
<1>5. QED
  BY <1>1, <1>2, <1>4 DEF CachesInv

\* Whatever is published and however GitHub answers: what is shown for a pull request
\* is its proposal, headings name it once, pages that open show what is good or ask
\* for it, good answers are asked for again only when storage was filled since, and
\* no refused request is repeated (proposal-document.ts, useProposalDocument.ts).
THEOREM DocumentsAreSound ==
    ASSUME Documents!DocumentsAssumption
    PROVE  Documents!Spec =>
              /\ [](/\ Documents!DocumentsTypeOK /\ Documents!ShownIsTheSubject
                    /\ Documents!HeadingNamesTheDocument /\ Documents!RefusalsAreFinal)
              /\ [][Documents!OpensFreshOrAsking]_Documents!vars
              /\ [][Documents!ExpiredIsNotShown]_Documents!vars
              /\ [][Documents!AnswersAreReused]_Documents!vars
<1>1. Documents!Init => DocumentsInv
  BY DocumentsInit
<1>2. DocumentsInv /\ [Documents!Next]_Documents!vars => DocumentsInv'
  BY DocumentsStep
<1>3. DocumentsInv => /\ Documents!DocumentsTypeOK /\ Documents!ShownIsTheSubject
                      /\ Documents!HeadingNamesTheDocument /\ Documents!RefusalsAreFinal
  BY DocumentsAreRight
<1>4. DocumentsInv /\ [Documents!Next]_Documents!vars =>
          /\ [Documents!OpensFreshOrAsking]_Documents!vars
          /\ [Documents!ExpiredIsNotShown]_Documents!vars
          /\ [Documents!AnswersAreReused]_Documents!vars
  BY PagesOpenFresh, AnswersGoAround
<1>5. QED
  BY <1>1, <1>2, <1>3, <1>4, PTL DEF Documents!Spec
=============================================================================
