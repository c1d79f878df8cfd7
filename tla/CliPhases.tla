----------------------------- MODULE CliPhases -----------------------------
(***************************************************************************)
(* How the command line places a proposal in its life cycle                *)
(* (svmgov/cli, utils/phase.rs): the phase, the windows of all phases and  *)
(* the epochs left, recomputed from the Proposal and GlobalConfig accounts *)
(* whenever it is asked.  It keeps no state: the properties are of every   *)
(* state and step of the life cycle it is asked about.                     *)
(***************************************************************************)
EXTENDS SvmgovProposal

CONSTANT MaxEpochs   \* bound: how far ahead the countdown is followed

\* A configured program and a proposal to be shown.
Shown(p) == Created(p) /\ global_config # None

saturating_sub(a, b) == IF a >= b THEN a - b ELSE 0

-----------------------------------------------------------------------------
\* Slip: the support window is looked at first, as if the proposal had not crossed.
PhaseByWindow(pr, current) ==
    CASE pr.finalized -> "finalized"
      [] ~pr.finalized /\ current <= pr.creation_epoch + params.max_support_epochs -> "support"
      [] OTHER -> IF ~pr.voting THEN "failed"
                  ELSE IF current < pr.start_epoch THEN "discussion"
                  ELSE IF current < pr.end_epoch THEN "voting" ELSE "ended"

\* ProposalPhase::new
ProposalPhase(pr, current) ==
    CASE pr.finalized -> "finalized"
      [] ~pr.finalized /\ pr.voting ->
            (CASE current >= pr.end_epoch -> "ended"
               [] current >= pr.start_epoch /\ current < pr.end_epoch -> "voting"
               [] current + 1 = pr.start_epoch /\ current < pr.end_epoch -> "snapshot"
               [] OTHER -> "discussion")
      [] OTHER ->
            IF current <= pr.creation_epoch + params.max_support_epochs THEN "support" ELSE "failed"

\* The windows that the configuration projects, support crossing at the last moment.
Projected(pr) ==
    LET crossing == pr.creation_epoch + params.max_support_epochs
        snapshot == crossing + params.discussion_epochs + params.snapshot_epoch_extension
    IN  [support |-> <<pr.creation_epoch, crossing>>,
         discussion |-> <<crossing, saturating_sub(snapshot, 1)>>, snapshot |-> snapshot,
         voting |-> <<snapshot + 1, snapshot + 1 + params.voting_epochs>>, projected |-> TRUE]

\* The windows of an activated proposal; when its support crossed is not recorded.
Committed(pr, end) ==
    LET snapshot == saturating_sub(pr.start_epoch, 1)
    IN  [support |-> None, discussion |-> <<None, saturating_sub(snapshot, 1)>>,
         snapshot |-> snapshot, voting |-> <<pr.start_epoch, end>>, projected |-> FALSE]

\* Slip: the length of the voting is read from the configuration.
TimelineFromConfig(pr) ==
    IF pr.voting THEN Committed(pr, pr.start_epoch + params.voting_epochs) ELSE Projected(pr)

\* PhaseTimeline::new
PhaseTimeline(pr) ==
    IF pr.voting THEN Committed(pr, pr.end_epoch) ELSE Projected(pr)

\* Slip: the discussion is counted down to the voting.
RemainingToVoting(pr, current) ==
    CASE ProposalPhase(pr, current) = "support" ->
            saturating_sub(PhaseTimeline(pr).support[2], current)
      [] ProposalPhase(pr, current) \in {"discussion", "snapshot"} ->
            saturating_sub(PhaseTimeline(pr).voting[1], current)
      [] ProposalPhase(pr, current) = "voting" -> saturating_sub(pr.end_epoch, current)
      [] OTHER -> None

\* The number of PhaseInputs::epochs_remaining.
epochs_remaining(pr, current) ==
    CASE ProposalPhase(pr, current) = "support" ->
            saturating_sub(PhaseTimeline(pr).support[2], current)
      [] ProposalPhase(pr, current) = "discussion" ->
            saturating_sub(PhaseTimeline(pr).snapshot, current)
      [] ProposalPhase(pr, current) = "snapshot" ->
            saturating_sub(PhaseTimeline(pr).voting[1], current)
      [] ProposalPhase(pr, current) = "voting" -> saturating_sub(pr.end_epoch, current)
      [] OTHER -> None

-----------------------------------------------------------------------------
Phase(p) == ProposalPhase(proposal[p], epoch)

(***************************************************************************)
(* The phase tells what the program accepts, although the two are computed *)
(* in different programs: support and retally only in the support phase,   *)
(* rebinding only before the voting, finalization in "ended" and only      *)
(* there (phase.rs:94-125 against support_proposal.rs, retally_support.rs, *)
(* flush_merkle_root.rs and finalize_proposal.rs).                         *)
(***************************************************************************)
PhaseTellsWhatIsAccepted ==
    \A p \in Proposals : Shown(p) =>
        /\ ENABLED (\E v \in Validators : SupportProposal(p, v)) => Phase(p) = "support"
        /\ ENABLED RetallySupport(p) => Phase(p) = "support"
        /\ ENABLED (\E k \in Keys : FlushMerkleRoot(k, p)) => Phase(p) \in {"discussion", "snapshot"}
        /\ ENABLED FinalizeProposal(p) <=> Phase(p) = "ended"

(***************************************************************************)
(* The countdown holds: if nothing but time passes, the phase stays for    *)
(* the epochs it announces and is another one when they are over; the      *)
(* support window is closed after its last epoch (phase.rs:54-78).         *)
(***************************************************************************)
CountdownHolds ==
    \A p \in Proposals : Shown(p) =>
        LET pr == proposal[p]
            left == epochs_remaining(pr, epoch)
            last == IF Phase(p) = "support" THEN left ELSE left - 1
        IN  IF left = None THEN Phase(p) \in {"ended", "finalized", "failed"}
            ELSE /\ last >= 0
                 /\ \A e \in 0 .. MaxEpochs :
                       (ProposalPhase(pr, epoch + e) = Phase(p)) <=> (e <= last)

\* The order of the phases.
Rank == [phase \in {"support", "discussion", "snapshot", "voting", "ended", "finalized", "failed"} |->
            CASE phase = "support" -> 1 [] phase = "discussion" -> 2 [] phase = "snapshot" -> 3
              [] phase = "voting" -> 4 [] phase = "ended" -> 5 [] OTHER -> 6]

(***************************************************************************)
(* What is shown of an activated proposal is its own schedule: no update   *)
(* of the configuration and no passing of time moves a window, and the     *)
(* phase only moves on, unless the admin rebinds the proposal, which never *)
(* happens once the voting has started (phase.rs:154-191, and the tests on *)
(* reconfigured and flushed proposals).                                    *)
(***************************************************************************)
ScheduleIsItsOwn ==
    \A p \in Proposals : Shown(p) /\ proposal[p].voting =>
        LET rebound == \E k \in Keys : FlushMerkleRoot(k, p)
        IN  /\ ~rebound => PhaseTimeline(proposal[p])' = PhaseTimeline(proposal[p])
            /\ rebound => Phase(p) \in {"discussion", "snapshot"}
            /\ ~rebound => Rank[Phase(p)'] >= Rank[Phase(p)]

(***************************************************************************)
(* From the epoch in which voting starts, the snapshot, the window and the *)
(* support that a proposal rests on are fixed for good, so that votes cast *)
(* at different times are weighed by one snapshot                          *)
(* (flush_merkle_root.rs:60), and what the command line shows of an        *)
(* activated proposal moves only when the admin rebinds it                 *)
(* (phase.rs:154-191).                                                     *)
(***************************************************************************)
ScheduleIsFixed == [][FixedOnceStarted /\ ScheduleIsItsOwn]_proposalVars

\* What the command line says of a proposal holds (PhaseTellsWhatIsAccepted,
\* CountdownHolds).
PhasesAreTrue == PhaseTellsWhatIsAccepted /\ CountdownHolds
=============================================================================
