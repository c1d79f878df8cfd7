-------------------------- MODULE ProposalFigures --------------------------
(***************************************************************************)
(* The figures the pages show of a proposal: how much of the support       *)
(* threshold is reached, and how much of the snapshot's stake has voted.   *)
(* Each figure mixes answers of separate queries (the proposal, the        *)
(* validators and their stake, the supporters, the configuration, the      *)
(* newest snapshot), any of which may be missing, failed or older than the *)
(* others, while stake moves, votes arrive and snapshots are published.    *)
(*                                                                         *)
(* Percentages are exact fractions here and floating-point numbers in the  *)
(* code; lamports are small integers.                                      *)
(***************************************************************************)
EXTENDS Integers, Sequences, SequencesExt, FiniteSets, FiniteSetsExt

CONSTANTS
    Validators, Stakes,     \* the validators and the stakes one may have
    FirstStake,             \* their stake when the proposal is created
    Thresholds,             \* clusterSupportPctMinBps settings
    Asked,                  \* the queries that run; the others are disabled
    Loading, Missing, None, \* a query without an answer; without data; null
    MaxMoves, MaxSnapshots, MaxRefetches
        \* bounds: stake changes, published snapshots, answers after the first

Options == {"for", "against", "abstain"}

ValuesDiffer ==
    \A x \in {Loading, Missing, None} :
       /\ x \notin Nat /\ x \notin [Validators -> Stakes] /\ x \notin [num : Nat, den : Nat]
       /\ x \notin [Options -> [num : Nat, den : Nat]]

FiguresAssumption ==
    /\ IsFiniteSet(Validators) /\ Validators # {}
    /\ Stakes \subseteq Nat \ {0} /\ FirstStake \in [Validators -> Stakes]
    /\ \A bound \in Thresholds : bound \in Nat /\ bound <= 10000
    /\ {MaxMoves, MaxSnapshots, MaxRefetches} \subseteq Nat
    /\ ValuesDiffer

VARIABLES
    bps,        \* the configured threshold
    stake,      \* stake of every validator in this epoch
    moves,      \* stake changes so far
    proposal,   \* the proposal account
    supporters, voters,
    snapshots,  \* published snapshots; a proposal's snapshotSlot is an index
    page,       \* what each query of the page holds
    refetches   \* answers after the first

vars == <<bps, stake, moves, proposal, supporters, voters, snapshots, page, refetches>>

Queries == {"proposal", "validators", "supporters", "config", "dates", "meta", "own"}

-----------------------------------------------------------------------------
(* The chain and the snapshot service. *)

TotalOf(dist) == SumFunction(dist)

\* Slip: the stake that is needed is rounded up.
ThresholdRoundedUp == (TotalOf(stake) * bps + 9999) \div 10000

\* The stake that is needed, in whole lamports.
min_stake_threshold == (TotalOf(stake) * bps) \div 10000

\* support_proposal and retally_support measure all supporters in this epoch,
\* and activate voting when they reach the threshold.  The snapshot of the
\* vote is one that is not taken yet.
Tally(S) ==
    LET support == SumFunctionOnSet(stake, S)
        reached == support >= min_stake_threshold
    IN [proposal EXCEPT !.support = support, !.voting = reached,
                        !.snapshotSlot = IF reached THEN Len(snapshots) + 1 ELSE 0]

CastOf(p) == p.for + p.against + p.abstain

-----------------------------------------------------------------------------
(* Fractions. *)

Ratio(n, d) == [num |-> n, den |-> d]
ZeroRatio == Ratio(0, 1)
AtLeast(r, n) == r.num >= n * r.den
\* (a / b) as percent of (c / d), for positive b, c and d
Percent(n, d) == IF d > 0 THEN Ratio(n * 100, d) ELSE ZeroRatio
SameRatio(r, q) == r.num * q.den = q.num * r.den

-----------------------------------------------------------------------------
(* Answers. *)

HasData(q) == page[q] \notin {Loading, Missing}
DataOr(q, default) == IF HasData(q) THEN page[q] ELSE default

\* The stake of every vote account, current or delinquent.  StakeWiz adds names
\* and may fail; its own, separately sampled stake is never used.
getValidators(votes, wiz) == [v \in DOMAIN votes |-> votes[v]]

\* Slip: the configured threshold is not used.
DefaultThreshold == 1500

\* supportThresholdPercentFromConfig, in basis points
supportThresholdBps == DataOr("config", 1500)

validatorsStake == IF HasData("validators") THEN TotalOf(page.validators) ELSE 0
numOfValidators == IF HasData("validators") THEN Cardinality(DOMAIN page.validators) ELSE 0

-----------------------------------------------------------------------------
(* The support phase. *)

\* Slip: the threshold, not the stake, is asked whether anything is known.
ZeroThresholdIsMet(support, total, threshold, count, all, crossed) ==
    LET required == total * threshold
        live == IF required > 0 THEN Ratio(support * 1000000, required) ELSE ZeroRatio
    IN [progress |-> IF crossed /\ ~AtLeast(live, 100) THEN Ratio(100, 1) ELSE live,
        ofTotal |-> Percent(support, total),
        remaining |-> IF crossed THEN 0 ELSE Max({0, required - support * 10000}),
        met |-> crossed \/ support * 10000 >= required,
        participation |-> Percent(count, all)]

\* Slip: only the verdict looks at the on-chain record.
LiveProgress(support, total, threshold, count, all, crossed) ==
    LET required == total * threshold
    IN [progress |-> IF required > 0 THEN Ratio(support * 1000000, required) ELSE ZeroRatio,
        ofTotal |-> Percent(support, total),
        remaining |-> IF crossed THEN 0 ELSE Max({0, required - support * 10000}),
        met |-> crossed \/ (total > 0 /\ support * 10000 >= required),
        participation |-> Percent(count, all)]

\* Slip: the threshold has to be exceeded.
StrictThreshold(support, total, threshold, count, all, crossed) ==
    LET required == total * threshold
        live == IF required > 0 THEN Ratio(support * 1000000, required) ELSE ZeroRatio
    IN [progress |-> IF crossed /\ ~AtLeast(live, 100) THEN Ratio(100, 1) ELSE live,
        ofTotal |-> Percent(support, total),
        remaining |-> IF crossed THEN 0 ELSE Max({0, required - support * 10000}),
        met |-> crossed \/ (total > 0 /\ support * 10000 > required),
        participation |-> Percent(count, all)]

\* The threshold is in basis points: amounts it takes part in are in 1/10000
\* of a lamport.
computeSupportStats(support, total, threshold, count, all, crossed) ==
    LET required == total * threshold
        live == IF required > 0 THEN Ratio(support * 1000000, required) ELSE ZeroRatio
    IN [progress |-> IF crossed /\ ~AtLeast(live, 100) THEN Ratio(100, 1) ELSE live,
        ofTotal |-> Percent(support, total),
        remaining |-> IF crossed THEN 0 ELSE Max({0, required - support * 10000}),
        met |-> crossed \/ (total > 0 /\ support * 10000 >= required),
        participation |-> Percent(count, all)]

\* SupportPhaseProgress, of a page that has the proposal.
SupportStats ==
    computeSupportStats(page.proposal.support, validatorsStake, supportThresholdBps,
                        DataOr("supporters", 0), numOfValidators,
                        page.proposal.voting \/ page.proposal.finalized)

\* Slip: a query without data counts as one in flight.
PendingCards ==
    \E q \in {"validators", "supporters", "config"} : ~HasData(q)

\* The cards are skeletons while a query is in flight; the donut never is.  The
\* cards also wait for the dates of two epochs (useEpochToDate, PhaseTimeline), of
\* which only that one is in flight matters here.
SupportCardsLoading == Loading \in {page.validators, page.supporters, page.config, page.dates}

\* "Current Support", "Required Threshold" and "Validator Participation".
SupportCards ==
    IF SupportCardsLoading THEN Loading
    ELSE [support |-> page.proposal.support, ofTotal |-> SupportStats.ofTotal,
          required |-> validatorsStake * supportThresholdBps, total |-> validatorsStake,
          participation |-> SupportStats.participation]

Notification ==
    [visible |-> AtLeast(SupportStats.progress, 80) \/ SupportStats.met,
     reached |-> SupportStats.met]

SupportDonut(stats) ==
    [arc |-> IF AtLeast(stats.progress, 100) THEN Ratio(100, 1) ELSE stats.progress,
     reached |-> stats.met,
     needed |-> IF stats.met THEN None ELSE stats.remaining]

\* StatCard clamps the bar of "Current Support".
SupportBar(stats) == IF AtLeast(stats.ofTotal, 100) THEN Ratio(100, 1) ELSE stats.ofTotal

-----------------------------------------------------------------------------
(* The vote. *)

\* Slip: whatever snapshot is newest measures the vote.
NewestTotal(meta, slot) ==
    IF meta = Missing \/ slot = 0 THEN None ELSE meta.total

\* The total of the served snapshot, when it is the proposal's.
resolveQuorumDenominator(meta, slot) ==
    IF meta = Missing \/ slot = 0 THEN None
    ELSE IF meta.slot # slot THEN None ELSE meta.total

\* Slip: an unknown total is no participation.
UnknownIsZero(p, total) ==
    LET cast == CastOf(p)
        share(d) == [o \in Options |-> Percent(p[o], d)]
    IN [known |-> TRUE,
        participation |-> IF total = None THEN ZeroRatio ELSE Percent(cast, total),
        met |-> total # None /\ cast * 3 >= total,
        voteShare |-> IF cast > 0 THEN share(cast) ELSE None,
        stakeShare |-> IF total = None THEN None ELSE share(total)]

\* computeQuorum and the shares of votes cast and of the snapshot's stake.
computeProposalVoteStats(p, total) ==
    LET cast == CastOf(p)
        share(d) == [o \in Options |-> Percent(p[o], d)]
    IN [known |-> total # None,
        participation |-> IF total = None THEN ZeroRatio ELSE Percent(cast, total),
        met |-> total # None /\ cast * 3 >= total,
        voteShare |-> IF cast > 0 THEN share(cast) ELSE None,
        stakeShare |-> IF total = None THEN None ELSE share(total)]

Denominator == resolveQuorumDenominator(DataOr("meta", Missing), page.proposal.snapshotSlot)
VoteStats == computeProposalVoteStats(page.proposal, Denominator)

\* The card also waits for the wallet's own votes (useHasUserVoted), of which
\* only that they are in flight matters here.
VoteCardLoading == page.meta = Loading \/ page.own = Loading

\* Slip: abstentions are not drawn.
RingWithoutAbstain(p, total) ==
    LET length == [o \in Options |-> IF total = None THEN ZeroRatio ELSE Percent(p[o], total)]
        after(a, b) == IF total = None THEN ZeroRatio ELSE Percent(a + b, total)
    IN [length |-> length,
        offset |-> [o \in Options |-> IF o = "against" THEN after(p.for, 0) ELSE ZeroRatio],
        end |-> after(p.for, p.against),
        centre |-> total]

\* The ring: the length of each arc and where it starts, and the total in the
\* centre, all in percent of the ring.
QuorumDonut(p, total) ==
    LET length == [o \in Options |-> IF total = None THEN ZeroRatio ELSE Percent(p[o], total)]
        after(a, b) == IF total = None THEN ZeroRatio ELSE Percent(a + b, total)
    IN [length |-> length,
        offset |-> [o \in Options |->
            CASE o = "for" -> ZeroRatio
              [] o = "against" -> after(p.for, 0)
              [] o = "abstain" -> after(p.for, p.against)],
        end |-> after(p.for + p.against, p.abstain),
        centre |-> total]

\* One third of the ring.
ReachesMarker(donut) == donut.end.num * 3 >= donut.end.den * 100

\* A row of VoteBreakdown: "-" where a share is unknown.
VoteItem(stats, o) ==
    [share |-> IF stats.voteShare = None THEN None ELSE stats.voteShare[o],
     ofStake |-> IF stats.stakeShare = None THEN None ELSE stats.stakeShare[o]]

VoteBreakdown ==
    IF VoteCardLoading THEN Loading
    ELSE LET stats == VoteStats
         IN [donut |-> QuorumDonut(page.proposal, IF stats.known THEN Denominator ELSE None),
             participation |-> IF stats.known THEN stats.participation ELSE None,
             quorumMet |-> stats.known /\ stats.met,
             items |-> [o \in Options |-> VoteItem(stats, o)]]

\* The table's row of the same proposal.
ParticipationCell ==
    IF page.meta = Loading THEN Loading
    ELSE IF VoteStats.known
         THEN [participation |-> VoteStats.participation, met |-> VoteStats.met] ELSE None

VoteBreakdownCell == VoteStats.voteShare

-----------------------------------------------------------------------------
Init ==
    /\ bps \in Thresholds
    /\ stake = FirstStake
    /\ moves = 0
    /\ proposal = [support |-> 0, voting |-> FALSE, finalized |-> FALSE, snapshotSlot |-> 0,
                   for |-> 0, against |-> 0, abstain |-> 0]
    /\ supporters = {} /\ voters = {}
    /\ snapshots = <<>>
    /\ page = [q \in Queries |-> IF q \in Asked THEN Loading ELSE Missing]
    /\ refetches = 0

Support(v) ==
    /\ ~proposal.voting /\ ~proposal.finalized /\ v \notin supporters
    /\ supporters' = supporters \cup {v}
    /\ proposal' = Tally(supporters')
    /\ UNCHANGED <<bps, stake, moves, voters, snapshots, page, refetches>>

RetallySupport ==
    /\ ~proposal.voting /\ ~proposal.finalized /\ supporters # {}
    /\ proposal' = Tally(supporters)
    /\ UNCHANGED <<bps, stake, moves, supporters, voters, snapshots, page, refetches>>

MoveStake(v, s) ==
    /\ moves < MaxMoves
    /\ stake' = [stake EXCEPT ![v] = s]
    /\ moves' = moves + 1
    /\ UNCHANGED <<bps, proposal, supporters, voters, snapshots, page, refetches>>

\* Operators publish the next snapshot; older ones do not record the total.
PublishSnapshot(recorded) ==
    /\ Len(snapshots) < MaxSnapshots
    /\ snapshots' = Append(snapshots, [dist |-> stake, recorded |-> recorded])
    /\ UNCHANGED <<bps, stake, moves, proposal, supporters, voters, page, refetches>>

\* Slip: a vote replaces the total of its option.
CastVoteReplaces(v, o) ==
    /\ proposal.voting /\ ~proposal.finalized
    /\ proposal.snapshotSlot \in DOMAIN snapshots
    /\ v \notin voters
    /\ voters' = voters \cup {v}
    /\ proposal' = [proposal EXCEPT ![o] = snapshots[proposal.snapshotSlot].dist[v]]
    /\ UNCHANGED <<bps, stake, moves, supporters, snapshots, page, refetches>>

CastVote(v, o) ==
    /\ proposal.voting /\ ~proposal.finalized
    /\ proposal.snapshotSlot \in DOMAIN snapshots
    /\ v \notin voters
    /\ voters' = voters \cup {v}
    /\ proposal' = [proposal EXCEPT ![o] = @ + snapshots[proposal.snapshotSlot].dist[v]]
    /\ UNCHANGED <<bps, stake, moves, supporters, snapshots, page, refetches>>

Finalize ==
    /\ proposal.voting /\ ~proposal.finalized
    /\ proposal' = [proposal EXCEPT !.finalized = TRUE]
    /\ UNCHANGED <<bps, stake, moves, supporters, voters, snapshots, page, refetches>>

\* What a query would answer now.
Answer(q, wiz) ==
    CASE q = "proposal" -> proposal
      [] q = "validators" -> getValidators(stake, wiz)
      [] q = "supporters" -> Cardinality(supporters)
      [] q = "config" -> bps
      [] q = "meta" ->
            LET n == Len(snapshots)
            IN [slot |-> n,
                total |-> IF snapshots[n].recorded THEN TotalOf(snapshots[n].dist) ELSE None]
      [] q \in {"dates", "own"} -> None

\* A query is answered, for the first time or again.  /meta has nothing to
\* serve before the first snapshot.
Fetch(q) ==
    /\ q = "meta" => snapshots # <<>>
    /\ page[q] # Loading => refetches < MaxRefetches
    /\ refetches' = refetches + (IF page[q] = Loading THEN 0 ELSE 1)
    /\ \E wiz \in {Missing, [v \in Validators |-> 1]} :
          page' = [page EXCEPT ![q] = Answer(q, wiz)]
    /\ UNCHANGED <<bps, stake, moves, proposal, supporters, voters, snapshots>>

\* A query fails for good; data it already had stays.
Fail(q) ==
    /\ page[q] = Loading
    /\ page' = [page EXCEPT ![q] = Missing]
    /\ UNCHANGED <<bps, stake, moves, proposal, supporters, voters, snapshots, refetches>>

Next ==
    \/ \E v \in Validators : Support(v)
    \/ RetallySupport
    \/ \E v \in Validators, s \in Stakes : MoveStake(v, s)
    \/ \E recorded \in BOOLEAN : PublishSnapshot(recorded)
    \/ \E v \in Validators, o \in Options : CastVote(v, o)
    \/ Finalize
    \/ \E q \in Asked : Fetch(q) \/ Fail(q)

\* Every request ends: it is answered, or refused or timed out.
Spec ==
    /\ Init /\ [][Next]_vars
    /\ \A q \in Asked : WF_vars(page[q] = Loading /\ (Fetch(q) \/ Fail(q)))

-----------------------------------------------------------------------------
HasPage == HasData("proposal")
VoteCardShown == HasPage /\ ~VoteCardLoading

\* Types of the chain's state and of every answer, and the proposal account's
\* own consistency: voting has a snapshot slot, votes come with a snapshot.
FiguresTypeOK ==
    /\ bps \in Thresholds /\ stake \in [Validators -> Stakes] /\ moves \in 0 .. MaxMoves
    /\ supporters \subseteq Validators /\ voters \subseteq Validators
    /\ Len(snapshots) <= MaxSnapshots
    /\ proposal.voting <=> proposal.snapshotSlot > 0
    /\ HasData("validators") => page.validators \in [Validators -> Stakes]
    /\ HasData("supporters") => page.supporters \in 0 .. Cardinality(Validators)
    /\ HasData("meta") => page.meta.slot \in DOMAIN snapshots

\* Before the stake of the validators is known, or after that query failed,
\* nothing reads as progress unless the chain says the threshold was crossed:
\* an empty ring, an empty bar, no notification (computeSupportStats).
MissingStakeIsNotProgress ==
    HasPage /\ ~HasData("validators") /\ ~page.proposal.voting =>
        LET stats == SupportStats
        IN /\ ~SupportDonut(stats).reached /\ SupportDonut(stats).arc = ZeroRatio
           /\ SupportBar(stats) = ZeroRatio
           /\ ~Notification.visible

\* A proposal the chain let pass shows a full ring, nothing missing and the
\* "reached" notification, wherever stake moved since and whatever is loaded.
CrossedStaysCrossed ==
    HasPage /\ (page.proposal.voting \/ page.proposal.finalized) =>
        LET donut == SupportDonut(SupportStats)
        IN /\ donut.reached /\ donut.arc = Ratio(100, 1) /\ donut.needed = None
           /\ Notification = [visible |-> TRUE, reached |-> TRUE]

\* With the stake known, ring, verdict and missing amount agree: the threshold
\* is reached exactly when nothing is missing, and, unless it is zero, exactly
\* when the ring is full.
DonutAgreesWithVerdict ==
    HasPage /\ HasData("validators") =>
        LET stats == SupportStats
            donut == SupportDonut(stats)
        IN /\ donut.reached <=> stats.remaining = 0
           /\ supportThresholdBps > 0 => (donut.reached <=> AtLeast(donut.arc, 100))
           /\ donut.reached => Notification.visible
           /\ SupportCards # Loading =>
                 stats.remaining = 0 \/ SupportCards.required > SupportCards.support * 10000

\* Of answers all taken at one moment, the page says that less than a lamport is
\* missing exactly when retally_support would activate the vote now: the program
\* rounds the stake it asks for down, the page does not.  So a page is never ahead
\* of the program, and behind it by that fraction at most (computeSupportStats,
\* min_stake_threshold).
FreshVerdictIsTheProgramS ==
    /\ HasPage /\ page.proposal = proposal /\ ~proposal.voting /\ supporters # {}
    /\ page.validators = stake /\ page.config = bps
    /\ proposal.support = SumFunctionOnSet(stake, supporters)
    => LET stats == SupportStats
           activates == Tally(supporters).voting
       IN /\ activates <=> stats.remaining < 10000
          /\ stats.met => activates

\* Quorum is judged by the snapshot of the vote: when a participation is shown,
\* it and the verdict are those of the votes shown in that snapshot's stake,
\* also after newer snapshots are published.
QuorumIsOfTheVotesSnapshot ==
    VoteCardShown =>
        LET card == VoteBreakdown
            shown == card.participation
            total == TotalOf(snapshots[page.proposal.snapshotSlot].dist)
        IN shown # None =>
            /\ page.proposal.snapshotSlot \in DOMAIN snapshots
            /\ SameRatio(shown, Percent(CastOf(page.proposal), total))
            /\ shown.num <= 100 * shown.den
            /\ card.quorumMet <=> CastOf(page.proposal) * 3 >= total

\* The arcs reach the quorum marker exactly when the text beside them says that
\* quorum is met, and follow one another without a gap.
MarkerMeansQuorum ==
    VoteCardShown =>
        LET card == VoteBreakdown
            donut == card.donut
        IN /\ ReachesMarker(donut) <=> card.quorumMet
           /\ donut.centre = None <=> card.participation = None
           /\ SameRatio(donut.offset.against, donut.length.for)

\* An unknown total is shown as unknown, not as zero: no participation, no
\* share of stake, neither on the page nor in the table; the shares of the
\* votes cast need no total and stay.
UnknownIsShownAsUnknown ==
    HasPage /\ (~HasData("meta") \/ Denominator = None) =>
        /\ ParticipationCell \in {Loading, None}
        /\ VoteCardShown =>
              LET card == VoteBreakdown
              IN card.participation = None /\ \A o \in Options : card.items[o].ofStake = None
        /\ CastOf(page.proposal) > 0 => VoteBreakdownCell # None

\* A quorum once shown as met is never shown as missed: votes are not taken
\* back, and later snapshots do not measure the vote.
QuorumIsNotUnmet ==
    VoteCardShown /\ VoteCardShown' /\ page' # page /\ VoteBreakdown.quorumMet =>
       VoteBreakdown'.quorumMet \/ VoteBreakdown'.participation = None

\* Skeletons give way: in the end every card shows figures or says that they
\* are unknown.
SkeletonsEnd == <>[](~SupportCardsLoading /\ ~VoteCardLoading)
=============================================================================
