--------------------------- MODULE PhaseTimeline ---------------------------
(***************************************************************************)
(* How the detail page shows where a proposal stands in time: the timeline *)
(* of its phases, wide and narrow; the countdown to the end of the phase,  *)
(* a date projected from a slot read some minutes ago; the carousel of     *)
(* phase ends and the notification on the support card.                    *)
(*                                                                         *)
(* Time is in milliseconds since slot 0.  The chain makes a slot every     *)
(* pace milliseconds; epochs have SlotsInEpoch slots.                      *)
(***************************************************************************)
EXTENDS Integers, Sequences, SequencesExt

CONSTANTS
    SlotsInEpoch, Pace,
    SampleLists,    \* answers of getRecentPerformanceSamples, "rejected" among them
    SupportEnd, DiscussionEnd, VotingEnd,   \* epochs the phases end with
    None,
    Step, MaxTime   \* bounds: the clock moves by Step until MaxTime

VARIABLES
    clock,      \* Date.now()
    fails,      \* whether the support phase will fail
    slotSeen,   \* absoluteSlot of the last epoch info
    asking,     \* the end epoch whose date is being fetched, or None
    date,       \* activePhaseEndsAt with how it was found, or None
    nowShown,   \* nowMs of the timeline, None until it is mounted
    activeIndex, prevStage,     \* of the carousel
    showMessage                 \* of the notification; its timer runs while it is set

vars == <<clock, fails, slotSeen, asking, date, nowShown, activeIndex, prevStage, showMessage>>

-----------------------------------------------------------------------------
(* The timeline. *)

PHASES == <<"supporting", "discussion", "voting", "finalized">>
LastPhase == Len(PHASES)

\* currentPhaseIndex, counted from 1; 0 for "failed", which is not in the list.
currentPhaseIndex(status) ==
    IF Contains(PHASES, status) THEN CHOOSE i \in DOMAIN PHASES : PHASES[i] = status ELSE 0

resolvePhaseState(i, current, status) ==
    CASE status = "failed" -> IF i = 1 THEN "failed" ELSE "upcoming"
      [] status # "failed" /\ i < current -> "passed"
      [] status # "failed" /\ i = current -> "current"
      [] status # "failed" /\ i > current -> "upcoming"

resolveConnectorVariant(left, right) ==
    IF left = "passed" /\ right \in {"passed", "current"} THEN "complete"
    ELSE IF right = "current" \/ (left = "current" /\ right # "upcoming")
         THEN "flowing" ELSE "upcoming"

shouldAnimateConnector(variant, i, status, current) ==
    variant # "upcoming" /\ status # "finalized" /\ i < current

\* A node: 0 is "Created", i the phase i.
Node(i, state) == [phase |-> i, state |-> state]

\* DesktopPhaseTimeline: all nodes, and whether the connector after each moves.
DesktopNodes(status) ==
    <<Node(0, "passed")>> \o
        [i \in 1 .. LastPhase |->
            Node(i, resolvePhaseState(i, currentPhaseIndex(status), status))]

DesktopMoves(i, status) ==
    LET current == currentPhaseIndex(status)
        state(k) == resolvePhaseState(k, current, status)
    IN IF i = 0 THEN status \notin {"finalized", "failed"}
       ELSE /\ status # "failed"
            /\ shouldAnimateConnector(resolveConnectorVariant(state(i), state(i + 1)),
                                      i, status, current)

\* Slip: the last phase is treated like the others.
SlidingWindowOnly(status) ==
    LET current == currentPhaseIndex(status)
    IN IF status = "failed"
       THEN <<Node(0, "passed"), Node(1, "failed"), Node(2, "upcoming")>>
       ELSE [k \in 1 .. 3 |->
               Node(current - 2 + k,
                    IF current - 2 + k = 0 THEN "passed"
                    ELSE resolvePhaseState(current - 2 + k, current, status))]

\* calculateMobileVisibleNodes: a window on the nodes.
calculateMobileVisibleNodes(status) ==
    LET current == currentPhaseIndex(status)
        node(i) == IF i = 0 THEN Node(0, "passed")
                   ELSE Node(i, resolvePhaseState(i, current, status))
    IN CASE status = "finalized" ->
               <<Node(LastPhase - 2, "passed"), Node(LastPhase - 1, "passed"),
                 Node(LastPhase, "current")>>
         [] status = "failed" -> <<Node(0, "passed"), Node(1, "failed"), Node(2, "upcoming")>>
         [] status \notin {"finalized", "failed"} ->
               <<node(current - 1), node(current)>>
                   \o (IF current < LastPhase THEN <<node(current + 1)>> ELSE <<>>)

\* The connector after the k-th visible node, in MobilePhaseTimeline.
MobileMoves(k, status) ==
    LET nodes == calculateMobileVisibleNodes(status)
    IN /\ status # "failed"
       /\ shouldAnimateConnector(
             resolveConnectorVariant(nodes[k].state, nodes[k + 1].state),
             nodes[k].phase, status, currentPhaseIndex(status))

\* shouldShowEdgeConnectors
shouldShowEdgeConnectors(status) ==
    LET current == currentPhaseIndex(status)
        rightmost == IF status = "finalized" THEN LastPhase
                     ELSE IF status = "failed" THEN 2
                     ELSE IF current + 1 < LastPhase THEN current + 1 ELSE LastPhase
    IN [left |-> current > 1 /\ status # "failed",
        right |-> Len(calculateMobileVisibleNodes(status)) = 3 /\ rightmost < LastPhase]

\* getNodeEmphasis: which visible node stands out.
isHighlighted(k, status) ==
    LET node == calculateMobileVisibleNodes(status)[k]
        currentFinalized == node.state = "current" /\ node.phase = LastPhase
        scaled == /\ k = 2
                  /\ ~currentFinalized
                  /\ ~(node.state = "passed" /\ status = "finalized")
                  /\ node.state # "failed"
    IN scaled \/ currentFinalized \/ node.state = "failed"

-----------------------------------------------------------------------------
(* Dates. *)

SlotAt(t) == t \div Pace
EpochOf(slot) == slot \div SlotsInEpoch
FirstSlot(e) == e * SlotsInEpoch
TrueStart(e) == FirstSlot(e) * Pace

\* Block times come in whole seconds.
BlockTime(slot) == ((slot * Pace) \div 1000) * 1000

DEFAULT_SLOT_TIME_MS == 350

\* Usable samples count by the slots they have.
Usable(samples) == SelectSeq(samples, LAMBDA s : s.numSlots > 0 /\ s.samplePeriodSecs > 0)
TotalOf(samples, field) == FoldLeft(LAMBDA acc, s : acc + s[field], 0, samples)

TotalsAreNumbers(samples) ==
    \A field \in {"numSlots", "samplePeriodSecs"} : TotalOf(Usable(samples), field) \in Nat

\* The totals of whatever samples are answered are numbers.
TimelineAssumption ==
    /\ {SlotsInEpoch, Pace, Step, MaxTime} \subseteq Nat \ {0}
    /\ {SupportEnd, DiscussionEnd, VotingEnd} \subseteq Nat
    /\ 0 < SupportEnd /\ SupportEnd < DiscussionEnd /\ DiscussionEnd < VotingEnd
    /\ None \notin Nat
    /\ TotalsAreNumbers(<<>>)
    /\ \A samples \in SampleLists : samples = "rejected" \/ TotalsAreNumbers(samples)

\* estimateSlotTimeMs, as a fraction.
estimateSlotTimeMs(samples) ==
    LET slots == TotalOf(Usable(samples), "numSlots")
        millis == TotalOf(Usable(samples), "samplePeriodSecs") * 1000
    IN IF slots # 0 /\ 100 * slots <= millis /\ millis <= 1000 * slots
       THEN [millis |-> millis, slots |-> slots]
       ELSE [millis |-> DEFAULT_SLOT_TIME_MS, slots |-> 1]

Outcomes == {"ok", "null", "rejected"}

\* Slip: the projection starts from the browser's clock.
ProjectFromNow(target, slot, atTarget, atSlot, samples, now) ==
    LET rate == IF samples = "rejected" THEN estimateSlotTimeMs(<<>>)
                ELSE estimateSlotTimeMs(samples)
    IN [at |-> now + ((FirstSlot(target) - slot) * rate.millis) \div rate.slots,
        how |-> IF atSlot = "ok" THEN "anchored" ELSE "unanchored",
        now |-> now, target |-> target, slot |-> slot, rate |-> rate]

(***************************************************************************)
(* epochToDate, from the slot of the epoch info, when its requests are     *)
(* answered.  how says where the date comes from.                          *)
(***************************************************************************)
epochToDate(target, slot, atTarget, atSlot, samples, now) ==
    LET rate == IF samples = "rejected" THEN estimateSlotTimeMs(<<>>)
                ELSE estimateSlotTimeMs(samples)
        base == IF atSlot = "ok" THEN BlockTime(slot) ELSE now
        past == target <= EpochOf(slot)
        from(at, how) == [at |-> at, how |-> how, now |-> now, target |-> target,
                          slot |-> slot, rate |-> rate]
    IN IF past /\ atTarget = "ok" THEN from(BlockTime(FirstSlot(target)), "block")
       ELSE IF past /\ atTarget = "rejected" THEN from(now, "now")
       ELSE from(base + ((FirstSlot(target) - slot) * rate.millis) \div rate.slots,
                 IF atSlot = "ok" THEN "anchored" ELSE "unanchored")

Minute == 60000
Hour == 60 * Minute
Day == 24 * Hour

\* Slip: zero left is shown as minutes.
EndsInZero(end, now) ==
    IF end - now < 0 THEN <<"Ended">> ELSE <<"m", (end - now) \div Minute>>

\* calculateVotingEndsIn: the units shown.
calculateVotingEndsIn(end, now) ==
    LET diff == end - now
        days == diff \div Day
        hours == (diff % Day) \div Hour
        minutes == (diff % Hour) \div Minute
    IN IF diff <= 0 THEN <<"Ended">>
       ELSE IF days > 30 THEN <<"mo", days \div 30, days % 30>>
       ELSE IF days > 0 THEN <<"d", days, hours, minutes>>
       ELSE IF hours > 0 THEN <<"h", hours, minutes>>
       ELSE <<"m", minutes>>

-----------------------------------------------------------------------------
\* The status the page has for the epoch it knows of; see ProposalPages.
Status ==
    LET e == EpochOf(slotSeen)
    IN IF e < SupportEnd THEN "supporting"
       ELSE IF fails THEN "failed"
       ELSE IF e < DiscussionEnd THEN "discussion"
       ELSE IF e < VotingEnd THEN "voting" ELSE "finalized"

\* The epoch the countdown is for; None for a failed proposal.
PhaseEnd ==
    CASE Status = "supporting" -> SupportEnd
      [] Status = "discussion" -> DiscussionEnd
      [] Status \in {"voting", "finalized"} -> VotingEnd
      [] Status = "failed" -> None

\* remainingTime of the timeline.
RemainingTime ==
    IF date = None \/ nowShown = None THEN <<"-">>
    ELSE calculateVotingEndsIn(date.at, nowShown)

\* TimeRemainingCarousel: its cards, and the one to start with.
Cards(stage) == IF stage = "supporting" THEN <<"supporting">> ELSE <<"supporting", "discussion">>
InitialIndex(stage) == IF stage = "discussion" THEN 2 ELSE 1
CurrentCard ==
    LET n == Len(Cards(Status)) IN Cards(Status)[IF activeIndex > n THEN n ELSE activeIndex]

\* Slip: the date alone decides.
CardEndedByDate(end) == Status \in {"failed", "finalized"} \/ end < clock

\* isCardEnded, with the end date of the card.
isCardEnded(end) ==
    \/ Status \in {"failed", "finalized"}
    \/ end < clock
    \/ CurrentCard = "supporting" /\ Status # "supporting"
    \/ CurrentCard = "discussion" /\ Status \in {"voting", "finalized"}

-----------------------------------------------------------------------------
Init ==
    /\ clock = 0 /\ fails \in BOOLEAN
    /\ slotSeen = 0
    /\ asking = None /\ date = None /\ nowShown = None
    /\ activeIndex = 1 /\ prevStage = "supporting"
    /\ showMessage = FALSE

TimePasses ==
    /\ clock + Step <= MaxTime
    /\ clock' = clock + Step
    /\ UNCHANGED <<fails, slotSeen, asking, date, nowShown, activeIndex, prevStage, showMessage>>

\* updateNow, when the timeline is mounted and then every minute.
UpdateNow ==
    /\ nowShown # clock
    /\ nowShown' = clock
    /\ UNCHANGED <<clock, fails, slotSeen, asking, date, activeIndex, prevStage, showMessage>>

\* Slip: the carousel keeps its index when the stage changes.
RenderCarouselOnce ==
    /\ prevStage' = Status'
    /\ UNCHANGED activeIndex

\* The render in which the carousel notices another stage.
RenderCarousel ==
    /\ prevStage' = Status'
    /\ activeIndex' = IF Status' # prevStage THEN InitialIndex(Status') ELSE activeIndex

\* A new epoch info; the date is keyed by its slot, and is unknown again.
EpochInfoArrives ==
    /\ slotSeen # SlotAt(clock)
    /\ slotSeen' = SlotAt(clock)
    /\ UNCHANGED <<clock, fails, nowShown, showMessage>>
    /\ date' = None /\ asking' = None
    /\ RenderCarousel

\* useEpochToDate
AskDate ==
    /\ asking = None /\ date = None /\ PhaseEnd # None
    /\ asking' = PhaseEnd
    /\ UNCHANGED <<clock, fails, slotSeen, date, nowShown, activeIndex, prevStage, showMessage>>

DateArrives ==
    /\ asking # None
    /\ \E atTarget, atSlot \in Outcomes, samples \in SampleLists :
          date' = epochToDate(asking, slotSeen, atTarget, atSlot, samples, clock)
    /\ asking' = None
    /\ UNCHANGED <<clock, fails, slotSeen, nowShown, activeIndex, prevStage, showMessage>>

\* goTo, by a dot or by a drag to a neighbour.
GoTo(i) ==
    /\ i \in DOMAIN Cards(Status)
    /\ Status \notin {"voting", "finalized"}
    /\ activeIndex' = i
    /\ UNCHANGED <<clock, fails, slotSeen, asking, date, nowShown, prevStage, showMessage>>

\* handleClick of the notification.
ToggleMessage ==
    /\ showMessage' = ~showMessage
    /\ UNCHANGED <<clock, fails, slotSeen, asking, date, nowShown, activeIndex, prevStage>>

\* Its three-second timer.
MessageTimer ==
    /\ showMessage
    /\ showMessage' = FALSE
    /\ UNCHANGED <<clock, fails, slotSeen, asking, date, nowShown, activeIndex, prevStage>>

Next ==
    \/ TimePasses \/ UpdateNow \/ EpochInfoArrives \/ AskDate \/ DateArrives
    \/ \E i \in 1 .. 2 : GoTo(i)
    \/ ToggleMessage \/ MessageTimer

\* Fairness: timers fire.
Spec == Init /\ [][Next]_vars

-----------------------------------------------------------------------------
\* Everything is of its type; a date is of the slot and phase it was asked for.
TimelineTypeOK ==
    /\ clock \in 0 .. MaxTime /\ nowShown \in {None} \cup 0 .. clock
    /\ slotSeen \in 0 .. SlotAt(clock)
    /\ date # None => date.slot = slotSeen /\ date.target = PhaseEnd
    /\ activeIndex \in 1 .. 2

\* The narrow timeline is a window on the wide one: the same states and the same
\* movement, with the phase the proposal is in or failed in visible and standing
\* out, and a line over the edge exactly on a side that hides something.
MobileShowsTheSame ==
    LET visible == calculateMobileVisibleNodes(Status)
        all == DesktopNodes(Status)
        edges == shouldShowEdgeConnectors(Status)
    IN /\ \E n \in 0 .. Len(all) - Len(visible) :
             /\ visible = SubSeq(all, n + 1, n + Len(visible))
             /\ edges = [left |-> n > 0, right |-> n + Len(visible) < Len(all)]
       /\ \A k \in 1 .. Len(visible) - 1 :
             MobileMoves(k, Status) <=> DesktopMoves(visible[k].phase, Status)
       /\ \A k \in DOMAIN visible :
             isHighlighted(k, Status) <=> visible[k].state \in {"current", "failed"}

\* With performance samples that tell the pace, the date is right to a second
\* however old the slot is it was projected from; without the block time of that
\* slot it is late by the age of the slot at most.
DateIsClose ==
    date # None /\ date.rate.millis = Pace * date.rate.slots =>
        LET off == date.at - TrueStart(date.target)
            age == date.now - date.slot * Pace
        IN CASE date.how \in {"block", "anchored"} -> -1000 < off /\ off <= 0
             [] date.how = "unanchored" -> 0 <= off /\ off <= age
             [] date.how = "now" -> date.target <= EpochOf(date.slot)

\* A countdown for an epoch that has begun, as far as the page knows, has ended,
\* whichever of the requests failed.
OverReadsEnded ==
    date # None /\ nowShown # None /\ date.target <= EpochOf(slotSeen)
        /\ nowShown >= date.now =>
        RemainingTime = <<"Ended">>

\* Whichever card the user turns to and whatever dates were projected, only the
\* phase the proposal is in is counted down.
OnlyTheCurrentPhaseRuns ==
    \A end \in {0, MaxTime + 1} : ~isCardEnded(end) => CurrentCard = Status

\* When the stage changes the carousel turns to it, whatever card it was on.
StageChangeTurnsTheCard ==
    Status' # Status => CurrentCard' = IF Status' = "discussion"
                                       THEN "discussion" ELSE "supporting"
=============================================================================
