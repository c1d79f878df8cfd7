----------------------- MODULE TransactionEstimates -----------------------
(***************************************************************************)
(* The two estimates the web client puts into its transactions: the compute *)
(* budget of a support, and the time until which a proof account may not be *)
(* closed by strangers.  Times are in seconds, slots are absolute.          *)
(***************************************************************************)
EXTENDS Integers

SUPPORT_CU_BASE == 22500
SUPPORT_CU_PER_SUPPORTER == 132
SUPPORT_CU_ACTIVATION == 28000
SUPPORT_CU_HEADROOM_PERCENT == 15
MAX_COMPUTE_UNIT_LIMIT == 1400000
MAX_SUPPORTERS == 2000

\* What a support costs on chain at most: the whole list is re-tallied.
SupportCost(supporters, activates) ==
    SUPPORT_CU_BASE + SUPPORT_CU_PER_SUPPORTER * supporters
        + (IF activates THEN SUPPORT_CU_ACTIVATION ELSE 0)

\* Slip: no headroom for supports that land in between.
ExactComputeUnitLimit(supporters) == SupportCost(supporters, TRUE)

\* Math.ceil of 115 % of the worst case.
supportComputeUnitLimit(supporters) ==
    LET withHeadroom == (SupportCost(supporters, TRUE)
                            * (100 + SUPPORT_CU_HEADROOM_PERCENT) + 99) \div 100
    IN  IF withHeadroom < MAX_COMPUTE_UNIT_LIMIT THEN withHeadroom
        ELSE MAX_COMPUTE_UNIT_LIMIT

\* Supports that may land between reading the count and executing.
Headroom == 57

-----------------------------------------------------------------------------
MS_PER_SLOT == 400
BUFFER_PCT == 20
MIN_BUFFER_SECONDS == 3600

\* Math.trunc of a quotient.
Trunc(n, d) == IF n >= 0 THEN n \div d ELSE -((-n) \div d)

\* Slip: the bare estimate.
NoBuffer(projectedSecs) == 0

\* Slip: expired proposals get the buffer too.
AlwaysBuffer(projectedSecs) ==
    LET share == (projectedSecs * BUFFER_PCT) \div 100
    IN  IF share > MIN_BUFFER_SECONDS THEN share ELSE MIN_BUFFER_SECONDS

\* Forward-looking estimates are moved back.
Buffer(projectedSecs) ==
    LET share == (projectedSecs * BUFFER_PCT) \div 100
    IN  IF projectedSecs <= 0 THEN 0
        ELSE IF share > MIN_BUFFER_SECONDS THEN share ELSE MIN_BUFFER_SECONDS

\* The first slot of endEpoch, from what getEpochInfo says.
TargetSlot(info, endEpoch) ==
    info.absoluteSlot - info.slotIndex + (endEpoch - info.epoch) * info.slotsInEpoch

\* The close timestamp, from the reference slot and its block time.
computeProofCloseTimestamp(info, endEpoch, refSlot, refTime) ==
    LET slotDelta     == TargetSlot(info, endEpoch) - refSlot
        projectedSecs == Trunc(slotDelta * MS_PER_SLOT, 1000)
    IN  refTime + projectedSecs + Buffer(projectedSecs)
=============================================================================
