---------------------------- MODULE ProofExpiry ----------------------------
(***************************************************************************)
(* When a proof account may be closed, against when voting ends: the       *)
(* client reads the epoch information, walks back over skipped slots to a  *)
(* slot that has a block time, and writes its estimate into the account;   *)
(* the chain then reaches the end epoch at whatever pace it has.           *)
(***************************************************************************)
EXTENDS TransactionEstimates

CONSTANTS
    SlotsInEpoch,
    EpochsAhead,   \* end epochs, relative to the current one; may be negative
    SlotIndexes,   \* positions in the current epoch
    Paces,         \* average milliseconds per slot until voting ends
    MaxSkipped,    \* bound: slots in a row without a block time
    CurrentEpoch, Genesis   \* the epoch of the info, and its start's block time

VARIABLES
    info,      \* getEpochInfo
    endEpoch,  \* of the proposal
    skipped,   \* how many slots, from the current one down, have no block time
    candidate, attempts,  \* of blockTimeAtOrBefore
    outcome,   \* "walking", "failed" or "done"
    close      \* the close timestamp, once done

vars == <<info, endEpoch, skipped, candidate, attempts, outcome, close>>

ExpiryAssumption ==
    /\ SlotsInEpoch \in Nat \ {0} /\ MaxSkipped \in Nat /\ CurrentEpoch \in Nat
    /\ EpochsAhead \subseteq Int /\ Paces \subseteq Nat
    /\ SlotIndexes \subseteq 0 .. SlotsInEpoch - 1
    /\ Genesis \in Nat

MAX_ATTEMPTS == 8

\* Block times so far ran at the nominal pace.
BlockTime(slot) == Genesis + (slot * MS_PER_SLOT) \div 1000

Init ==
    /\ \E i \in SlotIndexes :
          info = [epoch |-> CurrentEpoch, slotIndex |-> i, slotsInEpoch |-> SlotsInEpoch,
                  absoluteSlot |-> CurrentEpoch * SlotsInEpoch + i]
    /\ \E n \in EpochsAhead : endEpoch = CurrentEpoch + n
    /\ skipped \in 0 .. MaxSkipped
    /\ candidate = info.absoluteSlot
    /\ attempts = 0
    /\ outcome = "walking"
    /\ close = 0

HasBlockTime(slot) == slot <= info.absoluteSlot - skipped

\* The slot that resolved is the reference, so that slot and time agree.
ReferenceSlot(slot) == slot

\* One attempt of blockTimeAtOrBefore; slot 0 is the last one tried.
blockTimeAtOrBefore ==
    /\ outcome = "walking"
    /\ attempts' = attempts + 1
    /\ IF HasBlockTime(candidate)
       THEN /\ outcome' = "done"
            /\ close' = computeProofCloseTimestamp(info, endEpoch,
                           ReferenceSlot(candidate), BlockTime(candidate))
            /\ UNCHANGED candidate
       ELSE /\ outcome' = IF attempts' = MAX_ATTEMPTS \/ candidate = 0
                          THEN "failed" ELSE outcome
            /\ candidate' = IF candidate = 0 THEN 0 ELSE candidate - 1
            /\ UNCHANGED close
    /\ UNCHANGED <<info, endEpoch, skipped>>

Next == blockTimeAtOrBefore

Spec == Init /\ [][Next]_vars

-----------------------------------------------------------------------------
Done == outcome = "done"

\* From the slot the estimate was made at to the first slot of the end epoch.
Remaining == TargetSlot(info, endEpoch) - info.absoluteSlot

\* When voting ends, rounded up, if slots take pace milliseconds from now on.
VotingEnds(pace) ==
    BlockTime(info.absoluteSlot) + (Remaining * pace + 999) \div 1000

\* However many slots were skipped and wherever in the epoch the vote is cast,
\* the account cannot be closed by strangers before voting ends, as long as
\* slots take less than 480 ms on average and three slots are left.
NotClosableWhileVoting ==
    Done /\ Remaining >= 3 =>
        \A pace \in Paces : pace < 480 => close >= VotingEnds(pace)

\* A proof created once voting has been over for as many slots as the walk may
\* go back is closable at once.
PastStaysClosable ==
    Done /\ Remaining <= - MAX_ATTEMPTS => close <= BlockTime(info.absoluteSlot)
=============================================================================
