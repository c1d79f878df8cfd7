------------------------ MODULE SupportTransaction ------------------------
(***************************************************************************)
(* supportProposal in the web client: the ballot box of the support that   *)
(* activates voting is derived from the epoch and from a configuration     *)
(* that is cached for an hour by the server and for another by the         *)
(* browser, and the compute budget from the number of supporters; other    *)
(* supports, epochs and configuration changes land in between.             *)
(***************************************************************************)
EXTENDS TransactionEstimates, FiniteSets

CONSTANTS
    Validators,    \* whose tabs are open
    Configs,       \* values the three GlobalConfig fields are set to
    FirstConfig,
    SlotsPerEpoch, FirstNormalEpoch, FirstNormalSlot,  \* the cluster's EpochSchedule
    Threshold,     \* supporters at which the threshold is crossed
    Batches,       \* how many other supports land at a time
    MaxEpoch, MaxChanges, MaxMutations   \* bounds: epochs, configuration changes, supports

VARIABLES
    epoch, config, supporters, voting,   \* on chain
    supported,  \* validators that have a Support account
    changes,    \* how often the configuration was changed
    server, client,  \* the cached configurations
    reqs,       \* each validator's mutation
    started,    \* how many mutations there have been
    txs         \* support transactions in flight

chain == <<epoch, config, supporters, voting, supported, changes>>
vars == <<epoch, config, supporters, voting, supported, changes, server, client, reqs, started, txs>>

SupportAssumption ==
    /\ FirstConfig \in Configs
    /\ \A c \in Configs : c.discussion \in Nat /\ c.extension \in Nat /\ c.offset \in Nat
    /\ SlotsPerEpoch \in Nat \ {0} /\ FirstNormalEpoch \in Nat /\ FirstNormalSlot \in Nat
    /\ Threshold \in Nat /\ Batches \subseteq Nat /\ MaxEpoch \in Nat /\ MaxChanges \in Nat
    /\ MaxMutations \in Nat

Idle == [pc |-> "idle", count |-> 0, box |-> 0, epoch |-> 0, config |-> FirstConfig]

Init ==
    /\ epoch = 0 /\ config = FirstConfig /\ supporters = 0 /\ voting = FALSE
    /\ supported = {} /\ changes = 0
    /\ server = FirstConfig /\ client = FirstConfig
    /\ reqs = [v \in Validators |-> Idle]
    /\ started = 0
    /\ txs = {}

\* EpochSchedule.getFirstSlotInEpoch; warm-up epochs are shorter.
getFirstSlotInEpoch(e) ==
    IF e < FirstNormalEpoch THEN (2^e - 1) * 32
    ELSE (e - FirstNormalEpoch) * SlotsPerEpoch + FirstNormalSlot

\* Slip: the discussion epochs are forgotten.
BoxWithoutDiscussion(e, c) == getFirstSlotInEpoch(e + c.extension) + c.offset

\* The snapshot slot the client derives the ballot box from.
SnapshotSlot(e, c) == getFirstSlotInEpoch(e + c.discussion + c.extension) + c.offset

\* The one the program requires: every epoch has SlotsPerEpoch slots.
compute_future_snapshot_slot(e, c) == (e + c.discussion + c.extension) * SlotsPerEpoch + c.offset

-----------------------------------------------------------------------------
Continue(v, r) == reqs' = [reqs EXCEPT ![v] = r]

Mutate(v) ==
    /\ reqs[v].pc = "idle"
    /\ Continue(v, [Idle EXCEPT !.pc = "count", !.config = client])
    /\ started < MaxMutations /\ started' = started + 1
    /\ UNCHANGED <<chain, server, client, txs>>

\* Without an answer the budget is that of a full list.
ReadSupporters(v, answered) ==
    /\ reqs[v].pc = "count"
    /\ Continue(v, [reqs[v] EXCEPT !.pc = "epoch",
                                   !.count = IF answered THEN supporters ELSE MAX_SUPPORTERS])
    /\ UNCHANGED <<chain, server, client, started, txs>>

ReadEpoch(v) ==
    /\ reqs[v].pc = "epoch"
    /\ Continue(v, [reqs[v] EXCEPT !.pc = "sign", !.epoch = epoch,
                                   !.box = SnapshotSlot(epoch, reqs[v].config)])
    /\ UNCHANGED <<chain, server, client, started, txs>>

Transaction(v) ==
    [v |-> v, box |-> reqs[v].box, count |-> reqs[v].count, epoch |-> reqs[v].epoch,
     config |-> reqs[v].config]

Crosses == supporters + 1 >= Threshold

WithinBudget(t) == SupportCost(supporters, Crosses) <= supportComputeUnitLimit(t.count)

\* support_proposal: the whole support fails when the call that crosses the
\* threshold has the wrong ballot box, or runs out of compute units.
Accepts(t) ==
    /\ ~ voting
    /\ t.v \notin supported
    /\ supporters < MAX_SUPPORTERS
    /\ WithinBudget(t)
    /\ Crosses => t.box = compute_future_snapshot_slot(epoch, config)

\* Signing, the simulation by the RPC node and sending.
Send(v) ==
    /\ reqs[v].pc = "sign"
    /\ txs' = IF Accepts(Transaction(v)) THEN txs \cup {Transaction(v)} ELSE txs
    /\ Continue(v, Idle)
    /\ UNCHANGED <<chain, server, client, started>>

supportProposal(v) ==
    \/ \E answered \in BOOLEAN : ReadSupporters(v, answered)
    \/ ReadEpoch(v)
    \/ Send(v)

Fail(v) ==
    /\ reqs[v].pc # "idle"
    /\ Continue(v, Idle)
    /\ UNCHANGED <<chain, server, client, started, txs>>

Land(t) ==
    /\ t \in txs
    /\ txs' = txs \ {t}
    /\ IF Accepts(t)
       THEN /\ supporters' = supporters + 1
            /\ supported' = supported \cup {t.v}
            /\ voting' = Crosses
       ELSE UNCHANGED <<supporters, supported, voting>>
    /\ UNCHANGED <<epoch, config, changes, server, client, reqs, started>>

Expire(t) ==
    /\ t \in txs
    /\ txs' = txs \ {t}
    /\ UNCHANGED <<chain, server, client, reqs, started>>

-----------------------------------------------------------------------------
\* Supports sent with other clients.
OthersSupport(n) ==
    /\ ~ voting
    /\ supporters + n < Threshold /\ supporters + n <= MAX_SUPPORTERS
    /\ supporters' = supporters + n
    /\ UNCHANGED <<epoch, config, voting, supported, changes, server, client, reqs, started, txs>>

NextEpoch ==
    /\ epoch < MaxEpoch
    /\ epoch' = epoch + 1
    /\ UNCHANGED <<config, supporters, voting, supported, changes, server, client, reqs, started, txs>>

UpdateConfig(c) ==
    /\ changes < MaxChanges /\ c # config
    /\ config' = c
    /\ changes' = changes + 1
    /\ UNCHANGED <<epoch, supporters, voting, supported, server, client, reqs, started, txs>>

\* The route's cache is revalidated from the chain, the browser's from the route.
getCachedGovernanceConfig ==
    /\ server # config
    /\ server' = config
    /\ UNCHANGED <<chain, client, reqs, started, txs>>

useGovernanceConfig ==
    /\ client # server
    /\ client' = server
    /\ UNCHANGED <<chain, server, reqs, started, txs>>

Next ==
    \/ \E v \in Validators : Mutate(v) \/ supportProposal(v) \/ Fail(v)
    \/ \E t \in txs : Land(t) \/ Expire(t)
    \/ \E n \in Batches : OthersSupport(n)
    \/ NextEpoch
    \/ \E c \in Configs : UpdateConfig(c)
    \/ getCachedGovernanceConfig
    \/ useGovernanceConfig

Spec == Init /\ [][Next]_vars

-----------------------------------------------------------------------------
Requests ==
    [pc : {"idle", "count", "epoch", "sign"}, count : 0 .. MAX_SUPPORTERS, box : Nat,
     epoch : 0 .. MaxEpoch, config : Configs]

\* Every variable has its type, and the list never exceeds the program's cap.
SupportTypeOK ==
    /\ epoch \in 0 .. MaxEpoch /\ config \in Configs
    /\ supporters \in 0 .. MAX_SUPPORTERS /\ voting \in BOOLEAN
    /\ supported \subseteq Validators /\ changes \in 0 .. MaxChanges
    /\ server \in Configs /\ client \in Configs
    /\ reqs \in [Validators -> Requests]
    /\ started \in 0 .. MaxMutations

\* A support that is ready to be signed, or in flight, names the ballot box the
\* program will ask for, unless the epoch has turned since it was built or the
\* configuration differs from the one it was built from.
NamesTheRightBox ==
    /\ \A v \in Validators :
          reqs[v].pc = "sign" /\ reqs[v].epoch = epoch /\ reqs[v].config = config
              => reqs[v].box = compute_future_snapshot_slot(epoch, config)
    /\ \A t \in txs :
          t.epoch = epoch /\ t.config = config
              => t.box = compute_future_snapshot_slot(epoch, config)

\* A support does not run out of compute units as long as no more than Headroom
\* others have landed since the supporters were counted.
HeadroomSuffices ==
    \A t \in txs : supporters - t.count <= Headroom => WithinBudget(t)
=============================================================================
