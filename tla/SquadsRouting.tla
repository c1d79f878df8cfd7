--------------------------- MODULE SquadsRouting ---------------------------
(***************************************************************************)
(* Commands of the two CLIs that are routed through a Squads multisig      *)
(* (route_via_squads of svmgov/cli and of ncn/cli, over squads-client).    *)
(* A command may first create the MetaMerkleProof account in a transaction *)
(* of its own (preflight), then reads the multisig, checks that its signer *)
(* may initiate, builds a vault transaction for the next index and submits *)
(* it; when another proposal took the index meanwhile it reads again, at   *)
(* most MAX_INDEX_ATTEMPTS times.                                          *)
(*                                                                         *)
(* The commands run on different machines, beside the multisig's own users *)
(* (Others) and changes of its members.  The chain accepts or refuses a    *)
(* transaction (Process) before its sender hears of it (Answer), and the   *)
(* answer to one that landed may be lost.  The Squads program is external: *)
(* it creates a vault transaction only at transaction_index + 1, for a     *)
(* member that may initiate; any other index is "already in use".          *)
(***************************************************************************)
EXTENDS Naturals, Sequences

CONSTANTS
    Commands,            \* the commands, each with its own signing member
    MAX_INDEX_ATTEMPTS,  \* attempts of a run to get an index
    MaxRuns,             \* bound: how often a command is run
    MaxOthers,           \* bound: proposals made in the Squads application
    MaxChanges           \* bound: changes of the members' permissions

SquadsAssumption ==
    /\ MAX_INDEX_ATTEMPTS \in Nat \ {0}
    /\ {MaxRuns, MaxOthers, MaxChanges} \subseteq Nat
    /\ "others" \notin Commands

VARIABLES
    initiators,  \* the commands whose signer may initiate a transaction
    vaultTx,     \* the vault transactions by index, each with its maker
    proof,       \* whether the MetaMerkleProof account exists
    cmd,         \* the state of every command
    budget       \* what is left of MaxOthers and MaxChanges

vars == <<initiators, vaultTx, proof, cmd, budget>>

Others == [by |-> "others", run |-> 0]

\* Multisig.transaction_index: the index of the newest vault transaction.
TransactionIndex == Len(vaultTx)

Steps == {"idle", "check", "preflight", "fetch", "submitted", "processed"}
Fates == {"none", "landed", "collided", "denied", "dropped"}
Results == {"none", "created", "not_authorized", "index_race", "error"}

Idle(result, reported, run) ==
    [step |-> "idle", run |-> run, attempt |-> 0, first |-> 0, index |-> 0,
     fate |-> "none", result |-> result, reported |-> reported]

TypeOK ==
    /\ initiators \subseteq Commands
    /\ \A i \in DOMAIN vaultTx :
         vaultTx[i] = Others \/ (vaultTx[i].by \in Commands /\ vaultTx[i].run \in 1..MaxRuns)
    /\ proof \in BOOLEAN
    /\ \A c \in Commands :
         /\ cmd[c].step \in Steps /\ cmd[c].fate \in Fates
         /\ cmd[c].result \in Results
         /\ cmd[c].run \in 0..MaxRuns
         /\ cmd[c].attempt \in 0..MAX_INDEX_ATTEMPTS
         /\ cmd[c].index \in 0..(TransactionIndex + 1)
    /\ budget \in [others : 0..MaxOthers, changes : 0..MaxChanges]

Init ==
    /\ initiators \in SUBSET Commands
    /\ vaultTx = <<>>
    /\ proof \in BOOLEAN
    /\ cmd = [c \in Commands |-> Idle("none", 0, 0)]
    /\ budget = [others |-> MaxOthers, changes |-> MaxChanges]

End(c, result, reported) == cmd' = [cmd EXCEPT ![c] = Idle(result, reported, @.run)]
GoTo(c, step) == cmd' = [cmd EXCEPT ![c].step = step]

----------------------------------------------------------------------------
(* The command.                                                            *)

\* The user runs the command, or runs it again after an error.
Run(c) ==
    /\ cmd[c].step = "idle" /\ cmd[c].result # "created"
    /\ cmd[c].run < MaxRuns
    /\ cmd' = [cmd EXCEPT ![c] = [Idle("none", 0, @.run + 1) EXCEPT !.step = "check"]]
    /\ UNCHANGED <<initiators, vaultTx, proof, budget>>

\* cast_vote_override looks for the proof account; an account it cannot read
\* counts as missing.
CheckProof(c) ==
    /\ cmd[c].step = "check"
    /\ \E found \in {proof, FALSE} : GoTo(c, IF found THEN "fetch" ELSE "preflight")
    /\ UNCHANGED <<initiators, vaultTx, proof, budget>>

\* Slip: the preflight's error is not passed on.
AfterPreflightSlip(c, ok) == GoTo(c, "fetch")

\* send_instructions(preflight)?: an error, a collision too, ends the run.
AfterPreflight(c, ok) == IF ok THEN GoTo(c, "fetch") ELSE End(c, "error", 0)

\* The preflight transaction creates the account, unless it exists or the
\* transaction is dropped; the answer to one that landed may be lost.
Preflight(c) ==
    /\ cmd[c].step = "preflight"
    /\ \E lands, answered \in BOOLEAN :
         /\ lands => ~proof
         /\ proof' = (proof \/ lands)
         /\ AfterPreflight(c, lands /\ answered)
    /\ UNCHANGED <<initiators, vaultTx, budget>>

\* SquadsClient::verify_proposer on the multisig just read.
VerifyProposer(c) == c \in initiators

\* build_vault_tx_with_proposal: the index after the one just read.
NextIndex == TransactionIndex + 1

\* Slip: a retry keeps the index of the first attempt.
FetchedIndexSlip(c) == IF cmd[c].attempt > 0 THEN cmd[c].index ELSE NextIndex

FetchedIndex(c) == NextIndex

\* The index of the run's first attempt.
FirstIndex(c) == IF cmd[c].first = 0 THEN NextIndex ELSE cmd[c].first

Submitted(c) ==
    [cmd[c] EXCEPT !.step = "submitted", !.attempt = @ + 1,
                   !.first = FirstIndex(c), !.index = FetchedIndex(c)]

\* One pass of the loop up to the submission: read the multisig, check the
\* signer's permission, build, sign.  The read may fail.
Fetch(c) ==
    /\ cmd[c].step = "fetch"
    /\ \/ End(c, "error", 0)
       \/ ~VerifyProposer(c) /\ End(c, "not_authorized", 0)
       \/ /\ VerifyProposer(c)
          /\ cmd' = [cmd EXCEPT ![c] = Submitted(c)]
    /\ UNCHANGED <<initiators, vaultTx, proof, budget>>

\* "already in use": read again, or give up after the last attempt.
AfterCollision(c) ==
    IF cmd[c].attempt >= MAX_INDEX_ATTEMPTS THEN End(c, "index_race", 0) ELSE GoTo(c, "fetch")

\* Slip: every failure of a submission is tried again.
AfterErrorSlip(c) == AfterCollision(c)

\* Slip: every failure of a submission is surfaced as a lost race.
AfterErrorAsRace(c) == End(c, "index_race", 0)

\* Any other failure ends the run.
AfterError(c) == End(c, "error", 0)

\* Slip: the index is read from the multisig once the transaction is through.
ReportedIndexSlip(c) == TransactionIndex

\* RoutedOutcome::Squads reports the index that was built.
ReportedIndex(c) == cmd[c].index

\* send_and_confirm_transaction returns: the outcome of the transaction, or
\* an error that tells nothing of it.
Answer(c) ==
    /\ cmd[c].step = "processed"
    /\ \/ cmd[c].fate = "landed" /\ End(c, "created", ReportedIndex(c))
       \/ cmd[c].fate = "collided" /\ AfterCollision(c)
       \/ AfterError(c)
    /\ UNCHANGED <<initiators, vaultTx, proof, budget>>

----------------------------------------------------------------------------
(* The chain and the multisig's other users (external).                    *)

\* The submitted transaction is dropped, or processed against the multisig
\* as it is now.
Process(c) ==
    /\ cmd[c].step = "submitted"
    /\ \E fate \in Fates \ {"none"} :
         /\ fate = "collided" => cmd[c].index # NextIndex
         /\ fate = "denied" => c \notin initiators
         /\ fate = "landed" => cmd[c].index = NextIndex /\ c \in initiators
         /\ cmd' = [cmd EXCEPT ![c] = [@ EXCEPT !.step = "processed", !.fate = fate]]
         /\ vaultTx' = IF fate = "landed"
                       THEN Append(vaultTx, [by |-> c, run |-> cmd[c].run])
                       ELSE vaultTx
    /\ UNCHANGED <<initiators, proof, budget>>

OtherProposal ==
    /\ budget.others > 0
    /\ vaultTx' = Append(vaultTx, Others)
    /\ budget' = [budget EXCEPT !.others = @ - 1]
    /\ UNCHANGED <<initiators, proof, cmd>>

ChangeMember(c) ==
    /\ budget.changes > 0
    /\ initiators' = IF c \in initiators THEN initiators \ {c} ELSE initiators \cup {c}
    /\ budget' = [budget EXCEPT !.changes = @ - 1]
    /\ UNCHANGED <<vaultTx, proof, cmd>>

Next ==
    \/ \E c \in Commands :
         \/ Run(c)
         \/ CheckProof(c)
         \/ Preflight(c)
         \/ Fetch(c)
         \/ Process(c)
         \/ Answer(c)
         \/ ChangeMember(c)
    \/ OtherProposal

Spec == Init /\ [][Next]_vars

----------------------------------------------------------------------------
(* Properties.                                                             *)

MadeBy(c) == {i \in DOMAIN vaultTx : vaultTx[i].by = c /\ vaultTx[i].run = cmd[c].run}

\* One run of a command leaves at most one vault transaction, however often
\* it went round the loop of route_via_squads and whatever answers were lost:
\* only a submission that certainly failed is repeated.
OneTransactionPerRun ==
    \A i, j \in DOMAIN vaultTx :
        vaultTx[i] = vaultTx[j] => i = j \/ vaultTx[i] = Others

\* The index, and so the URL, that a command prints is the one of the vault
\* transaction this very run created, although other proposals may have been
\* made since the multisig was read and since the transaction landed.
ReportedIsItsOwn ==
    \A c \in Commands : cmd[c].result = "created" => MadeBy(c) = {cmd[c].reported}

\* A command that gave up with an index race, or because its signer may not
\* initiate, left no vault transaction of this run behind: running it again
\* proposes nothing twice.
SafeToRunAgain ==
    \A c \in Commands : cmd[c].result \in {"index_race", "not_authorized"} => MadeBy(c) = {}

\* A run that gives up on the index lost a different index every time: at
\* least MAX_INDEX_ATTEMPTS transactions of others were made while it ran,
\* so the retries are not wasted on an index already known to be taken.
RaceMeansLosses ==
    \A c \in Commands :
      (cmd[c].step = "processed" /\ cmd'[c].result = "index_race")
        => TransactionIndex >= cmd[c].first + MAX_INDEX_ATTEMPTS - 1

\* No vault transaction is proposed before the proof account it will read
\* exists: the preflight that creates it comes first and its failure, a lost
\* race for the same account included, stops the command.
ProofThenProposal ==
    \A c \in Commands : MadeBy(c) # {} => proof
=============================================================================
