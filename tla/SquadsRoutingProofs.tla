------------------------ MODULE SquadsRoutingProofs ------------------------
(***************************************************************************)
(* Proofs about SquadsRouting, for any number of commands, runs, attempts, *)
(* proposals of others and changes of members.                             *)
(***************************************************************************)
EXTENDS SquadsRouting, SequenceTheorems, TLAPS

-----------------------------------------------------------------------------
(***************************************************************************)
(* The inductive invariant.  It says of a command x what the multisig      *)
(* holds of its current run (made, the indices of its vault transactions), *)
(* whether the proof account is there (there) and how far the multisig has *)
(* got (last, its newest index).                                           *)
(***************************************************************************)
Command ==
    [step : Steps, run : 0 .. MaxRuns, attempt : 0 .. MAX_INDEX_ATTEMPTS, first : Nat,
     index : Nat, fate : Fates, result : Results, reported : Nat]

Entry == {Others} \cup [by : Commands, run : 1 .. MaxRuns]

\* Before its transaction is processed a run has made nothing; then it has made
\* what its fate says, and what it said in the end is true of that.
Accounted(x, made) ==
    /\ x.step # "idle" => x.run > 0 /\ x.result = "none"
    /\ x.step \in {"check", "preflight", "fetch", "submitted"} => made = {}
    /\ x.step = "processed" =>
          /\ x.fate # "none"
          /\ made = IF x.fate = "landed" THEN {x.index} ELSE {}
    /\ x.result = "created" => made = {x.reported}
    /\ x.step = "idle" /\ x.result \notin {"created", "error"} => made = {}

\* Past the preflight, the proof account is there.
Prepared(x, made, there) ==
    x.step \in {"fetch", "submitted", "processed"} \/ made # {} => there

\* Every attempt but the current one lost an index of its own.
Losing(x, last) ==
    /\ x.index <= last + 1
    /\ x.step \in {"check", "preflight"} => x.attempt = 0
    /\ x.attempt = 0 <=> x.first = 0
    /\ x.step = "fetch" => x.attempt < MAX_INDEX_ATTEMPTS
    /\ x.step = "fetch" /\ x.attempt > 0 => last >= x.first + x.attempt - 1
    /\ x.step \in {"submitted", "processed"} =>
          x.attempt > 0 /\ x.index >= x.first + x.attempt - 1
    /\ x.step = "processed" /\ x.fate = "collided" => x.index <= last

SquadsInv ==
    /\ initiators \subseteq Commands
    /\ vaultTx \in Seq(Entry)
    /\ proof \in BOOLEAN
    /\ cmd \in [Commands -> Command]
    /\ budget \in [others : 0 .. MaxOthers, changes : 0 .. MaxChanges]
    /\ \A i \in DOMAIN vaultTx, c \in Commands :
          vaultTx[i].by = c => vaultTx[i].run <= cmd[c].run
    /\ OneTransactionPerRun
    /\ \A c \in Commands :
          /\ Accounted(cmd[c], MadeBy(c))
          /\ Prepared(cmd[c], MadeBy(c), proof)
          /\ Losing(cmd[c], TransactionIndex)

-----------------------------------------------------------------------------
\* The vault transactions of one run of a command; a run that is still to come
\* has none.
MadeIn(c, run) == {i \in DOMAIN vaultTx : vaultTx[i].by = c /\ vaultTx[i].run = run}

LEMMA VaultIsASequence ==
    ASSUME SquadsInv
    PROVE  /\ TransactionIndex \in Nat
           /\ DOMAIN vaultTx = 1 .. TransactionIndex
           /\ \A i \in DOMAIN vaultTx : vaultTx[i] \in Entry
BY DEF SquadsInv, TransactionIndex

\* What was lost to others stays lost when more is made.
LEMMA LosingIsStable ==
    ASSUME NEW x \in Command, NEW m \in Nat, NEW n \in Nat, m <= n, Losing(x, m)
    PROVE  Losing(x, n)
BY SMT DEF Losing, Command

\* A step of one command that makes nothing keeps the invariant when the new
\* state of the command agrees with what is in the multisig.
LEMMA CommandMoves ==
    ASSUME SquadsInv, NEW c \in Commands, NEW x \in Command,
           cmd' = [cmd EXCEPT ![c] = x],
           UNCHANGED <<initiators, vaultTx, budget>>,
           proof' \in BOOLEAN, proof => proof',
           cmd[c].run <= x.run,
           Accounted(x, MadeIn(c, x.run)),
           Prepared(x, MadeIn(c, x.run), proof'),
           Losing(x, TransactionIndex)
    PROVE  SquadsInv'
<1>1. cmd \in [Commands -> Command] BY DEF SquadsInv
<1>2. cmd' \in [Commands -> Command] BY <1>1
<1>3. \A d \in Commands : cmd'[d] = IF d = c THEN x ELSE cmd[d] BY <1>1
<1>4. ASSUME NEW i \in DOMAIN vaultTx', NEW d \in Commands, vaultTx'[i].by = d
      PROVE  vaultTx'[i].run <= cmd'[d].run
  <2>1. vaultTx[i].run <= cmd[d].run BY <1>4 DEF SquadsInv
  <2>2. QED
    <3>1. vaultTx[i].run \in Int
      BY VaultIsASequence DEF Entry, Others
    <3>2. cmd[d].run \in Int /\ x.run \in Int BY <1>1 DEF Command
    <3>3. QED BY <2>1, <3>1, <3>2, <1>3
<1>5. OneTransactionPerRun' BY DEF SquadsInv, OneTransactionPerRun
<1>6. TransactionIndex' = TransactionIndex BY DEF TransactionIndex
<1>7. ASSUME NEW d \in Commands
      PROVE  /\ Accounted(cmd'[d], MadeBy(d)')
             /\ Prepared(cmd'[d], MadeBy(d)', proof')
             /\ Losing(cmd'[d], TransactionIndex')
  <2>1. CASE d = c
    <3>1. cmd'[d] = x BY <2>1, <1>3
    <3>2. MadeBy(d)' = MadeIn(c, x.run) BY <2>1, <3>1 DEF MadeBy, MadeIn
    <3>3. QED BY <3>1, <3>2, <1>6
  <2>2. CASE d # c
    <3>1. cmd'[d] = cmd[d] BY <2>2, <1>3
    <3>2. MadeBy(d)' = MadeBy(d) BY <3>1 DEF MadeBy
    <3>3. /\ Accounted(cmd[d], MadeBy(d)) /\ Losing(cmd[d], TransactionIndex)
          /\ Prepared(cmd[d], MadeBy(d), proof)
      BY DEF SquadsInv
    <3>4. QED BY <3>1, <3>2, <3>3, <1>6 DEF Prepared
  <2>3. QED BY <2>1, <2>2
<1>8. QED BY <1>2, <1>4, <1>5, <1>7 DEF SquadsInv

\* What the invariant says of one command.
LEMMA OfOneCommand ==
    ASSUME SquadsInv, NEW c \in Commands
    PROVE  /\ cmd[c] \in Command
           /\ MadeBy(c) = MadeIn(c, cmd[c].run)
           /\ Accounted(cmd[c], MadeBy(c))
           /\ Prepared(cmd[c], MadeBy(c), proof)
           /\ Losing(cmd[c], TransactionIndex)
BY DEF SquadsInv, MadeBy, MadeIn

\* A command that stops leaves the multisig as its result says.
LEMMA EndKeeps ==
    ASSUME SquadsAssumption, SquadsInv, NEW c \in Commands, NEW result \in Results \ {"none"}, NEW reported \in Nat,
           End(c, result, reported), UNCHANGED <<initiators, vaultTx, budget>>,
           proof' \in BOOLEAN, proof => proof',
           result = "created" => MadeBy(c) = {reported},
           result \notin {"created", "error"} => MadeBy(c) = {}
    PROVE  SquadsInv'
<1> DEFINE x == Idle(result, reported, cmd[c].run)
<1>1. cmd' = [cmd EXCEPT ![c] = x] BY DEF End
<1>2. cmd[c] \in Command BY OfOneCommand
<1>3. x \in Command BY <1>2 DEF SquadsAssumption, Idle, Command, Steps, Fates, Results
<1>4. x.run = cmd[c].run /\ cmd[c].run <= x.run BY <1>2 DEF Idle, Command
<1>5. MadeIn(c, x.run) = MadeBy(c) BY <1>4, OfOneCommand
<1>6. Accounted(x, MadeBy(c)) BY DEF Idle, Accounted
<1>7. Prepared(x, MadeBy(c), proof') BY OfOneCommand DEF Idle, Prepared
<1>8. Losing(x, TransactionIndex) BY VaultIsASequence DEF Idle, Losing
<1> HIDE DEF x
<1>9. QED BY <1>1, <1>3, <1>4, <1>5, <1>6, <1>7, <1>8, CommandMoves

\* A command that goes on without having made anything.
LEMMA GoToKeeps ==
    ASSUME SquadsAssumption, SquadsInv, NEW c \in Commands, NEW step \in {"preflight", "fetch"},
           GoTo(c, step), UNCHANGED <<initiators, vaultTx, budget>>,
           proof' \in BOOLEAN, proof => proof', step = "fetch" => proof',
           cmd[c].step # "idle", MadeBy(c) = {},
           \/ cmd[c].step \in {"check", "preflight"}
           \/ /\ step = "fetch" /\ cmd[c].step = "processed" /\ cmd[c].fate = "collided"
              /\ cmd[c].attempt < MAX_INDEX_ATTEMPTS
    PROVE  SquadsInv'
<1> DEFINE x == [cmd[c] EXCEPT !.step = step]
<1>1. cmd' = [cmd EXCEPT ![c] = x] BY DEF GoTo
<1>2. cmd[c] \in Command BY OfOneCommand
<1>3. x \in Command BY <1>2 DEF Command, Steps
<1>4. /\ x.step = step /\ x.run = cmd[c].run /\ x.attempt = cmd[c].attempt
      /\ x.first = cmd[c].first /\ x.index = cmd[c].index /\ x.result = cmd[c].result
      /\ x.fate = cmd[c].fate /\ x.reported = cmd[c].reported
      /\ cmd[c].run <= x.run
  BY <1>2 DEF Command
<1> HIDE DEF x
<1>5. MadeIn(c, x.run) = MadeBy(c) BY <1>4, OfOneCommand
<1>6. Accounted(x, MadeBy(c)) BY <1>4, OfOneCommand DEF Accounted
<1>7. Prepared(x, MadeBy(c), proof') BY <1>4, OfOneCommand DEF Prepared
<1>8. Losing(x, TransactionIndex)
  BY <1>2, <1>4, OfOneCommand, VaultIsASequence DEF SquadsAssumption, Losing, Command
<1>9. QED BY <1>1, <1>3, <1>4, <1>5, <1>6, <1>7, <1>8, CommandMoves

-----------------------------------------------------------------------------
(* One lemma per action.                                                   *)

LEMMA RunKeeps ==
    ASSUME SquadsAssumption, SquadsInv, NEW c \in Commands, Run(c)
    PROVE  SquadsInv'
<1> DEFINE x == [Idle("none", 0, cmd[c].run + 1) EXCEPT !.step = "check"]
<1>1. /\ cmd' = [cmd EXCEPT ![c] = x] /\ cmd[c].run < MaxRuns
      /\ UNCHANGED <<initiators, vaultTx, proof, budget>>
  BY DEF Run
<1>2. cmd[c].run \in 0 .. MaxRuns BY OfOneCommand DEF Command
<1>3. x \in Command
  BY <1>1, <1>2 DEF SquadsAssumption, Idle, Command, Steps, Fates, Results
<1>4. /\ x.run = cmd[c].run + 1 /\ x.step = "check" /\ x.result = "none"
      /\ x.attempt = 0 /\ x.first = 0 /\ x.index = 0
      /\ cmd[c].run <= x.run
  BY <1>2 DEF Idle
<1> HIDE DEF x
<1>5. ASSUME NEW i \in DOMAIN vaultTx, vaultTx[i].by = c, vaultTx[i].run = x.run
      PROVE  FALSE
  <2>1. vaultTx[i].run <= cmd[c].run BY <1>5 DEF SquadsInv
  <2>2. QED BY <2>1, <1>5, <1>2, <1>4
<1>6. MadeIn(c, x.run) = {} BY <1>5 DEF MadeIn
<1>7. Accounted(x, MadeIn(c, x.run)) BY <1>2, <1>4, <1>6 DEF Accounted
<1>8. Prepared(x, MadeIn(c, x.run), proof') BY <1>4, <1>6 DEF Prepared
<1>9. Losing(x, TransactionIndex) BY <1>4, VaultIsASequence DEF Losing
<1>10. proof \in BOOLEAN BY DEF SquadsInv
<1>11. QED BY <1>1, <1>3, <1>4, <1>7, <1>8, <1>9, <1>10, CommandMoves

LEMMA CheckProofKeeps ==
    ASSUME SquadsAssumption, SquadsInv, NEW c \in Commands, CheckProof(c)
    PROVE  SquadsInv'
<1>1. PICK found \in {proof, FALSE} : GoTo(c, IF found THEN "fetch" ELSE "preflight")
  BY DEF CheckProof
<1>2. cmd[c].step = "check" /\ UNCHANGED <<initiators, vaultTx, proof, budget>>
  BY DEF CheckProof
<1>3. proof \in BOOLEAN /\ MadeBy(c) = {} BY <1>2, OfOneCommand DEF SquadsInv, Accounted
<1>4. CASE found
  <2>1. GoTo(c, "fetch") /\ proof BY <1>1, <1>4
  <2>2. QED BY <2>1, <1>2, <1>3, GoToKeeps
<1>5. CASE ~found
  <2>1. GoTo(c, "preflight") BY <1>1, <1>5
  <2>2. QED BY <2>1, <1>2, <1>3, GoToKeeps
<1>6. QED BY <1>4, <1>5

LEMMA PreflightKeeps ==
    ASSUME SquadsAssumption, SquadsInv, NEW c \in Commands, Preflight(c)
    PROVE  SquadsInv'
<1>1. PICK lands \in BOOLEAN, answered \in BOOLEAN :
          /\ proof' = (proof \/ lands)
          /\ AfterPreflight(c, lands /\ answered)
  BY DEF Preflight
<1>2. cmd[c].step = "preflight" /\ UNCHANGED <<initiators, vaultTx, budget>>
  BY DEF Preflight
<1>3. proof \in BOOLEAN /\ MadeBy(c) = {} BY <1>2, OfOneCommand DEF SquadsInv, Accounted
<1>4. proof' \in BOOLEAN /\ (proof => proof') BY <1>1, <1>3
<1>5. CASE lands /\ answered
  <2>1. GoTo(c, "fetch") /\ proof' BY <1>1, <1>5 DEF AfterPreflight
  <2>2. QED BY <2>1, <1>2, <1>3, <1>4, GoToKeeps
<1>6. CASE ~(lands /\ answered)
  <2>1. End(c, "error", 0) BY <1>1, <1>6 DEF AfterPreflight
  <2>2. "error" \in Results \ {"none"} BY DEF Results
  <2>3. QED BY <2>1, <2>2, <1>2, <1>4, EndKeeps
<1>7. QED BY <1>5, <1>6

LEMMA FetchKeeps ==
    ASSUME SquadsAssumption, SquadsInv, NEW c \in Commands, Fetch(c)
    PROVE  SquadsInv'
<1>1. cmd[c].step = "fetch" /\ UNCHANGED <<initiators, vaultTx, proof, budget>>
  BY DEF Fetch
<1>2. proof \in BOOLEAN /\ proof /\ MadeBy(c) = {}
  BY <1>1, OfOneCommand DEF SquadsInv, Accounted, Prepared
<1>3. {"error", "not_authorized"} \subseteq Results \ {"none"} BY DEF Results
<1>4. CASE End(c, "error", 0)
  BY <1>1, <1>2, <1>3, <1>4, EndKeeps
<1>5. CASE End(c, "not_authorized", 0)
  BY <1>1, <1>2, <1>3, <1>5, EndKeeps
<1> DEFINE x == Submitted(c)
<1>6. CASE cmd' = [cmd EXCEPT ![c] = x]
  <2>1. /\ cmd[c] \in Command /\ Accounted(cmd[c], MadeBy(c))
        /\ Losing(cmd[c], TransactionIndex) /\ MadeBy(c) = MadeIn(c, cmd[c].run)
    BY OfOneCommand
  <2>4. /\ cmd[c].attempt \in Nat /\ cmd[c].attempt < MAX_INDEX_ATTEMPTS
        /\ cmd[c].first \in Nat /\ cmd[c].run \in Nat
    BY <1>1, <2>1 DEF Losing, Command
  <2>5. NextIndex \in Nat /\ NextIndex = TransactionIndex + 1 /\ TransactionIndex \in Nat
    BY VaultIsASequence DEF NextIndex
  <2>a. FirstIndex(c) \in Nat BY <2>4, <2>5 DEF FirstIndex
  <2>b. cmd[c].attempt + 1 \in 0 .. MAX_INDEX_ATTEMPTS BY <2>4 DEF SquadsAssumption
  <2>6. x \in Command
    BY <2>1, <2>5, <2>a, <2>b DEF Submitted, Command, Steps, FetchedIndex
  <2>7. /\ x.step = "submitted" /\ x.attempt = cmd[c].attempt + 1
        /\ x.first = FirstIndex(c)
        /\ x.index = NextIndex /\ x.run = cmd[c].run /\ x.result = cmd[c].result
        /\ cmd[c].run <= x.run
    BY <2>1, <2>4 DEF Submitted, Command, FetchedIndex
  <2> HIDE DEF x
  <2>8. Accounted(x, MadeIn(c, x.run)) BY <1>1, <1>2, <2>1, <2>7 DEF Accounted
  <2>9. Prepared(x, MadeIn(c, x.run), proof') BY <1>1, <1>2, <2>7 DEF Prepared
  <2>10. Losing(x, TransactionIndex)
    BY <1>1, <2>1, <2>4, <2>5, <2>7 DEF Losing, FirstIndex
  <2>11. QED BY <1>1, <1>2, <1>6, <2>6, <2>7, <2>8, <2>9, <2>10, CommandMoves
<1>7. QED BY <1>4, <1>5, <1>6 DEF Fetch

LEMMA AnswerKeeps ==
    ASSUME SquadsAssumption, SquadsInv, NEW c \in Commands, Answer(c)
    PROVE  SquadsInv'
<1>1. cmd[c].step = "processed" /\ UNCHANGED <<initiators, vaultTx, proof, budget>>
  BY DEF Answer
<1>2. /\ proof \in BOOLEAN /\ proof
      /\ MadeBy(c) = IF cmd[c].fate = "landed" THEN {cmd[c].index} ELSE {}
      /\ cmd[c] \in Command
  BY <1>1, OfOneCommand DEF SquadsInv, Accounted, Prepared
<1>3. {"error", "created", "index_race"} \subseteq Results \ {"none"} BY DEF Results
<1>4. CASE cmd[c].fate = "landed" /\ End(c, "created", ReportedIndex(c))
  <2>1. ReportedIndex(c) \in Nat /\ MadeBy(c) = {ReportedIndex(c)}
    BY <1>2, <1>4 DEF ReportedIndex, Command
  <2>2. QED BY <1>1, <1>2, <1>3, <1>4, <2>1, EndKeeps
<1>5. CASE cmd[c].fate = "collided" /\ AfterCollision(c)
  <2>1. MadeBy(c) = {} BY <1>2, <1>5
  <2>2. CASE End(c, "index_race", 0)
    BY <1>1, <1>2, <1>3, <2>1, <2>2, EndKeeps
  <2>3. CASE cmd[c].attempt < MAX_INDEX_ATTEMPTS /\ GoTo(c, "fetch")
    BY <1>1, <1>2, <1>5, <2>1, <2>3, GoToKeeps
  <2>4. cmd[c].attempt \in Int /\ MAX_INDEX_ATTEMPTS \in Int
    BY <1>2 DEF Command, SquadsAssumption
  <2>5. QED BY <1>5, <2>2, <2>3, <2>4 DEF AfterCollision
<1>6. CASE AfterError(c)
  BY <1>1, <1>2, <1>3, <1>6, EndKeeps DEF AfterError
<1>7. QED BY <1>4, <1>5, <1>6 DEF Answer

\* A new vault transaction is the newest of the multisig: those that were there
\* keep their places, and a run it is not of still has what it had.
LEMMA AppendedTransaction ==
    ASSUME SquadsInv, NEW e \in Entry, vaultTx' = Append(vaultTx, e)
    PROVE  /\ vaultTx' \in Seq(Entry)
           /\ TransactionIndex' = TransactionIndex + 1
           /\ DOMAIN vaultTx' = DOMAIN vaultTx \cup {NextIndex}
           /\ NextIndex \notin DOMAIN vaultTx
           /\ vaultTx'[NextIndex] = e
           /\ \A i \in DOMAIN vaultTx : vaultTx'[i] = vaultTx[i]
<1>1. vaultTx \in Seq(Entry) BY DEF SquadsInv
<1>2. /\ vaultTx' \in Seq(Entry) /\ Len(vaultTx') = Len(vaultTx) + 1
      /\ vaultTx'[Len(vaultTx) + 1] = e
      /\ \A i \in 1 .. Len(vaultTx) : vaultTx'[i] = vaultTx[i]
  BY <1>1, AppendProperties
<1>3. Len(vaultTx) \in Nat /\ DOMAIN vaultTx = 1 .. Len(vaultTx)
      /\ DOMAIN vaultTx' = 1 .. Len(vaultTx')
  BY <1>1, <1>2
<1>4. NextIndex = Len(vaultTx) + 1 BY DEF NextIndex, TransactionIndex
<1>5. DOMAIN vaultTx' = DOMAIN vaultTx \cup {NextIndex} BY <1>2, <1>3, <1>4
<1>6. NextIndex \notin DOMAIN vaultTx BY <1>3, <1>4
<1>7. QED BY <1>2, <1>3, <1>4, <1>5, <1>6 DEF TransactionIndex

\* A command's transaction is processed without landing.
LEMMA RefusedKeeps ==
    ASSUME SquadsAssumption, SquadsInv, NEW c \in Commands, NEW fate \in Fates \ {"none", "landed"},
           cmd[c].step = "submitted",
           fate = "collided" => cmd[c].index # NextIndex,
           cmd' = [cmd EXCEPT ![c] = [@ EXCEPT !.step = "processed", !.fate = fate]],
           UNCHANGED <<initiators, vaultTx, proof, budget>>
    PROVE  SquadsInv'
<1> DEFINE x == [cmd[c] EXCEPT !.step = "processed", !.fate = fate]
<1>1. cmd' = [cmd EXCEPT ![c] = x] OBVIOUS
<1>2. /\ cmd[c] \in Command /\ MadeBy(c) = MadeIn(c, cmd[c].run) /\ MadeBy(c) = {}
      /\ Accounted(cmd[c], MadeBy(c)) /\ Losing(cmd[c], TransactionIndex) /\ proof
  BY OfOneCommand DEF Accounted, Prepared
<1>3. x \in Command BY <1>2 DEF Command, Steps
<1>4. /\ x.step = "processed" /\ x.fate = fate /\ x.run = cmd[c].run
      /\ x.attempt = cmd[c].attempt /\ x.first = cmd[c].first
      /\ x.index = cmd[c].index /\ x.result = cmd[c].result /\ cmd[c].run <= x.run
  BY <1>2 DEF Command
<1> HIDE DEF x
<1>5. Accounted(x, MadeIn(c, x.run)) BY <1>2, <1>4 DEF Accounted
<1>6. Prepared(x, MadeIn(c, x.run), proof') BY <1>2 DEF Prepared
<1>7. Losing(x, TransactionIndex)
  BY <1>2, <1>4, VaultIsASequence DEF Losing, NextIndex, Command
<1>8. proof \in BOOLEAN BY DEF SquadsInv
<1>9. QED BY <1>1, <1>3, <1>4, <1>5, <1>6, <1>7, <1>8, CommandMoves

\* It lands: the newest vault transaction is this run's one and only.
LEMMA LandedKeeps ==
    ASSUME SquadsAssumption, SquadsInv, NEW c \in Commands,
           cmd[c].step = "submitted", cmd[c].index = NextIndex,
           cmd' = [cmd EXCEPT ![c] = [@ EXCEPT !.step = "processed", !.fate = "landed"]],
           vaultTx' = Append(vaultTx, [by |-> c, run |-> cmd[c].run]),
           UNCHANGED <<initiators, proof, budget>>
    PROVE  SquadsInv'
<1> DEFINE x == [cmd[c] EXCEPT !.step = "processed", !.fate = "landed"]
           e == [by |-> c, run |-> cmd[c].run]
<1>1. cmd' = [cmd EXCEPT ![c] = x] OBVIOUS
<1>2. /\ cmd[c] \in Command /\ MadeBy(c) = {}
      /\ Accounted(cmd[c], MadeBy(c)) /\ Losing(cmd[c], TransactionIndex) /\ proof
  BY OfOneCommand DEF Accounted, Prepared
<1>3. x \in Command BY <1>2 DEF Command, Steps, Fates
<1>4. /\ x.step = "processed" /\ x.fate = "landed" /\ x.run = cmd[c].run
      /\ x.attempt = cmd[c].attempt /\ x.first = cmd[c].first
      /\ x.index = cmd[c].index /\ x.result = cmd[c].result
  BY <1>2 DEF Command
<1>5. e \in Entry BY <1>2 DEF Entry, Accounted, Command
<1>6. e.by = c /\ e.run = cmd[c].run OBVIOUS
<1>7. cmd \in [Commands -> Command] BY DEF SquadsInv
<1> HIDE DEF x, e
<1>8. /\ vaultTx' \in Seq(Entry) /\ TransactionIndex' = TransactionIndex + 1
      /\ DOMAIN vaultTx' = DOMAIN vaultTx \cup {NextIndex}
      /\ NextIndex \notin DOMAIN vaultTx /\ vaultTx'[NextIndex] = e
      /\ \A i \in DOMAIN vaultTx : vaultTx'[i] = vaultTx[i]
  <2>1. vaultTx' = Append(vaultTx, e) BY DEF e
  <2>2. QED BY <2>1, <1>5, AppendedTransaction
<1>9. cmd' \in [Commands -> Command] BY <1>1, <1>3, <1>7
<1>10. \A d \in Commands : cmd'[d] = (IF d = c THEN x ELSE cmd[d]) /\ cmd'[d].run = cmd[d].run
  BY <1>1, <1>4, <1>7
<1>11. ASSUME NEW i \in DOMAIN vaultTx', NEW d \in Commands, vaultTx'[i].by = d
       PROVE  vaultTx'[i].run <= cmd'[d].run
  <2>1. CASE i = NextIndex
    <3>1. cmd'[d].run = cmd[c].run /\ vaultTx'[i].run = cmd[c].run
      BY <2>1, <1>6, <1>8, <1>10, <1>11
    <3>2. cmd[c].run \in Nat BY <1>2 DEF Command
    <3>3. QED BY <3>1, <3>2
  <2>2. CASE i # NextIndex
    <3>1. i \in DOMAIN vaultTx /\ vaultTx'[i] = vaultTx[i] BY <2>2, <1>8
    <3>2. vaultTx[i].run <= cmd[d].run BY <3>1, <1>11 DEF SquadsInv
    <3>3. QED BY <3>1, <3>2, <1>10
  <2>3. QED BY <2>1, <2>2
<1>12. \A i \in DOMAIN vaultTx : vaultTx[i] # e
  BY <1>2, <1>6 DEF MadeBy
<1>13. OneTransactionPerRun'
  <2>1. \A i, j \in DOMAIN vaultTx : vaultTx[i] = vaultTx[j] => i = j \/ vaultTx[i] = Others
    BY DEF SquadsInv, OneTransactionPerRun
  <2>2. ASSUME NEW i \in DOMAIN vaultTx', NEW j \in DOMAIN vaultTx', vaultTx'[i] = vaultTx'[j]
        PROVE  i = j \/ vaultTx'[i] = Others
    BY <2>1, <2>2, <1>8, <1>12
  <2>3. QED BY <2>2 DEF OneTransactionPerRun, Others
<1>14. MadeBy(c)' = {x.index}
  <2>1. \A i \in DOMAIN vaultTx : ~(vaultTx[i].by = c /\ vaultTx[i].run = cmd[c].run)
    BY <1>2 DEF MadeBy
  <2>2. MadeBy(c)' = {i \in DOMAIN vaultTx' : vaultTx'[i].by = c /\ vaultTx'[i].run = cmd[c].run}
    BY <1>10 DEF MadeBy
  <2>3. QED BY <2>1, <2>2, <1>4, <1>6, <1>8
<1>15. ASSUME NEW d \in Commands
       PROVE  /\ Accounted(cmd'[d], MadeBy(d)')
              /\ Prepared(cmd'[d], MadeBy(d)', proof')
              /\ Losing(cmd'[d], TransactionIndex')
  <2>1. CASE d = c
    <3>1. cmd'[d] = x /\ MadeBy(d)' = {x.index} BY <2>1, <1>10, <1>14
    <3>2. Accounted(x, {x.index}) BY <1>2, <1>4 DEF Accounted
    <3>3. Prepared(x, {x.index}, proof') BY <1>2 DEF Prepared
    <3>4. Losing(x, TransactionIndex')
      BY <1>2, <1>4, <1>8, VaultIsASequence DEF Losing, NextIndex, Command
    <3>5. QED BY <3>1, <3>2, <3>3, <3>4
  <2>2. CASE d # c
    <3>1. cmd'[d] = cmd[d] BY <2>2, <1>10
    <3>2. MadeBy(d)' = MadeBy(d)
      BY <2>2, <3>1, <1>6, <1>8 DEF MadeBy
    <3>3. /\ Accounted(cmd[d], MadeBy(d)) /\ Losing(cmd[d], TransactionIndex)
          /\ Prepared(cmd[d], MadeBy(d), proof) /\ cmd[d] \in Command
      BY OfOneCommand
    <3>4. Losing(cmd[d], TransactionIndex') BY <1>8, <3>3, LosingIsStable, VaultIsASequence
    <3>5. QED BY <3>1, <3>2, <3>3, <3>4
  <2>3. QED BY <2>1, <2>2
<1>16. /\ initiators' \subseteq Commands /\ proof' \in BOOLEAN
       /\ budget' \in [others : 0 .. MaxOthers, changes : 0 .. MaxChanges]
  BY DEF SquadsInv
<1>17. QED BY <1>8, <1>9, <1>11, <1>13, <1>15, <1>16 DEF SquadsInv

LEMMA ProcessKeeps ==
    ASSUME SquadsAssumption, SquadsInv, NEW c \in Commands, Process(c)
    PROVE  SquadsInv'
<1>1. PICK fate \in Fates \ {"none"} :
         /\ fate = "collided" => cmd[c].index # NextIndex
         /\ fate = "landed" => cmd[c].index = NextIndex /\ c \in initiators
         /\ cmd' = [cmd EXCEPT ![c] = [@ EXCEPT !.step = "processed", !.fate = fate]]
         /\ vaultTx' = IF fate = "landed"
                       THEN Append(vaultTx, [by |-> c, run |-> cmd[c].run])
                       ELSE vaultTx
  BY DEF Process
<1>2. cmd[c].step = "submitted" /\ UNCHANGED <<initiators, proof, budget>>
  BY DEF Process
<1>3. CASE fate = "landed"
  BY <1>1, <1>2, <1>3, LandedKeeps
<1>4. CASE fate # "landed"
  BY <1>1, <1>2, <1>4, RefusedKeeps
<1>5. QED BY <1>3, <1>4

LEMMA OtherProposalKeeps ==
    ASSUME SquadsAssumption, SquadsInv, OtherProposal
    PROVE  SquadsInv'
<1>1. /\ vaultTx' = Append(vaultTx, Others) /\ UNCHANGED <<initiators, proof, cmd>>
      /\ Others \in Entry
  BY DEF OtherProposal, Entry
<1>2. /\ vaultTx' \in Seq(Entry) /\ TransactionIndex' = TransactionIndex + 1
      /\ DOMAIN vaultTx' = DOMAIN vaultTx \cup {NextIndex}
      /\ NextIndex \notin DOMAIN vaultTx /\ vaultTx'[NextIndex] = Others
      /\ \A i \in DOMAIN vaultTx : vaultTx'[i] = vaultTx[i]
  BY <1>1, AppendedTransaction
<1>3. Others.by \notin Commands BY DEF SquadsAssumption, Others
<1>4. ASSUME NEW i \in DOMAIN vaultTx', NEW d \in Commands, vaultTx'[i].by = d
      PROVE  vaultTx'[i].run <= cmd'[d].run
  <2>1. i \in DOMAIN vaultTx BY <1>2, <1>3, <1>4
  <2>2. QED BY <2>1, <1>1, <1>2, <1>4 DEF SquadsInv
<1>5. OneTransactionPerRun'
  <2>1. \A i, j \in DOMAIN vaultTx : vaultTx[i] = vaultTx[j] => i = j \/ vaultTx[i] = Others
    BY DEF SquadsInv, OneTransactionPerRun
  <2>2. ASSUME NEW i \in DOMAIN vaultTx', NEW j \in DOMAIN vaultTx', vaultTx'[i] = vaultTx'[j]
        PROVE  i = j \/ vaultTx'[i] = Others
    BY <2>1, <2>2, <1>2
  <2>3. QED BY <2>2 DEF OneTransactionPerRun, Others
<1>6. ASSUME NEW d \in Commands
      PROVE  /\ Accounted(cmd'[d], MadeBy(d)')
             /\ Prepared(cmd'[d], MadeBy(d)', proof')
             /\ Losing(cmd'[d], TransactionIndex')
  <2>1. MadeBy(d)' = MadeBy(d) BY <1>1, <1>2, <1>3 DEF MadeBy
  <2>2. /\ Accounted(cmd[d], MadeBy(d)) /\ Losing(cmd[d], TransactionIndex)
        /\ Prepared(cmd[d], MadeBy(d), proof) /\ cmd[d] \in Command
    BY OfOneCommand
  <2>3. Losing(cmd[d], TransactionIndex') BY <1>2, <2>2, LosingIsStable, VaultIsASequence
  <2>4. QED BY <1>1, <2>1, <2>2, <2>3
<1>7. budget' \in [others : 0 .. MaxOthers, changes : 0 .. MaxChanges]
  BY DEF OtherProposal, SquadsInv, SquadsAssumption
<1>8. /\ initiators' \subseteq Commands /\ proof' \in BOOLEAN
      /\ cmd' \in [Commands -> Command]
  BY <1>1 DEF SquadsInv
<1>9. QED BY <1>2, <1>4, <1>5, <1>6, <1>7, <1>8 DEF SquadsInv

LEMMA ChangeMemberKeeps ==
    ASSUME SquadsAssumption, SquadsInv, NEW c \in Commands, ChangeMember(c)
    PROVE  SquadsInv'
<1>1. UNCHANGED <<vaultTx, proof, cmd>> BY DEF ChangeMember
<1>2. initiators' \subseteq Commands BY DEF ChangeMember, SquadsInv
<1>3. budget' \in [others : 0 .. MaxOthers, changes : 0 .. MaxChanges]
  BY DEF ChangeMember, SquadsInv, SquadsAssumption
<1>4. QED
  BY <1>1, <1>2, <1>3 DEF SquadsInv, OneTransactionPerRun, MadeBy, TransactionIndex, Others

-----------------------------------------------------------------------------
LEMMA SquadsInvInit ==
    ASSUME SquadsAssumption, Init
    PROVE  SquadsInv
<1> DEFINE x == Idle("none", 0, 0)
<1>1. vaultTx = <<>> /\ proof \in BOOLEAN /\ initiators \subseteq Commands
  BY DEF Init
<1>2. vaultTx \in Seq(Entry) /\ DOMAIN vaultTx = {} /\ TransactionIndex = 0
  BY <1>1 DEF TransactionIndex
<1>3. x \in Command BY DEF SquadsAssumption, Idle, Command, Steps, Fates, Results
<1>4. cmd = [c \in Commands |-> x] BY DEF Init
<1>5. Accounted(x, {}) /\ Prepared(x, {}, proof) /\ Losing(x, 0)
  BY DEF Accounted, Prepared, Losing, Idle
<1> HIDE DEF x
<1>6. cmd \in [Commands -> Command] /\ \A c \in Commands : cmd[c] = x
  BY <1>3, <1>4
<1>7. budget \in [others : 0 .. MaxOthers, changes : 0 .. MaxChanges]
  BY DEF Init, SquadsAssumption
<1>8. OneTransactionPerRun BY <1>2 DEF OneTransactionPerRun
<1>9. \A c \in Commands : MadeBy(c) = {} BY <1>2 DEF MadeBy
<1>10. \A c \in Commands : /\ Accounted(cmd[c], MadeBy(c))
                           /\ Prepared(cmd[c], MadeBy(c), proof)
                           /\ Losing(cmd[c], TransactionIndex)
  BY <1>2, <1>5, <1>6, <1>9
<1>11. QED BY <1>1, <1>2, <1>6, <1>7, <1>8, <1>10 DEF SquadsInv

LEMMA SquadsInvNext ==
    ASSUME SquadsAssumption, SquadsInv, [Next]_vars
    PROVE  SquadsInv'
<1>1. CASE UNCHANGED vars
  BY <1>1 DEF vars, SquadsInv, OneTransactionPerRun, MadeBy, TransactionIndex, Others
<1>2. ASSUME NEW c \in Commands, Run(c) PROVE SquadsInv' BY <1>2, RunKeeps
<1>3. ASSUME NEW c \in Commands, CheckProof(c) PROVE SquadsInv' BY <1>3, CheckProofKeeps
<1>4. ASSUME NEW c \in Commands, Preflight(c) PROVE SquadsInv' BY <1>4, PreflightKeeps
<1>5. ASSUME NEW c \in Commands, Fetch(c) PROVE SquadsInv' BY <1>5, FetchKeeps
<1>6. ASSUME NEW c \in Commands, Process(c) PROVE SquadsInv' BY <1>6, ProcessKeeps
<1>7. ASSUME NEW c \in Commands, Answer(c) PROVE SquadsInv' BY <1>7, AnswerKeeps
<1>8. ASSUME NEW c \in Commands, ChangeMember(c) PROVE SquadsInv' BY <1>8, ChangeMemberKeeps
<1>9. CASE OtherProposal BY <1>9, OtherProposalKeeps
<1>10. QED BY <1>1, <1>2, <1>3, <1>4, <1>5, <1>6, <1>7, <1>8, <1>9 DEF Next

\* The invariant holds of every behaviour.
THEOREM SquadsInvAlways ==
    ASSUME SquadsAssumption
    PROVE  Spec => []SquadsInv
<1>1. Init => SquadsInv BY SquadsInvInit
<1>2. SquadsInv /\ [Next]_vars => SquadsInv' BY SquadsInvNext
<1>3. QED BY <1>1, <1>2, PTL DEF Spec

\* Indices, attempts and runs stay in their ranges: no run goes round the loop
\* of route_via_squads more than MAX_INDEX_ATTEMPTS times, and none submits an
\* index beyond the next one.
THEOREM SquadsTypes ==
    ASSUME SquadsAssumption
    PROVE  Spec => []TypeOK
<1>1. SquadsInv => TypeOK
  <2> SUFFICES ASSUME SquadsInv PROVE TypeOK OBVIOUS
  <2>1. ASSUME NEW i \in DOMAIN vaultTx
        PROVE  \/ vaultTx[i] = Others
               \/ vaultTx[i].by \in Commands /\ vaultTx[i].run \in 1 .. MaxRuns
    BY VaultIsASequence DEF Entry
  <2>2. ASSUME NEW c \in Commands
        PROVE  /\ cmd[c].step \in Steps /\ cmd[c].fate \in Fates
               /\ cmd[c].result \in Results
               /\ cmd[c].run \in 0 .. MaxRuns
               /\ cmd[c].attempt \in 0 .. MAX_INDEX_ATTEMPTS
               /\ cmd[c].index \in 0 .. (TransactionIndex + 1)
    BY OfOneCommand, VaultIsASequence DEF Command, Losing
  <2>3. QED BY <2>1, <2>2 DEF SquadsInv, TypeOK
<1>2. QED BY <1>1, SquadsInvAlways, PTL

\* One run of a command leaves at most one vault transaction, whatever was
\* dropped, lost or overtaken: for any number of commands, attempts and
\* proposals of others.
THEOREM OneTransaction ==
    ASSUME SquadsAssumption
    PROVE  Spec => []OneTransactionPerRun
<1>1. SquadsInv => OneTransactionPerRun BY DEF SquadsInv
<1>2. QED BY <1>1, SquadsInvAlways, PTL

\* The index a command reports is that of the vault transaction its run made.
THEOREM ReportsItsOwn ==
    ASSUME SquadsAssumption
    PROVE  Spec => []ReportedIsItsOwn
<1>1. SquadsInv => ReportedIsItsOwn BY DEF SquadsInv, Accounted, ReportedIsItsOwn
<1>2. QED BY <1>1, SquadsInvAlways, PTL

\* A lost race and a refused signer leave nothing of the run behind.
THEOREM RunningAgainIsSafe ==
    ASSUME SquadsAssumption
    PROVE  Spec => []SafeToRunAgain
<1>1. SquadsInv => SafeToRunAgain
  <2> SUFFICES ASSUME SquadsInv, NEW c \in Commands,
                      cmd[c].result \in {"index_race", "not_authorized"}
               PROVE  MadeBy(c) = {}
    BY DEF SafeToRunAgain
  <2>1. QED BY OfOneCommand DEF Accounted
<1>2. QED BY <1>1, SquadsInvAlways, PTL

\* Nothing is proposed before the proof account is there.
THEOREM ProofComesFirst ==
    ASSUME SquadsAssumption
    PROVE  Spec => []ProofThenProposal
<1>1. SquadsInv => ProofThenProposal BY DEF SquadsInv, Prepared, ProofThenProposal
<1>2. QED BY <1>1, SquadsInvAlways, PTL

\* What the runs of a command promise together (route_via_squads): at most one vault
\* transaction each, behind the proof account it needs; the index reported is its own;
\* and what a lost race or a refused signer leaves may be run again.
THEOREM RunsAreSound ==
    ASSUME SquadsAssumption
    PROVE  Spec => [](/\ TypeOK /\ OneTransactionPerRun /\ ReportedIsItsOwn
                      /\ SafeToRunAgain /\ ProofThenProposal)
BY SquadsTypes, OneTransaction, ReportsItsOwn, RunningAgainIsSafe, ProofComesFirst, PTL

\* A run that gives up on the index lost it MAX_INDEX_ATTEMPTS times, each time
\* another one.
THEOREM RacesAreLost ==
    ASSUME SquadsAssumption
    PROVE  Spec => [][RaceMeansLosses]_vars
<1>1. SquadsInv /\ [Next]_vars => [RaceMeansLosses]_vars
  <2> SUFFICES ASSUME SquadsInv, Next, NEW c \in Commands,
                      cmd[c].step = "processed", cmd'[c].result = "index_race"
               PROVE  TransactionIndex >= cmd[c].first + MAX_INDEX_ATTEMPTS - 1
    BY DEF RaceMeansLosses
  <2>a. /\ cmd[c] \in Command /\ Accounted(cmd[c], MadeBy(c))
        /\ Losing(cmd[c], TransactionIndex) /\ cmd \in [Commands -> Command]
    BY OfOneCommand DEF SquadsInv
  <2>b. cmd[c].result = "none" BY <2>a DEF Accounted
  <2>1. cmd'[c].result = cmd[c].result \/ Answer(c)
    <3>1. ASSUME NEW d \in Commands, d # c, NEW x, cmd' = [cmd EXCEPT ![d] = x]
          PROVE  cmd'[c] = cmd[c]
      BY <3>1, <2>a
    <3>2. ASSUME NEW d \in Commands, Run(d) PROVE cmd'[c] = cmd[c]
      BY <3>1, <3>2 DEF Run
    <3>3. ASSUME NEW d \in Commands, CheckProof(d) PROVE cmd'[c] = cmd[c]
      <4>1. d # c BY <3>3 DEF CheckProof
      <4>2. PICK step : cmd' = [cmd EXCEPT ![d].step = step] BY <3>3 DEF CheckProof, GoTo
      <4>3. QED BY <4>1, <4>2, <2>a
    <3>4. ASSUME NEW d \in Commands, Preflight(d) PROVE cmd'[c] = cmd[c]
      <4>1. d # c BY <3>4 DEF Preflight
      <4>2. GoTo(d, "fetch") \/ End(d, "error", 0) BY <3>4 DEF Preflight, AfterPreflight
      <4>3. QED BY <4>1, <4>2, <2>a DEF GoTo, End
    <3>5. ASSUME NEW d \in Commands, Fetch(d) PROVE cmd'[c] = cmd[c]
      <4>1. d # c BY <3>5 DEF Fetch
      <4>2. QED BY <4>1, <3>5, <2>a DEF Fetch, End
    <3>6. ASSUME NEW d \in Commands, Process(d) PROVE cmd'[c] = cmd[c]
      <4>1. d # c BY <3>6 DEF Process
      <4>2. QED BY <4>1, <3>6, <2>a DEF Process
    <3>7. ASSUME NEW d \in Commands, Answer(d), d # c PROVE cmd'[c] = cmd[c]
      BY <3>7, <2>a DEF Answer, End, AfterCollision, AfterError, GoTo
    <3>8. ASSUME NEW d \in Commands, ChangeMember(d) PROVE cmd'[c] = cmd[c]
      BY <3>8 DEF ChangeMember
    <3>9. CASE OtherProposal BY <3>9 DEF OtherProposal
    <3>10. QED BY <3>2, <3>3, <3>4, <3>5, <3>6, <3>7, <3>8, <3>9 DEF Next
  <2>2. Answer(c) BY <2>1, <2>b
  <2>3. cmd[c].fate = "collided" /\ cmd[c].attempt >= MAX_INDEX_ATTEMPTS
    <3>1. ASSUME NEW result, NEW reported, End(c, result, reported)
          PROVE  cmd'[c].result = result
      BY <3>1, <2>a DEF End, Idle
    <3>2. ASSUME GoTo(c, "fetch") PROVE cmd'[c].result = cmd[c].result
      BY <3>2, <2>a DEF GoTo, Command
    <3>3. cmd[c].fate = "collided" /\ AfterCollision(c)
      BY <2>2, <3>1 DEF Answer, AfterError
    <3>4. QED BY <3>2, <3>3, <2>b DEF AfterCollision
  <2>4. QED
    BY <2>a, <2>3, VaultIsASequence DEF SquadsAssumption, Losing, Command
<1>2. QED BY <1>1, SquadsInvAlways, PTL DEF Spec
=============================================================================
