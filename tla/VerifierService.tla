-------------------------- MODULE VerifierService --------------------------
(***************************************************************************)
(* A verifier's service (ncn/verifier-service): signed uploads of snapshot *)
(* files are validated and indexed in one database transaction each, while *)
(* wallets ask for their accounts and proofs.  SQLite is external: one     *)
(* writer at a time, other writers wait at most busy_timeout, a query sees *)
(* one committed state.  Hashes are free of collisions: the hash of a file *)
(* is its name, the root of a tree is the sequence of its leaves.          *)
(***************************************************************************)
EXTENDS Integers, Sequences, FiniteSets, SequencesExt

CONSTANTS
    Files,      \* the snapshot files, by hash: [slot, root, bundles]
    Requests,   \* uploads that arrive: [network, slot, root, hash, signed, file]
    Wallets,
    OldUploads, \* what databases of earlier versions may hold: [network, file]
    Uploaders, Readers,   \* concurrent requests
    I64Max, U64Max,
    MaxUploads,           \* bound
    None

VARIABLES
    db,        \* the committed tables: [votes, stakes, metas]
    version,   \* of the schema
    up,        \* the service is running
    upload,    \* the upload of each uploader, with its transaction
    summary,   \* the voter summary each reader is being given
    uploads    \* how many uploads there were

vars == <<db, version, up, upload, summary, uploads>>

SupportedNetworks == {"devnet", "testnet", "mainnet"}

SumOf(amounts) == FoldLeft(LAMBDA a, b : a + b, 0, amounts)
StakesOf(bundle) == [i \in DOMAIN bundle.stakes |-> bundle.stakes[i].stake]
Leaves(bundles) == [i \in DOMAIN bundles |-> bundles[i].leaf]

\* An empty tree has no root.
get_root(leaves) == IF leaves = <<>> THEN None ELSE leaves
get_proof(leaves, i) == [tree |-> leaves, index |-> i]
Verifies(root, leaf, proof) == proof.tree = root /\ proof.tree[proof.index] = leaf

-----------------------------------------------------------------------------
(* What an upload must satisfy, in the order of the checks.                *)

\* Slip: the network is not part of the message.
SignedForAnyNetwork(r) ==
    /\ r.signed # None
    /\ r.signed.slot = r.slot /\ r.signed.root = r.root /\ r.signed.hash = r.hash

verify_signature(r) ==
    r.signed = [slot |-> r.slot, network |-> r.network, root |-> r.root, hash |-> r.hash]

MatchesRequest(r) ==
    /\ r.file # None
    /\ Files[r.file].root = r.root /\ Files[r.file].slot = r.slot /\ r.file = r.hash

validate_stake_merkle_roots(bundles) ==
    \A b \in ToSet(bundles) :
        get_root(b.stakes) # None /\ get_root(b.stakes) = b.leaf.stakeRoot

\* All stake accounts of a file, bundle after bundle.
AllStakes(bundles) == FlattenSeq([i \in DOMAIN bundles |-> bundles[i].stakes])

\* Slip: the stake of a vote account is not compared with its stake accounts.
NoDuplicates(bundles) ==
    /\ IsInjective([i \in DOMAIN bundles |-> bundles[i].leaf.vote])
    /\ IsInjective([i \in DOMAIN AllStakes(bundles) |-> AllStakes(bundles)[i].account])

validate_snapshot(bundles) ==
    /\ IsInjective([i \in DOMAIN bundles |-> bundles[i].leaf.vote])
    /\ IsInjective([i \in DOMAIN AllStakes(bundles) |-> AllStakes(bundles)[i].account])
    /\ \A b \in ToSet(bundles) :
          SumOf(StakesOf(b)) <= U64Max /\ SumOf(StakesOf(b)) = b.leaf.stake

\* Slip: the leaves are trusted to hash to the signed root.
TrustTheRoot(file) == file.bundles # <<>>

reconstruct_meta_merkle_tree(file) ==
    file.bundles # <<>> /\ get_root(Leaves(file.bundles)) = file.root

\* What a file holds: sequences of bundles and of their stake accounts.
WellFormed(file) ==
    /\ file.bundles \in Seq(ToSet(file.bundles))
    /\ \A b \in ToSet(file.bundles) :
          /\ b.leaf.stake \in Nat /\ b.stakes \in Seq(ToSet(b.stakes))
          /\ \A x \in ToSet(b.stakes) : x.stake \in Nat

\* The checks of a file's contents, in the order of the code.
Validated(file) ==
    /\ validate_stake_merkle_roots(file.bundles)
    /\ validate_snapshot(file.bundles)
    /\ reconstruct_meta_merkle_tree(file)

FitsColumns(file) ==
    \A b \in ToSet(file.bundles) :
        b.leaf.stake <= I64Max /\ \A x \in ToSet(b.stakes) : x.stake <= I64Max

ServiceAssumption ==
    /\ I64Max \in Nat /\ U64Max \in Nat /\ I64Max <= U64Max /\ MaxUploads \in Nat
    /\ None \notin Nat
    /\ \A h \in DOMAIN Files : WellFormed(Files[h])
    /\ \A r \in Requests : r.file \in DOMAIN Files \union {None}
    \* what an earlier version indexed had passed its checks
    /\ \A old \in OldUploads :
          /\ old.file \in DOMAIN Files
          /\ Validated(Files[old.file]) /\ FitsColumns(Files[old.file])

\* The status of a refusal, or None for an upload that is indexed.
Refusal(r) ==
    IF r.network \notin SupportedNetworks THEN 400
    ELSE IF ~verify_signature(r) THEN 401
    ELSE IF MatchesRequest(r) /\ Validated(Files[r.file]) THEN None ELSE 400

-----------------------------------------------------------------------------
(* The tables, keyed by network, slot and account.                         *)

delete_by_slot(table, n, s) == Restrict(table, {k \in DOMAIN table : k[1] # n \/ k[2] # s})
Upsert(table, rows) == [k \in DOMAIN table \union DOMAIN rows |->
                            IF k \in DOMAIN rows THEN rows[k] ELSE table[k]]

VoteRow(file, n, i) ==
    LET leaf == file.bundles[i].leaf IN
    [k \in {<<n, file.slot, leaf.vote>>} |->
        [leaf |-> leaf, proof |-> get_proof(Leaves(file.bundles), i)]]

StakeRows(file, n, i) ==
    LET b == file.bundles[i]
        at(account) == CHOOSE j \in DOMAIN b.stakes : b.stakes[j].account = account
    IN  [k \in {<<n, file.slot, x.account>> : x \in ToSet(b.stakes)} |->
            [leaf |-> b.stakes[at(k[3])], vote |-> b.leaf.vote,
             proof |-> get_proof(b.stakes, at(k[3]))]]

total_active_stake(file) == SumOf([i \in DOMAIN file.bundles |-> file.bundles[i].leaf.stake])

MetaRow(hash, n, total) ==
    [k \in {<<n, Files[hash].slot>>} |->
        [root |-> Files[hash].root, hash |-> hash, total |-> total]]

EmptyTable == <<>>
EmptyDb == [votes |-> EmptyTable, stakes |-> EmptyTable, metas |-> EmptyTable]

InsertBundle(d, file, n, i) ==
    [d EXCEPT !.votes = Upsert(@, VoteRow(file, n, i)), !.stakes = Upsert(@, StakeRows(file, n, i))]

\* All the rows of a file.
Indexed(d, hash, n) ==
    FoldLeft(LAMBDA acc, i : InsertBundle(acc, Files[hash], n, i), d,
             [i \in DOMAIN Files[hash].bundles |-> i])

\* A database of an earlier version has no total for its snapshot.
OldDb(old) ==
    [Indexed(EmptyDb, old.file, old.network) EXCEPT !.metas = MetaRow(old.file, old.network, None)]

NoUpload == [pc |-> "idle", r |-> None, tx |-> None, next |-> 0, status |-> None]
NoSummary == [pc |-> "idle", network |-> None, slot |-> 0, wallet |-> None,
              votes |-> {}, stakes |-> {}]

Init ==
    /\ \/ version = 0 /\ db = EmptyDb
       \/ version \in {1, 2} /\ \E old \in OldUploads : db = OldDb(old)
    /\ up = FALSE
    /\ upload = [u \in Uploaders |-> NoUpload]
    /\ summary = [d \in Readers |-> NoSummary]
    /\ uploads = 0

-----------------------------------------------------------------------------
VoteStake(n, s) ==
    LET keys == {k \in DOMAIN db.votes : k[1] = n /\ k[2] = s}
    IN  MapThenSumSet(LAMBDA k : db.votes[k].leaf.stake, keys)

\* Version 3 sums up the vote accounts of every snapshot that has any.
apply_migration_v3 ==
    [k \in DOMAIN db.metas |->
        IF db.metas[k].total = None /\ \E v \in DOMAIN db.votes : v[1] = k[1] /\ v[2] = k[2]
        THEN [db.metas[k] EXCEPT !.total = VoteStake(k[1], k[2])] ELSE db.metas[k]]

\* One transaction per version; the first creates the tables, the second the
\* column.  A restart goes on where the last one came to.
run_migrations ==
    /\ ~up /\ version < 3
    /\ version' = version + 1
    /\ db' = IF version = 2 THEN [db EXCEPT !.metas = apply_migration_v3] ELSE db
    /\ UNCHANGED <<up, upload, summary, uploads>>

Serve ==
    /\ ~up /\ version = 3
    /\ up' = TRUE
    /\ UNCHANGED <<db, version, upload, summary, uploads>>

\* The transaction of a dead process is rolled back.
Crash ==
    /\ up
    /\ up' = FALSE
    /\ upload' = [u \in Uploaders |-> NoUpload]
    /\ summary' = [d \in Readers |-> NoSummary]
    /\ UNCHANGED <<db, version, uploads>>

handle_upload(u, r) ==
    /\ up /\ upload[u].pc = "idle" /\ uploads < MaxUploads
    /\ uploads' = uploads + 1
    /\ upload' = [upload EXCEPT ![u] =
          [NoUpload EXCEPT !.pc = IF Refusal(r) = None THEN "waiting" ELSE "answered",
                           !.r = r, !.status = Refusal(r)]]
    /\ UNCHANGED <<db, version, up, summary>>

Writing == \E u \in Uploaders : upload[u].pc = "indexing"
Answer(u, status) == upload' = [upload EXCEPT ![u] = [NoUpload EXCEPT !.pc = "answered", !.status = status]]

\* Slip: a second upload of a slot is merged into the first.
MergeUploads(u) ==
    /\ upload[u].pc = "waiting" /\ ~Writing
    /\ upload' = [upload EXCEPT ![u].pc = "indexing", ![u].next = 1, ![u].tx = db]
    /\ UNCHANGED <<db, version, up, summary, uploads>>

\* The transaction takes the write lock with its first statement and clears
\* what an earlier upload of the slot has left.
index_snapshot_data(u) ==
    LET r == upload[u].r IN
    /\ upload[u].pc = "waiting" /\ ~Writing
    /\ IF r.slot <= I64Max
       THEN upload' = [upload EXCEPT ![u].pc = "indexing", ![u].next = 1,
                ![u].tx = [db EXCEPT !.votes = delete_by_slot(@, r.network, r.slot),
                                     !.stakes = delete_by_slot(@, r.network, r.slot)]]
       ELSE Answer(u, 500)
    /\ UNCHANGED <<db, version, up, summary, uploads>>

\* busy_timeout, or any failed statement of the transaction.
IndexingFails(u) ==
    /\ upload[u].pc = "indexing" \/ (upload[u].pc = "waiting" /\ Writing)
    /\ Answer(u, 500)
    /\ UNCHANGED <<db, version, up, summary, uploads>>

FitsColumn(amount) == amount <= I64Max

\* Slip: the statements run on the pool and not in the transaction.
InsertOutside(u) ==
    LET r == upload[u].r
        file == Files[r.file]
        i == upload[u].next IN
    /\ upload[u].pc = "indexing" /\ i \in DOMAIN file.bundles
    /\ upload' = [upload EXCEPT ![u].next = i + 1, ![u].tx = InsertBundle(@, file, r.network, i)]
    /\ db' = InsertBundle(db, file, r.network, i)
    /\ UNCHANGED <<version, up, summary, uploads>>

\* The rows of one bundle; one that does not fit ends the transaction.
insert_exec(u) ==
    LET r == upload[u].r
        file == Files[r.file]
        i == upload[u].next IN
    /\ upload[u].pc = "indexing" /\ i \in DOMAIN file.bundles
    /\ IF /\ FitsColumn(file.bundles[i].leaf.stake)
          /\ \A x \in ToSet(file.bundles[i].stakes) : FitsColumn(x.stake)
       THEN upload' = [upload EXCEPT ![u].next = i + 1,
                                     ![u].tx = InsertBundle(@, file, r.network, i)]
       ELSE Answer(u, 500)
    /\ UNCHANGED <<db, version, up, summary, uploads>>

\* The meta row closes the transaction.
Commit(u) ==
    LET r == upload[u].r
        file == Files[r.file]
        total == total_active_stake(file) IN
    /\ upload[u].pc = "indexing" /\ upload[u].next > Len(file.bundles)
    /\ IF total <= U64Max /\ FitsColumn(total)
       THEN /\ db' = [upload[u].tx EXCEPT !.metas = Upsert(@, MetaRow(r.file, r.network, total))]
            /\ Answer(u, 200)
       ELSE Answer(u, 500) /\ UNCHANGED db
    /\ UNCHANGED <<version, up, summary, uploads>>

Respond(u) ==
    /\ upload[u].pc = "answered"
    /\ upload' = [upload EXCEPT ![u] = NoUpload]
    /\ UNCHANGED <<db, version, up, summary, uploads>>

-----------------------------------------------------------------------------
VotesOf(n, s, w) ==
    {db.votes[k].leaf : k \in {k \in DOMAIN db.votes :
                                 k[1] = n /\ k[2] = s /\ db.votes[k].leaf.wallet = w}}
StakesOfWallet(n, s, w) ==
    {db.stakes[k].leaf : k \in {k \in DOMAIN db.stakes :
                                  k[1] = n /\ k[2] = s /\ db.stakes[k].leaf.wallet = w}}

\* A voter summary: a query for the vote accounts of a wallet ...
get_voter_summary(d, n, s, w) ==
    /\ up /\ summary[d].pc = "idle"
    /\ summary' = [summary EXCEPT ![d] =
          [NoSummary EXCEPT !.pc = "votes", !.network = n, !.slot = s, !.wallet = w,
                            !.votes = VotesOf(n, s, w)]]
    /\ UNCHANGED <<db, version, up, upload, uploads>>

\* ... and another one for its stake accounts.
SummaryStakes(d) ==
    /\ summary[d].pc = "votes"
    /\ summary' = [summary EXCEPT ![d].pc = "answered",
          ![d].stakes = StakesOfWallet(summary[d].network, summary[d].slot, summary[d].wallet)]
    /\ UNCHANGED <<db, version, up, upload, uploads>>

SummaryReceived(d) ==
    /\ summary[d].pc = "answered"
    /\ summary' = [summary EXCEPT ![d] = NoSummary]
    /\ UNCHANGED <<db, version, up, upload, uploads>>

Slots == {Files[h].slot : h \in DOMAIN Files}
UsedNetworks == {r.network : r \in Requests}

Next ==
    \/ run_migrations \/ Serve \/ Crash
    \/ \E u \in Uploaders :
         \/ \E r \in Requests : handle_upload(u, r)
         \/ index_snapshot_data(u) \/ IndexingFails(u) \/ insert_exec(u) \/ Commit(u) \/ Respond(u)
    \/ \E d \in Readers :
         \/ \E n \in UsedNetworks, s \in Slots, w \in Wallets : get_voter_summary(d, n, s, w)
         \/ SummaryStakes(d) \/ SummaryReceived(d)

Spec == Init /\ [][Next]_vars

-----------------------------------------------------------------------------
RowsAt(table, n, s) == {k \in DOMAIN table : k[1] = n /\ k[2] = s}

\* Every amount in the tables fits its column, and one transaction is open.
StoreTypeOK ==
    /\ version \in 0 .. 3 /\ up \in BOOLEAN /\ (up => version = 3)
    /\ \A k \in DOMAIN db.votes : db.votes[k].leaf.stake <= I64Max
    /\ \A k \in DOMAIN db.stakes : db.stakes[k].leaf.stake <= I64Max
    /\ \A u, v \in Uploaders : (upload[u].pc = "indexing" /\ upload[v].pc = "indexing") => u = v

\* No hybrid snapshot (upload.rs:268-274): at every moment, whatever uploads of
\* a slot ran, failed or died half way, the tables hold for each network and
\* slot exactly the rows of the file that the meta row names, or none at all.
SnapshotIsWhole ==
    /\ \A k \in DOMAIN db.metas :
          LET whole == Indexed(EmptyDb, db.metas[k].hash, k[1])
          IN  /\ Restrict(db.votes, RowsAt(db.votes, k[1], k[2])) = whole.votes
              /\ Restrict(db.stakes, RowsAt(db.stakes, k[1], k[2])) = whole.stakes
    /\ \A k \in DOMAIN db.votes \union DOMAIN db.stakes : <<k[1], k[2]>> \in DOMAIN db.metas

\* Served proofs verify (upload.rs:232-253): every vote account's against the
\* meta root of its slot, which is the root that consensus is about, and every
\* stake account's against the stake root of its vote account at that slot.
ServedProofsVerify ==
    /\ \A k \in DOMAIN db.votes :
          Verifies(db.metas[<<k[1], k[2]>>].root, db.votes[k].leaf, db.votes[k].proof)
    /\ \A k \in DOMAIN db.stakes :
          LET vote == <<k[1], k[2], db.stakes[k].vote>> IN
          /\ vote \in DOMAIN db.votes
          /\ Verifies(db.votes[vote].leaf.stakeRoot, db.stakes[k].leaf, db.stakes[k].proof)

\* The denominator of the quorum (upload.rs:194-209, migrator.rs:134-141): once
\* the service is up, the total of every snapshot is known and is the stake of
\* all its stake accounts, also for snapshots indexed before it was recorded.
QuorumIsOfTheSnapshot ==
    up => \A k \in DOMAIN db.metas :
        /\ db.metas[k].total # None
        /\ db.metas[k].total = MapThenSumSet(LAMBDA x : db.stakes[x].leaf.stake,
                                             RowsAt(db.stakes, k[1], k[2]))

\* Only what the operator signed for this network and slot replaces what is
\* served (upload.rs:43-57): every new meta row is of a request that carries the
\* operator's signature over exactly its fields.
OnlySignedUploads ==
    \A k \in DOMAIN db.metas' :
       (k \notin DOMAIN db.metas \/ db.metas'[k].hash # db.metas[k].hash) =>
           \E r \in Requests : r.signed = [network |-> k[1], slot |-> k[2],
               root |-> db.metas'[k].root, hash |-> db.metas'[k].hash]

FileVotes(h, w) == {b.leaf : b \in {x \in ToSet(Files[h].bundles) : x.leaf.wallet = w}}
FileStakes(h, w) == {x \in ToSet(AllStakes(Files[h].bundles)) : x.wallet = w}

\* A query never sees an upload half way (upload.rs:265-274): the vote accounts
\* of a voter summary are all those of the wallet in one file, and so are the
\* stake accounts.
QueriesSeeOneSnapshot ==
    \A d \in Readers : LET w == summary[d].wallet IN
        /\ summary[d].votes # {} => \E h \in DOMAIN Files : summary[d].votes = FileVotes(h, w)
        /\ summary[d].stakes # {} => \E h \in DOMAIN Files : summary[d].stakes = FileStakes(h, w)
=============================================================================
