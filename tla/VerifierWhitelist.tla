------------------------- MODULE VerifierWhitelist -------------------------
(***************************************************************************)
(* The job that keeps the routing pool (ncn-router, ncn-meta-cron): it     *)
(* polls the /meta of every configured verifier, compares what they report *)
(* with the winning ballots on chain, drops the verifiers that trail the   *)
(* freshest one, collapses the rows to one per origin and rewrites a       *)
(* whitelist file per network.  What a verifier reports and what the chain *)
(* says of it are arbitrary: polls fail, a verifier publishes or vanishes  *)
(* between two polls, a ballot box may be absent or undecided.             *)
(***************************************************************************)
EXTENDS Integers, Sequences, FiniteSets, SequencesExt

CONSTANTS
    Networks,   \* the networks of this job, in order: both, or the one of --network
    PathOf,     \* the whitelist file of each network
    Config,     \* the verifiers of config.toml, in order: [origin, slash]
    Slots,      \* slots a verifier may report
    MaxLag,     \* NCN_MAX_VERIFIER_SLOT_LAG
    MaxJobs     \* bound: how often the job runs

VARIABLES
    log,      \* the log file of this run: what each poll brought
    job,      \* where the run is, its rows and the whitelist it writes
    jobs,     \* how often it ran
    files,    \* the whitelist files: whole or cut short, with their mtime
    clock,    \* ticks of the file system's timestamps
    written   \* for the properties: every whitelist that a file held, in order

cronVars == <<log, job, jobs, files, clock, written>>

Paths == {PathOf[n] : n \in DOMAIN PathOf}

WhitelistAssumption ==
    /\ Networks \in Seq(DOMAIN PathOf) /\ Len(Networks) > 0
    /\ Config \in Seq([origin : STRING, slash : BOOLEAN]) /\ Len(Config) > 0
    /\ Slots \subseteq Nat /\ MaxLag \in Nat /\ MaxJobs \in Nat

Idle == [pc |-> "idle", net |-> 1, rows |-> <<>>, out |-> <<>>]
NoFile == [mtime |-> 0, whole |-> FALSE, content |-> <<>>]

\* Slip: two spellings are two domains.
DomainAsWritten(domain) == domain

\* The router redirects to the form with a slash.
canonical_domain(domain) == [domain EXCEPT !.slash = TRUE]

-----------------------------------------------------------------------------
(* The whitelist of one network.                                           *)

OkSlots(rows) == {rows[i].slot : i \in {j \in DOMAIN rows : rows[j].status = "ok"}}

chosen_slot(rows) == Max({0} \union OkSlots(rows))

snapshot_slot(rows) ==
    IF chosen_slot(rows) # 0 THEN chosen_slot(rows)
    ELSE Max({rows[i].slot : i \in DOMAIN rows})

Lag(freshest, slot) == IF freshest > slot THEN freshest - slot ELSE 0

demote_stale_verifiers(rows, freshest) ==
    [i \in DOMAIN rows |->
        IF rows[i].status = "ok" /\ Lag(freshest, rows[i].slot) > MaxLag
        THEN [rows[i] EXCEPT !.status = "stale"] ELSE rows[i]]

\* One row per origin, in the order of the configuration; an ok row takes the
\* place of one that is not.
Kept(kept, row) ==
    LET same == {i \in DOMAIN kept :
                    canonical_domain(kept[i].domain) = canonical_domain(row.domain)}
    IN  IF same = {} THEN Append(kept, row)
        ELSE LET i == Min(same) IN
             IF kept[i].status # "ok" /\ row.status = "ok" THEN [kept EXCEPT ![i] = row] ELSE kept

dedupe_verifiers_by_domain(rows) == FoldLeft(Kept, <<>>, rows)

\* Slip: the lag is measured against the highest slot anyone reported.
BehindAnyone(rows) ==
    dedupe_verifiers_by_domain(demote_stale_verifiers(rows, Max({r.slot : r \in ToSet(rows)})))

whitelist_verifiers(rows) ==
    dedupe_verifiers_by_domain(demote_stale_verifiers(rows, chosen_slot(rows)))

-----------------------------------------------------------------------------
CronInit ==
    /\ log = <<>>
    /\ job = Idle
    /\ jobs = 0
    /\ files = [p \in Paths |-> NoFile]
    /\ clock = 0
    /\ written = [p \in Paths |-> <<>>]

\* At start, and then every two hours.  The log of the last run is truncated.
run ==
    /\ job.pc = "idle" /\ jobs < MaxJobs
    /\ jobs' = jobs + 1
    /\ log' = <<>>
    /\ job' = [Idle EXCEPT !.pc = "polling"]
    /\ UNCHANGED <<files, clock, written>>

\* The next poll: each verifier in turn, for each network.
NextPoll ==
    [domain |-> Config[(Len(log) \div Len(Networks)) + 1],
     network |-> Networks[(Len(log) % Len(Networks)) + 1]]

\* A poll that fails is logged with slot 0.  The entry is of the network that
\* was asked for, whatever the verifier says.
fetch_meta ==
    {[domain |-> NextPoll.domain, network |-> NextPoll.network, slot |-> s, error |-> FALSE] :
        s \in Slots}
    \union {[domain |-> NextPoll.domain, network |-> NextPoll.network, slot |-> 0, error |-> TRUE]}

run_meta_job ==
    /\ job.pc = "polling"
    /\ \E entry \in fetch_meta : log' = Append(log, entry)
    /\ job' = [job EXCEPT !.pc = IF Len(log') = Len(Config) * Len(Networks)
                                 THEN "comparing" ELSE @]
    /\ UNCHANGED <<jobs, files, clock, written>>

Network == Networks[job.net]

\* Of the log, the entries of this network.
Pushed(found, entry) == IF entry.network = Network THEN Append(found, entry) ELSE found
entries == FoldLeft(Pushed, <<>>, log)

\* What the chain says of an entry: an error entry is not asked about; a
\* ballot box that cannot be read is an error too.
Verdicts(entry) == IF entry.error THEN {"error"} ELSE {"ok", "mismatch", "error"}

compare_with_chain ==
    /\ job.pc = "comparing" /\ Len(job.rows) < Len(entries)
    /\ LET entry == entries[Len(job.rows) + 1] IN
       \E status \in Verdicts(entry) :
          job' = [job EXCEPT !.rows =
                    Append(@, [domain |-> entry.domain, slot |-> entry.slot, status |-> status])]
    /\ UNCHANGED <<log, jobs, files, clock, written>>

\* std::fs::write truncates the file and then writes it: a reader may see
\* anything of it in between.
Truncate ==
    /\ job.pc = "comparing" /\ Len(job.rows) = Len(entries)
    /\ clock' = clock + 1
    /\ files' = [files EXCEPT ![PathOf[Network]] = [NoFile EXCEPT !.mtime = clock + 1]]
    /\ job' = [job EXCEPT !.pc = "writing",
                          !.out = [network |-> Network, slot |-> snapshot_slot(job.rows),
                                   verifiers |-> whitelist_verifiers(job.rows)]]
    /\ UNCHANGED <<log, jobs, written>>

\* Slip: the rows of one network are still there for the next.
RowsCarriedOver ==
    IF job.net = Len(Networks) THEN Idle ELSE [job EXCEPT !.pc = "comparing", !.net = @ + 1]

NextNetwork ==
    IF job.net = Len(Networks) THEN Idle ELSE [Idle EXCEPT !.pc = "comparing", !.net = job.net + 1]

\* The last byte may fall into the tick of the truncation or a later one.
WriteWhitelist ==
    /\ job.pc = "writing"
    /\ \E t \in {clock, clock + 1} :
          /\ clock' = t
          /\ files' = [files EXCEPT ![PathOf[Network]] =
                          [mtime |-> t, whole |-> TRUE, content |-> job.out]]
    /\ written' = [written EXCEPT ![PathOf[Network]] = Append(@, job.out)]
    /\ job' = NextNetwork
    /\ UNCHANGED <<log, jobs>>

\* A log that cannot be read, or a whitelist that cannot be opened, is reported
\* and the job goes on with the next network; the file stays as it was.
CompareFails ==
    /\ job.pc = "comparing" /\ Len(job.rows) \in {0, Len(entries)}
    /\ job' = NextNetwork
    /\ UNCHANGED <<log, jobs, files, clock, written>>

\* So is a write that fails once the file is truncated.
WriteFails ==
    /\ job.pc = "writing"
    /\ job' = NextNetwork
    /\ UNCHANGED <<log, jobs, files, clock, written>>

\* The process dies, or the log cannot be written: the run ends where it is.
JobDies ==
    /\ job.pc # "idle"
    /\ job' = Idle
    /\ UNCHANGED <<log, jobs, files, clock, written>>

CronNext ==
    \/ run \/ run_meta_job \/ compare_with_chain
    \/ Truncate \/ WriteWhitelist \/ CompareFails \/ WriteFails \/ JobDies

CronSpec == CronInit /\ [][CronNext]_cronVars

-----------------------------------------------------------------------------
OkOrigins(verifiers) ==
    {v.domain.origin : v \in {w \in ToSet(verifiers) : w.status = "ok"}}

\* Every file that is whole is the last whitelist written to it.
CronTypeOK ==
    /\ job.pc \in {"idle", "polling", "comparing", "writing"} /\ job.net \in DOMAIN Networks
    /\ jobs \in 0 .. MaxJobs /\ Len(log) <= Len(Config) * Len(Networks)
    /\ \A p \in Paths :
          /\ files[p].mtime \in 0 .. clock
          /\ files[p].whole => files[p].content = written[p][Len(written[p])]

\* Dropping the stale verifiers (cron_job.rs:417-448) never empties the pool:
\* if the chain confirmed any row, the whitelist has a verifier to route to.
PoolIsNeverEmptied ==
    (job.pc = "writing" /\ OkSlots(job.rows) # {}) => OkOrigins(job.out.verifiers) # {}

\* Routing weight (cron_job.rs:465-506): the whitelist has one row per origin,
\* whatever spellings the configuration lists it under, and an origin is ok
\* exactly when one of its polls was confirmed and within the lag of the
\* freshest confirmed one.
OneTicketPerFreshOrigin ==
    job.pc = "writing" =>
        LET out == job.out.verifiers
            polled == {r.domain.origin : r \in ToSet(job.rows)}
            fresh == {r \in ToSet(job.rows) :
                        /\ r.status = "ok"
                        /\ \A s \in OkSlots(job.rows) : s - r.slot <= MaxLag}
        IN  /\ Len(out) = Cardinality(polled)
            /\ {v.domain.origin : v \in ToSet(out)} = polled
            /\ OkOrigins(out) = {r.domain.origin : r \in fresh}

\* The networks stay apart (cron_job.rs:113-121, 210-221): every row of a
\* whitelist is what its verifier reported when it was asked about that
\* network, and a poll that failed is never ok.
WhitelistIsOfItsNetwork ==
    job.pc = "writing" =>
        \A v \in ToSet(job.out.verifiers) : \E e \in ToSet(log) :
            /\ e.network = job.out.network
            /\ e.domain = v.domain /\ e.slot = v.slot
            /\ v.status = "ok" => ~e.error
=============================================================================
