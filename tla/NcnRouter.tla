----------------------------- MODULE NcnRouter -----------------------------
(***************************************************************************)
(* The router: a thread per request picks the network, reads that          *)
(* network's whitelist through a cache keyed by the file's mtime, and      *)
(* redirects to, or proxies, one of the verifiers it lists as ok.  The     *)
(* threads interleave with each other and with the job that rewrites the   *)
(* files.                                                                  *)
(***************************************************************************)
EXTENDS VerifierWhitelist

CONSTANTS
    Threads,
    Queries,      \* the values of the network parameters of a request, decoded
    Proxy,        \* NCN_ROUTER_MODE = proxy
    MaxRequests   \* bound

VARIABLES
    cache,    \* per network: a whitelist, and the mtime it is cached under
    req,      \* the request of each thread
    served    \* how many requests there were

routerVars == <<cache, req, served>>
vars == <<log, job, jobs, files, clock, written, cache, req, served>>

Supported == DOMAIN PathOf

RouterAssumption ==
    /\ Queries \subseteq Seq(STRING) /\ Proxy \in BOOLEAN /\ MaxRequests \in Nat
    /\ Supported \subseteq {"mainnet", "testnet"}

NoRequest == [pc |-> "idle", network |-> "", mtime |-> 0, since |-> 0,
              snapshot |-> <<>>, status |-> "", origin |-> ""]

RouterInit ==
    /\ CronInit
    /\ cache = [n \in Supported |-> [mtime |-> 0, snapshot |-> <<>>]]
    /\ req = [t \in Threads |-> NoRequest]
    /\ served = 0

\* Two network parameters are refused, none means mainnet.
select_network(query) ==
    CASE Len(query) > 1 -> "duplicate"
      [] Len(query) = 0 -> "mainnet"
      [] OTHER -> query[1]

File(n) == files[PathOf[n]]

\* The first whitelist a request may be routed by: the one in the file when
\* it is asked for, or the next one while the file is being rewritten.
Current(n) == Len(written[PathOf[n]]) + (IF File(n).whole THEN 0 ELSE 1)

\* The ok rows, the first one of each origin in case the file has more.
Routable(seen, v) ==
    IF v.status = "ok" /\ \A u \in ToSet(seen) : canonical_domain(u.domain) # canonical_domain(v.domain)
    THEN Append(seen, v) ELSE seen

select_routable_verifiers(verifiers) == FoldLeft(Routable, <<>>, verifiers)

\* Slip: the label of the file is not compared with the selected network.
AnyNetwork(r, snapshot) ==
    {[r EXCEPT !.pc = "answered", !.snapshot = snapshot, !.status = "routed", !.origin = v.domain.origin] :
        v \in ToSet(select_routable_verifiers(snapshot.verifiers))}

\* How a request can go on once its whitelist is loaded.
Routed(r, snapshot) ==
    LET got == [r EXCEPT !.pc = "answered", !.snapshot = snapshot]
        pool == select_routable_verifiers(snapshot.verifiers)
    IN  CASE snapshot.network # r.network -> {[got EXCEPT !.status = "whitelist_network_mismatch"]}
          [] snapshot.network = r.network /\ pool = <<>> -> {[got EXCEPT !.status = "no_ok_verifiers"]}
          [] OTHER -> {[got EXCEPT !.pc = IF Proxy THEN "proxying" ELSE @, !.status = "routed",
                                   !.origin = canonical_domain(v.domain).origin] : v \in ToSet(pool)}

\* A request arrives; load_whitelist asks for the file's mtime first.
handle_request(t, query) ==
    LET n == select_network(query) IN
    /\ req[t].pc = "idle" /\ served < MaxRequests
    /\ served' = served + 1
    /\ req' = [req EXCEPT ![t] =
          CASE n \notin Supported -> [NoRequest EXCEPT !.pc = "answered", !.status = "bad_request"]
            [] n \in Supported /\ File(n).mtime = 0 ->
                  [NoRequest EXCEPT !.pc = "answered", !.network = n, !.status = "no_whitelist_data"]
            [] OTHER -> [NoRequest EXCEPT !.pc = "checking", !.network = n,
                                          !.mtime = File(n).mtime, !.since = Current(n)]]
    /\ UNCHANGED <<cronVars, cache>>

\* Slip: whatever is cached is good enough.
HitAnyEntry(t) ==
    LET r == req[t] c == cache[r.network] IN
    /\ r.pc = "checking"
    /\ IF c.mtime # 0
       THEN \E a \in Routed(r, c.snapshot) : req' = [req EXCEPT ![t] = a]
       ELSE req' = [req EXCEPT ![t].pc = "reading"]
    /\ UNCHANGED <<cronVars, cache, served>>

\* Under the read lock.
load_whitelist(t) ==
    LET r == req[t] c == cache[r.network] IN
    /\ r.pc = "checking"
    /\ IF c.mtime = r.mtime
       THEN \E a \in Routed(r, c.snapshot) : req' = [req EXCEPT ![t] = a]
       ELSE req' = [req EXCEPT ![t].pc = "reading"]
    /\ UNCHANGED <<cronVars, cache, served>>

\* A file that is cut short does not parse; nothing is cached then.
ReadFile(t) ==
    LET r == req[t] f == File(r.network) IN
    /\ r.pc = "reading"
    /\ req' = [req EXCEPT ![t] =
          IF f.whole THEN [r EXCEPT !.pc = "parsed", !.snapshot = f.content]
          ELSE [r EXCEPT !.pc = "answered", !.status = "no_whitelist_data"]]
    /\ UNCHANGED <<cronVars, cache, served>>

\* Slip: the mtime is taken once the contents are there.
StoreUnderLatest(t) ==
    LET r == req[t] IN
    /\ r.pc = "parsed"
    /\ cache' = [cache EXCEPT ![r.network] =
                    [mtime |-> File(r.network).mtime, snapshot |-> r.snapshot]]
    /\ \E a \in Routed(r, r.snapshot) : req' = [req EXCEPT ![t] = a]
    /\ UNCHANGED <<cronVars, served>>

\* Under the write lock, with the mtime that was read before the contents.
StoreInCache(t) ==
    LET r == req[t] IN
    /\ r.pc = "parsed"
    /\ cache' = [cache EXCEPT ![r.network] = [mtime |-> r.mtime, snapshot |-> r.snapshot]]
    /\ \E a \in Routed(r, r.snapshot) : req' = [req EXCEPT ![t] = a]
    /\ UNCHANGED <<cronVars, served>>

\* The verifier's answer is passed on, or none came; no other one is tried.
respond_proxy(t) ==
    /\ req[t].pc = "proxying"
    /\ \E status \in {"routed", "proxy_upstream_failed"} :
          req' = [req EXCEPT ![t].pc = "answered", ![t].status = status]
    /\ UNCHANGED <<cronVars, cache, served>>

Respond(t) ==
    /\ req[t].pc = "answered"
    /\ req' = [req EXCEPT ![t] = NoRequest]
    /\ UNCHANGED <<cronVars, cache, served>>

Next ==
    \/ CronNext /\ UNCHANGED routerVars
    \/ \E t \in Threads :
         \/ \E q \in Queries : handle_request(t, q)
         \/ load_whitelist(t) \/ ReadFile(t) \/ StoreInCache(t)
         \/ respond_proxy(t) \/ Respond(t)

Spec == RouterInit /\ [][Next]_vars

-----------------------------------------------------------------------------
\* Threads and cache hold what these steps can leave in them; nothing is
\* cached under the mtime of a file that never was.
RouterTypeOK ==
    /\ \A t \in Threads :
          /\ req[t].pc \in {"idle", "checking", "reading", "parsed", "proxying", "answered"}
          /\ req[t].pc \in {"checking", "reading", "parsed", "proxying"} =>
                /\ req[t].network \in Supported
                /\ req[t].mtime \in 1 .. File(req[t].network).mtime
    /\ \A n \in Supported : cache[n].mtime <= File(n).mtime
    /\ served \in 0 .. MaxRequests

Answered(t) == req[t].pc \in {"proxying", "answered"} /\ req[t].snapshot # <<>>

\* However requests and rewrites interleave (router.rs:384-421), a request is
\* answered by a whitelist that its file held at some time between the arrival
\* and the answer: never by one that was replaced before it came, so routing
\* never goes back to a verifier that a finished run of the job has dropped.
RoutedByACurrentWhitelist ==
    \A t \in Threads : Answered(t) =>
        LET w == written[PathOf[req[t].network]]
        IN  \E i \in req[t].since .. Len(w) : w[i] = req[t].snapshot

\* The cache is never wrong about the file it was filled from
\* (router.rs:391-396): under the file's mtime it has the file's contents.
CacheIsCurrent ==
    \A n \in Supported : (cache[n].mtime = File(n).mtime /\ cache[n].mtime # 0) =>
        File(n).whole /\ cache[n].snapshot = File(n).content

\* The trust boundary of a network (router.rs:169-189): a request is only
\* routed to a verifier that is ok on the network it selected, also when both
\* networks are configured with one file.
RoutedWithinTheNetwork ==
    \A t \in Threads : req[t].status = "routed" =>
        LET w == written[PathOf[req[t].network]]
        IN  \E i \in DOMAIN w : /\ w[i].network = req[t].network
                                /\ req[t].origin \in OkOrigins(w[i].verifiers)

\* What the job and the router promise together.  The pool of verifiers is not
\* emptied by the demotion of stale ones, and no origin weighs more than another
\* (cron_job.rs:417-506); every row is of its network, polled and confirmed; a
\* request is routed by a whitelist that was in force since it arrived, to a
\* verifier that is ok on its network (router.rs:169-189, 384-421).
RequestsAreRouted ==
    /\ CronTypeOK /\ PoolIsNeverEmptied /\ OneTicketPerFreshOrigin /\ WhitelistIsOfItsNetwork
    /\ RouterTypeOK /\ CacheIsCurrent
    /\ RoutedByACurrentWhitelist /\ RoutedWithinTheNetwork
=============================================================================
