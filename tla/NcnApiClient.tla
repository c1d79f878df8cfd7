--------------------------- MODULE NcnApiClient ---------------------------
(***************************************************************************)
(* fetchNcnJson: one request to the verifier API, through a router that    *)
(* redirects every attempt to some operator, with a deadline per attempt,  *)
(* retries with back-off and cancellation by the caller; around it, for    *)
(* queries, the retry and report policy of the query client.               *)
(***************************************************************************)
EXTENDS Naturals, FiniteSets

CONSTANTS
    MaxRetries,      \* DEFAULT_MAX_RETRIES
    MaxQueryRetries, \* retries of the query client
    MaxFetches       \* bound: how often the resource is asked for

ApiAssumption == MaxRetries \in Nat /\ MaxQueryRetries \in Nat /\ MaxFetches \in Nat

VARIABLES
    pc,        \* where the fetch is
    kind,      \* "query" or "mutation"
    status,    \* of the response whose body is being read
    error,     \* what the attempt failed with
    retry,     \* retryNumber of fetchNcnJson
    failures,  \* failureCount of the query client
    aborted,   \* the caller's signal
    report,    \* what the query client told the error tracker about this fetch
    fetches,   \* how often the resource was asked for
    requests,  \* history: requests sent for this fetch
    seen,      \* history: what the attempts of this fetch ended with
    transient  \* history: consecutive transient failures of this call

vars == <<pc, kind, status, error, retry, failures, aborted, report, fetches,
          requests, seen, transient>>

\* What may come back: data, a page that is not JSON, a 404, a 5xx or one of
\* UPSTREAM_STATUSES.
Statuses == {"ok", "garbled", "missing", "refused"}

\* A thrown error: a status, a parse error, no readable response, or an abort.
Errors == {"missing", "refused", "syntax", "network", "abort"}

classifyNcnFailure(e) ==
    CASE e = "network" -> "network"
      [] e = "refused" -> "upstream"
      [] e = "missing" -> "request"
      [] OTHER -> "undefined"

IsTransient(e) == classifyNcnFailure(e) \in {"network", "upstream"}

Init ==
    /\ pc = "idle" /\ kind = "query" /\ status = "ok" /\ error = "abort"
    /\ retry = 0 /\ failures = 0 /\ aborted = FALSE /\ report = "none"
    /\ fetches = 0 /\ requests = 0 /\ seen = {} /\ transient = 0

\* A query is fetched, or refetched, or a mutation asks for a proof.
Start(k) ==
    /\ pc \in {"idle", "settled"}
    /\ fetches < MaxFetches /\ fetches' = fetches + 1
    /\ pc' = "send" /\ kind' = k
    /\ retry' = 0 /\ failures' = 0 /\ aborted' = FALSE /\ report' = "none"
    /\ requests' = 0 /\ seen' = {} /\ transient' = 0
    /\ UNCHANGED <<status, error>>

-----------------------------------------------------------------------------
(* fetchNcnJsonOnce.                                                       *)

\* Slip: only aborts that come later are listened for.
SendRegardless ==
    /\ pc = "send"
    /\ pc' = "fetch"
    /\ requests' = requests + 1
    /\ UNCHANGED <<kind, status, error, retry, failures, aborted, report, fetches, seen, transient>>

\* With a signal that is already aborted fetch does not start.
Send ==
    /\ pc = "send"
    /\ pc' = "fetch"
    /\ requests' = IF aborted THEN requests ELSE requests + 1
    /\ UNCHANGED <<kind, status, error, retry, failures, aborted, report, fetches, seen, transient>>

\* The attempt ends with an exception.
Catch(e) ==
    /\ pc' = "caught"
    /\ error' = e
    /\ seen' = seen \cup {e}
    /\ transient' = IF IsTransient(e) THEN transient + 1 ELSE transient
    /\ UNCHANGED <<kind, retry, failures, aborted, report, fetches, requests>>

Respond(s) ==
    /\ pc = "fetch" /\ ~ aborted
    /\ status' = s
    /\ pc' = IF s \in {"missing", "refused"} THEN "errorBody" ELSE "body"
    /\ UNCHANGED <<kind, error, retry, failures, aborted, report, fetches, requests, seen, transient>>

\* No readable response, or the body breaks off.
Unreachable ==
    /\ pc \in {"fetch", "body"} /\ ~ aborted
    /\ Catch("network")
    /\ UNCHANGED status

\* readBodySnippet never throws, so that the status is what is thrown.
readBodySnippet ==
    /\ pc = "errorBody" /\ ~ aborted
    /\ Catch(status)
    /\ UNCHANGED status

ReadBody ==
    /\ pc = "body" /\ ~ aborted
    /\ IF status = "ok"
       THEN /\ pc' = "settled"
            /\ seen' = seen \cup {"ok"}
            /\ UNCHANGED <<kind, error, retry, failures, aborted, report, fetches, requests, transient>>
       ELSE Catch("syntax")
    /\ UNCHANGED status

\* Slip: the deadline is that of the headers.
TimerForHeaders ==
    /\ pc = "fetch"
    /\ ~ aborted
    /\ Catch("network")
    /\ UNCHANGED status

\* The deadline covers the bodies too; whatever the attempt would have thrown,
\* a timeout is thrown instead.
TimerFires ==
    /\ pc \in {"fetch", "body", "errorBody"}
    /\ ~ aborted
    /\ Catch("network")
    /\ UNCHANGED status

\* The abort of the caller's signal reaches the request.
AbortReaches ==
    /\ pc \in {"fetch", "body", "errorBody"}
    /\ aborted
    /\ Catch(IF pc = "errorBody" THEN status ELSE "abort")
    /\ UNCHANGED status

-----------------------------------------------------------------------------
(* fetchNcnJson.                                                           *)

Move(to, r) ==
    /\ pc' = to
    /\ retry' = r
    /\ UNCHANGED <<kind, status, failures, aborted, report, fetches, requests, seen>>

shouldRetry == retry < MaxRetries /\ IsTransient(error)

\* Slip: a refusal by one operator is the end.
RetryNetworkOnly ==
    /\ pc = "caught"
    /\ Move(IF retry < MaxRetries /\ error = "network" /\ ~ aborted THEN "backoff" ELSE "thrown", retry)
    /\ UNCHANGED <<error, transient>>

RetryOrThrow ==
    /\ pc = "caught"
    /\ Move(IF shouldRetry /\ ~ aborted THEN "backoff" ELSE "thrown", retry)
    /\ UNCHANGED <<error, transient>>

\* The timer, or the abort listener.
waitForRetry ==
    /\ pc = "backoff"
    /\ IF aborted
       THEN Move("thrown", retry) /\ error' = "abort"
       ELSE Move("send", retry + 1) /\ UNCHANGED error
    /\ UNCHANGED transient

-----------------------------------------------------------------------------
(* The query client.                                                       *)

\* Slip: refusals are reported like faults of the app.
reportAllAsErrors(e) == "error"

\* QueryCache.onError; proofs are only fetched by mutations.
onError(e) == IF IsTransient(e) THEN "warning" ELSE "error"

\* Slip: the query client retries whatever fails.
retryEveryQuery == failures < MaxQueryRetries

\* retry of the default options: failures of this client are not retried again.
retryQuery == classifyNcnFailure(error) = "undefined" /\ failures < MaxQueryRetries

Thrown ==
    /\ pc = "thrown"
    /\ \/ /\ kind = "query" /\ ~ aborted /\ retryQuery
          /\ pc' = "queryBackoff"
          /\ failures' = failures + 1
          /\ UNCHANGED report
       \/ /\ kind = "mutation" \/ aborted \/ ~ retryQuery
          /\ pc' = "settled"
          /\ report' = IF kind = "query" /\ ~ aborted THEN onError(error) ELSE report
          /\ UNCHANGED failures
    /\ UNCHANGED <<kind, status, error, retry, aborted, fetches, requests, seen, transient>>

QueryRetries ==
    /\ pc = "queryBackoff"
    /\ Move(IF aborted THEN "settled" ELSE "send", 0)
    /\ transient' = 0
    /\ UNCHANGED error

\* Unmounting, or a changed key; mutations pass no signal.
Cancel ==
    /\ pc \notin {"idle", "settled"}
    /\ kind = "query" /\ ~ aborted
    /\ aborted' = TRUE
    /\ UNCHANGED <<pc, kind, status, error, retry, failures, report, fetches, requests, seen, transient>>

\* The network: answers, good or bad.
Answer ==
    \/ \E s \in Statuses : Respond(s)
    \/ Unreachable \/ readBodySnippet \/ ReadBody

\* Timers, and continuations of what has been awaited.
EventLoop ==
    \/ Send \/ TimerFires \/ AbortReaches
    \/ RetryOrThrow \/ waitForRetry \/ Thrown \/ QueryRetries

Next ==
    \/ \E k \in {"query", "mutation"} : Start(k)
    \/ Answer
    \/ EventLoop
    \/ Cancel

\* Timers fire and continuations run; nobody has to answer.
Fairness == WF_vars(EventLoop)

Spec == Init /\ [][Next]_vars /\ Fairness

-----------------------------------------------------------------------------
\* Every variable has its type; four attempts to a call, four calls to a query.
ApiTypeOK ==
    /\ pc \in {"idle", "send", "fetch", "body", "errorBody", "caught", "backoff",
               "thrown", "queryBackoff", "settled"}
    /\ kind \in {"query", "mutation"} /\ status \in Statuses /\ error \in Errors
    /\ retry \in 0 .. MaxRetries /\ failures \in 0 .. MaxQueryRetries
    /\ aborted \in BOOLEAN /\ report \in {"none", "warning", "error"}
    /\ fetches \in 0 .. MaxFetches /\ requests \in Nat
    /\ seen \subseteq Errors \cup {"ok"} /\ transient \in 0 .. MaxRetries + 1

\* Once the caller has cancelled, no further request is sent for this fetch and
\* nothing is reported, whichever timer or answer the cancellation raced with.
NothingAfterCancel ==
    aborted /\ aborted' => report' = report /\ requests' = requests

\* A fetch that fails because operators were down, refused or timed out has
\* used up all its attempts, each through the router anew.
TransientFailuresAreRetried ==
    pc = "settled" /\ seen # {} /\ "ok" \notin seen /\ ~ aborted /\ IsTransient(error)
        => transient = MaxRetries + 1

\* An outage of operators, whatever mixture of refusals and silences, is never
\* reported as a fault of the application, and reported once it is over.
OutageIsAWarning ==
    pc = "settled" /\ kind = "query" /\ ~ aborted /\ seen # {}
        /\ (\A e \in seen : IsTransient(e)) => report = "warning"

\* As long as every answer can be parsed, a fetch costs at most four requests:
\* the query client adds no attempts to those of fetchNcnJson.
NoMultiplication ==
    kind = "mutation" \/ "syntax" \notin seen => requests <= MaxRetries + 1

\* Every fetch settles, even if nobody ever answers.
FetchSettles == (pc = "send") ~> (pc = "settled")
=============================================================================
