------------------------- MODULE ProposalDocuments -------------------------
(***************************************************************************)
(* The document behind a proposal's link: found on GitHub in one to a few  *)
(* requests, kept in the memory of the page and in the browser's storage,  *)
(* and shown as summary and number.  The link may name a file or a pull    *)
(* request; the pull request's file is picked from a paged listing while   *)
(* its author pushes, GitHub may refuse or fail, and the page may be       *)
(* closed, opened again or reloaded at any moment.                         *)
(***************************************************************************)
EXTENDS Integers, Sequences, FiniteSets, FiniteSetsExt

CONSTANTS
    Links, KindOf,      \* links and what they are: "blob", "pull" or "unsupported"
    History,            \* what the author publishes at each link, push after push
    Docs,               \* the documents at paths
    TitleOf, FileRef,   \* number in the on-chain title; number in the link's file name
    CacheTtl, NegativeTtl, MaxEntries,  \* CACHE_TTL, NEGATIVE_CACHE_TTL, MAX_CACHE_ENTRIES
    MaxPages,           \* MAX_PULL_FILE_PAGES
    Unset, None,
    MaxTime, MaxReloads \* bounds

VARIABLES
    clock, reloads,
    head,       \* number of pushes at each link; 0: nothing there
    limited,    \* whether GitHub's API refuses for now
    storage,    \* localStorage: entries of some links
    query,      \* react-query's data of each link, and since when
    run,        \* the request in progress for each link, or None
    open,       \* links a mounted component shows
    answered    \* history: when each link was last answered, and how

vars == <<clock, reloads, head, limited, storage, query, run, open, answered>>

-----------------------------------------------------------------------------
(* Documents. *)

\* Slip: the file name is believed before the frontmatter.
FileNameFirst(doc, fallback) ==
    [ref |-> IF fallback = None THEN doc.front ELSE fallback,
     summary |-> IF doc.section \in {None, ""} THEN doc.paragraph ELSE doc.section]

\* The frontmatter's number, else the one of the file name; the summary
\* section, else the first paragraph.
parseProposalMarkdown(doc, fallback) ==
    [ref |-> IF doc.front = None THEN fallback ELSE doc.front,
     summary |-> IF doc.section \in {None, ""} THEN doc.paragraph ELSE doc.section]

\* Numbers are compared as numbers: "SGP-3" names SGP-0003.
titleNamesProposal(title, ref) ==
    title # None /\ title.kind = ref.kind /\ title.value = ref.value

\* The numbers a heading shows, the prefix it adds first.
formatProposalHeading(ref, title) ==
    LET own == IF title = None THEN <<>> ELSE <<title>>
    IN IF ref = None \/ titleNamesProposal(title, ref) THEN own ELSE <<ref>> \o own

Candidates(files) == {f \in files : f.proposal /\ f.status # "removed"}
Contenders(files) ==
    LET added == {f \in Candidates(files) : f.status = "added"}
    IN IF added = {} THEN Candidates(files) ELSE added

\* Slip: of several files any is taken.
PickAnyFile(files) ==
    IF Contenders(files) = {} THEN None ELSE CHOOSE f \in Contenders(files) : TRUE

\* The one document a pull request is about, or None if there is none or if
\* several have equal claim.
pickProposalFile(files) ==
    IF Cardinality(Contenders(files)) # 1 THEN None ELSE CHOOSE f \in Contenders(files) : TRUE

-----------------------------------------------------------------------------
(* Caches.  An answer is a document, or None: the link leads to none. *)

Ttl(data) == IF data = None THEN NegativeTtl ELSE CacheTtl

\* Slip: the absence of a document lasts as long as a document.
StaleByAge(data, at) == data = Unset \/ clock - at >= CacheTtl

\* What react-query fetches again when a component mounts.
isStale(data, at) == data = Unset \/ clock - at >= Ttl(data)

\* Slip: whatever is stored is used.
ReadAnything(l) ==
    IF l \in DOMAIN storage THEN storage[l] ELSE [data |-> Unset, at |-> 0]

readCache(l) ==
    IF l \in DOMAIN storage /\ clock - storage[l].at < Ttl(storage[l].data)
    THEN storage[l] ELSE [data |-> Unset, at |-> 0]

\* The newest entries stay; entries of one instant in any order.
evictOldest(cache) ==
    {[l \in keep |-> cache[l]] : keep \in
        {k \in SUBSET DOMAIN cache :
            /\ Cardinality(k) = Min({MaxEntries, Cardinality(DOMAIN cache)})
            /\ \A l \in k, m \in DOMAIN cache \ k : cache[l].at >= cache[m].at}}

\* Slip: only documents are stored.
WriteDocumentsOnly(l, entry) ==
    IF entry.data = None THEN storage' = storage
    ELSE storage' \in evictOldest(
            [m \in DOMAIN storage \cup {l} |-> IF m = l THEN entry ELSE storage[m]])

writeCache(l, entry) ==
    storage' \in evictOldest(
        [m \in DOMAIN storage \cup {l} |-> IF m = l THEN entry ELSE storage[m]])

-----------------------------------------------------------------------------
(* Requests. *)

NewRun(l, failures) ==
    [stage |-> IF KindOf[l] = "pull" THEN "list" ELSE "raw", page |-> 1, files |-> {},
     heads |-> {}, pick |-> None, failures |-> failures, refusals |-> 0]

\* fetchProposalDocument comes to an end with an answer.
Answer(l, data) ==
    /\ run' = [run EXCEPT ![l] = None]
    /\ query' = [query EXCEPT ![l] = [data |-> data, at |-> clock]]
    /\ writeCache(l, [data |-> data, at |-> clock])
    /\ answered' = [answered EXCEPT ![l] = [data |-> data, at |-> clock]]

Continue(l, r) ==
    /\ run' = [run EXCEPT ![l] = r]
    /\ UNCHANGED <<query, storage, answered>>

\* Slip: every error is tried again.
RetryEverything(l, retryable) ==
    Continue(l, IF run[l].failures < 2
                THEN [NewRun(l, run[l].failures + 1) EXCEPT
                        !.refusals = run[l].refusals + (IF retryable THEN 0 ELSE 1)]
                ELSE None)

\* Slip: a failure that may pass is tried again for ever.
RetryForEver(l, retryable) ==
    Continue(l, IF retryable THEN NewRun(l, 0) ELSE None)

\* The retry policy: not after a refusal, and twice at most.
Throw(l, retryable) ==
    Continue(l, IF retryable /\ run[l].failures < 2
                THEN NewRun(l, run[l].failures + 1) ELSE None)

\* A page of listPullRequestFiles arrives.  The listing is that of the moment,
\* each file with the commit it was listed for; a file that moves to a later
\* page is listed twice.
ListPage(l) ==
    LET r == run[l]
        pages == History[l][head[l]]
        batch == IF r.page <= Len(pages) THEN pages[r.page] ELSE {}
        files == r.files \cup {[path |-> f.path, status |-> f.status, proposal |-> f.proposal,
                                sha |-> head[l], page |-> r.page] : f \in batch}
        picked == pickProposalFile(files)
    IN IF head[l] = 0
       THEN IF r.page = 1 THEN Answer(l, None) ELSE Throw(l, FALSE)
       ELSE IF r.page < Len(pages) /\ r.page < MaxPages
       THEN Continue(l, [r EXCEPT !.page = @ + 1, !.files = files, !.heads = @ \cup {head[l]}])
       ELSE IF picked = None THEN Answer(l, None)
       ELSE Continue(l, [r EXCEPT !.stage = "raw", !.files = {},
                                  !.heads = @ \cup {head[l]},
                                  !.pick = [path |-> picked.path, sha |-> picked.sha]])

\* The markdown arrives, or 404.
FetchRaw(l) ==
    LET r == run[l]
        pick == IF KindOf[l] = "pull" THEN r.pick
                ELSE [path |-> History[l][head[l]], sha |-> head[l]]
        doc == parseProposalMarkdown(Docs[pick.path],
                   IF KindOf[l] = "pull" THEN Docs[pick.path].name ELSE FileRef[l])
    IN IF KindOf[l] = "unsupported" \/ (KindOf[l] = "blob" /\ head[l] = 0)
       THEN Answer(l, None)
       ELSE \/ Answer(l, [path |-> pick.path, sha |-> pick.sha, heads |-> r.heads,
                          ref |-> doc.ref, summary |-> doc.summary])
            \/ KindOf[l] = "pull" /\ Answer(l, None)    \* the commit is gone

Respond(l) ==
    /\ run[l] # None
    /\ run[l].stage = "list" => ~limited
    /\ IF run[l].stage = "list" THEN ListPage(l) ELSE FetchRaw(l)
    /\ UNCHANGED <<clock, reloads, head, limited, open>>

\* An exhausted quota, a secondary limit or denied access.
Refuse(l) ==
    /\ run[l] # None /\ run[l].stage = "list" /\ limited
    /\ Throw(l, FALSE)
    /\ UNCHANGED <<clock, reloads, head, limited, open>>

\* The network or the server fails.
Break(l) ==
    /\ run[l] # None /\ KindOf[l] # "unsupported"
    /\ Throw(l, TRUE)
    /\ UNCHANGED <<clock, reloads, head, limited, open>>

-----------------------------------------------------------------------------
\* What answers hold, and pages of a listing: finitely many files, and of the
\* proposals among them the documents.
Answers ==
    LET paths == DOMAIN Docs
    IN [path : paths, sha : Nat, heads : SUBSET Nat,
        ref : {Docs[p].front : p \in paths} \cup {Docs[p].name : p \in paths}
                  \cup {FileRef[l] : l \in Links},
        summary : {Docs[p].section : p \in paths} \cup {Docs[p].paragraph : p \in paths}]

IsListing(pages) ==
    /\ Len(pages) \in Nat /\ DOMAIN pages = 1 .. Len(pages)
    /\ \A i \in DOMAIN pages :
          IsFiniteSet(pages[i]) /\ \A f \in pages[i] : f.proposal => f.path \in DOMAIN Docs

DocumentsAssumption ==
    /\ NegativeTtl \in Nat \ {0} /\ CacheTtl \in Nat /\ NegativeTtl < CacheTtl
    /\ {MaxEntries, MaxPages} \subseteq Nat \ {0} /\ {MaxTime, MaxReloads} \subseteq Nat
    /\ IsFiniteSet(Links) /\ Unset \notin Answers \cup {None}
    /\ \A l \in Links :
          /\ KindOf[l] \in {"blob", "pull", "unsupported"} /\ Len(History[l]) \in Nat
          /\ None # NewRun(l, 0)
          /\ \A c \in 1 .. Len(History[l]) :
                /\ KindOf[l] = "blob" => History[l][c] \in DOMAIN Docs
                /\ KindOf[l] = "pull" => IsListing(History[l][c])

-----------------------------------------------------------------------------
(* The page. *)

\* A component mounts: data comes from memory or else from storage; what is
\* missing or stale is asked for.
Mount(l) ==
    /\ l \notin open
    /\ open' = open \cup {l}
    /\ LET q == IF query[l].data = Unset THEN readCache(l) ELSE query[l]
       IN /\ query' = [query EXCEPT ![l] = q]
          /\ run' = [run EXCEPT ![l] =
                        IF isStale(q.data, q.at) THEN NewRun(l, 0) ELSE None]
    /\ UNCHANGED <<clock, reloads, head, limited, storage, answered>>

\* The last component goes, and the request with it.
Unmount(l) ==
    /\ l \in open
    /\ open' = open \ {l}
    /\ run' = [run EXCEPT ![l] = None]
    /\ UNCHANGED <<clock, reloads, head, limited, storage, query, answered>>

\* The window gets the focus: what has become stale is asked for again.
Focus(l) ==
    /\ l \in open /\ run[l] = None
    /\ isStale(query[l].data, query[l].at)
    /\ run' = [run EXCEPT ![l] = NewRun(l, 0)]
    /\ UNCHANGED <<clock, reloads, head, limited, storage, query, open, answered>>

Reload ==
    /\ reloads < MaxReloads
    /\ reloads' = reloads + 1
    /\ open' = {}
    /\ run' = [l \in Links |-> None]
    /\ query' = [l \in Links |-> [data |-> Unset, at |-> 0]]
    /\ UNCHANGED <<clock, head, limited, storage, answered>>

Tick ==
    /\ clock < MaxTime
    /\ clock' = clock + 1
    /\ UNCHANGED <<reloads, head, limited, storage, query, run, open, answered>>

Push(l) ==
    /\ head[l] < Len(History[l])
    /\ head' = [head EXCEPT ![l] = @ + 1]
    /\ UNCHANGED <<clock, reloads, limited, storage, query, run, open, answered>>

ToggleLimit ==
    /\ limited' = ~limited
    /\ UNCHANGED <<clock, reloads, head, storage, query, run, open, answered>>

Init ==
    /\ clock = 0 /\ reloads = 0
    /\ head = [l \in Links |-> 0]
    /\ limited = FALSE
    /\ storage = <<>>
    /\ query = [l \in Links |-> [data |-> Unset, at |-> 0]]
    /\ run = [l \in Links |-> None]
    /\ open = {}
    /\ answered = [l \in Links |-> [data |-> Unset, at |-> 0]]

Next ==
    \/ \E l \in Links : Mount(l) \/ Unmount(l) \/ Focus(l) \/ Push(l)
    \/ \E l \in Links : Respond(l) \/ Refuse(l) \/ Break(l)
    \/ Tick \/ Reload \/ ToggleLimit

\* Requests end, one way or another.
Spec ==
    /\ Init /\ [][Next]_vars
    /\ \A l \in Links : WF_vars(Respond(l) \/ Refuse(l) \/ Break(l))

-----------------------------------------------------------------------------
(* What is shown. *)

HasDocument(l) == query[l].data \notin {Unset, None}

\* useProposalRef: the document's number, else the one in the link.
useProposalRef(l) ==
    IF HasDocument(l) /\ query[l].data.ref # None THEN query[l].data.ref ELSE FileRef[l]

ProposalHeading(l) == formatProposalHeading(useProposalRef(l), TitleOf[l])

ProposalDescription(l) ==
    IF query[l].data = Unset /\ run[l] # None THEN "loading"
    ELSE IF HasDocument(l) THEN query[l].data.summary ELSE ""

-----------------------------------------------------------------------------
\* Types; storage holds no more than its limit, and requests are made only for
\* links that are shown.
DocumentsTypeOK ==
    /\ clock \in 0 .. MaxTime /\ reloads \in 0 .. MaxReloads /\ limited \in BOOLEAN
    /\ open \subseteq Links /\ DOMAIN storage \subseteq Links
    /\ Cardinality(DOMAIN storage) <= MaxEntries
    /\ \A l \in Links : run[l] # None => l \in open

\* A document shown for a pull request is the one it is about: the only added
\* proposal, or the only changed one, of the commit it was read from; whenever
\* one commit was listed completely (pickProposalFile).
ShownIsTheSubject ==
    \A l \in Links :
        HasDocument(l) /\ KindOf[l] = "pull" =>
            LET data == query[l].data
                all(c) == UNION {History[l][c][i] : i \in DOMAIN History[l][c]}
            IN /\ data.path \in {f.path : f \in Candidates(all(data.sha))}
               /\ Cardinality(data.heads) = 1 /\ Len(History[l][data.sha]) <= MaxPages =>
                     {f.path : f \in Contenders(all(data.sha))} = {data.path}

\* The heading shows the number of the loaded document once, whatever the file
\* name says and however the proposer wrote it in the title.
HeadingNamesTheDocument ==
    \A l \in Links :
        HasDocument(l) /\ Docs[query[l].data.path].front # None =>
            LET ref == Docs[query[l].data.path].front
                shown == ProposalHeading(l)
            IN Cardinality({i \in DOMAIN shown : titleNamesProposal(shown[i], ref)}) = 1

\* A page that opens shows an answer that is still good or asks for one; an
\* absence is good for an hour, a document for a week.
OpensFreshOrAsking ==
    \A l \in open' \ open :
       run'[l] # None \/ (/\ query'[l].data # Unset
                          /\ clock - query'[l].at < Ttl(query'[l].data))

\* What was stored before and has expired is not shown again by a page that has
\* nothing in memory.
ExpiredIsNotShown ==
    \A l \in open' \ open :
       query[l].data = Unset /\ query'[l].data # Unset =>
           clock - query'[l].at < Ttl(query'[l].data)

\* An answer is asked for once: within its time a link is fetched again only if
\* as many other links were answered since as storage can hold.
AnswersAreReused ==
    \A l \in Links :
       /\ run[l] = None /\ run'[l] # None
       /\ answered[l].data # Unset /\ clock - answered[l].at < Ttl(answered[l].data)
       => Cardinality({m \in Links \ {l} : /\ answered[m].data # Unset
                                           /\ answered[m].at >= answered[l].at}) >= MaxEntries

\* A refused request is not made again, and a failing one three times at most.
RefusalsAreFinal ==
    \A l \in Links : run[l] # None => run[l].refusals = 0 /\ run[l].failures <= 2

\* "Loading" ends, with a summary or without.
LoadingEnds == \A l \in Links : run[l] # None ~> run[l] = None
=============================================================================
