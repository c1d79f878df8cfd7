--------------------------- MODULE ProposalLinks ---------------------------
(***************************************************************************)
(* The link to a proposal's document: three readings of one string.  The   *)
(* form and the command-line client check it before a proposal is created, *)
(* the program checks it again and stores it for good, and every client    *)
(* later parses what is stored to find the document.                       *)
(*                                                                         *)
(* A link is its origin and its raw path, split at "/"; a segment is a     *)
(* token, "" where two slashes meet or the path ends in one.  Browsers     *)
(* parse a URL before anyone sees its segments; the program and the        *)
(* command line read the raw string.                                       *)
(***************************************************************************)
EXTENDS Integers, Sequences, SequencesExt, FiniteSetsExt

CONSTANTS
    Bases,          \* paths to start from
    Insertions,     \* segments a user may add
    MaxSegments,    \* MAX_SEGMENTS of the program and its mirrors
    None,
    MaxEdits        \* bound: edits of the field

LinksAssumption ==
    /\ MaxSegments \in Nat \ {0} /\ MaxEdits \in Nat
    /\ Bases \subseteq Seq(STRING) /\ Insertions \subseteq STRING

VARIABLES
    field,      \* the description as typed
    edits,
    sent,       \* the description of the last transaction, and who built it
    stored      \* whether the program took it

vars == <<field, edits, sent, stored>>

\* Origins: "github" is the exact prefix https://github.com/.
Origins == {"github", "www", "raw", "http", "other"}

\* Tokens with a character outside A-Z a-z 0-9 - _ .
IsOdd(t) == t \in {"odd", "%2e%2e"}
IsMarkdown(t) == t = "doc.md"

trim(link) == [link EXCEPT !.padded = FALSE]
Named(path, t) == IF t = "" THEN path ELSE Append(path, t)
NonEmpty(segs) == FoldLeft(Named, <<>>, segs)
DropLast(segs) == SubSeq(segs, 1, Len(segs) - 1)
WithoutSlash(segs) == IF segs # <<>> /\ Last(segs) = "" THEN DropLast(segs) ELSE segs

-----------------------------------------------------------------------------
(* How clients resolve a link. *)

\* The URL parser of the browser: "." goes, ".." takes its parent along, also
\* when it is percent-encoded.
Resolved(path, t) ==
    CASE t = "." -> path
      [] t \in {"..", "%2e%2e"} -> IF path = <<>> THEN path ELSE DropLast(path)
      [] OTHER -> Append(path, t)
UrlPath(segs) == FoldLeft(Resolved, <<>>, segs)

Unsupported(code) == [kind |-> "unsupported", code |-> code]

blobResult(owner, repo, ref, parts) ==
    [kind |-> "blob", owner |-> owner, repo |-> repo, ref |-> ref, path |-> parts,
     fileName |-> Last(parts)]

parseProposalUrl(link) ==
    LET s == NonEmpty(UrlPath(link.segs))
        n == Len(s)
        rest(i) == SubSeq(s, i, n)
    IN CASE link.origin = "http" -> Unsupported("not-https")
         [] link.origin = "other" -> Unsupported("not-github")
         [] link.origin = "raw" ->
                IF n < 4 THEN Unsupported("unrecognized")
                ELSE blobResult(s[1], s[2], s[3], rest(4))
         [] link.origin \in {"github", "www"} ->
                IF n < 3 THEN Unsupported("unrecognized")
                ELSE CASE s[3] = "blob" ->
                            IF n < 5 THEN Unsupported("unrecognized")
                            ELSE blobResult(s[1], s[2], s[4], rest(5))
                       [] s[3] = "tree" -> Unsupported("tree-or-directory")
                       [] s[3] = "pull" ->
                            IF n < 4 \/ s[4] # "7" THEN Unsupported("unrecognized")
                            ELSE [kind |-> "pull", owner |-> s[1], repo |-> s[2]]
                       [] OTHER -> Unsupported("unrecognized")

InRepository(parsed) == parsed.owner = "org" /\ parsed.repo = "repo"

-----------------------------------------------------------------------------
(* The form. *)

describeOnChainViolation(link) ==
    LET s == WithoutSlash(link.segs)
    IN \/ "" \in Range(s) \/ ".." \in Range(s)
       \/ Len(s) < 2 \/ Len(s) > MaxSegments
       \/ link.query \/ \E t \in Range(s) : IsOdd(t)

\* Slip: the kind of the link is left to the program.
ValidateWithoutKind(raw) ==
    LET link == trim(raw)
        parsed == parseProposalUrl(link)
    IN [ok |-> /\ parsed.kind # "unsupported"
               /\ link.origin = "github"
               /\ ~link.query
               /\ ~describeOnChainViolation(link)
               /\ InRepository(parsed),
        normalized |-> link]

validateProposalUrl(raw) ==
    LET link == trim(raw)
        parsed == parseProposalUrl(link)
    IN [ok |-> /\ parsed.kind = "blob"
               /\ link.origin = "github"
               /\ IsMarkdown(parsed.fileName)
               /\ ~link.query
               /\ ~describeOnChainViolation(link)
               /\ InRepository(parsed),
        normalized |-> link]

-----------------------------------------------------------------------------
(* The command line. *)

\* trim_end_matches('/'): every slash at the end goes.
TrimSlashes(segs) ==
    LET keep == {i \in DOMAIN segs : segs[i] # ""}
    IN IF keep = {} THEN <<>> ELSE SubSeq(segs, 1, Max(keep))

classify_github_link(link) ==
    LET s == NonEmpty(link.segs)
        n == Len(s)
    IN IF link.origin # "github" \/ n < 3 THEN [kind |-> "other"]
       ELSE CASE s[3] = "blob" /\ n >= 5 ->
                    [kind |-> "blob", owner |-> s[1], repo |-> s[2], fileName |-> s[n]]
              [] s[3] = "tree" -> [kind |-> "tree"]
              [] s[3] = "pull" /\ n >= 4 -> [kind |-> IF s[4] = "7" THEN "pull" ELSE "other"]
              [] OTHER -> [kind |-> "other"]

assert_on_chain_compatible(link) ==
    LET s == TrimSlashes(link.segs)
    IN /\ Len(s) >= 2 /\ s[1] = "org" /\ s[2] = "repo"
       /\ "" \notin Range(s) /\ ".." \notin Range(s)
       /\ Len(s) <= MaxSegments
       /\ \A t \in Range(s) : ~IsOdd(t)

validate_description(raw) ==
    LET link == trim(raw)
        kind == classify_github_link(link)
    IN [ok |-> /\ link.origin = "github" /\ ~link.query
               /\ kind.kind = "blob"
               /\ InRepository(kind)
               /\ IsMarkdown(kind.fileName)
               /\ assert_on_chain_compatible(link),
        normalized |-> link]

-----------------------------------------------------------------------------
(* The program. *)

\* Slip: parent segments are let through.
LinkWithParents(link) ==
    LET s == WithoutSlash(link.segs)
        inner == IF s = <<>> THEN s ELSE DropLast(s)
        count == Len(NonEmpty(s))
    IN /\ link.origin = "github" /\ ~link.padded /\ ~link.query
       /\ Len(s) >= 3 /\ s[1] = "org" /\ s[2] = "repo"
       /\ "" \notin Range(inner)
       /\ \A t \in Range(s) : ~IsOdd(t)
       /\ count >= 2 /\ count <= MaxSegments

\* One slash at the end is taken off; one more only ends the last segment.
is_valid_github_link(link) ==
    LET s == WithoutSlash(link.segs)
        inner == IF s = <<>> THEN s ELSE DropLast(s)
        count == Len(NonEmpty(s))
    IN /\ link.origin = "github" /\ ~link.padded /\ ~link.query
       /\ Len(s) >= 3 /\ s[1] = "org" /\ s[2] = "repo"
       /\ ".." \notin Range(s)
       /\ "" \notin Range(inner)
       /\ \A t \in Range(s) : ~IsOdd(t)
       /\ count >= 2 /\ count <= MaxSegments

-----------------------------------------------------------------------------
Link(origin, segs) == [origin |-> origin, segs |-> segs, query |-> FALSE, padded |-> FALSE]

Init ==
    /\ \E origin \in Origins, segs \in Bases : field = Link(origin, segs)
    /\ edits = 0
    /\ sent = None
    /\ stored = FALSE

Edit(link) ==
    /\ edits < MaxEdits
    /\ field' = link
    /\ edits' = edits + 1
    /\ sent' = None /\ stored' = FALSE

EditSegment == \E i \in 1 .. Len(field.segs) + 1, t \in Insertions :
    Edit([field EXCEPT !.segs = InsertAt(field.segs, i, t)])

AddQuery == ~field.query /\ Edit([field EXCEPT !.query = TRUE])
AddSpace == ~field.padded /\ Edit([field EXCEPT !.padded = TRUE])

\* A transaction with this description reaches the program.
Send(by, link) ==
    /\ sent = None
    /\ sent' = [by |-> by, link |-> link]
    /\ stored' = is_valid_github_link(link)
    /\ UNCHANGED <<field, edits>>

\* Slip: the field itself is sent.
CreateFromField ==
    /\ validateProposalUrl(field).ok
    /\ Send("form", field)

\* The dialog's button needs a valid link, and createProposal asserts it again;
\* without a wallet, or a vote account of its identity, it throws and sends nothing.
createProposal ==
    /\ validateProposalUrl(field).ok
    /\ Send("form", validateProposalUrl(field).normalized)

create_proposal_cli ==
    /\ validate_description(field).ok
    /\ Send("cli", validate_description(field).normalized)

\* Anyone else's transaction.
SendDirectly == Send("anyone", field)

Next ==
    \/ EditSegment \/ AddQuery \/ AddSpace
    \/ createProposal \/ create_proposal_cli \/ SendDirectly

Spec == Init /\ [][Next]_vars

-----------------------------------------------------------------------------
LinkType(l) ==
    /\ l.origin \in Origins /\ l.query \in BOOLEAN /\ l.padded \in BOOLEAN

SentBy(who) == sent # None /\ sent.by = who

\* The field and what was sent are links; what is stored was sent as stored,
\* without the spaces a user typed around it.
LinksTypeOK ==
    /\ LinkType(field) /\ edits \in 0 .. MaxEdits /\ stored \in BOOLEAN
    /\ sent # None => LinkType(sent.link) /\ (stored => ~sent.link.padded)

\* Whatever the program stores, clients resolve in the approved repository: the
\* raw prefix the program compares and the parsed URL name the same owner and
\* repository, parent segments and encodings included (is_valid_github_link).
OneRepository ==
    stored => LET parsed == parseProposalUrl(sent.link)
              IN parsed.kind # "unsupported" => InRepository(parsed)

\* What the form lets a user create leads to a document: the stored link
\* resolves to a markdown file of the repository, never to a pull request.
FormLinksNameADocument ==
    SentBy("form") =>
        LET parsed == parseProposalUrl(sent.link)
        IN parsed.kind = "blob" /\ IsMarkdown(parsed.fileName) /\ InRepository(parsed)

\* The program takes every link the form accepted, unless a "." segment is in
\* it; and every link the command line accepted, unless it ends in more than
\* two slashes.
CheckedLinksAreStored ==
    /\ SentBy("form") /\ "." \notin Range(sent.link.segs) => stored
    /\ SentBy("cli") /\ Len(sent.link.segs) - Len(TrimSlashes(sent.link.segs)) <= 2 => stored
=============================================================================
