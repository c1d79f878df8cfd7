----------------------------- MODULE MCDialogs -----------------------------
(***************************************************************************)
(* The dialogs of the web client and what they send, on small instances:   *)
(* vote, override, support and create dialogs one after the other, the     *)
(* transaction of a support, the link of a new proposal and the documents  *)
(* that links lead to.                                                     *)
(*                                                                         *)
(* These parts share no variables, so a behaviour of all of them is a      *)
(* shuffle of behaviours of each.  One part moves in a behaviour, the      *)
(* others rest in an initial state.                                        *)
(***************************************************************************)
EXTENDS VoteModals, TLC

CONSTANTS wv, ws, pa, pb, crp, crq, sv, st, v1, v2, None, Unset

VARIABLES
    part,
    wallet2, accounts2, summaries2, listed2, kind2, opened2, form2, role2, pending2,
    epoch, config, supporters, voting, supported, changes, server, client, reqs, started, txs,
    field, edits, sent, stored,
    clock, reloads, head, limited, storage, query, run, open, answered

-----------------------------------------------------------------------------
(* A wallet that is a validator with stake and a wallet that only stakes;    *)
(* one override is already on chain.  Two dialogs in a row with one          *)
(* proposal; and one dialog with two proposals and votes that can be split.  *)
ConsensusAmong(proposals) == [x \in proposals |-> IF x = pa THEN crp ELSE crq]
MCConsensusOf == ConsensusAmong(Proposals)
MCStakesOf == [w \in Wallets |-> IF w = wv THEN {sv} ELSE {st}]
AbstainedAt(whole) ==
    [x \in {<<pa, st>>} |-> [o \in VOTE_OPTIONS |-> IF o = "abstain" THEN whole ELSE 0]]
MCRecorded == AbstainedAt(1)

Split == INSTANCE VoteModals WITH
    Proposals <- {pa, pb}, Whole <- 2, MaxModals <- 1, Recorded <- AbstainedAt(2),
    ConsensusOf <- ConsensusAmong({pa, pb}),
    wallet <- wallet2, accounts <- accounts2, summaries <- summaries2, listed <- listed2,
    kind <- kind2, opened <- opened2, form <- form2, role <- role2, pending <- pending2
splitVars == <<wallet2, accounts2, summaries2, listed2, kind2, opened2, form2, role2, pending2>>

\* Epochs of the real length; two validators, and others whose supports land in
\* batches around the headroom.
Short == [discussion |-> 1, extension |-> 1, offset |-> 1000]
Long == [discussion |-> 2, extension |-> 1, offset |-> 1000]
Supporting == INSTANCE SupportTransaction WITH
    Validators <- {v1, v2}, Configs <- {Short, Long}, FirstConfig <- Short,
    SlotsPerEpoch <- 432000, FirstNormalEpoch <- 0, FirstNormalSlot <- 0,
    Threshold <- 59, Batches <- {57}, MaxEpoch <- 1, MaxChanges <- 1, MaxMutations <- 3
supportVars == <<epoch, config, supporters, voting, supported, changes, server, client,
                 reqs, started, txs>>

\* Links to a file, a pull request, a directory, a repository and another
\* repository's file, changed in up to two places; the limit on segments is
\* close enough to be crossed.
Linking == INSTANCE ProposalLinks WITH
    Bases <- {<<"org", "repo", "blob", "ref", "doc.md">>, <<"org", "repo", "blob", "ref", "pic">>,
              <<"org", "repo", "pull", "7">>, <<"org", "repo", "tree", "ref">>, <<"org", "repo">>,
              <<"org", "fork", "blob", "ref", "doc.md">>},
    Insertions <- {"", ".", "..", "%2e%2e", "odd", "dir", "org"}, MaxSegments <- 6, MaxEdits <- 2
linkVars == <<field, edits, sent, stored>>

-----------------------------------------------------------------------------
(* A pull request that appears without its proposal on the first page and    *)
(* gains a second proposal later; a file that appears; a link to neither.    *)
File(path, status, proposal) == [path |-> path, status |-> status, proposal |-> proposal]
Number(k, n) == [kind |-> k, value |-> n]
Document(front, name) == [front |-> front, name |-> name, section |-> "", paragraph |-> "text"]

MCHistory ==
    [pull |-> <<<<{File("readme", "modified", FALSE)},
                  {File("a", "added", TRUE), File("b", "modified", TRUE)}>>,
                <<{File("a", "added", TRUE)}, {File("b", "added", TRUE)}>>>>,
     blob |-> <<"c">>, unsupported |-> <<>>]
MCDocs ==
    [a |-> Document(Number("sgp", 1), Number("sgp", 9)),
     b |-> Document(None, Number("sgp", 2)),
     c |-> Document(Number("sgp", 3), Number("simd", 3))]
MCKindOf == [pull |-> "pull", blob |-> "blob", unsupported |-> "unsupported"]
MCTitleOf == [pull |-> None, blob |-> Number("sgp", 3), unsupported |-> None]
MCFileRef == [pull |-> None, blob |-> Number("simd", 3), unsupported |-> None]

Documents == INSTANCE ProposalDocuments WITH
    Links <- {"pull", "blob"}, KindOf <- MCKindOf, History <- MCHistory, Docs <- MCDocs,
    TitleOf <- MCTitleOf, FileRef <- MCFileRef, CacheTtl <- 2, NegativeTtl <- 1,
    MaxEntries <- 1, MaxPages <- 2, MaxTime <- 2, MaxReloads <- 1
OtherLinks == INSTANCE ProposalDocuments WITH
    Links <- {"blob", "unsupported"}, KindOf <- MCKindOf, History <- MCHistory, Docs <- MCDocs,
    TitleOf <- MCTitleOf, FileRef <- MCFileRef, CacheTtl <- 2, NegativeTtl <- 1,
    MaxEntries <- 2, MaxPages <- 2, MaxTime <- 2, MaxReloads <- 1
documentVars == <<clock, reloads, head, limited, storage, query, run, open, answered>>

ASSUME Supporting!SupportAssumption /\ Linking!LinksAssumption
ASSUME Documents!DocumentsAssumption /\ OtherLinks!DocumentsAssumption

-----------------------------------------------------------------------------
\* A part that rests does so in one of its initial states.
DialogsInit ==
    /\ part \in {"modals", "split", "support", "links", "documents", "otherLinks"}
    /\ Init
    /\ Split!Init
    /\ Supporting!Init
    /\ Linking!Init
    /\ part # "links" => field = Linking!Link("github", <<"org", "repo">>)
    /\ IF part = "otherLinks" THEN OtherLinks!Init ELSE Documents!Init

DialogsNext ==
    /\ UNCHANGED part
    /\ IF part = "modals" THEN Next ELSE UNCHANGED vars
    /\ IF part = "split" THEN Split!Next ELSE UNCHANGED splitVars
    /\ IF part = "support" THEN Supporting!Next ELSE UNCHANGED supportVars
    /\ IF part = "links" THEN Linking!Next ELSE UNCHANGED linkVars
    /\ IF part = "documents" THEN Documents!Next
       ELSE IF part = "otherLinks" THEN OtherLinks!Next ELSE UNCHANGED documentVars

dialogsVars == <<part, vars, splitVars, supportVars, linkVars, documentVars>>

DialogsSpec == DialogsInit /\ [][DialogsNext]_dialogsVars

-----------------------------------------------------------------------------
\* Votes that are split add up and name the consensus result of the proposal
\* that was chosen last, and no dialog stays "loading" with nothing under way
\* (VoteModals).  A support names the ballot box the program will ask for and
\* has the compute units it needs (SupportTransaction).  What the program
\* stores is a link into the approved repository, from the form always one to a
\* document, and checks of the same link agree (ProposalLinks).  The document
\* shown for a link is its subject, under its own number, and a refusal ends
\* the requests for it (ProposalDocuments).
DialogsAreSound ==
    /\ part = "modals" => LoadingIsAccountedFor
    /\ part = "split" => Split!ModalsInv /\ Split!LoadingIsAccountedFor
    /\ part = "support" =>
          Supporting!SupportTypeOK /\ Supporting!NamesTheRightBox /\ Supporting!HeadroomSuffices
    /\ part = "links" =>
          /\ Linking!LinksTypeOK /\ Linking!OneRepository
          /\ Linking!FormLinksNameADocument /\ Linking!CheckedLinksAreStored
    /\ part = "documents" =>
          /\ Documents!DocumentsTypeOK /\ Documents!ShownIsTheSubject
          /\ Documents!HeadingNamesTheDocument /\ Documents!RefusalsAreFinal
    /\ part = "otherLinks" =>
          OtherLinks!DocumentsTypeOK /\ OtherLinks!HeadingNamesTheDocument

\* A wallet without a vote account casts no validator's vote unless it was
\* switched to with the dialog open (VoteModals).  A page that opens shows an
\* answer that is still good or asks for one, and an answer that is still good
\* is asked for again only when storage had to make room (ProposalDocuments).
DialogsAskTheRightOnes ==
    [][/\ part = "modals" => StakersAreTurnedAway
       /\ part = "split" => Split!StakersAreTurnedAway
       /\ part = "documents" =>
             Documents!OpensFreshOrAsking /\ Documents!ExpiredIsNotShown /\ Documents!AnswersAreReused
       /\ part = "otherLinks" =>
             OtherLinks!OpensFreshOrAsking /\ OtherLinks!ExpiredIsNotShown /\ OtherLinks!AnswersAreReused
      ]_dialogsVars
=============================================================================
