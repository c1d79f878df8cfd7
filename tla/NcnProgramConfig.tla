-------------------------- MODULE NcnProgramConfig --------------------------
(***************************************************************************)
(* The ProgramConfig account of the ncn-snapshot program: one PDA, created *)
(* once, that names the authority, the operator whitelist and the          *)
(* parameters every ballot box copies when it is opened.                   *)
(*                                                                         *)
(* A transaction is atomic, so every instruction is one action; an         *)
(* instruction that returns an error changes nothing and is not a step.    *)
(***************************************************************************)
EXTENDS Integers, FiniteSets

CONSTANTS
    Keys,           \* public keys that somebody can sign with
    DefaultKey,     \* Pubkey::default(): a value of a key field nobody signs for
    Operators,      \* the keys that may be whitelisted as snapshot operators
    Nominees,       \* keys that may be proposed as the next authority
    Programs,       \* deployments of svmgov that may ask for a ballot box
    Thresholds,     \* arguments tried for min_consensus_threshold_bps (u16)
    Durations,      \* arguments tried for vote_duration (i64)
    MAX_OPERATOR_WHITELIST,
    None            \* the Option::None of the model; also an account not created

ASSUME KeysAssumption == DefaultKey \notin Keys /\ None \notin Keys \cup {DefaultKey}
ASSUME ConfigArgsAssumption ==
    /\ Nominees \subseteq Keys \cup {DefaultKey}
    /\ Thresholds \subseteq Int /\ Durations \subseteq Int
ASSUME WhitelistAssumption ==
    /\ IsFiniteSet(Operators)
    /\ MAX_OPERATOR_WHITELIST \in Nat

BASIS_POINTS_MAX == 10000
BasisPoints == 0 .. BASIS_POINTS_MAX

(***************************************************************************)
(* program_config is None until init_program_config has run.               *)
(***************************************************************************)
VARIABLE program_config

ProgramConfig ==
    [authority : Keys,
     proposed_authority : Keys \cup {DefaultKey, None},
     whitelisted_operators : SUBSET Operators,
     min_consensus_threshold_bps : BasisPoints,
     tie_breaker_admin : Keys \cup {DefaultKey},
     vote_duration : Nat,
     svmgov_program_pubkey : Programs]

ConfigInit == program_config = None

ConfigExists == program_config # None

-----------------------------------------------------------------------------
(***************************************************************************)
(* init_program_config: the fields the handler does not assign keep the    *)
(* zero the fresh account is filled with, so a box opened before the first *)
(* update has threshold 0 and duration 0.                                  *)
(***************************************************************************)
InitProgramConfig(authority, program) ==
    /\ program_config = None
    /\ program_config' = [authority |-> authority,
                          proposed_authority |-> None,
                          whitelisted_operators |-> {},
                          min_consensus_threshold_bps |-> 0,
                          tie_breaker_admin |-> DefaultKey,
                          vote_duration |-> 0,
                          svmgov_program_pubkey |-> program]

\* A field of an update call: the Option argument, or the old value for None.
Given(arg, old) == IF arg = None THEN old ELSE arg

ValidThreshold(bps) == bps > 0 /\ bps <= BASIS_POINTS_MAX

\* update_program_config, signed by the authority; any subset of the fields.
UpdateProgramConfig(signer, proposed, bps, tie, duration, program) ==
    /\ ConfigExists
    /\ signer = program_config.authority
    /\ bps # None => ValidThreshold(bps)
    /\ duration # None => duration > 0
    /\ program_config' = [program_config EXCEPT
          !.proposed_authority = Given(proposed, @),
          !.min_consensus_threshold_bps = Given(bps, @),
          !.tie_breaker_admin = Given(tie, @),
          !.vote_duration = Given(duration, @),
          !.svmgov_program_pubkey = Given(program, @)]

\* Mutant: the nomination survives the change it was made for.
FinalizeProposedAuthorityKept(signer) ==
    /\ ConfigExists
    /\ signer = program_config.proposed_authority
    /\ program_config' = [program_config EXCEPT !.authority = signer]

\* finalize_proposed_authority, signed by the proposed key itself.
FinalizeProposedAuthority(signer) ==
    /\ ConfigExists
    /\ signer = program_config.proposed_authority
    /\ program_config' = [program_config EXCEPT !.authority = signer,
                                                !.proposed_authority = None]

\* Mutant: the length is compared before the new operators are added.
UpdateOperatorWhitelistEarly(signer, add, remove) ==
    /\ ConfigExists
    /\ signer = program_config.authority
    /\ add \cap remove = {}
    /\ LET list == program_config.whitelisted_operators \ remove
       IN /\ add # {} => Cardinality(list) <= MAX_OPERATOR_WHITELIST
          /\ program_config' = [program_config EXCEPT !.whitelisted_operators = list \cup add]

(***************************************************************************)
(* update_operator_whitelist removes, then adds without duplicates, and    *)
(* only then compares the length with the capacity.  The length is         *)
(* compared only when there is something to add.  A Vec without            *)
(* duplicates whose order no instruction reads is a set here.              *)
(***************************************************************************)
UpdateOperatorWhitelist(signer, add, remove) ==
    /\ ConfigExists
    /\ signer = program_config.authority
    /\ add \cap remove = {}
    /\ LET list == (program_config.whitelisted_operators \ remove) \cup add
       IN /\ add # {} => Cardinality(list) <= MAX_OPERATOR_WHITELIST
          /\ program_config' = [program_config EXCEPT !.whitelisted_operators = list]

ConfigNext ==
    \/ \E k \in Keys, p \in Programs : InitProgramConfig(k, p)
    \/ \E k \in Keys, pa \in Nominees \cup {None}, bps \in Thresholds \cup {None},
          t \in Keys \cup {DefaultKey, None}, d \in Durations \cup {None},
          p \in Programs \cup {None} : UpdateProgramConfig(k, pa, bps, t, d, p)
    \/ \E k \in Keys : FinalizeProposedAuthority(k)
    \/ \E k \in Keys, add, remove \in SUBSET Operators :
          UpdateOperatorWhitelist(k, add, remove)

ConfigSpec == ConfigInit /\ [][ConfigNext]_program_config

-----------------------------------------------------------------------------
ConfigTypeOK == program_config \in ProgramConfig \cup {None}

\* The account as an office: the key that holds it and the key nominated for it.
HolderOf(config) == IF config = None THEN None ELSE config.authority
NomineeOf(config) ==
    IF config # None /\ config.proposed_authority \in Keys
    THEN config.proposed_authority ELSE None

Handover == INSTANCE TwoStepHandover
    WITH Nobody <- None, holder <- HolderOf(program_config),
         nominee <- NomineeOf(program_config)

(***************************************************************************)
(* The authority changes hands only by the signature of the key nominated  *)
(* last, and a nomination is used up by the change, however nominations,   *)
(* other partial updates and acceptances interleave                        *)
(* (finalize_proposed_authority.rs, update_program_config.rs).             *)
(***************************************************************************)
AuthorityHandover == Handover!Spec

(***************************************************************************)
(* The whitelist a box will copy always fits the box's voter_list, through *)
(* any sequence of partial updates (program_config.rs:54).                 *)
(***************************************************************************)
WhitelistFits ==
    /\ ConfigTypeOK
    /\ ConfigExists =>
        Cardinality(program_config.whitelisted_operators) <= MAX_OPERATOR_WHITELIST
=============================================================================
