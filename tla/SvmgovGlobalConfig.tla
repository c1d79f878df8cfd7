------------------------- MODULE SvmgovGlobalConfig -------------------------
(***************************************************************************)
(* The GlobalConfig account of the svmgov program: one PDA that names the  *)
(* admin and the governance parameters.  Every instruction reads it anew,  *)
(* so an update applies to the proposals already under way.                *)
(*                                                                         *)
(* The limits on title and description length only filter the text a       *)
(* caller of create_proposal passes and are left out.                      *)
(***************************************************************************)
EXTENDS StakeArithmetic

CONSTANTS
    Keys,           \* keys that can sign as admin
    DefaultKey,     \* Pubkey::default()
    Nominees,       \* keys that may be nominated as admin
    Settings,       \* complete parameter settings tried by initialize_config
    Updates,        \* argument lists tried by update_config; None: leave as is
    Legacy,         \* accounts written by the version without max_supporters
    MAX_SUPPORTERS_LIMIT,
    None            \* Option::None; also an account not created yet

Parameters ==
    [max_support_epochs : Nat,
     min_proposal_stake_lamports : Nat,
     cluster_support_pct_min_bps : Nat,
     discussion_epochs : Nat,
     voting_epochs : Nat,
     snapshot_epoch_extension : Nat,
     snapshot_slot_offset : Int,
     max_supporters : Nat]

\* The arguments of update_config: an Option for each parameter.
ParameterUpdates ==
    [max_support_epochs : Nat \cup {None},
     min_proposal_stake_lamports : Nat \cup {None},
     cluster_support_pct_min_bps : Nat \cup {None},
     discussion_epochs : Nat \cup {None},
     voting_epochs : Nat \cup {None},
     snapshot_epoch_extension : Nat \cup {None},
     snapshot_slot_offset : Int \cup {None},
     max_supporters : Nat \cup {None}]

GlobalConfig ==
    [admin : Keys, pending_admin : Keys \cup {None}, params : Parameters]

ASSUME SettingsAssumption ==
    /\ DefaultKey \notin Keys /\ None \notin Keys \cup {DefaultKey}
    /\ Nominees \subseteq Keys \cup {DefaultKey}
    /\ Settings \subseteq Parameters
    /\ Updates \subseteq ParameterUpdates
    /\ Legacy \subseteq
          {c \in GlobalConfig : /\ c.params.max_supporters = 0
                               /\ c.params.cluster_support_pct_min_bps <= BASIS_POINTS_MAX}
    /\ MAX_SUPPORTERS_LIMIT \in Nat
    /\ None \notin GlobalConfig

VARIABLE global_config

params == global_config.params

(***************************************************************************)
(* initialize_config.rs validates only the two fields below (and the text  *)
(* limits); the other parameters are taken as they come.                   *)
(***************************************************************************)
ValidBps(bps) == bps <= BASIS_POINTS_MAX
ValidMaxSupporters(n) == n # 0 /\ n <= MAX_SUPPORTERS_LIMIT

(***************************************************************************)
(* An account of the previous version ends before max_supporters.  With no *)
(* pending admin its unused bytes read as max_supporters = 0; otherwise it *)
(* cannot be read, and in either case there is no room to add a nominee.   *)
(* Only update_config grows it.                                            *)
(***************************************************************************)
requires_migration == params.max_supporters = 0
Readable == global_config # None /\ (requires_migration => global_config.pending_admin = None)

ConfigInit == global_config \in {None} \cup Legacy

\* initialize_config, signed by the program's upgrade authority.
InitializeConfig(admin, setting) ==
    /\ global_config = None
    /\ ValidBps(setting.cluster_support_pct_min_bps)
    /\ ValidMaxSupporters(setting.max_supporters)
    /\ global_config' = [admin |-> admin, pending_admin |-> None, params |-> setting]

\* A field of an update: the argument, or the old value for None.
Given(arg, old) == IF arg = None THEN old ELSE arg

\* Mutant: what validates a migration is not repeated for a plain update.
UpdateConfigUnchecked(admin, u) ==
    /\ global_config # None
    /\ requires_migration => u.max_supporters # None /\ ValidMaxSupporters(u.max_supporters)
    /\ admin = global_config.admin
    /\ u.cluster_support_pct_min_bps # None => ValidBps(u.cluster_support_pct_min_bps)
    /\ global_config' = [global_config EXCEPT
          !.params = [f \in DOMAIN params |-> Given(u[f], params[f])]]

\* update_config, signed by the admin; migrates an account of the previous version.
UpdateConfig(admin, u) ==
    /\ global_config # None
    /\ requires_migration => u.max_supporters # None
    /\ admin = global_config.admin
    /\ u.cluster_support_pct_min_bps # None => ValidBps(u.cluster_support_pct_min_bps)
    /\ u.max_supporters # None => ValidMaxSupporters(u.max_supporters)
    /\ global_config' = [global_config EXCEPT
          !.params = [f \in DOMAIN params |-> Given(u[f], params[f])]]

\* nominate_admin: replaces an earlier nomination.
NominateAdmin(admin, proposed) ==
    /\ Readable /\ ~requires_migration
    /\ admin = global_config.admin
    /\ proposed # DefaultKey
    /\ global_config' = [global_config EXCEPT !.pending_admin = proposed]

\* Mutant: the nomination survives the transfer.
AcceptAdminKept(new_admin) ==
    /\ Readable
    /\ global_config.pending_admin = new_admin
    /\ global_config' = [global_config EXCEPT !.admin = new_admin]

\* accept_admin, signed by the nominee.
AcceptAdmin(new_admin) ==
    /\ Readable
    /\ global_config.pending_admin = new_admin
    /\ global_config' = [global_config EXCEPT !.admin = new_admin, !.pending_admin = None]

ConfigNext ==
    \/ \E k \in Keys, s \in Settings : InitializeConfig(k, s)
    \/ \E k \in Keys, u \in Updates : UpdateConfig(k, u)
    \/ \E k \in Keys, n \in Nominees : NominateAdmin(k, n)
    \/ \E k \in Keys : AcceptAdmin(k)

ConfigSpec == ConfigInit /\ [][ConfigNext]_global_config

-----------------------------------------------------------------------------
ConfigTypeOK == global_config \in GlobalConfig \cup {None}

(***************************************************************************)
(* Through initialization, partial updates and migration, the share needed *)
(* to activate is at most 100% and the cap on supporters is in its range,  *)
(* an account that still has to be migrated excepted                       *)
(* (initialize_config.rs:79-85, 110-116; update_config.rs:43-65).          *)
(***************************************************************************)
ParametersAreSane ==
    /\ ConfigTypeOK
    /\ global_config # None =>
          /\ params.cluster_support_pct_min_bps <= BASIS_POINTS_MAX
          /\ params.max_supporters <= MAX_SUPPORTERS_LIMIT
          /\ requires_migration => global_config \in Legacy

\* The account as an office: the key that holds it and the key nominated for it.
Handover == INSTANCE TwoStepHandover
    WITH Nobody <- None,
         holder <- IF global_config = None THEN None ELSE global_config.admin,
         nominee <- IF global_config = None THEN None ELSE global_config.pending_admin

(***************************************************************************)
(* The admin changes only by the signature of the key nominated last, each *)
(* nomination is good for one transfer, and migrating the account in       *)
(* between loses neither (transfer_admin.rs:38-41, 69-73).                 *)
(***************************************************************************)
AdminHandover == Handover!Spec
=============================================================================
