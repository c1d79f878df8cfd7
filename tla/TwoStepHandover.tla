-------------------------- MODULE TwoStepHandover --------------------------
(***************************************************************************)
(* What the two-step transfers of both on-chain programs promise: an       *)
(* office whose holder changes only when the key nominated last signs for  *)
(* it, each nomination being good for one change.  The authority of        *)
(* ProgramConfig and the admin of GlobalConfig both implement it.          *)
(***************************************************************************)
CONSTANTS Keys, Nobody

VARIABLES holder, nominee

\* The office may be found vacant, or held since an earlier version of the program.
Init == holder \in Keys \cup {Nobody} /\ nominee \in Keys \cup {Nobody}

\* The account is created with its first holder.
Create(k) == holder = Nobody /\ holder' = k /\ nominee' = Nobody

\* The holder nominates a key, replacing or withdrawing an earlier nomination.
Nominate(k) == holder # Nobody /\ nominee' = k /\ holder' = holder

\* The nominee takes over.
Accept == nominee \in Keys /\ holder' = nominee /\ nominee' = Nobody

Next ==
    \/ \E k \in Keys : Create(k)
    \/ \E k \in Keys \cup {Nobody} : Nominate(k)
    \/ Accept

Spec == Init /\ [][Next]_<<holder, nominee>>
=============================================================================
