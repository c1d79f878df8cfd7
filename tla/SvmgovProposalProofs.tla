------------------------ MODULE SvmgovProposalProofs ------------------------
(***************************************************************************)
(* Proofs about SvmgovGlobalConfig, SvmgovProposal and CliPhases, for any  *)
(* number of validators, proposals, stakes, settings and slots.            *)
(***************************************************************************)
EXTENDS CliPhases, FiniteSetTheorems, SequenceTheorems, TLAPS

-----------------------------------------------------------------------------
(***************************************************************************)
(* Sums.  Sum(f) counts the units <<x, 1>>, ..., <<x, f[x]>> of every x,   *)
(* so facts about sums are facts about sets of units.                      *)
(***************************************************************************)
LEMMA UnitsMember ==
    ASSUME NEW f, NEW u
    PROVE  u \in Units(f) <=> \E x \in DOMAIN f : \E i \in 1 .. f[x] : u = <<x, i>>
  BY DEF Units

\* The units of one element.
LEMMA UnitsOfOne ==
    ASSUME NEW x, NEW n \in Nat
    PROVE  IsFiniteSet({x} \X (1 .. n)) /\ Cardinality({x} \X (1 .. n)) = n
<1> DEFINE I == 1 .. n
<1>1. IsFiniteSet(I) /\ Cardinality(I) = n
  BY FS_Interval
<1>2. IsFiniteSet({x}) /\ Cardinality({x}) = 1
  BY FS_Singleton
<1> HIDE DEF I
<1>3. IsFiniteSet({x} \X I) /\ Cardinality({x} \X I) = 1 * n
  BY <1>1, <1>2, FS_Product
<1>4. QED
  BY <1>3 DEF I

LEMMA UnitsFinite ==
    ASSUME NEW D, IsFiniteSet(D), NEW f \in [D -> Nat]
    PROVE  IsFiniteSet(Units(f))
<1> DEFINE Of(x) == {x} \X (1 .. f[x])
           All == {Of(x) : x \in D}
           g == [x \in D |-> Of(x)]
<1>1. \A x \in D : IsFiniteSet(Of(x))
  BY UnitsOfOne
<1>2. Units(f) = UNION All
  BY DEF Units
<1> HIDE DEF Of
<1>3. g \in Surjection(D, All)
  BY DEF Surjection
<1> HIDE DEF g
<1>4. IsFiniteSet(All)
  BY <1>3, FS_Surjection
<1>5. \A T \in All : IsFiniteSet(T)
  BY <1>1
<1> HIDE DEF All
<1>6. QED
  BY <1>2, <1>4, <1>5, FS_UNION

LEMMA SumType ==
    ASSUME NEW D, IsFiniteSet(D), NEW f \in [D -> Nat]
    PROVE  Sum(f) \in Nat
  BY UnitsFinite, FS_CardinalityType DEF Sum

LEMMA SumEmpty ==
    ASSUME NEW f, DOMAIN f = {}
    PROVE  Sum(f) = 0
<1>1. Units(f) = {}
  BY UnitsMember
<1>2. QED
  BY <1>1, FS_EmptySet DEF Sum

(***************************************************************************)
(* A sum over two disjoint sets is the sum of the two.                     *)
(***************************************************************************)
LEMMA SumSplit ==
    ASSUME NEW A, NEW B, IsFiniteSet(A), IsFiniteSet(B), A \cap B = {},
           NEW f \in [A \cup B -> Nat], NEW g \in [A -> Nat], NEW h \in [B -> Nat],
           \A x \in A : f[x] = g[x], \A x \in B : f[x] = h[x]
    PROVE  Sum(f) = Sum(g) + Sum(h)
<1>1. IsFiniteSet(Units(g)) /\ IsFiniteSet(Units(h))
  BY UnitsFinite
<1>2. Units(f) = Units(g) \cup Units(h)
  BY UnitsMember
<1>3. Units(g) \cap Units(h) = {}
  BY UnitsMember
<1>4. Cardinality(Units(g)) \in Nat /\ Cardinality(Units(h)) \in Nat
  BY <1>1, FS_CardinalityType
<1>5. QED
  <2>1. Cardinality(Units(f)) = Cardinality(Units(g)) + Cardinality(Units(h)) - Cardinality({})
    BY <1>1, <1>2, <1>3, FS_Union
  <2>2. Cardinality({}) = 0
    BY FS_EmptySet
  <2>3. QED
    BY <1>4, <2>1, <2>2 DEF Sum

LEMMA SumOne ==
    ASSUME NEW x, NEW f \in [{x} -> Nat]
    PROVE  Sum(f) = f[x]
<1>1. Units(f) = {x} \X (1 .. f[x])
  BY DEF Units
<1>2. QED
  BY <1>1, UnitsOfOne DEF Sum

\* One more element adds its value.
LEMMA SumAdd ==
    ASSUME NEW D, IsFiniteSet(D), NEW x, x \notin D, NEW E, E = D \cup {x},
           NEW f \in [E -> Nat], NEW g \in [D -> Nat],
           \A y \in D : f[y] = g[y]
    PROVE  Sum(f) = Sum(g) + f[x]
<1> DEFINE h == [y \in {x} |-> f[y]]
<1>1. h \in [{x} -> Nat] /\ h[x] = f[x]
  OBVIOUS
<1>2. IsFiniteSet({x})
  BY FS_Singleton
<1>3. Sum(f) = Sum(g) + Sum(h)
  BY <1>2, SumSplit
<1> HIDE DEF h
<1>4. QED
  BY <1>1, <1>3, SumOne

\* A change at one element changes the sum by as much.
LEMMA SumChange ==
    ASSUME NEW D, IsFiniteSet(D), NEW x \in D,
           NEW f \in [D -> Nat], NEW g \in [D -> Nat],
           \A y \in D \ {x} : f[y] = g[y]
    PROVE  /\ Sum(f) \in Nat /\ Sum(g) \in Nat
           /\ Sum(f) + g[x] = Sum(g) + f[x]
           /\ Sum(f) >= f[x]
<1> DEFINE E == D \ {x}
           r == [y \in E |-> f[y]]
<1>1. IsFiniteSet(E) /\ x \notin E /\ E \cup {x} = D
  BY FS_RemoveElement
<1>2. r \in [E -> Nat] /\ \A y \in E : f[y] = r[y] /\ g[y] = r[y]
  OBVIOUS
<1> HIDE DEF E, r
<1>3. Sum(f) = Sum(r) + f[x] /\ Sum(g) = Sum(r) + g[x]
  BY <1>1, <1>2, SumAdd
<1>4. Sum(r) \in Nat
  BY <1>1, <1>2, SumType
<1>5. QED
  BY <1>3, <1>4

LEMMA SumMonotone ==
    ASSUME NEW E, IsFiniteSet(E), NEW D \in SUBSET E,
           NEW f \in [D -> Nat], NEW g \in [E -> Nat],
           \A x \in D : f[x] <= g[x]
    PROVE  Sum(f) \in Nat /\ Sum(g) \in Nat /\ Sum(f) <= Sum(g)
<1>1. IsFiniteSet(D)
  BY FS_Subset
<1>2. ASSUME NEW x \in D
      PROVE  1 .. f[x] \subseteq 1 .. g[x]
  OBVIOUS
<1>3. Units(f) \in SUBSET Units(g)
  BY <1>2, UnitsMember
<1>4. IsFiniteSet(Units(g))
  BY UnitsFinite
<1>5. QED
  BY <1>1, <1>3, <1>4, FS_Subset, SumType DEF Sum

(***************************************************************************)
(* Terms may be renamed one for one.                                       *)
(***************************************************************************)
LEMMA SumRenamed ==
    ASSUME NEW D, NEW E, IsFiniteSet(D), NEW b \in Bijection(D, E),
           NEW f \in [D -> Nat], NEW g \in [E -> Nat],
           \A x \in D : f[x] = g[b[x]]
    PROVE  Sum(f) = Sum(g)
<1> DEFINE c == [u \in Units(f) |-> <<b[u[1]], u[2]>>]
<1>1. /\ b \in [D -> E]
      /\ \A x, y \in D : b[x] = b[y] => x = y
      /\ \A e \in E : \E x \in D : b[x] = e
  BY DEF Bijection, Injection, Surjection, IsInjective
<1>2. c \in [Units(f) -> Units(g)]
  <2> SUFFICES ASSUME NEW u \in Units(f)
               PROVE  <<b[u[1]], u[2]>> \in Units(g)
    OBVIOUS
  <2>1. PICK x \in D : \E i \in 1 .. f[x] : u = <<x, i>>
    BY UnitsMember
  <2>2. PICK i \in 1 .. f[x] : u = <<x, i>>
    BY <2>1
  <2>3. b[x] \in E /\ i \in 1 .. g[b[x]]
    BY <1>1, <2>2
  <2>4. QED
    BY <2>2, <2>3, UnitsMember
<1>3. \A u, w \in Units(f) : c[u] = c[w] => u = w
  <2> SUFFICES ASSUME NEW u \in Units(f), NEW w \in Units(f), c[u] = c[w]
               PROVE  u = w
    OBVIOUS
  <2>1. PICK x \in D, i \in Int : u = <<x, i>>
    BY UnitsMember
  <2>2. PICK y \in D, j \in Int : w = <<y, j>>
    BY UnitsMember
  <2>3. c[u] = <<b[x], i>> /\ c[w] = <<b[y], j>>
    BY <2>1, <2>2
  <2>4. b[x] = b[y] /\ i = j
    BY <2>3
  <2>5. QED
    BY <1>1, <2>1, <2>2, <2>4
<1>4. \A w \in Units(g) : \E u \in Units(f) : c[u] = w
  <2> SUFFICES ASSUME NEW w \in Units(g)
               PROVE  \E u \in Units(f) : c[u] = w
    OBVIOUS
  <2>1. PICK e \in E : \E i \in 1 .. g[e] : w = <<e, i>>
    BY UnitsMember
  <2>2. PICK i \in 1 .. g[e] : w = <<e, i>>
    BY <2>1
  <2>3. PICK x \in D : b[x] = e
    BY <1>1
  <2>4. <<x, i>> \in Units(f)
    BY <2>2, <2>3, UnitsMember
  <2>5. c[<<x, i>>] = w
    BY <2>2, <2>3, <2>4
  <2>6. QED
    BY <2>4, <2>5
<1> HIDE DEF c
<1>5. c \in Bijection(Units(f), Units(g))
  BY <1>2, <1>3, <1>4 DEF Bijection, Injection, Surjection, IsInjective
<1>6. ExistsBijection(Units(f), Units(g))
  BY <1>5 DEF ExistsBijection
<1>7. QED
  BY <1>6, UnitsFinite, FS_Bijection DEF Sum

(***************************************************************************)
(* Term by term addition.                                                  *)
(***************************************************************************)
LEMMA SumPlus ==
    ASSUME NEW D, IsFiniteSet(D),
           NEW f \in [D -> Nat], NEW g \in [D -> Nat], NEW h \in [D -> Nat],
           \A x \in D : h[x] = f[x] + g[x]
    PROVE  Sum(h) = Sum(f) + Sum(g)
<1> DEFINE above == {u \in Units(h) : u \notin Units(f)}
           c == [u \in Units(g) |-> <<u[1], u[2] + f[u[1]]>>]
<1>a. ASSUME NEW u
      PROVE  u \in above <=> \E x \in D : \E i \in 1 .. g[x] : u = <<x, i + f[x]>>
  <2>1. ASSUME NEW x \in D, NEW i \in 1 .. g[x], u = <<x, i + f[x]>>
        PROVE  u \in above
    <3>1. i + f[x] \in 1 .. h[x] /\ ~(i + f[x] \in 1 .. f[x])
      OBVIOUS
    <3>2. u \in Units(h)
      BY <2>1, <3>1, UnitsMember
    <3>3. u \notin Units(f)
      BY <2>1, <3>1, UnitsMember
    <3>4. QED
      BY <3>2, <3>3
  <2>2. ASSUME u \in above
        PROVE  \E x \in D : \E i \in 1 .. g[x] : u = <<x, i + f[x]>>
    <3>1. PICK x \in D : \E i \in 1 .. h[x] : u = <<x, i>>
      BY <2>2, UnitsMember
    <3>2. PICK i \in 1 .. h[x] : u = <<x, i>>
      BY <3>1
    <3>3. ~(i \in 1 .. f[x])
      BY <2>2, <3>2, UnitsMember
    <3>4. i - f[x] \in 1 .. g[x] /\ (i - f[x]) + f[x] = i
      BY <3>3
    <3>5. QED
      BY <3>2, <3>4
  <2>3. QED
    BY <2>1, <2>2
<1>1. Units(f) \subseteq Units(h)
  <2>1. ASSUME NEW x \in D
        PROVE  1 .. f[x] \subseteq 1 .. h[x]
    OBVIOUS
  <2>2. QED
    BY <2>1, UnitsMember
<1>2. Units(h) = Units(f) \cup above /\ Units(f) \cap above = {}
  BY <1>1
<1>3. IsFiniteSet(Units(f)) /\ IsFiniteSet(Units(g)) /\ IsFiniteSet(Units(h))
  BY UnitsFinite
<1>4. c \in [Units(g) -> above]
  <2> SUFFICES ASSUME NEW u \in Units(g)
               PROVE  <<u[1], u[2] + f[u[1]]>> \in above
    OBVIOUS
  <2>1. PICK x \in D : \E i \in 1 .. g[x] : u = <<x, i>>
    BY UnitsMember
  <2>2. QED
    BY <2>1, <1>a
<1>5. \A u, w \in Units(g) : c[u] = c[w] => u = w
  <2> SUFFICES ASSUME NEW u \in Units(g), NEW w \in Units(g), c[u] = c[w]
               PROVE  u = w
    OBVIOUS
  <2>1. PICK x \in D, i \in Int : u = <<x, i>>
    BY UnitsMember
  <2>2. PICK y \in D, j \in Int : w = <<y, j>>
    BY UnitsMember
  <2>3. c[u] = <<x, i + f[x]>> /\ c[w] = <<y, j + f[y]>>
    BY <2>1, <2>2
  <2>4. x = y /\ i + f[x] = j + f[y]
    BY <2>3
  <2>5. QED
    BY <2>1, <2>2, <2>4
<1>6. \A w \in above : \E u \in Units(g) : c[u] = w
  <2> SUFFICES ASSUME NEW w \in above
               PROVE  \E u \in Units(g) : c[u] = w
    OBVIOUS
  <2>1. PICK x \in D : \E i \in 1 .. g[x] : w = <<x, i + f[x]>>
    BY <1>a
  <2>2. PICK i \in 1 .. g[x] : w = <<x, i + f[x]>>
    BY <2>1
  <2>3. <<x, i>> \in Units(g)
    BY UnitsMember
  <2>4. c[<<x, i>>] = w
    BY <2>2, <2>3
  <2>5. QED
    BY <2>3, <2>4
<1> HIDE DEF c, above
<1>7. c \in Bijection(Units(g), above)
  BY <1>4, <1>5, <1>6 DEF Bijection, Injection, Surjection, IsInjective
<1>8. IsFiniteSet(above) /\ Cardinality(above) = Cardinality(Units(g))
  BY <1>3, <1>7, FS_Bijection DEF ExistsBijection
<1>9. /\ Cardinality(Units(f)) \in Nat /\ Cardinality(above) \in Nat
      /\ Cardinality(Units(h)) = Cardinality(Units(f)) + Cardinality(above) - Cardinality({})
  BY <1>2, <1>3, <1>8, FS_Union, FS_CardinalityType
<1>10. QED
  BY <1>8, <1>9, FS_EmptySet DEF Sum
-----------------------------------------------------------------------------
(***************************************************************************)
(* The configuration.  Whatever is given, an update leaves parameters.     *)
(***************************************************************************)
LEMMA UpdatedParameters ==
    ASSUME NEW c \in Parameters, NEW u \in ParameterUpdates
    PROVE  LET new == [f \in DOMAIN c |-> Given(u[f], c[f])]
           IN /\ new \in Parameters
              /\ new.cluster_support_pct_min_bps =
                   Given(u.cluster_support_pct_min_bps, c.cluster_support_pct_min_bps)
              /\ new.max_supporters = Given(u.max_supporters, c.max_supporters)
  BY DEF ParameterUpdates, Parameters, Given

\* An instruction of the configuration leaves an account, with sane parameters.
LEMMA ConfigStep ==
    ASSUME ParametersAreSane, ConfigNext
    PROVE  global_config' \in GlobalConfig /\ ParametersAreSane'
<1>a. global_config # None =>
        /\ global_config \in GlobalConfig
        /\ params \in Parameters
        /\ params.cluster_support_pct_min_bps <= BASIS_POINTS_MAX
        /\ params.max_supporters <= MAX_SUPPORTERS_LIMIT
        /\ requires_migration => global_config \in Legacy
  BY DEF ParametersAreSane, ConfigTypeOK, params, GlobalConfig
<1>b. ASSUME global_config' \in GlobalConfig,
             global_config'.params.cluster_support_pct_min_bps <= BASIS_POINTS_MAX,
             global_config'.params.max_supporters <= MAX_SUPPORTERS_LIMIT,
             global_config'.params.max_supporters # 0
      PROVE  global_config' \in GlobalConfig /\ ParametersAreSane'
  BY <1>b DEF ParametersAreSane, ConfigTypeOK, params, requires_migration
<1>1. ASSUME NEW k \in Keys, NEW s \in Settings, InitializeConfig(k, s)
      PROVE  global_config' \in GlobalConfig /\ ParametersAreSane'
  <2> DEFINE new == [admin |-> k, pending_admin |-> None, params |-> s]
  <2>1. global_config' = new
    BY <1>1 DEF InitializeConfig
  <2>2. new \in GlobalConfig /\ new.params = s
    BY SettingsAssumption DEF GlobalConfig
  <2>3. /\ s.cluster_support_pct_min_bps <= BASIS_POINTS_MAX
        /\ s.max_supporters <= MAX_SUPPORTERS_LIMIT
        /\ s.max_supporters # 0
    BY <1>1 DEF InitializeConfig, ValidBps, ValidMaxSupporters
  <2> HIDE DEF new
  <2>4. QED
    BY <1>b, <2>1, <2>2, <2>3
<1>2. ASSUME NEW k \in Keys, NEW u \in Updates, UpdateConfig(k, u)
      PROVE  global_config' \in GlobalConfig /\ ParametersAreSane'
  <2> DEFINE new == [f \in DOMAIN params |-> Given(u[f], params[f])]
  <2>1. /\ global_config # None /\ global_config' = [global_config EXCEPT !.params = new]
        /\ requires_migration => u.max_supporters # None
        /\ u.cluster_support_pct_min_bps # None =>
             u.cluster_support_pct_min_bps <= BASIS_POINTS_MAX
        /\ u.max_supporters # None =>
             u.max_supporters # 0 /\ u.max_supporters <= MAX_SUPPORTERS_LIMIT
    BY <1>2 DEF UpdateConfig, ValidBps, ValidMaxSupporters
  <2>2. u \in ParameterUpdates
    BY SettingsAssumption
  <2>3. /\ new \in Parameters
        /\ new.cluster_support_pct_min_bps =
             Given(u.cluster_support_pct_min_bps, params.cluster_support_pct_min_bps)
        /\ new.max_supporters = Given(u.max_supporters, params.max_supporters)
    BY <1>a, <2>1, <2>2, UpdatedParameters
  <2> HIDE DEF new
  <2>4. global_config' \in GlobalConfig /\ global_config'.params = new
    BY <1>a, <2>1, <2>3 DEF GlobalConfig
  <2>5. new.cluster_support_pct_min_bps <= BASIS_POINTS_MAX
    BY <1>a, <2>1, <2>3 DEF Given
  <2>6. new.max_supporters <= MAX_SUPPORTERS_LIMIT /\ new.max_supporters # 0
    BY <1>a, <2>1, <2>3 DEF Given, requires_migration
  <2>7. QED
    BY <1>b, <2>4, <2>5, <2>6
<1>3. ASSUME ~requires_migration, global_config # None,
             global_config' \in GlobalConfig, global_config'.params = global_config.params
      PROVE  global_config' \in GlobalConfig /\ ParametersAreSane'
  BY <1>a, <1>b, <1>3 DEF requires_migration, params
<1>4. ASSUME NEW k \in Keys, NEW n \in Nominees, NominateAdmin(k, n)
      PROVE  global_config' \in GlobalConfig /\ ParametersAreSane'
  <2>1. /\ ~requires_migration /\ global_config # None /\ n \in Keys
        /\ global_config' = [global_config EXCEPT !.pending_admin = n]
    BY <1>4, SettingsAssumption DEF NominateAdmin, Readable
  <2>2. global_config' \in GlobalConfig /\ global_config'.params = global_config.params
    BY <1>a, <2>1 DEF GlobalConfig
  <2>3. QED
    BY <1>3, <2>1, <2>2
<1>5. ASSUME NEW k \in Keys, AcceptAdmin(k)
      PROVE  global_config' \in GlobalConfig /\ ParametersAreSane'
  <2>1. /\ ~requires_migration /\ global_config # None
        /\ global_config' = [global_config EXCEPT !.admin = k, !.pending_admin = None]
    BY <1>5, SettingsAssumption DEF AcceptAdmin, Readable
  <2>2. global_config' \in GlobalConfig /\ global_config'.params = global_config.params
    BY <1>a, <2>1 DEF GlobalConfig
  <2>3. QED
    BY <1>3, <2>1, <2>2
<1>6. QED
  BY <1>1, <1>2, <1>4, <1>5 DEF ConfigNext

LEMMA ConfigStart == ConfigInit => ParametersAreSane
  BY SettingsAssumption
     DEF ConfigInit, ParametersAreSane, ConfigTypeOK, params, requires_migration

(***************************************************************************)
(* The parameters stay in their ranges through initialization, partial     *)
(* updates and migration (initialize_config.rs:79-85, 110-116;             *)
(* update_config.rs:43-65).                                                *)
(***************************************************************************)
THEOREM ParametersStaySane == ConfigSpec => []ParametersAreSane
<1>1. ParametersAreSane /\ UNCHANGED global_config => ParametersAreSane'
  BY DEF ParametersAreSane, ConfigTypeOK, params, requires_migration
<1>2. QED
  BY <1>1, ConfigStart, ConfigStep, PTL DEF ConfigSpec

(***************************************************************************)
(* The admin of GlobalConfig implements TwoStepHandover                    *)
(* (transfer_admin.rs:38-41, 69-73).                                       *)
(***************************************************************************)
THEOREM AdminIsHandedOver == ConfigSpec => AdminHandover
<1> DEFINE holder == IF global_config = None THEN None ELSE global_config.admin
           nominee == IF global_config = None THEN None ELSE global_config.pending_admin
<1>1. ConfigInit => Handover!Init
  BY SettingsAssumption DEF ConfigInit, Handover!Init, GlobalConfig
<1>2. ParametersAreSane /\ [ConfigNext]_global_config
        => Handover!Next \/ UNCHANGED <<holder, nominee>>
  <2> SUFFICES ASSUME ParametersAreSane, ConfigNext
               PROVE  Handover!Next \/ UNCHANGED <<holder, nominee>>
    OBVIOUS
  <2>a. /\ global_config # None => global_config \in GlobalConfig
        /\ global_config' \in GlobalConfig /\ global_config' # None
    BY ConfigStep, SettingsAssumption DEF ParametersAreSane, ConfigTypeOK
  <2>1. ASSUME NEW k \in Keys, NEW s \in Settings, InitializeConfig(k, s)
        PROVE  Handover!Next
    <3>1. /\ global_config = None
          /\ global_config'.admin = k /\ global_config'.pending_admin = None
      BY <2>1 DEF InitializeConfig
    <3>2. Handover!Create(k)
      BY <2>a, <3>1 DEF Handover!Create
    <3>3. QED
      BY <3>2 DEF Handover!Next
  <2>2. ASSUME NEW k \in Keys, NEW u \in Updates, UpdateConfig(k, u)
        PROVE  UNCHANGED <<holder, nominee>>
    BY <2>2, <2>a DEF UpdateConfig, GlobalConfig
  <2>3. ASSUME NEW k \in Keys, NEW n \in Nominees, NominateAdmin(k, n)
        PROVE  Handover!Next
    <3>1. /\ global_config # None /\ n \in Keys
          /\ global_config'.admin = global_config.admin
          /\ global_config'.pending_admin = n
      BY <2>3, <2>a, SettingsAssumption DEF NominateAdmin, Readable, GlobalConfig
    <3>2. holder \in Keys
      BY <2>a, <3>1 DEF GlobalConfig
    <3>3. Handover!Nominate(n)
      BY <2>a, <3>1, <3>2, SettingsAssumption DEF Handover!Nominate
    <3>4. QED
      BY <3>1, <3>3 DEF Handover!Next
  <2>4. ASSUME NEW k \in Keys, AcceptAdmin(k)
        PROVE  Handover!Next
    <3>1. /\ global_config # None /\ global_config.pending_admin = k
          /\ global_config'.admin = k /\ global_config'.pending_admin = None
      BY <2>4, <2>a DEF AcceptAdmin, Readable, GlobalConfig
    <3>2. Handover!Accept
      BY <2>a, <3>1 DEF Handover!Accept
    <3>3. QED
      BY <3>2 DEF Handover!Next
  <2>5. QED
    BY <2>1, <2>2, <2>3, <2>4 DEF ConfigNext
<1>3. QED
  BY <1>1, <1>2, ParametersStaySane, PTL DEF ConfigSpec, AdminHandover, Handover!Spec
-----------------------------------------------------------------------------
(***************************************************************************)
(* The inductive invariant of the life cycle.  A proposal pr of the        *)
(* program is bound, given the status of the snapshots and the epoch, and  *)
(* its supporters are those with a Support account.                        *)
(***************************************************************************)
Bound(pr, st, e) ==
    /\ pr.creation_epoch <= e
    /\ IF pr.voting
       THEN /\ pr.consensus_result = pr.snapshot_slot
            /\ pr.consensus_result \in SnapshotSlots
            /\ st[pr.snapshot_slot] # Unopened
            /\ pr.start_epoch > pr.creation_epoch
            /\ pr.start_epoch <= pr.end_epoch
            /\ pr.finalized => e >= pr.end_epoch
       ELSE /\ pr.consensus_result = None
            /\ pr.snapshot_slot = 0 /\ pr.start_epoch = 0 /\ pr.end_epoch = 0
            /\ ~pr.finalized

Counted(pr, p, supp) ==
    /\ SupportersOf(pr) = {v \in Validators : <<p, v>> \in supp}
    /\ Len(pr.supporters) = Cardinality(SupportersOf(pr))
    /\ Len(pr.supporters) <= MAX_SUPPORTERS_LIMIT

\* Proposals are numbered in the order of their creation.
Numbered(prs, last) ==
    \A x, y \in {p \in Proposals : prs[p] # None} :
        /\ prs[x].index \in 1 .. last
        /\ x # y => prs[x].index # prs[y].index
        /\ prs[x].index < prs[y].index => prs[x].creation_epoch <= prs[y].creation_epoch

\* A result that is there before its snapshot is the tie breaker's.
EarlyByTieBreaker(st, now) ==
    \A s \in SnapshotSlots :
        st[s] \notin {Unopened, Open} /\ s >= now => st[s].tie_breaker

(***************************************************************************)
(* Besides what BoundToABox and SupportersAreCounted say: a creation is    *)
(* never in the future, nobody supports a proposal before its creation,    *)
(* and results ahead of their snapshot slot are the tie breaker's.         *)
(***************************************************************************)
ProposalInv ==
    /\ ParametersAreSane
    /\ ProposalTypeOK
    /\ \A p \in Proposals : Created(p) =>
          /\ Bound(proposal[p], status, epoch)
          /\ Counted(proposal[p], p, support)
          /\ proposal_index # None
    /\ \A p \in Proposals, v \in Validators : <<p, v>> \in support => Created(p)
    /\ Numbered(proposal, proposal_index)
    /\ EarlyByTieBreaker(status, slot)

\* Time passes without going back.
LEMMA EpochType ==
    ASSUME slot \in Nat
    PROVE  epoch \in Nat
  BY ProposalAssumption DEF epoch

LEMMA DivMonotone ==
    ASSUME NEW m \in Nat, NEW n \in Nat, NEW d \in Nat \ {0}, m <= n
    PROVE  m \div d \in Nat /\ n \div d \in Nat /\ m \div d <= n \div d
  OBVIOUS

LEMMA EpochMonotone ==
    ASSUME slot \in Nat, slot' = slot \/ slot' = slot + 1
    PROVE  epoch' \in Nat /\ epoch <= epoch'
<1>1. slot' \in Nat /\ slot <= slot'
  OBVIOUS
<1>2. QED
  BY <1>1, DivMonotone, ProposalAssumption DEF epoch

\* What the invariant says of a proposal that exists.
LEMMA ProposalFacts ==
    ASSUME ProposalInv, NEW p \in Proposals, Created(p)
    PROVE  /\ proposal[p] \in Proposal
           /\ Bound(proposal[p], status, epoch)
           /\ Counted(proposal[p], p, support)
           /\ proposal_index \in Nat
  BY DEF ProposalInv, ProposalTypeOK, Created

LEMMA ParameterFacts ==
    ASSUME ProposalInv, Readable
    PROVE  /\ params \in Parameters
           /\ params.cluster_support_pct_min_bps <= BASIS_POINTS_MAX
           /\ params.max_supporters <= MAX_SUPPORTERS_LIMIT
  BY DEF ProposalInv, ParametersAreSane, Readable, ConfigTypeOK, params, GlobalConfig

\* Boxes are opened and results published, never the other way round.
StatusMoves ==
    /\ status' \in [SnapshotSlots -> {Unopened, Open} \cup Snapshot!Result]
    /\ \A s \in SnapshotSlots :
          /\ status[s] # Unopened => status'[s] # Unopened
          /\ status[s] \notin {Unopened, Open} => status'[s] = status[s]

\* No result is published.
ResultsStay ==
    \A s \in SnapshotSlots : status'[s] \notin {Unopened, Open} => status'[s] = status[s]

LEMMA BoundStays ==
    ASSUME NEW pr \in Proposal, Bound(pr, status, epoch), StatusMoves,
           slot \in Nat, slot' = slot \/ slot' = slot + 1
    PROVE  Bound(pr, status', epoch')
<1>1. epoch \in Nat /\ epoch' \in Nat /\ epoch <= epoch'
  BY EpochType, EpochMonotone
<1> DEFINE e == epoch
           f == epoch'
<1>2. Bound(pr, status, e) /\ e \in Nat /\ f \in Nat /\ e <= f
  BY <1>1
<1> HIDE DEF e, f
<1>3. Bound(pr, status', f)
  BY <1>2 DEF Bound, StatusMoves, Proposal
<1>4. QED
  BY <1>3 DEF f

(***************************************************************************)
(* An instruction that rewrites one proposal, and perhaps opens a box or   *)
(* adds a Support account, keeps the invariant if the new account is       *)
(* bound and counted and keeps its number and creation epoch.              *)
(***************************************************************************)
LEMMA RewriteKeepsInv ==
    ASSUME ProposalInv, NEW p \in Proposals, Created(p), NEW new \in Proposal,
           proposal' = [proposal EXCEPT ![p] = new],
           UNCHANGED <<global_config, slot, epoch_stake, proposal_index>>,
           StatusMoves, ResultsStay,
           support' \subseteq Proposals \X Validators,
           \A q \in Proposals \ {p}, v \in Validators : <<q, v>> \in support' <=> <<q, v>> \in support,
           Bound(new, status', epoch), Counted(new, p, support'),
           new.index = proposal[p].index, new.creation_epoch = proposal[p].creation_epoch
    PROVE  ProposalInv'
<1>a. /\ proposal \in [Proposals -> Proposal \cup {None}]
      /\ slot \in Nat /\ None \notin Proposal /\ epoch' = epoch
      /\ proposal[p] \in Proposal
      /\ \A q \in Proposals : proposal'[q] = IF q = p THEN new ELSE proposal[q]
  BY ProposalFacts, DistinctAssumption DEF ProposalInv, ProposalTypeOK, epoch
<1>b. \A q \in Proposals : Created(q)' <=> Created(q)
  BY <1>a DEF Created
<1>1. ParametersAreSane'
  BY DEF ProposalInv, ParametersAreSane, ConfigTypeOK, params, requires_migration
<1>2. ProposalTypeOK'
  BY <1>a DEF ProposalInv, ProposalTypeOK, ConfigTypeOK, StatusMoves
<1>3. ASSUME NEW q \in Proposals, Created(q)'
      PROVE  /\ Bound(proposal'[q], status', epoch')
             /\ Counted(proposal'[q], q, support')
             /\ proposal_index' # None
  <2>1. proposal_index' # None
    BY <1>b, <1>3 DEF ProposalInv
  <2>2. CASE q = p
    BY <1>a, <2>1, <2>2
  <2>3. CASE q # p
    <3>1. /\ proposal[q] \in Proposal /\ proposal'[q] = proposal[q]
          /\ Bound(proposal[q], status, epoch) /\ Counted(proposal[q], q, support)
      BY <1>a, <1>b, <1>3, <2>3, ProposalFacts
    <3>2. Bound(proposal[q], status', epoch')
      BY <1>a, <3>1, BoundStays
    <3>3. Counted(proposal[q], q, support')
      BY <2>3, <3>1 DEF Counted
    <3>4. QED
      BY <2>1, <3>1, <3>2, <3>3
  <2>4. QED
    BY <2>2, <2>3
<1>4. ASSUME NEW q \in Proposals, NEW v \in Validators, <<q, v>> \in support'
      PROVE  Created(q)'
  BY <1>4, <1>b DEF ProposalInv
<1>5. Numbered(proposal', proposal_index')
  <2>1. /\ Numbered(proposal, proposal_index)
        /\ \A q \in Proposals : /\ proposal'[q] # None <=> proposal[q] # None
                                /\ proposal'[q].index = proposal[q].index
                                /\ proposal'[q].creation_epoch = proposal[q].creation_epoch
    BY <1>a DEF ProposalInv, Created
  <2>2. QED
    BY <2>1 DEF Numbered
<1>6. EarlyByTieBreaker(status', slot')
  BY DEF ProposalInv, EarlyByTieBreaker, ResultsStay
<1>7. QED
  BY <1>1, <1>2, <1>3, <1>4, <1>5, <1>6 DEF ProposalInv

\* A step that leaves the proposals alone.
LEMMA OthersKeepInv ==
    ASSUME ProposalInv, ParametersAreSane', ProposalTypeOK',
           UNCHANGED <<proposal, support>>,
           slot' = slot \/ slot' = slot + 1, StatusMoves,
           proposal_index # None => UNCHANGED proposal_index,
           EarlyByTieBreaker(status', slot')
    PROVE  ProposalInv'
<1>1. ASSUME NEW q \in Proposals, Created(q)'
      PROVE  /\ Bound(proposal[q], status', epoch')
             /\ Counted(proposal[q], q, support)
             /\ proposal_index' = proposal_index /\ proposal_index # None
  <2>1. Created(q) /\ proposal_index # None
    BY <1>1 DEF Created, ProposalInv
  <2>2. /\ proposal[q] \in Proposal /\ slot \in Nat
        /\ Bound(proposal[q], status, epoch) /\ Counted(proposal[q], q, support)
    BY <2>1, ProposalFacts DEF ProposalInv, ProposalTypeOK
  <2>3. QED
    BY <2>1, <2>2, BoundStays
<1>2. Numbered(proposal', proposal_index')
  <2>1. CASE \E q \in Proposals : Created(q)
    BY <1>1, <2>1 DEF ProposalInv, Created
  <2>2. CASE \A q \in Proposals : ~Created(q)
    BY <2>2 DEF Numbered, Created
  <2>3. QED
    BY <2>1, <2>2
<1>3. ASSUME NEW q \in Proposals, NEW v \in Validators, <<q, v>> \in support'
      PROVE  Created(q)'
  BY <1>3 DEF ProposalInv, Created
<1>4. QED
  BY <1>1, <1>2, <1>3 DEF ProposalInv
-----------------------------------------------------------------------------
(***************************************************************************)
(* What binding to a snapshot slot does to the boxes.                      *)
(***************************************************************************)
LEMMA BindEffect ==
    ASSUME ProposalInv, NEW target, BindSnapshot(target)
    PROVE  /\ SnapshotSlotOf(target) \in SnapshotSlots
           /\ SnapshotSlotOf(target) > slot
           /\ UNCHANGED slot /\ StatusMoves /\ ResultsStay
           /\ status'[SnapshotSlotOf(target)] # Unopened
<1> DEFINE s == SnapshotSlotOf(target)
<1>1. /\ s \in SnapshotSlots /\ s > slot
      /\ IF status[s] = Unopened THEN Snapshot!OpenBox(s) ELSE UNCHANGED <<slot, status>>
  BY DEF BindSnapshot
<1> HIDE DEF s
<1>2. /\ status \in [SnapshotSlots -> {Unopened, Open} \cup Snapshot!Result]
      /\ Unopened # Open
  BY DistinctAssumption DEF ProposalInv, ProposalTypeOK
<1>3. CASE status[s] = Unopened
  <2>1. UNCHANGED slot /\ status' = [status EXCEPT ![s] = Open]
    BY <1>1, <1>3 DEF Snapshot!OpenBox
  <2>2. StatusMoves /\ ResultsStay /\ status'[s] # Unopened
    BY <1>1, <1>2, <1>3, <2>1 DEF StatusMoves, ResultsStay
  <2>3. QED
    BY <1>1, <2>1, <2>2 DEF s
<1>4. CASE status[s] # Unopened
  <2>1. UNCHANGED <<slot, status>>
    BY <1>1, <1>4
  <2>2. StatusMoves /\ ResultsStay /\ status'[s] # Unopened
    BY <1>2, <1>4, <2>1 DEF StatusMoves, ResultsStay
  <2>3. QED
    BY <1>1, <2>1, <2>2 DEF s
<1>5. QED
  BY <1>3, <1>4

\* The account with the schedule of a target epoch.
LEMMA ScheduledFields ==
    ASSUME NEW pr \in Proposal, NEW target \in Nat, params \in Parameters,
           SnapshotSlotOf(target) \in SnapshotSlots
    PROVE  LET new == Scheduled(pr, target)
           IN /\ new \in Proposal
              /\ new.start_epoch = target + 1
              /\ new.end_epoch = target + 1 + params.voting_epochs
              /\ new.snapshot_slot = SnapshotSlotOf(target)
              /\ new.consensus_result = SnapshotSlotOf(target)
              /\ new.creation_epoch = pr.creation_epoch /\ new.index = pr.index
              /\ new.voting = pr.voting /\ new.finalized = pr.finalized
              /\ new.supporters = pr.supporters
              /\ new.votes_lamports = pr.votes_lamports /\ new.vote_count = pr.vote_count
<1> DEFINE s == SnapshotSlotOf(target)
           a == target + 1
           b == target + 1 + params.voting_epochs
<1>a. params.voting_epochs \in Nat
  BY DEF Parameters
<1>b. SnapshotSlots \subseteq Nat
  BY ProposalAssumption
<1>c. s \in SnapshotSlots /\ s \in Nat
  BY <1>b
<1>d. a \in Nat /\ b \in Nat
  BY <1>a
<1>1. s \in SnapshotSlots /\ s \in Nat /\ a \in Nat /\ b \in Nat
  BY <1>c, <1>d
<1>2. Scheduled(pr, target) =
        [pr EXCEPT !.start_epoch = a, !.end_epoch = b, !.snapshot_slot = s,
                   !.consensus_result = s]
  BY DEF Scheduled
<1> HIDE DEF s, a, b
<1>3. QED
  BY <1>1, <1>2, ZenonT(60) DEF Proposal, s, a, b

(***************************************************************************)
(* What activation does, once the tally in pr has been taken.              *)
(***************************************************************************)
Activated(p, pr, new) ==
    /\ proposal' = [proposal EXCEPT ![p] = new]
    /\ UNCHANGED slot /\ StatusMoves /\ ResultsStay
    /\ Bound(new, status', epoch)
    /\ new.supporters = pr.supporters
    /\ new.index = pr.index /\ new.creation_epoch = pr.creation_epoch
    /\ new.votes_lamports = pr.votes_lamports /\ new.vote_count = pr.vote_count
    /\ new.voting =>
          /\ pr.cluster_support_lamports
               >= min_stake_threshold(Sum(epoch_stake), params.cluster_support_pct_min_bps)
          /\ new.consensus_result > slot /\ new.consensus_result \in SnapshotSlots

LEMMA ActivateEffect ==
    ASSUME ProposalInv, NEW p \in Proposals, Readable, NEW pr \in Proposal,
           ~pr.voting, Bound(pr, status, epoch), ActivateIfSupported(p, pr)
    PROVE  \E new \in Proposal : Activated(p, pr, new)
<1> DEFINE enough == pr.cluster_support_lamports
               >= min_stake_threshold(Sum(epoch_stake), params.cluster_support_pct_min_bps)
<1>a. params \in Parameters /\ slot \in Nat /\ epoch \in Nat
  BY ParameterFacts, EpochType DEF ProposalInv, ProposalTypeOK
<1>b. TargetEpoch \in Nat /\ TargetEpoch >= epoch
  BY <1>a DEF TargetEpoch, Parameters
<1>1. CASE enough
  <2> DEFINE sch == Scheduled(pr, TargetEpoch)
             new == [sch EXCEPT !.voting = TRUE]
             s == SnapshotSlotOf(TargetEpoch)
  <2>1. BindSnapshot(TargetEpoch) /\ proposal' = [proposal EXCEPT ![p] = new]
    BY <1>1 DEF ActivateIfSupported
  <2>2. /\ s \in SnapshotSlots /\ s > slot /\ status'[s] # Unopened
        /\ UNCHANGED slot /\ StatusMoves /\ ResultsStay
    BY <2>1, BindEffect
  <2>3. /\ sch \in Proposal
        /\ sch.start_epoch = TargetEpoch + 1
        /\ sch.end_epoch = TargetEpoch + 1 + params.voting_epochs
        /\ sch.snapshot_slot = s /\ sch.consensus_result = s
        /\ sch.creation_epoch = pr.creation_epoch /\ sch.index = pr.index
        /\ sch.finalized = pr.finalized
        /\ sch.supporters = pr.supporters
        /\ sch.votes_lamports = pr.votes_lamports /\ sch.vote_count = pr.vote_count
    BY <1>a, <1>b, <2>2, ScheduledFields
  <2> HIDE DEF sch, s
  <2>4. /\ new \in Proposal /\ new.voting = TRUE
        /\ new.start_epoch = TargetEpoch + 1
        /\ new.end_epoch = TargetEpoch + 1 + params.voting_epochs
        /\ new.snapshot_slot = s /\ new.consensus_result = s
        /\ new.creation_epoch = pr.creation_epoch /\ new.index = pr.index
        /\ new.finalized = pr.finalized
        /\ new.supporters = pr.supporters
        /\ new.votes_lamports = pr.votes_lamports /\ new.vote_count = pr.vote_count
    BY <2>3 DEF Proposal
  <2> HIDE DEF new
  <2>5. /\ pr.creation_epoch <= epoch /\ ~pr.finalized
        /\ pr.creation_epoch \in Nat /\ params.voting_epochs \in Nat
    BY <1>a DEF Bound, Parameters, Proposal
  <2> DEFINE e == epoch
             te == TargetEpoch
             ve == params.voting_epochs
  <2>6. /\ e \in Nat /\ te \in Nat /\ te >= e /\ ve \in Nat
        /\ new.start_epoch = te + 1 /\ new.end_epoch = te + 1 + ve
        /\ pr.creation_epoch <= e
    BY <1>a, <1>b, <2>4, <2>5
  <2> HIDE DEF e, te, ve
  <2>7. Bound(new, status', e)
    BY <2>2, <2>4, <2>5, <2>6 DEF Bound
  <2>8. Activated(p, pr, new)
    BY <1>1, <2>1, <2>2, <2>4, <2>7 DEF Activated, e
  <2>9. QED
    BY <2>4, <2>8
<1>2. CASE ~enough
  <2>1. proposal' = [proposal EXCEPT ![p] = pr] /\ UNCHANGED <<slot, status>>
    BY <1>2 DEF ActivateIfSupported
  <2>2. StatusMoves /\ ResultsStay
    BY <2>1 DEF StatusMoves, ResultsStay, ProposalInv, ProposalTypeOK
  <2>3. Activated(p, pr, pr)
    BY <2>1, <2>2 DEF Activated
  <2>4. QED
    BY <2>3
<1>3. QED
  BY <1>1, <1>2
-----------------------------------------------------------------------------
(***************************************************************************)
(* The invariant step by step.                                             *)
(***************************************************************************)
LEMMA ProposalStart == ProposalInit => ProposalInv
<1> SUFFICES ASSUME ProposalInit
             PROVE  ProposalInv
  OBVIOUS
<1>1. ParametersAreSane
  BY ConfigStart DEF ProposalInit
<1>2. ProposalTypeOK
  BY <1>1 DEF ProposalInit, ProposalTypeOK, ParametersAreSane
<1>3. \A p \in Proposals : ~Created(p)
  BY DEF ProposalInit, Created
<1>4. Numbered(proposal, proposal_index)
  BY <1>3 DEF Numbered, Created
<1>5. EarlyByTieBreaker(status, slot)
  BY DEF ProposalInit, EarlyByTieBreaker
<1>6. support = {}
  BY DEF ProposalInit
<1>7. QED
  BY <1>1, <1>2, <1>3, <1>4, <1>5, <1>6 DEF ProposalInv

LEMMA CreateKeepsInv ==
    ASSUME ProposalInv, NEW p \in Proposals, CreateProposal(p)
    PROVE  ProposalInv'
<1> DEFINE new == [creation_epoch |-> epoch, start_epoch |-> 0, end_epoch |-> 0,
                   cluster_support_lamports |-> 0, votes_lamports |-> NoLamports,
                   voting |-> FALSE, finalized |-> FALSE, vote_count |-> 0,
                   index |-> proposal_index + 1, consensus_result |-> None,
                   snapshot_slot |-> 0, supporters |-> <<>>]
<1>a. /\ ~Created(p) /\ proposal_index # None
      /\ proposal' = [proposal EXCEPT ![p] = new]
      /\ proposal_index' = proposal_index + 1
      /\ UNCHANGED <<global_config, slot, epoch_stake, status, support>>
  BY DEF CreateProposal
<1>b. /\ proposal \in [Proposals -> Proposal \cup {None}]
      /\ proposal_index \in Nat /\ slot \in Nat /\ epoch \in Nat /\ epoch' = epoch
      /\ MAX_SUPPORTERS_LIMIT \in Nat /\ None \notin Proposal
  BY <1>a, EpochType, DistinctAssumption, SettingsAssumption
     DEF ProposalInv, ProposalTypeOK, epoch
<1>c. /\ new \in Proposal /\ new.supporters = <<>> /\ new.voting = FALSE
      /\ new.index = proposal_index + 1 /\ new.creation_epoch = epoch
  <2>1. NoLamports \in [Options -> Nat] /\ <<>> \in Seq(Validators)
    BY DEF NoLamports
  <2>2. QED
    BY <1>b, <2>1 DEF Proposal
<1>d. Bound(new, status, epoch)
  BY <1>b DEF Bound
<1>e. Counted(new, p, support)
  <2>1. SupportersOf(new) = {} /\ Len(new.supporters) = 0
    BY <1>c DEF SupportersOf
  <2>2. \A v \in Validators : <<p, v>> \notin support
    BY <1>a DEF ProposalInv
  <2>3. Cardinality({}) = 0 /\ 0 <= MAX_SUPPORTERS_LIMIT
    BY <1>b, FS_EmptySet
  <2>4. {v \in Validators : <<p, v>> \in support} = {}
    BY <2>2
  <2> HIDE DEF new
  <2>5. QED
    BY <2>1, <2>3, <2>4 DEF Counted
<1> HIDE DEF new
<1>f. \A q \in Proposals : proposal'[q] = IF q = p THEN new ELSE proposal[q]
  BY <1>a, <1>b
<1>1. ParametersAreSane'
  BY <1>a DEF ProposalInv, ParametersAreSane, ConfigTypeOK, params, requires_migration
<1>2. ProposalTypeOK'
  BY <1>a, <1>b, <1>c DEF ProposalInv, ProposalTypeOK, ConfigTypeOK
<1>3. ASSUME NEW q \in Proposals, Created(q)'
      PROVE  /\ Bound(proposal'[q], status', epoch')
             /\ Counted(proposal'[q], q, support')
             /\ proposal_index' # None
  <2>1. proposal_index' # None
    BY <1>a, <1>b, DistinctAssumption
  <2>2. CASE q = p
    BY <1>a, <1>b, <1>d, <1>e, <1>f, <2>1, <2>2
  <2>3. CASE q # p
    <3>1. Created(q)
      BY <1>3, <1>f, <2>3 DEF Created
    <3>2. Bound(proposal[q], status, epoch) /\ Counted(proposal[q], q, support)
      BY <3>1, ProposalFacts
    <3>3. QED
      BY <1>a, <1>b, <1>f, <2>1, <2>3, <3>2
  <2>4. QED
    BY <2>2, <2>3
<1>4. ASSUME NEW q \in Proposals, NEW v \in Validators, <<q, v>> \in support'
      PROVE  Created(q)'
  BY <1>4, <1>a, <1>b, <1>c, <1>f DEF ProposalInv, Created
<1>5. Numbered(proposal', proposal_index')
  <2>1. ASSUME NEW q \in Proposals, q # p, proposal'[q] # None
        PROVE  /\ proposal'[q] = proposal[q] /\ proposal[q] \in Proposal
               /\ proposal[q].index \in 1 .. proposal_index
               /\ proposal[q].creation_epoch <= epoch
    <3>1. proposal'[q] = proposal[q] /\ Created(q)
      BY <1>f, <2>1 DEF Created
    <3>2. proposal[q] \in Proposal /\ Bound(proposal[q], status, epoch)
      BY <3>1, ProposalFacts
    <3>3. QED
      BY <3>1, <3>2 DEF ProposalInv, Numbered, Bound, Created
  <2>2. SUFFICES ASSUME NEW x \in Proposals, NEW y \in Proposals,
                        proposal'[x] # None, proposal'[y] # None
                 PROVE  /\ proposal'[x].index \in 1 .. proposal_index'
                        /\ x # y => proposal'[x].index # proposal'[y].index
                        /\ proposal'[x].index < proposal'[y].index
                             => proposal'[x].creation_epoch <= proposal'[y].creation_epoch
    BY DEF Numbered
  <2>3. CASE x = p /\ y = p
    BY <1>a, <1>b, <1>c, <1>f, <2>3
  <2>4. CASE x = p /\ y # p
    BY <1>a, <1>b, <1>c, <1>f, <2>1, <2>2, <2>4
  <2>5. CASE x # p /\ y = p
    BY <1>a, <1>b, <1>c, <1>f, <2>1, <2>2, <2>5
  <2>6. CASE x # p /\ y # p
    <3>1. /\ proposal'[x] = proposal[x] /\ proposal'[y] = proposal[y]
          /\ proposal[x].index \in 1 .. proposal_index
      BY <2>1, <2>2, <2>6
    <3>2. /\ x # y => proposal[x].index # proposal[y].index
          /\ proposal[x].index < proposal[y].index
               => proposal[x].creation_epoch <= proposal[y].creation_epoch
      BY <2>2, <3>1 DEF ProposalInv, Numbered
    <3>3. QED
      BY <1>a, <1>b, <3>1, <3>2
  <2>7. QED
    BY <2>3, <2>4, <2>5, <2>6
<1>6. EarlyByTieBreaker(status', slot')
  BY <1>a DEF ProposalInv, EarlyByTieBreaker
<1>7. QED
  BY <1>1, <1>2, <1>3, <1>4, <1>5, <1>6 DEF ProposalInv

(***************************************************************************)
(* The list of supporters, and its sum at the stakes of the epoch.         *)
(***************************************************************************)
LEMMA TallyIsSum ==
    ASSUME ProposalInv, NEW pr \in Proposal, NEW p, Counted(pr, p, support)
    PROVE  /\ SupportersOf(pr) \subseteq Validators /\ IsFiniteSet(SupportersOf(pr))
           /\ tally_supporter_stakes(pr.supporters)
                = Sum([v \in SupportersOf(pr) |-> epoch_stake[v]])
<1> DEFINE list == pr.supporters
           S == SupportersOf(pr)
           f == [i \in DOMAIN list |-> epoch_stake[list[i]]]
           g == [v \in S |-> epoch_stake[v]]
<1>1. /\ list \in Seq(Validators) /\ DOMAIN list = 1 .. Len(list) /\ Len(list) \in Nat
      /\ list \in [1 .. Len(list) -> Validators]
  BY DEF Proposal
<1>2. S \subseteq Validators /\ S = {list[i] : i \in DOMAIN list}
  BY <1>1 DEF SupportersOf
<1>3. IsFiniteSet(S) /\ Len(list) = Cardinality(S)
  BY <1>2, ProposalAssumption, FS_Subset DEF Counted
<1>4. epoch_stake \in [Validators -> Nat]
  BY ProposalAssumption DEF ProposalInv, ProposalTypeOK
<1>5. IsFiniteSet(DOMAIN list) /\ Cardinality(DOMAIN list) = Len(list)
  BY <1>1, FS_Interval
<1>6. list \in Surjection(DOMAIN list, S)
  BY <1>1, <1>2 DEF Surjection
<1>7. list \in Bijection(DOMAIN list, S)
  BY <1>3, <1>5, <1>6, FS_SurjSameCardinalityImpliesInj DEF Bijection
<1>8. /\ f \in [DOMAIN list -> Nat] /\ g \in [S -> Nat]
      /\ \A i \in DOMAIN list : f[i] = g[list[i]]
  BY <1>1, <1>2, <1>4
<1> HIDE DEF list, S, f, g
<1>9. Sum(f) = Sum(g)
  BY <1>5, <1>7, <1>8, SumRenamed
<1>10. QED
  BY <1>2, <1>3, <1>9 DEF tally_supporter_stakes, list, S, f, g

\* The account with one more supporter.
LEMMA SupportedFields ==
    ASSUME ProposalInv, NEW p \in Proposals, NEW v \in Validators, Readable,
           NEW pr \in Proposal, Counted(pr, p, support), <<p, v>> \notin support,
           Len(pr.supporters) < params.max_supporters
    PROVE  LET new == Supported(pr, v)
           IN /\ new \in Proposal
              /\ new.creation_epoch = pr.creation_epoch /\ new.index = pr.index
              /\ new.voting = pr.voting /\ new.finalized = pr.finalized
              /\ new.consensus_result = pr.consensus_result
              /\ new.snapshot_slot = pr.snapshot_slot
              /\ new.start_epoch = pr.start_epoch /\ new.end_epoch = pr.end_epoch
              /\ new.votes_lamports = pr.votes_lamports /\ new.vote_count = pr.vote_count
              /\ SupportersOf(new) = SupportersOf(pr) \cup {v}
              /\ Counted(new, p, support \cup {<<p, v>>})
              /\ new.cluster_support_lamports
                   = Sum([w \in SupportersOf(new) |-> epoch_stake[w]])
<1> DEFINE list == pr.supporters
           longer == Append(list, v)
           S == SupportersOf(pr)
           g == [w \in S |-> epoch_stake[w]]
           h == [w \in S \cup {v} |-> epoch_stake[w]]
           tally == tally_supporter_stakes(list) + epoch_stake[v]
           new == Supported(pr, v)
<1>1. /\ list \in Seq(Validators) /\ Len(list) \in Nat
      /\ longer \in Seq(Validators) /\ Len(longer) = Len(list) + 1
      /\ \A i \in 1 .. Len(list) : longer[i] = list[i]
      /\ longer[Len(list) + 1] = v
      /\ DOMAIN list = 1 .. Len(list) /\ DOMAIN longer = 1 .. (Len(list) + 1)
  BY DEF Proposal
<1>2. /\ S \subseteq Validators /\ IsFiniteSet(S)
      /\ tally_supporter_stakes(list) = Sum(g)
  BY TallyIsSum
<1>3. epoch_stake \in [Validators -> Nat]
  BY ProposalAssumption DEF ProposalInv, ProposalTypeOK
<1>4. v \notin S
  BY DEF Counted
<1>5. /\ g \in [S -> Nat] /\ h \in [S \cup {v} -> Nat]
      /\ \A w \in S : h[w] = g[w]
      /\ h[v] = epoch_stake[v]
  BY <1>2, <1>3
<1>6. tally = Sum(h) /\ tally \in Nat
  <2> DEFINE T == S \cup {v}
  <2>f. IsFiniteSet(S) /\ T = S \cup {v} /\ h \in [T -> Nat]
    BY <1>2, <1>5
  <2> HIDE DEF g, h, S, T
  <2>g. g \in [S -> Nat] /\ \A w \in S : h[w] = g[w]
    BY <1>5
  <2>1. Sum(h) = Sum(g) + h[v]
    BY ONLY <2>f, <2>g, <1>4, SumAdd
  <2>2. Sum(g) \in Nat
    BY <1>2, <1>5, SumType
  <2>3. QED
    BY <1>2, <1>3, <1>5, <2>1, <2>2
<1>7. new = [pr EXCEPT !.supporters = longer, !.cluster_support_lamports = tally]
  BY DEF Supported
<1>8. Len(longer) <= MAX_SUPPORTERS_LIMIT
  <2>1. params.max_supporters \in Nat /\ params.max_supporters <= MAX_SUPPORTERS_LIMIT
    BY ParameterFacts DEF Parameters
  <2>2. QED
    BY <1>1, <2>1, SettingsAssumption
<1> HIDE DEF longer, tally, new
<1>9. /\ new \in Proposal
      /\ new.creation_epoch = pr.creation_epoch /\ new.index = pr.index
      /\ new.voting = pr.voting /\ new.finalized = pr.finalized
      /\ new.consensus_result = pr.consensus_result
      /\ new.snapshot_slot = pr.snapshot_slot
      /\ new.start_epoch = pr.start_epoch /\ new.end_epoch = pr.end_epoch
      /\ new.votes_lamports = pr.votes_lamports /\ new.vote_count = pr.vote_count
      /\ new.supporters = longer /\ new.cluster_support_lamports = tally
  BY <1>1, <1>6, <1>7 DEF Proposal
<1>10. SupportersOf(new) = S \cup {v}
  <2>1. S = {list[i] : i \in 1 .. Len(list)}
    BY <1>1 DEF SupportersOf
  <2>2. SupportersOf(new) = {longer[i] : i \in 1 .. (Len(list) + 1)}
    BY <1>1, <1>9 DEF SupportersOf
  <2> DEFINE n == Len(list)
  <2>3. n \in Nat /\ \A i \in 1 .. n : longer[i] = list[i]
    BY <1>1
  <2>4. longer[n + 1] = v
    BY <1>1
  <2> HIDE DEF n, list, S
  <2>5. {longer[i] : i \in 1 .. (n + 1)} = {list[i] : i \in 1 .. n} \cup {v}
    <3>1. 1 .. (n + 1) = (1 .. n) \cup {n + 1}
      BY <2>3
    <3>2. QED
      BY <2>3, <2>4, <3>1
  <2>6. QED
    BY <2>1, <2>2, <2>5 DEF n
<1>11. Counted(new, p, support \cup {<<p, v>>})
  <2>1. S \cup {v} = {w \in Validators : <<p, w>> \in support \cup {<<p, v>>}}
    BY DEF Counted
  <2>2. Cardinality(S \cup {v}) = Cardinality(S) + 1 /\ Len(list) = Cardinality(S)
    BY <1>2, <1>4, FS_AddElement DEF Counted
  <2>3. QED
    BY <1>1, <1>8, <1>9, <1>10, <2>1, <2>2 DEF Counted
<1>12. new.cluster_support_lamports = Sum([w \in SupportersOf(new) |-> epoch_stake[w]])
  BY <1>6, <1>9, <1>10
<1>13. QED
  BY <1>9, <1>10, <1>11, <1>12 DEF new
LEMMA SupportStep ==
    ASSUME ProposalInv, NEW p \in Proposals, NEW v \in Validators, SupportProposal(p, v)
    PROVE  \E new \in Proposal :
              /\ Activated(p, Supported(proposal[p], v), new)
              /\ Created(p) /\ ~proposal[p].voting
              /\ Supported(proposal[p], v).cluster_support_lamports
                   = Sum([w \in SupportersOf(new) |-> epoch_stake[w]])
              /\ SupportersOf(new) # {}
              /\ proposal[p].votes_lamports = new.votes_lamports
              /\ proposal[p].vote_count = new.vote_count
              /\ ProposalInv'
<1> DEFINE pr == proposal[p]
           one == Supported(pr, v)
<1>1. /\ Created(p) /\ Readable /\ <<p, v>> \notin support
      /\ ~pr.finalized /\ ~pr.voting
      /\ Len(pr.supporters) < params.max_supporters
      /\ support' = support \cup {<<p, v>>}
      /\ ActivateIfSupported(p, one)
      /\ UNCHANGED <<global_config, epoch_stake, proposal_index>>
  BY DEF SupportProposal
<1>2. /\ pr \in Proposal /\ Bound(pr, status, epoch) /\ Counted(pr, p, support)
  BY <1>1, ProposalFacts
<1>3. /\ one \in Proposal
      /\ one.creation_epoch = pr.creation_epoch /\ one.index = pr.index
      /\ one.voting = pr.voting /\ one.finalized = pr.finalized
      /\ one.consensus_result = pr.consensus_result
      /\ one.snapshot_slot = pr.snapshot_slot
      /\ one.start_epoch = pr.start_epoch /\ one.end_epoch = pr.end_epoch
      /\ one.votes_lamports = pr.votes_lamports /\ one.vote_count = pr.vote_count
      /\ SupportersOf(one) = SupportersOf(pr) \cup {v}
      /\ Counted(one, p, support \cup {<<p, v>>})
      /\ one.cluster_support_lamports = Sum([w \in SupportersOf(one) |-> epoch_stake[w]])
  BY <1>1, <1>2, SupportedFields
<1> HIDE DEF pr, one
<1>4. Bound(one, status, epoch)
  BY <1>2, <1>3 DEF Bound
<1>5. PICK new \in Proposal : Activated(p, one, new)
  BY <1>1, <1>3, <1>4, ActivateEffect
<1>6. /\ proposal' = [proposal EXCEPT ![p] = new]
      /\ UNCHANGED slot /\ StatusMoves /\ ResultsStay /\ Bound(new, status', epoch)
      /\ new.supporters = one.supporters
      /\ new.index = one.index /\ new.creation_epoch = one.creation_epoch
      /\ new.votes_lamports = one.votes_lamports /\ new.vote_count = one.vote_count
  BY <1>5 DEF Activated
<1>7. SupportersOf(new) = SupportersOf(one) /\ Counted(new, p, support')
  BY <1>1, <1>3, <1>6 DEF SupportersOf, Counted
<1>8. /\ support' \subseteq Proposals \X Validators
      /\ \A q \in Proposals \ {p}, w \in Validators : <<q, w>> \in support' <=> <<q, w>> \in support
  BY <1>1 DEF ProposalInv, ProposalTypeOK
<1>9. new.index = proposal[p].index /\ new.creation_epoch = proposal[p].creation_epoch
  BY <1>3, <1>6 DEF pr
<1>10. ProposalInv'
  BY <1>1, <1>6, <1>7, <1>8, <1>9, RewriteKeepsInv
<1>11. SupportersOf(new) # {}
  BY <1>3, <1>7
<1>12. one.cluster_support_lamports = Sum([w \in SupportersOf(new) |-> epoch_stake[w]])
  BY <1>3, <1>7
<1>13. QED
  BY <1>1, <1>3, <1>5, <1>6, <1>10, <1>11, <1>12 DEF pr, one

LEMMA RetallyStep ==
    ASSUME ProposalInv, NEW p \in Proposals, RetallySupport(p)
    PROVE  \E new \in Proposal :
              /\ Activated(p, [proposal[p] EXCEPT !.cluster_support_lamports
                                 = tally_supporter_stakes(proposal[p].supporters)], new)
              /\ Created(p) /\ ~proposal[p].voting
              /\ tally_supporter_stakes(proposal[p].supporters)
                   = Sum([w \in SupportersOf(new) |-> epoch_stake[w]])
              /\ SupportersOf(new) # {}
              /\ proposal[p].votes_lamports = new.votes_lamports
              /\ proposal[p].vote_count = new.vote_count
              /\ ProposalInv'
<1> DEFINE pr == proposal[p]
           tally == tally_supporter_stakes(pr.supporters)
           one == [pr EXCEPT !.cluster_support_lamports = tally]
<1>1. /\ Created(p) /\ Readable /\ ~pr.finalized /\ ~pr.voting
      /\ pr.supporters # <<>>
      /\ ActivateIfSupported(p, one)
      /\ UNCHANGED <<global_config, epoch_stake, proposal_index, support>>
  BY DEF RetallySupport
<1>2. /\ pr \in Proposal /\ Bound(pr, status, epoch) /\ Counted(pr, p, support)
  BY <1>1, ProposalFacts
<1>3. /\ SupportersOf(pr) \subseteq Validators /\ IsFiniteSet(SupportersOf(pr))
      /\ tally = Sum([w \in SupportersOf(pr) |-> epoch_stake[w]])
  BY <1>2, TallyIsSum
<1>4. tally \in Nat
  <2> DEFINE S == SupportersOf(pr)
             g == [w \in S |-> epoch_stake[w]]
  <2>1. epoch_stake \in [Validators -> Nat]
    BY ProposalAssumption DEF ProposalInv, ProposalTypeOK
  <2>2. g \in [S -> Nat] /\ IsFiniteSet(S) /\ tally = Sum(g)
    BY <1>3, <2>1
  <2> HIDE DEF S, g, tally
  <2>3. QED
    BY ONLY <2>2, SumType
<1> HIDE DEF pr, tally
<1>5. /\ one \in Proposal
      /\ one.creation_epoch = pr.creation_epoch /\ one.index = pr.index
      /\ one.voting = pr.voting /\ one.finalized = pr.finalized
      /\ one.consensus_result = pr.consensus_result
      /\ one.snapshot_slot = pr.snapshot_slot
      /\ one.start_epoch = pr.start_epoch /\ one.end_epoch = pr.end_epoch
      /\ one.votes_lamports = pr.votes_lamports /\ one.vote_count = pr.vote_count
      /\ one.supporters = pr.supporters
  BY <1>2, <1>4 DEF Proposal
<1> HIDE DEF one
<1>6. Bound(one, status, epoch)
  BY <1>2, <1>5 DEF Bound
<1>7. PICK new \in Proposal : Activated(p, one, new)
  BY <1>1, <1>5, <1>6, ActivateEffect
<1>8. /\ proposal' = [proposal EXCEPT ![p] = new]
      /\ UNCHANGED slot /\ StatusMoves /\ ResultsStay /\ Bound(new, status', epoch)
      /\ new.supporters = one.supporters
      /\ new.index = one.index /\ new.creation_epoch = one.creation_epoch
      /\ new.votes_lamports = one.votes_lamports /\ new.vote_count = one.vote_count
  BY <1>7 DEF Activated
<1>9. SupportersOf(new) = SupportersOf(pr) /\ Counted(new, p, support')
  BY <1>1, <1>2, <1>5, <1>8 DEF SupportersOf, Counted
<1>10. /\ support' \subseteq Proposals \X Validators
       /\ \A q \in Proposals \ {p}, w \in Validators : <<q, w>> \in support' <=> <<q, w>> \in support
  BY <1>1 DEF ProposalInv, ProposalTypeOK
<1>11. new.index = proposal[p].index /\ new.creation_epoch = proposal[p].creation_epoch
  BY <1>5, <1>8 DEF pr
<1>12. ProposalInv'
  BY <1>1, <1>8, <1>9, <1>10, <1>11, RewriteKeepsInv
<1>13. SupportersOf(new) # {}
  <2>1. pr.supporters \in Seq(Validators) /\ pr.supporters # <<>>
    BY <1>1, <1>2 DEF Proposal
  <2>2. 1 \in DOMAIN pr.supporters
    BY <2>1, EmptySeq
  <2>3. QED
    BY <1>9, <2>2 DEF SupportersOf
<1>14. tally = Sum([w \in SupportersOf(new) |-> epoch_stake[w]])
  BY <1>3, <1>9
<1>15. QED
  BY <1>1, <1>5, <1>7, <1>8, <1>12, <1>13, <1>14 DEF pr, one, tally
\* Rebinding leaves a bound proposal with its supporters and totals.
LEMMA FlushStep ==
    ASSUME ProposalInv, NEW p \in Proposals, NEW k \in Keys, FlushMerkleRoot(k, p)
    PROVE  \E new \in Proposal :
              /\ proposal' = [proposal EXCEPT ![p] = new]
              /\ Created(p) /\ epoch < proposal[p].start_epoch /\ ~proposal[p].finalized
              /\ proposal[p].voting /\ new.voting
              /\ new.consensus_result > slot /\ new.consensus_result \in SnapshotSlots
              /\ new.votes_lamports = proposal[p].votes_lamports
              /\ new.vote_count = proposal[p].vote_count
              /\ UNCHANGED <<global_config, slot>> /\ StatusMoves /\ ResultsStay
              /\ ProposalInv'
<1> DEFINE pr == proposal[p]
           target == epoch + params.snapshot_epoch_extension
           s == SnapshotSlotOf(target)
           new == Scheduled(pr, target)
<1>1. /\ Created(p) /\ Readable /\ ~pr.finalized
      /\ epoch < pr.start_epoch
      /\ pr.consensus_result # None
      /\ BindSnapshot(target)
      /\ proposal' = [proposal EXCEPT ![p] = new]
      /\ UNCHANGED <<global_config, epoch_stake, proposal_index, support>>
  BY DEF FlushMerkleRoot
<1>2. /\ pr \in Proposal /\ Bound(pr, status, epoch) /\ Counted(pr, p, support)
      /\ params \in Parameters /\ slot \in Nat /\ epoch \in Nat
  BY <1>1, ProposalFacts, ParameterFacts, EpochType DEF ProposalInv, ProposalTypeOK
<1>3. target \in Nat /\ target >= epoch /\ params.voting_epochs \in Nat
  BY <1>2 DEF Parameters
<1>4. pr.voting /\ pr.creation_epoch <= epoch /\ pr.creation_epoch \in Nat
  BY <1>1, <1>2 DEF Bound, Proposal
<1> HIDE DEF pr, target
<1>5. /\ s \in SnapshotSlots /\ s > slot /\ status'[s] # Unopened
      /\ UNCHANGED slot /\ StatusMoves /\ ResultsStay
  BY <1>1, BindEffect
<1>6. /\ new \in Proposal
      /\ new.start_epoch = target + 1
      /\ new.end_epoch = target + 1 + params.voting_epochs
      /\ new.snapshot_slot = s /\ new.consensus_result = s
      /\ new.creation_epoch = pr.creation_epoch /\ new.index = pr.index
      /\ new.voting = pr.voting /\ new.finalized = pr.finalized
      /\ new.supporters = pr.supporters
      /\ new.votes_lamports = pr.votes_lamports /\ new.vote_count = pr.vote_count
  BY <1>2, <1>3, <1>5, ScheduledFields
<1> HIDE DEF s, new
<1>7. Bound(new, status', epoch)
  <2> DEFINE e == epoch
             ve == params.voting_epochs
  <2>1. /\ e \in Nat /\ ve \in Nat /\ target \in Nat /\ target >= e
        /\ pr.creation_epoch <= e /\ new.end_epoch = target + 1 + ve
    BY <1>2, <1>3, <1>4, <1>6
  <2> HIDE DEF e, ve
  <2>2. Bound(new, status', e)
    BY <1>1, <1>4, <1>5, <1>6, <2>1 DEF Bound
  <2>3. QED
    BY <2>2 DEF e
<1>8. Counted(new, p, support')
  BY <1>1, <1>2, <1>6 DEF Counted, SupportersOf
<1>9. /\ support' \subseteq Proposals \X Validators
      /\ \A q \in Proposals \ {p}, w \in Validators : <<q, w>> \in support' <=> <<q, w>> \in support
  BY <1>1 DEF ProposalInv, ProposalTypeOK
<1>10. new.index = proposal[p].index /\ new.creation_epoch = proposal[p].creation_epoch
  BY <1>6 DEF pr
<1>11. ProposalInv'
  BY <1>1, <1>5, <1>6, <1>7, <1>8, <1>9, <1>10, RewriteKeepsInv
<1>12. QED
  BY <1>1, <1>4, <1>5, <1>6, <1>11 DEF pr

LEMMA FinalizeStep ==
    ASSUME ProposalInv, NEW p \in Proposals, FinalizeProposal(p)
    PROVE  \E new \in Proposal :
              /\ proposal' = [proposal EXCEPT ![p] = new]
              /\ Created(p) /\ proposal[p].voting /\ ~proposal[p].finalized
              /\ epoch >= proposal[p].end_epoch
              /\ new = [proposal[p] EXCEPT !.finalized = TRUE]
              /\ ProposalInv'
<1> DEFINE pr == proposal[p]
           new == [pr EXCEPT !.finalized = TRUE]
<1>1. /\ Created(p) /\ pr.voting /\ ~pr.finalized /\ epoch >= pr.end_epoch
      /\ proposal' = [proposal EXCEPT ![p].finalized = TRUE]
      /\ UNCHANGED <<global_config, slot, epoch_stake, status, proposal_index, support>>
  BY DEF FinalizeProposal
<1>2. /\ pr \in Proposal /\ Bound(pr, status, epoch) /\ Counted(pr, p, support)
      /\ proposal \in [Proposals -> Proposal \cup {None}]
  BY <1>1, ProposalFacts DEF ProposalInv, ProposalTypeOK
<1>3. proposal' = [proposal EXCEPT ![p] = new]
  BY <1>1, <1>2
<1> HIDE DEF pr
<1>4. /\ new \in Proposal
      /\ new.creation_epoch = pr.creation_epoch /\ new.index = pr.index
      /\ new.voting = pr.voting /\ new.finalized = TRUE
      /\ new.consensus_result = pr.consensus_result
      /\ new.snapshot_slot = pr.snapshot_slot
      /\ new.start_epoch = pr.start_epoch /\ new.end_epoch = pr.end_epoch
      /\ new.supporters = pr.supporters
  BY <1>2 DEF Proposal
<1>d. new = [pr EXCEPT !.finalized = TRUE]
  OBVIOUS
<1> HIDE DEF new
<1>5. Bound(new, status', epoch) /\ Counted(new, p, support')
  BY <1>1, <1>2, <1>4 DEF Bound, Counted, SupportersOf
<1>6. StatusMoves /\ ResultsStay
  BY <1>1 DEF StatusMoves, ResultsStay, ProposalInv, ProposalTypeOK
<1>7. /\ support' \subseteq Proposals \X Validators
      /\ \A q \in Proposals \ {p}, w \in Validators : <<q, w>> \in support' <=> <<q, w>> \in support
  BY <1>1 DEF ProposalInv, ProposalTypeOK
<1>8. new.index = proposal[p].index /\ new.creation_epoch = proposal[p].creation_epoch
  BY <1>4 DEF pr
<1>9. ProposalInv'
  BY <1>1, <1>3, <1>4, <1>5, <1>6, <1>7, <1>8, RewriteKeepsInv
<1>10. QED
  BY <1>1, <1>3, <1>4, <1>9, <1>d DEF pr

LEMMA PublishStep ==
    ASSUME ProposalInv, NEW s \in SnapshotSlots, NEW r \in Snapshot!Result, PublishResult(s, r)
    PROVE  StatusMoves /\ ProposalInv'
<1>1. /\ status[s] = Open /\ (r.tie_breaker \/ slot > s)
      /\ status' = [status EXCEPT ![s] = r]
      /\ UNCHANGED <<slot, global_config, epoch_stake, proposal_index, proposal, support>>
  BY DEF PublishResult, Snapshot!Publish
<1>2. /\ status \in [SnapshotSlots -> {Unopened, Open} \cup Snapshot!Result]
      /\ slot \in Nat /\ SnapshotSlots \subseteq Nat
      /\ Unopened # Open /\ r # Unopened
  BY DistinctAssumption, ProposalAssumption DEF ProposalInv, ProposalTypeOK
<1>3. StatusMoves
  BY <1>1, <1>2 DEF StatusMoves
<1>4. EarlyByTieBreaker(status', slot')
  <2> SUFFICES ASSUME NEW t \in SnapshotSlots, status'[t] \notin {Unopened, Open}, t >= slot
               PROVE  status'[t].tie_breaker
    BY <1>1 DEF EarlyByTieBreaker
  <2>1. CASE t = s
    BY <1>1, <1>2, <2>1
  <2>2. CASE t # s
    BY <1>1, <1>2, <2>2 DEF ProposalInv, EarlyByTieBreaker
  <2>3. QED
    BY <2>1, <2>2
<1>5. ParametersAreSane'
  BY <1>1 DEF ProposalInv, ParametersAreSane, ConfigTypeOK, params, requires_migration
<1>6. ProposalTypeOK'
  BY <1>1, <1>3 DEF ProposalInv, ProposalTypeOK, ConfigTypeOK, StatusMoves
<1>7. QED
  BY <1>1, <1>3, <1>4, <1>5, <1>6, OthersKeepInv

LEMMA QuietStep ==
    ASSUME ProposalInv,
           \/ Tick \/ InitializeIndex \/ UNCHANGED proposalVars
           \/ ConfigNext /\ UNCHANGED <<slot, epoch_stake, status, proposal_index, proposal, support>>
    PROVE  /\ UNCHANGED <<proposal, support, status>>
           /\ slot' = slot \/ slot' = slot + 1
           /\ ProposalInv'
<1>a. slot \in Nat /\ SnapshotSlots \subseteq Nat
  BY ProposalAssumption DEF ProposalInv, ProposalTypeOK
<1>b. /\ UNCHANGED <<proposal, support, status>>
      /\ slot' = slot \/ slot' = slot + 1
      /\ proposal_index # None => UNCHANGED proposal_index
  BY DEF Tick, InitializeIndex, proposalVars
<1>c. ParametersAreSane'
  <2>1. CASE ConfigNext
    BY <2>1, ConfigStep DEF ProposalInv
  <2>2. CASE UNCHANGED global_config
    BY <2>2 DEF ProposalInv, ParametersAreSane, ConfigTypeOK, params, requires_migration
  <2>3. QED
    BY <2>1, <2>2 DEF Tick, InitializeIndex, proposalVars
<1>d. epoch_stake' \in StakeMaps
  BY DEF Tick, InitializeIndex, proposalVars, ProposalInv, ProposalTypeOK
<1>e. proposal_index' \in Nat \cup {None}
  BY DEF Tick, InitializeIndex, proposalVars, ProposalInv, ProposalTypeOK
<1>f. ProposalTypeOK'
  BY <1>a, <1>b, <1>c, <1>d, <1>e DEF ProposalInv, ProposalTypeOK, ParametersAreSane
<1>g. StatusMoves
  BY <1>b DEF StatusMoves, ProposalInv, ProposalTypeOK
<1>h. EarlyByTieBreaker(status', slot')
  BY <1>a, <1>b DEF ProposalInv, EarlyByTieBreaker
<1>i. ProposalInv'
  BY <1>b, <1>c, <1>f, <1>g, <1>h, OthersKeepInv
<1>j. QED
  BY <1>b, <1>i
-----------------------------------------------------------------------------
LEMMA ProposalStep == ProposalInv /\ [ProposalNext]_proposalVars => ProposalInv'
<1> SUFFICES ASSUME ProposalInv, [ProposalNext]_proposalVars
             PROVE  ProposalInv'
  OBVIOUS
<1>1. ASSUME NEW p \in Proposals, CreateProposal(p)
      PROVE  ProposalInv'
  BY <1>1, CreateKeepsInv
<1>2. ASSUME NEW p \in Proposals, NEW v \in Validators, SupportProposal(p, v)
      PROVE  ProposalInv'
  BY <1>2, SupportStep
<1>3. ASSUME NEW p \in Proposals, RetallySupport(p)
      PROVE  ProposalInv'
  BY <1>3, RetallyStep
<1>4. ASSUME NEW p \in Proposals, NEW k \in Keys, FlushMerkleRoot(k, p)
      PROVE  ProposalInv'
  BY <1>4, FlushStep
<1>5. ASSUME NEW p \in Proposals, FinalizeProposal(p)
      PROVE  ProposalInv'
  BY <1>5, FinalizeStep
<1>6. ASSUME NEW s \in SnapshotSlots, NEW r \in Snapshot!Result, PublishResult(s, r)
      PROVE  ProposalInv'
  BY <1>6, PublishStep
<1>7. QED
  BY <1>1, <1>2, <1>3, <1>4, <1>5, <1>6, QuietStep DEF ProposalNext

LEMMA ProposalInvHolds == ProposalSpec => []ProposalInv
  BY ProposalStart, ProposalStep, PTL DEF ProposalSpec

(***************************************************************************)
(* A proposal that reached voting is bound to a snapshot slot with a box,  *)
(* one that did not to nothing (support_proposal.rs:270,                   *)
(* flush_merkle_root.rs:126).                                              *)
(***************************************************************************)
THEOREM ProposalsAreBound == ProposalSpec => []BoundToABox
<1>1. ProposalInv => BoundToABox
  BY DEF ProposalInv, BoundToABox, Bound
<1>2. QED
  BY <1>1, ProposalInvHolds, PTL

(***************************************************************************)
(* The supporters' list has each holder of a Support account once, within  *)
(* the limit of a transaction, and numbers follow the order of creation    *)
(* (support_proposal.rs:102-109, constants.rs:10-15).                      *)
(***************************************************************************)
THEOREM SupportersStayCounted == ProposalSpec => []SupportersAreCounted
<1>1. ProposalInv => SupportersAreCounted
  BY DEF ProposalInv, SupportersAreCounted, Counted, Numbered, Created
<1>2. QED
  BY <1>1, ProposalInvHolds, PTL
-----------------------------------------------------------------------------
(***************************************************************************)
(* What a step may do to a proposal that exists.                           *)
(***************************************************************************)
LEMMA TouchedBy ==
    ASSUME ProposalInv, [ProposalNext]_proposalVars, NEW p \in Proposals, Created(p)
    PROVE  \/ proposal'[p] = proposal[p]
           \/ \E v \in Validators : SupportProposal(p, v)
           \/ RetallySupport(p)
           \/ \E k \in Keys : FlushMerkleRoot(k, p)
           \/ FinalizeProposal(p)
<1>a. proposal \in [Proposals -> Proposal \cup {None}]
  BY DEF ProposalInv, ProposalTypeOK
<1>b. ASSUME NEW q \in Proposals, q # p, NEW new, proposal' = [proposal EXCEPT ![q] = new]
      PROVE  proposal'[p] = proposal[p]
  BY <1>a, <1>b
<1>1. ASSUME NEW q \in Proposals, CreateProposal(q)
      PROVE  proposal'[p] = proposal[p]
  BY <1>1, <1>b DEF CreateProposal
<1>2. ASSUME NEW q \in Proposals, q # p, NEW v \in Validators, SupportProposal(q, v)
      PROVE  proposal'[p] = proposal[p]
  BY <1>2, <1>b, SupportStep, ZenonT(60) DEF Activated
<1>3. ASSUME NEW q \in Proposals, q # p, RetallySupport(q)
      PROVE  proposal'[p] = proposal[p]
  BY <1>3, <1>b, RetallyStep DEF Activated
<1>4. ASSUME NEW q \in Proposals, q # p, NEW k \in Keys, FlushMerkleRoot(k, q)
      PROVE  proposal'[p] = proposal[p]
  BY <1>4, <1>b, FlushStep
<1>5. ASSUME NEW q \in Proposals, q # p, FinalizeProposal(q)
      PROVE  proposal'[p] = proposal[p]
  BY <1>5, <1>b, FinalizeStep
<1>6. ASSUME NEW s \in SnapshotSlots, NEW r \in Snapshot!Result, PublishResult(s, r)
      PROVE  proposal'[p] = proposal[p]
  BY <1>6 DEF PublishResult
<1>7. QED
  BY <1>1, <1>2, <1>3, <1>4, <1>5, <1>6 DEF ProposalNext, proposalVars, Tick, InitializeIndex

\* Time never goes back, and results stay.
LEMMA WorldMoves ==
    ASSUME ProposalInv, [ProposalNext]_proposalVars
    PROVE  (slot' = slot \/ slot' = slot + 1) /\ StatusMoves
<1>a. UNCHANGED status => StatusMoves
  BY DEF StatusMoves, ProposalInv, ProposalTypeOK
<1>1. ASSUME NEW q \in Proposals, CreateProposal(q)
      PROVE  slot' = slot /\ StatusMoves
  BY <1>1, <1>a DEF CreateProposal
<1>2. ASSUME NEW q \in Proposals, NEW v \in Validators, SupportProposal(q, v)
      PROVE  slot' = slot /\ StatusMoves
  BY <1>2, SupportStep DEF Activated
<1>3. ASSUME NEW q \in Proposals, RetallySupport(q)
      PROVE  slot' = slot /\ StatusMoves
  BY <1>3, RetallyStep DEF Activated
<1>4. ASSUME NEW q \in Proposals, NEW k \in Keys, FlushMerkleRoot(k, q)
      PROVE  slot' = slot /\ StatusMoves
  BY <1>4, FlushStep
<1>5. ASSUME NEW q \in Proposals, FinalizeProposal(q)
      PROVE  slot' = slot /\ StatusMoves
  BY <1>5, <1>a DEF FinalizeProposal
<1>6. ASSUME NEW s \in SnapshotSlots, NEW r \in Snapshot!Result, PublishResult(s, r)
      PROVE  slot' = slot /\ StatusMoves
  BY <1>6, PublishStep DEF PublishResult, Snapshot!Publish
<1>7. QED
  BY <1>1, <1>2, <1>3, <1>4, <1>5, <1>6, <1>a, QuietStep DEF ProposalNext

\* What a step that starts the voting on p needs.
Backs(p) ==
    Created(p) /\ ~proposal[p].voting /\ proposal'[p].voting
    => LET backers == SupportersOf(proposal'[p])
       IN /\ backers # {}
          /\ Sum([v \in backers |-> epoch_stake[v]])
               >= min_stake_threshold(Sum(epoch_stake), params.cluster_support_pct_min_bps)

LEMMA BackedStep ==
    ASSUME ProposalInv, [ProposalNext]_proposalVars, NEW p \in Proposals
    PROVE  Backs(p)
<1> SUFFICES ASSUME Created(p), ~proposal[p].voting, proposal'[p].voting
             PROVE  Backs(p)
  BY DEF Backs
<1>a. proposal \in [Proposals -> Proposal \cup {None}]
  BY DEF ProposalInv, ProposalTypeOK
<1>1. ASSUME NEW v \in Validators, SupportProposal(p, v)
      PROVE  Backs(p)
  <2>1. PICK new \in Proposal :
            /\ Activated(p, Supported(proposal[p], v), new)
            /\ Supported(proposal[p], v).cluster_support_lamports
                 = Sum([w \in SupportersOf(new) |-> epoch_stake[w]])
            /\ SupportersOf(new) # {}
    BY <1>1, SupportStep
  <2>2. proposal'[p] = new
    BY <1>a, <2>1 DEF Activated
  <2>3. QED
    BY <2>1, <2>2 DEF Activated, Backs
<1>2. CASE RetallySupport(p)
  <2> DEFINE tally == tally_supporter_stakes(proposal[p].supporters)
             one == [proposal[p] EXCEPT !.cluster_support_lamports = tally]
  <2>1. PICK new \in Proposal :
            /\ Activated(p, one, new)
            /\ tally = Sum([w \in SupportersOf(new) |-> epoch_stake[w]])
            /\ SupportersOf(new) # {}
    BY <1>2, RetallyStep
  <2>2. proposal'[p] = new
    BY <1>a, <2>1 DEF Activated
  <2>3. one.cluster_support_lamports = tally
    BY ProposalFacts DEF Proposal
  <2> HIDE DEF one, tally
  <2>4. QED
    BY <2>1, <2>2, <2>3 DEF Activated, Backs
<1>3. QED
  BY <1>1, <1>2, TouchedBy, FlushStep, FinalizeStep

(***************************************************************************)
(* Voting starts only when the distinct supporters hold the threshold      *)
(* share of the stake of that very epoch (support_proposal.rs:133-141,     *)
(* retally_support.rs:85-93).                                              *)
(***************************************************************************)
THEOREM ActivationsAreBacked == ProposalSpec => ActivationIsBacked
<1>1. ProposalInv /\ [ProposalNext]_proposalVars => [\A p \in Proposals : Backs(p)]_proposalVars
  BY BackedStep
<1>2. QED
  BY <1>1, ProposalInvHolds, PTL DEF ProposalSpec, ActivationIsBacked, Backs

\* What a step that binds p needs.
LooksAhead(p) ==
    Created(p) /\ (proposal'[p].consensus_result # proposal[p].consensus_result)
    => LET s == proposal'[p].consensus_result
       IN /\ s > slot
          /\ status[s] \notin {Unopened, Open} => status[s].tie_breaker

LEMMA AheadStep ==
    ASSUME ProposalInv, [ProposalNext]_proposalVars, NEW p \in Proposals
    PROVE  LooksAhead(p)
<1> SUFFICES ASSUME Created(p), proposal'[p].consensus_result # proposal[p].consensus_result
             PROVE  LooksAhead(p)
  BY DEF LooksAhead
<1>a. /\ proposal \in [Proposals -> Proposal \cup {None}]
      /\ slot \in Nat /\ SnapshotSlots \subseteq Nat
      /\ EarlyByTieBreaker(status, slot)
      /\ proposal[p] \in Proposal /\ Bound(proposal[p], status, epoch)
  BY ProposalFacts, ProposalAssumption DEF ProposalInv, ProposalTypeOK
<1>b. ASSUME proposal'[p].consensus_result > slot,
             proposal'[p].consensus_result \in SnapshotSlots
      PROVE  LooksAhead(p)
  <2> DEFINE s == proposal'[p].consensus_result
  <2>1. s > slot /\ s \in SnapshotSlots
    BY <1>b
  <2> HIDE DEF s
  <2>2. s >= slot
    BY <1>a, <2>1
  <2>3. status[s] \notin {Unopened, Open} => status[s].tie_breaker
    BY <1>a, <2>1, <2>2 DEF EarlyByTieBreaker
  <2>4. QED
    BY <2>1, <2>3 DEF s, LooksAhead
<1>c. ASSUME NEW pr, NEW new \in Proposal, Activated(p, pr, new), ~proposal[p].voting
      PROVE  LooksAhead(p)
  <2>1. proposal'[p] = new /\ Bound(new, status', epoch)
    BY <1>a, <1>c DEF Activated
  <2>2. new.voting
    BY <1>a, <1>c, <2>1 DEF Bound
  <2>3. QED
    BY <1>b, <1>c, <2>1, <2>2 DEF Activated
<1>1. ASSUME NEW v \in Validators, SupportProposal(p, v)
      PROVE  LooksAhead(p)
  BY <1>1, <1>c, SupportStep
<1>2. CASE RetallySupport(p)
  BY <1>2, <1>c, RetallyStep
<1>3. ASSUME NEW k \in Keys, FlushMerkleRoot(k, p)
      PROVE  LooksAhead(p)
  BY <1>3, <1>a, <1>b, FlushStep
<1>4. CASE FinalizeProposal(p)
  BY <1>4, <1>a, FinalizeStep DEF Proposal
<1>5. QED
  BY <1>1, <1>2, <1>3, <1>4, TouchedBy

(***************************************************************************)
(* A proposal is never bound to a snapshot of the past nor to a result the *)
(* operators had agreed on (utils.rs:210-217, support_proposal.rs:235,     *)
(* flush_merkle_root.rs:82).                                               *)
(***************************************************************************)
THEOREM BindingsLookAhead == ProposalSpec => NeverBackdated
<1>1. ProposalInv /\ [ProposalNext]_proposalVars => [\A p \in Proposals : LooksAhead(p)]_proposalVars
  BY AheadStep
<1>2. QED
  BY <1>1, ProposalInvHolds, PTL DEF ProposalSpec, NeverBackdated, LooksAhead

-----------------------------------------------------------------------------
(***************************************************************************)
(* What the command line shows.  The phase of an activated proposal is     *)
(* read from its own account alone.                                        *)
(***************************************************************************)
VotingPhase(pr, current) ==
    IF pr.finalized THEN "finalized"
    ELSE IF current >= pr.end_epoch THEN "ended"
    ELSE IF current >= pr.start_epoch THEN "voting"
    ELSE IF current + 1 = pr.start_epoch THEN "snapshot" ELSE "discussion"

LEMMA PhaseOfVoting ==
    ASSUME NEW pr \in Proposal, pr.voting, NEW current \in Nat, pr.start_epoch <= pr.end_epoch
    PROVE  /\ ProposalPhase(pr, current) = VotingPhase(pr, current)
           /\ ProposalPhase(pr, current)' = VotingPhase(pr, current)
<1>1. pr.start_epoch \in Nat /\ pr.end_epoch \in Nat
  BY DEF Proposal
<1>2. QED
  BY <1>1 DEF ProposalPhase, VotingPhase

LEMMA Ranks ==
    /\ Rank["support"] = 1 /\ Rank["discussion"] = 2 /\ Rank["snapshot"] = 3
    /\ Rank["voting"] = 4 /\ Rank["ended"] = 5 /\ Rank["finalized"] = 6 /\ Rank["failed"] = 6
  BY DEF Rank

\* Neither time nor finalization takes a phase back.
LEMMA PhaseMovesOn ==
    ASSUME NEW pr \in Proposal, NEW new \in Proposal, NEW e \in Nat, NEW f \in Nat, e <= f,
           new.start_epoch = pr.start_epoch, new.end_epoch = pr.end_epoch,
           pr.start_epoch <= pr.end_epoch, pr.finalized => new.finalized
    PROVE  Rank[VotingPhase(new, f)] >= Rank[VotingPhase(pr, e)]
<1>1. pr.start_epoch \in Nat /\ pr.end_epoch \in Nat
  BY DEF Proposal
<1>2. QED
  BY <1>1, Ranks DEF VotingPhase

\* Without a rebinding, only finalization touches an activated proposal.
LEMMA ActivatedStays ==
    ASSUME ProposalInv, [ProposalNext]_proposalVars, NEW p \in Proposals, Created(p),
           proposal[p].voting, ~\E k \in Keys : FlushMerkleRoot(k, p)
    PROVE  \/ proposal'[p] = proposal[p]
           \/ ~proposal[p].finalized /\ proposal'[p] = [proposal[p] EXCEPT !.finalized = TRUE]
<1>1. ASSUME FinalizeProposal(p)
      PROVE  ~proposal[p].finalized /\ proposal'[p] = [proposal[p] EXCEPT !.finalized = TRUE]
  BY <1>1, FinalizeStep DEF ProposalInv, ProposalTypeOK
<1>2. QED
  BY <1>1, TouchedBy, SupportStep, RetallyStep

LEMMA FixedStep ==
    ASSUME ProposalInv, [ProposalNext]_proposalVars
    PROVE  FixedOnceStarted
<1> SUFFICES ASSUME NEW p \in Proposals, Created(p), proposal[p].voting,
                    epoch >= proposal[p].start_epoch
             PROVE  /\ proposal'[p].consensus_result = proposal[p].consensus_result
                    /\ proposal'[p].start_epoch = proposal[p].start_epoch
                    /\ proposal'[p].end_epoch = proposal[p].end_epoch
                    /\ proposal'[p].supporters = proposal[p].supporters
                    /\ proposal[p].finalized => proposal'[p] = proposal[p]
  BY DEF FixedOnceStarted
<1>1. proposal[p] \in Proposal /\ proposal[p].start_epoch \in Nat /\ epoch \in Nat
  BY ProposalFacts, EpochType DEF Proposal, ProposalInv, ProposalTypeOK
<1>2. ~\E k \in Keys : FlushMerkleRoot(k, p)
  BY <1>1 DEF FlushMerkleRoot
<1>3. QED
  BY <1>1, <1>2, ActivatedStays DEF Proposal

(***************************************************************************)
(* From the epoch in which voting starts, snapshot, window and support are *)
(* fixed (flush_merkle_root.rs:60), and what the command line shows of an  *)
(* activated proposal moves only forward and only its rebinding by the     *)
(* admin moves a window (phase.rs:154-191).                                *)
(***************************************************************************)
THEOREM SchedulesAreFixed == ProposalSpec => ScheduleIsFixed
<1>1. ASSUME ProposalInv, [ProposalNext]_proposalVars
      PROVE  FixedOnceStarted
  BY <1>1, FixedStep
<1>2. ASSUME ProposalInv, [ProposalNext]_proposalVars
      PROVE  ScheduleIsItsOwn
  <2> SUFFICES ASSUME NEW p \in Proposals, Shown(p), proposal[p].voting
               PROVE  LET rebound == \E k \in Keys : FlushMerkleRoot(k, p)
                      IN  /\ ~rebound => PhaseTimeline(proposal[p])' = PhaseTimeline(proposal[p])
                          /\ rebound => Phase(p) \in {"discussion", "snapshot"}
                          /\ ~rebound => Rank[Phase(p)'] >= Rank[Phase(p)]
    BY DEF ScheduleIsItsOwn
  <2> DEFINE pr == proposal[p]
             new == proposal'[p]
             e == epoch
             f == epoch'
  <2>1. Created(p) /\ pr \in Proposal /\ Bound(pr, status, epoch) /\ slot \in Nat
    BY <1>2, ProposalFacts DEF Shown, ProposalInv, ProposalTypeOK
  <2>v. pr.voting
    OBVIOUS
  <2>2. slot' = slot \/ slot' = slot + 1
    BY <1>2, WorldMoves
  <2>3. e \in Nat /\ f \in Nat /\ e <= f
    BY <2>1, <2>2, EpochType, EpochMonotone
  <2>4. pr.start_epoch <= pr.end_epoch /\ pr.start_epoch \in Nat /\ pr.end_epoch \in Nat
    BY <2>1 DEF Bound, Proposal
  <2>5. Phase(p) = VotingPhase(pr, e)
    BY <2>1, <2>3, <2>4, PhaseOfVoting DEF Phase
  <2>6. ASSUME NEW k \in Keys, FlushMerkleRoot(k, p)
        PROVE  Phase(p) \in {"discussion", "snapshot"}
    <3>1. e < pr.start_epoch /\ ~pr.finalized
      BY <2>6 DEF FlushMerkleRoot
    <3> HIDE DEF e, pr
    <3>2. QED
      BY <2>3, <2>4, <2>5, <3>1 DEF VotingPhase
  <2>7. ASSUME ~\E k \in Keys : FlushMerkleRoot(k, p)
        PROVE  /\ PhaseTimeline(proposal[p])' = PhaseTimeline(proposal[p])
               /\ Rank[Phase(p)'] >= Rank[Phase(p)]
    <3>1. new = pr \/ (~pr.finalized /\ new = [pr EXCEPT !.finalized = TRUE])
      BY <1>2, <2>1, <2>7, ActivatedStays
    <3>2. /\ new \in Proposal /\ new.voting
          /\ new.start_epoch = pr.start_epoch /\ new.end_epoch = pr.end_epoch
          /\ pr.finalized => new.finalized
      <4> HIDE DEF pr, new
      <4>1. CASE new = pr
        BY <2>1, <2>v, <4>1
      <4>2. CASE ~pr.finalized /\ new = [pr EXCEPT !.finalized = TRUE]
        BY <2>1, <2>v, <4>2 DEF Proposal
      <4>3. QED
        BY <3>1, <4>1, <4>2
    <3>3. PhaseTimeline(proposal[p])' = PhaseTimeline(proposal[p])
      BY <3>2 DEF PhaseTimeline, Committed, saturating_sub
    <3>4. Phase(p)' = VotingPhase(new, f)
      <4>1. new.start_epoch <= new.end_epoch
        BY <2>4, <3>2
      <4>2. Phase(p)' = ProposalPhase(proposal[p], epoch)'
        BY DEF Phase
      <4>3. QED
        BY <2>3, <2>4, <3>2, <4>1, <4>2 DEF ProposalPhase, VotingPhase
    <3> HIDE DEF e, f, pr, new
    <3>5. Rank[VotingPhase(new, f)] >= Rank[VotingPhase(pr, e)]
      BY <2>1, <2>3, <2>4, <3>2, PhaseMovesOn
    <3>6. QED
      BY <2>5, <3>3, <3>4, <3>5
  <2>8. QED
    BY <2>6, <2>7
<1>3. ProposalInv /\ [ProposalNext]_proposalVars
        => [FixedOnceStarted /\ ScheduleIsItsOwn]_proposalVars
  BY <1>1, <1>2
<1>4. QED
  BY <1>3, ProposalInvHolds, PTL DEF ProposalSpec, ScheduleIsFixed

(***************************************************************************)
(* A proposal that has not crossed is in support, or failed, by the        *)
(* configuration.                                                          *)
(***************************************************************************)
LEMMA PhaseOfSupport ==
    ASSUME NEW pr \in Proposal, ~pr.voting, ~pr.finalized, NEW current,
           NEW crossing, crossing = pr.creation_epoch + params.max_support_epochs
    PROVE  ProposalPhase(pr, current) = IF current <= crossing THEN "support" ELSE "failed"
  BY DEF ProposalPhase

\* The numbers the countdown is made of.
LEMMA RemainingEpochs ==
    ASSUME NEW pr \in Proposal, NEW current \in Nat, Bound(pr, status, current),
           params \in Parameters
    PROVE  LET phase == ProposalPhase(pr, current)
               left == epochs_remaining(pr, current)
           IN /\ phase = "support" =>
                   left = pr.creation_epoch + params.max_support_epochs - current
              /\ phase = "discussion" => left = pr.start_epoch - 1 - current
              /\ phase = "snapshot" => left = 1
              /\ phase = "voting" => left = pr.end_epoch - current
              /\ phase \in {"ended", "finalized", "failed"} => left = None
<1>1. /\ pr.start_epoch \in Nat /\ pr.end_epoch \in Nat /\ pr.creation_epoch \in Nat
      /\ params.max_support_epochs \in Nat
  BY DEF Proposal, Parameters
<1>2. CASE pr.voting
  <2>1. pr.start_epoch > 0 /\ pr.start_epoch <= pr.end_epoch
    BY <1>1, <1>2 DEF Bound
  <2>2. ProposalPhase(pr, current) = VotingPhase(pr, current)
    BY <1>2, <2>1, PhaseOfVoting
  <2>3. /\ PhaseTimeline(pr).snapshot = pr.start_epoch - 1
        /\ PhaseTimeline(pr).voting[1] = pr.start_epoch
    BY <1>1, <1>2, <2>1 DEF PhaseTimeline, Committed, saturating_sub
  <2>4. QED
    BY <1>1, <2>1, <2>2, <2>3 DEF epochs_remaining, VotingPhase, saturating_sub
<1>3. CASE ~pr.voting
  <2> DEFINE crossing == pr.creation_epoch + params.max_support_epochs
  <2>1. ~pr.finalized
    BY <1>3 DEF Bound
  <2>2. ProposalPhase(pr, current) = IF current <= crossing THEN "support" ELSE "failed"
    BY <1>3, <2>1, PhaseOfSupport
  <2>3. PhaseTimeline(pr).support[2] = crossing
    BY <1>3 DEF PhaseTimeline, Projected
  <2>4. crossing \in Nat
    BY <1>1
  <2> HIDE DEF crossing
  <2>5. epochs_remaining(pr, current) = IF current <= crossing THEN crossing - current ELSE None
    BY <2>2, <2>3, <2>4 DEF epochs_remaining, saturating_sub
  <2>6. crossing = pr.creation_epoch + params.max_support_epochs
    BY DEF crossing
  <2>7. QED
    BY <1>1, <2>2, <2>4, <2>5, <2>6
<1>4. QED
  BY <1>2, <1>3

(***************************************************************************)
(* The countdown of every phase holds, however far ahead one looks         *)
(* (phase.rs:54-78): the phase lasts for just the epochs it announces.     *)
(***************************************************************************)
THEOREM CountdownsHold == ProposalSpec => []CountdownHolds
<1>1. ASSUME ProposalInv
      PROVE  CountdownHolds
  <2> SUFFICES ASSUME NEW p \in Proposals, Shown(p)
               PROVE  LET pr == proposal[p]
                          left == epochs_remaining(pr, epoch)
                          last == IF Phase(p) = "support" THEN left ELSE left - 1
                      IN  IF left = None THEN Phase(p) \in {"ended", "finalized", "failed"}
                          ELSE /\ last >= 0
                               /\ \A e \in 0 .. MaxEpochs :
                                     (ProposalPhase(pr, epoch + e) = Phase(p)) <=> (e <= last)
    BY DEF CountdownHolds
  <2> DEFINE pr == proposal[p]
             now == epoch
             phase == ProposalPhase(pr, now)
             left == epochs_remaining(pr, now)
  <2>1. /\ pr \in Proposal /\ Bound(pr, status, now) /\ now \in Nat
        /\ params \in Parameters /\ None \notin Nat /\ phase = Phase(p)
    BY <1>1, ProposalFacts, EpochType, DistinctAssumption
       DEF Shown, ProposalInv, ProposalTypeOK, ConfigTypeOK, GlobalConfig, params, Phase
  <2>2. /\ pr.start_epoch \in Nat /\ pr.end_epoch \in Nat /\ pr.creation_epoch \in Nat
        /\ params.max_support_epochs \in Nat
    BY <2>1 DEF Proposal, Parameters
  <2> HIDE DEF pr, now
  <2>3. /\ phase = "support" => left = pr.creation_epoch + params.max_support_epochs - now
        /\ phase = "discussion" => left = pr.start_epoch - 1 - now
        /\ phase = "snapshot" => left = 1
        /\ phase = "voting" => left = pr.end_epoch - now
        /\ phase \in {"ended", "finalized", "failed"} => left = None
    BY <2>1, RemainingEpochs
  <2> DEFINE goal == IF left = None THEN phase \in {"ended", "finalized", "failed"}
                     ELSE LET last == IF phase = "support" THEN left ELSE left - 1
                          IN /\ last >= 0
                             /\ \A e \in 0 .. MaxEpochs :
                                   (ProposalPhase(pr, now + e) = phase) <=> (e <= last)
  <2>4. CASE pr.voting
    <3>1. pr.start_epoch <= pr.end_epoch
      BY <2>1, <2>4 DEF Bound
    <3>2. \A c \in Nat : ProposalPhase(pr, c) = VotingPhase(pr, c)
      BY <2>1, <2>4, <3>1, PhaseOfVoting
    <3>3. phase = VotingPhase(pr, now)
      BY <2>1, <3>2
    <3>4. \A e \in 0 .. MaxEpochs : ProposalPhase(pr, now + e) = VotingPhase(pr, now + e)
      BY <2>1, <3>2
    <3> HIDE DEF phase, left
    <3>5. ASSUME phase \in {"ended", "finalized"}
          PROVE  goal
      BY <2>3, <3>5
    <3>6. ASSUME phase = "voting"
          PROVE  goal
      <4>1. ~pr.finalized /\ now < pr.end_epoch /\ now >= pr.start_epoch
        BY <2>1, <2>2, <3>3, <3>6 DEF VotingPhase
      <4>2. left = pr.end_epoch - now /\ left \in Nat /\ left > 0 /\ left # None
        BY <2>1, <2>2, <2>3, <3>6, <4>1
      <4>3. ASSUME NEW e \in 0 .. MaxEpochs
            PROVE  (VotingPhase(pr, now + e) = "voting") <=> (e <= left - 1)
        BY <2>1, <2>2, <4>1, <4>2 DEF VotingPhase
      <4>4. QED
        BY <3>4, <3>6, <4>2, <4>3
    <3>7. ASSUME phase = "snapshot"
          PROVE  goal
      <4>1. ~pr.finalized /\ now < pr.end_epoch /\ now + 1 = pr.start_epoch
        BY <2>1, <2>2, <3>1, <3>3, <3>7 DEF VotingPhase
      <4>2. left = 1 /\ left # None
        BY <2>1, <2>3, <3>7
      <4>3. ASSUME NEW e \in 0 .. MaxEpochs
            PROVE  (VotingPhase(pr, now + e) = "snapshot") <=> (e <= left - 1)
        BY <2>1, <2>2, <3>1, <4>1, <4>2 DEF VotingPhase
      <4>4. QED
        BY <3>4, <3>7, <4>2, <4>3
    <3>8. ASSUME phase = "discussion"
          PROVE  goal
      <4>1. ~pr.finalized /\ now + 1 < pr.start_epoch
        BY <2>1, <2>2, <3>1, <3>3, <3>8 DEF VotingPhase
      <4>2. left = pr.start_epoch - 1 - now /\ left \in Nat /\ left > 0 /\ left # None
        BY <2>1, <2>2, <2>3, <3>8, <4>1
      <4>3. ASSUME NEW e \in 0 .. MaxEpochs
            PROVE  (VotingPhase(pr, now + e) = "discussion") <=> (e <= left - 1)
        <5> DEFINE c == now + e
        <5>1. c \in Nat /\ (e <= left - 1 <=> c + 1 < pr.start_epoch)
          BY <2>1, <2>2, <4>2
        <5> HIDE DEF c
        <5>2. CASE c + 1 < pr.start_epoch
          <6>1. ~(c >= pr.end_epoch) /\ ~(c >= pr.start_epoch) /\ ~(c + 1 = pr.start_epoch)
            BY <2>2, <3>1, <5>1, <5>2
          <6>2. VotingPhase(pr, c) = "discussion"
            BY <4>1, <6>1 DEF VotingPhase
          <6>3. QED
            BY <5>1, <5>2, <6>2 DEF c
        <5>3. CASE ~(c + 1 < pr.start_epoch)
          <6>1. c >= pr.end_epoch \/ c >= pr.start_epoch \/ c + 1 = pr.start_epoch
            BY <2>2, <5>1, <5>3
          <6>2. VotingPhase(pr, c) # "discussion"
            BY <6>1 DEF VotingPhase
          <6>3. QED
            BY <5>1, <5>3, <6>2 DEF c
        <5>4. QED
          BY <5>2, <5>3
      <4>4. QED
        BY <3>4, <3>8, <4>2, <4>3
    <3>9. phase \in {"ended", "finalized", "voting", "snapshot", "discussion"}
      BY <3>3 DEF VotingPhase
    <3>10. goal
      BY <3>5, <3>6, <3>7, <3>8, <3>9
    <3>11. QED
      BY <2>1, <3>10 DEF pr, now, phase, left
  <2>5. CASE ~pr.voting
    <3> DEFINE crossing == pr.creation_epoch + params.max_support_epochs
    <3>1. ~pr.finalized /\ crossing \in Nat
      BY <2>1, <2>2, <2>5 DEF Bound
    <3>2. \A c \in Int : ProposalPhase(pr, c) = IF c <= crossing THEN "support" ELSE "failed"
      BY <2>1, <2>5, <3>1, PhaseOfSupport
    <3>3. phase = IF now <= crossing THEN "support" ELSE "failed"
      BY <2>1, <3>2
    <3>4. \A e \in 0 .. MaxEpochs :
             ProposalPhase(pr, now + e) = IF now + e <= crossing THEN "support" ELSE "failed"
      BY <2>1, <3>2
    <3>c. crossing = pr.creation_epoch + params.max_support_epochs
      OBVIOUS
    <3> HIDE DEF phase, left, crossing
    <3>5. phase = "support" => left = crossing - now
      BY <2>1, <2>2, <2>3, <3>c
    <3>6. ASSUME now <= crossing
          PROVE  goal
      <4>1. phase = "support" /\ left = crossing - now /\ left \in Nat /\ left # None
        BY <2>1, <3>1, <3>3, <3>5, <3>6
      <4>2. \A e \in 0 .. MaxEpochs : (ProposalPhase(pr, now + e) = "support") <=> (e <= left)
        BY <2>1, <3>1, <3>4, <4>1
      <4>3. QED
        BY <4>1, <4>2
    <3>7. ASSUME ~(now <= crossing)
          PROVE  goal
      BY <2>3, <3>3, <3>7
    <3>8. goal
      BY <3>6, <3>7
    <3>9. QED
      BY <2>1, <3>8 DEF pr, now, phase, left
  <2>6. QED
    BY <2>4, <2>5
<1>2. QED
  BY <1>1, ProposalInvHolds, PTL

(***************************************************************************)
(* The phase tells what the program accepts: a step of support or retally  *)
(* is taken only in the support phase, a rebinding only before the voting, *)
(* a finalization only in "ended" (phase.rs:94-125 against the handlers).  *)
(* PhaseTellsWhatIsAccepted says it with ENABLED, which needs TLC.         *)
(***************************************************************************)
StepsFitPhase ==
    \A p \in Proposals : Shown(p) =>
        /\ (\E v \in Validators : SupportProposal(p, v)) => Phase(p) = "support"
        /\ RetallySupport(p) => Phase(p) = "support"
        /\ (\E k \in Keys : FlushMerkleRoot(k, p)) => Phase(p) \in {"discussion", "snapshot"}
        /\ FinalizeProposal(p) => Phase(p) = "ended"

THEOREM StepsFitThePhase == ProposalSpec => [][StepsFitPhase]_proposalVars
<1>1. ASSUME ProposalInv
      PROVE  StepsFitPhase
  <2> SUFFICES ASSUME NEW p \in Proposals, Shown(p)
               PROVE  /\ (\E v \in Validators : SupportProposal(p, v)) => Phase(p) = "support"
                      /\ RetallySupport(p) => Phase(p) = "support"
                      /\ (\E k \in Keys : FlushMerkleRoot(k, p))
                           => Phase(p) \in {"discussion", "snapshot"}
                      /\ FinalizeProposal(p) => Phase(p) = "ended"
    BY DEF StepsFitPhase
  <2> DEFINE pr == proposal[p]
             now == epoch
  <2>1. /\ pr \in Proposal /\ Bound(pr, status, now) /\ now \in Nat
        /\ Phase(p) = ProposalPhase(pr, now)
    BY <1>1, ProposalFacts, EpochType DEF Shown, ProposalInv, ProposalTypeOK, Phase
  <2>2. pr.start_epoch \in Nat /\ pr.end_epoch \in Nat
    BY <2>1 DEF Proposal
  <2>3. ASSUME ~pr.voting, InSupportWindow(pr)
        PROVE  Phase(p) = "support"
    <3>1. now <= pr.creation_epoch + params.max_support_epochs
      BY <2>3 DEF InSupportWindow
    <3>2. ~pr.finalized
      BY <2>1, <2>3 DEF Bound
    <3>3. QED
      BY <2>1, <2>3, <3>1, <3>2, PhaseOfSupport
  <2>4. ASSUME pr.voting
        PROVE  Phase(p) = VotingPhase(pr, now) /\ pr.start_epoch <= pr.end_epoch
    BY <2>1, <2>4, PhaseOfVoting DEF Bound
  <2>5. ASSUME NEW v \in Validators, SupportProposal(p, v)
        PROVE  Phase(p) = "support"
    BY <2>3, <2>5 DEF SupportProposal
  <2>6. ASSUME RetallySupport(p)
        PROVE  Phase(p) = "support"
    BY <2>3, <2>6 DEF RetallySupport
  <2>7. ASSUME NEW k \in Keys, FlushMerkleRoot(k, p)
        PROVE  Phase(p) \in {"discussion", "snapshot"}
    <3>1. now < pr.start_epoch /\ ~pr.finalized /\ pr.voting
      BY <1>1, <2>7, FlushStep
    <3>2. Phase(p) = VotingPhase(pr, now) /\ pr.start_epoch <= pr.end_epoch
      BY <2>4, <3>1
    <3> HIDE DEF pr, now
    <3>3. QED
      BY <2>1, <2>2, <3>1, <3>2 DEF VotingPhase
  <2>8. ASSUME FinalizeProposal(p)
        PROVE  Phase(p) = "ended"
    <3>1. now >= pr.end_epoch /\ ~pr.finalized /\ pr.voting
      BY <2>8 DEF FinalizeProposal
    <3>2. Phase(p) = VotingPhase(pr, now)
      BY <2>4, <3>1
    <3> HIDE DEF pr, now
    <3>3. QED
      BY <3>1, <3>2 DEF VotingPhase
  <2>9. QED
    BY <2>5, <2>6, <2>7, <2>8
<1>2. ProposalInv /\ [ProposalNext]_proposalVars => [StepsFitPhase]_proposalVars
  BY <1>1
<1>3. QED
  BY <1>2, ProposalInvHolds, PTL DEF ProposalSpec
=============================================================================
