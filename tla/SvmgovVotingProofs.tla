------------------------- MODULE SvmgovVotingProofs -------------------------
(***************************************************************************)
(* Proofs about SvmgovVoting, for any number of validators, delegators,    *)
(* snapshots and distributions: the totals are what the votes amount to,   *)
(* nothing is counted twice, and no subtraction of the program fails.      *)
(***************************************************************************)
EXTENDS SvmgovVoting, SvmgovProposalProofs

-----------------------------------------------------------------------------
(***************************************************************************)
(* The books of one proposal, as operators of their values: vt, vo and vc  *)
(* are its Vote, VoteOverride and VoteOverrideCache accounts, L the leaves *)
(* of its snapshot, totals and count what its account says.                *)
(***************************************************************************)
Having(S, f) == {x \in S : f[x] # None}

\* The lamports for option o of the accounts f that exist.
Weight(S, f, o) == Sum([x \in Having(S, f) |-> f[x].lamports[o]])

CacheOf(vc, v) == IF vc[v] = None THEN NoOverrides ELSE vc[v]

\* The delegators of v who spoke for themselves, their stake and their lamports.
SpeakersOf(L, vo, v) == {a \in Having(StakeAccounts, vo) : L.validator_of[a] = v}
Taken(L, vo, v) == Sum([a \in SpeakersOf(L, vo, v) |-> L.delegated[a]])
Pending(L, vo, v, o) == Sum([a \in SpeakersOf(L, vo, v) |-> vo[a].lamports[o]])

VotesInOrder(L, vt, vo) ==
    \A v \in Having(Validators, vt) :
        /\ vt[v].stake = L.active[v]
        /\ vt[v].override_lamports = Taken(L, vo, v)
        /\ ValidDistribution(vt[v].bp)
        /\ vt[v].lamports = vote_lamports(L.active[v] - Taken(L, vo, v), vt[v].bp)

OverridesInOrder(L, vo) ==
    \A a \in Having(StakeAccounts, vo) :
        /\ L.delegated[a] > 0
        /\ vo[a].stake_amount = L.delegated[a]
        /\ ValidDistribution(vo[a].bp)
        /\ vo[a].lamports = vote_lamports(L.delegated[a], vo[a].bp)

CachesInOrder(L, vt, vo, vc) ==
    \A v \in Validators : vt[v] = None =>
        /\ CacheOf(vc, v).total_stake = Taken(L, vo, v)
        /\ \A o \in Options : CacheOf(vc, v).lamports[o] = Pending(L, vo, v, o)

TotalsInOrder(vt, vo, totals) ==
    \A o \in Options :
        totals[o] = Weight(Validators, vt, o) + Weight(StakeAccounts, vo, o)

\* What validators lost is what delegators took.
TakenIsSpoken(L, vo) ==
    Sum([v \in Validators |-> Taken(L, vo, v)])
      = Sum([a \in Having(StakeAccounts, vo) |-> L.delegated[a]])

VotesCounted(vt, vo, count) ==
    count = Cardinality(Having(Validators, vt)) + Cardinality(Having(StakeAccounts, vo))

InOrder(L, vt, vo, vc, totals, count) ==
    /\ VotesInOrder(L, vt, vo)
    /\ OverridesInOrder(L, vo)
    /\ CachesInOrder(L, vt, vo, vc)
    /\ TotalsInOrder(vt, vo, totals)
    /\ TakenIsSpoken(L, vo)
    /\ VotesCounted(vt, vo, count)

\* Nobody has voted, and no cache is there either.
Untouched(p) ==
    /\ vote[p] = [v \in Validators |-> None]
    /\ vote_override[p] = [a \in StakeAccounts |-> None]
    /\ vote_override_cache[p] = [v \in Validators |-> None]
    /\ Created(p) => proposal[p].votes_lamports = NoLamports /\ proposal[p].vote_count = 0

\* Votes came in: the snapshot is fixed and the books are in order.
UnderWay(p) ==
    /\ Created(p) /\ proposal[p].voting
    /\ epoch >= proposal[p].start_epoch
    /\ Weighable(p)
    /\ InOrder(LeavesOf(p), vote[p], vote_override[p], vote_override_cache[p],
               proposal[p].votes_lamports, proposal[p].vote_count)

(***************************************************************************)
(* The inductive invariant of voting, on top of that of the life cycle.    *)
(***************************************************************************)
VotingInv ==
    /\ ProposalInv
    /\ TypeOK
    /\ \A p \in Proposals : Untouched(p) \/ UnderWay(p)

-----------------------------------------------------------------------------
(***************************************************************************)
(* Accounts that appear and accounts that change.                          *)
(***************************************************************************)
LEMMA HavingFinite ==
    ASSUME NEW S, IsFiniteSet(S), NEW f
    PROVE  /\ Having(S, f) \subseteq S /\ IsFiniteSet(Having(S, f))
           /\ Cardinality(Having(S, f)) \in Nat
  BY FS_Subset, FS_CardinalityType DEF Having

LEMMA LamportsType ==
    ASSUME NEW stake \in Nat, NEW bp \in [Options -> Nat]
    PROVE  vote_lamports(stake, bp) \in [Options -> Nat]
<1>1. \A n \in Nat : n \div BASIS_POINTS_MAX \in Nat
  BY SMT DEF BASIS_POINTS_MAX
<1>2. \A o \in Options : stake * bp[o] \in Nat
  BY SMT
<1>3. QED
  BY <1>1, <1>2 DEF vote_lamports

LEMMA WeightAdded ==
    ASSUME NEW S, IsFiniteSet(S), NEW f, NEW g,
           \A y \in Having(S, f) : f[y].lamports \in [Options -> Nat],
           \A y \in Having(S, g) : g[y].lamports \in [Options -> Nat],
           NEW x \in S, f[x] = None, g[x] # None, \A y \in S \ {x} : g[y] = f[y]
    PROVE  /\ Having(S, g) = Having(S, f) \cup {x}
           /\ x \notin Having(S, f)
           /\ Cardinality(Having(S, g)) = Cardinality(Having(S, f)) + 1
           /\ \A o \in Options : /\ Weight(S, f, o) \in Nat
                                 /\ Weight(S, g, o) = Weight(S, f, o) + g[x].lamports[o]
<1> DEFINE D == Having(S, f)
           E == Having(S, g)
<1>1. E = D \cup {x} /\ x \notin D
  BY DEF Having
<1>2. IsFiniteSet(D)
  BY HavingFinite
<1>3. /\ \A y \in D : f[y].lamports \in [Options -> Nat] /\ g[y] = f[y]
      /\ \A y \in E : g[y].lamports \in [Options -> Nat]
  BY DEF Having
<1> HIDE DEF D, E
<1>4. ASSUME NEW o \in Options
      PROVE  /\ Weight(S, f, o) \in Nat
             /\ Weight(S, g, o) = Weight(S, f, o) + g[x].lamports[o]
  <2> DEFINE wf == [y \in D |-> f[y].lamports[o]]
             wg == [y \in E |-> g[y].lamports[o]]
  <2>1. wf \in [D -> Nat] /\ wg \in [E -> Nat] /\ \A y \in D : wg[y] = wf[y]
    BY <1>1, <1>3
  <2>2. wg[x] = g[x].lamports[o]
    BY <1>1
  <2>3. Weight(S, f, o) = Sum(wf) /\ Weight(S, g, o) = Sum(wg)
    BY DEF Weight, D, E
  <2> HIDE DEF wf, wg
  <2>4. Sum(wf) \in Nat
    BY <1>2, <2>1, SumType
  <2>5. Sum(wg) = Sum(wf) + wg[x]
    BY ONLY <1>1, <1>2, <2>1, SumAdd
  <2>6. QED
    BY <2>2, <2>3, <2>4, <2>5
<1>5. Cardinality(E) = Cardinality(D) + 1
  BY <1>1, <1>2, FS_AddElement
<1>6. QED
  BY <1>1, <1>4, <1>5 DEF D, E

LEMMA WeightChanged ==
    ASSUME NEW S, IsFiniteSet(S), NEW f, NEW g,
           \A y \in Having(S, f) : f[y].lamports \in [Options -> Nat],
           \A y \in Having(S, g) : g[y].lamports \in [Options -> Nat],
           NEW x \in S, f[x] # None, g[x] # None, \A y \in S \ {x} : g[y] = f[y]
    PROVE  /\ Having(S, g) = Having(S, f) /\ x \in Having(S, f)
           /\ \A o \in Options :
                 /\ Weight(S, f, o) \in Nat /\ Weight(S, g, o) \in Nat
                 /\ Weight(S, g, o) + f[x].lamports[o] = Weight(S, f, o) + g[x].lamports[o]
                 /\ Weight(S, f, o) >= f[x].lamports[o]
<1> DEFINE D == Having(S, f)
<1>1. Having(S, g) = D /\ x \in D
  BY DEF Having
<1>2. IsFiniteSet(D)
  BY HavingFinite
<1>3. /\ \A y \in D : f[y].lamports \in [Options -> Nat] /\ g[y].lamports \in [Options -> Nat]
      /\ \A y \in D \ {x} : g[y] = f[y]
  BY DEF Having
<1> HIDE DEF D
<1>4. ASSUME NEW o \in Options
      PROVE  /\ Weight(S, f, o) \in Nat /\ Weight(S, g, o) \in Nat
             /\ Weight(S, g, o) + f[x].lamports[o] = Weight(S, f, o) + g[x].lamports[o]
             /\ Weight(S, f, o) >= f[x].lamports[o]
  <2> DEFINE wf == [y \in D |-> f[y].lamports[o]]
             wg == [y \in D |-> g[y].lamports[o]]
  <2>1. wf \in [D -> Nat] /\ wg \in [D -> Nat] /\ \A y \in D \ {x} : wf[y] = wg[y]
    BY <1>3
  <2>2. wf[x] = f[x].lamports[o] /\ wg[x] = g[x].lamports[o]
    BY <1>1
  <2>3. Weight(S, f, o) = Sum(wf) /\ Weight(S, g, o) = Sum(wg)
    BY <1>1 DEF Weight, D
  <2> HIDE DEF wf, wg
  <2>4. /\ Sum(wf) \in Nat /\ Sum(wg) \in Nat
        /\ Sum(wf) + wg[x] = Sum(wg) + wf[x]
        /\ Sum(wf) >= wf[x]
    BY <1>1, <1>2, <2>1, SumChange
  <2>5. QED
    BY <2>2, <2>3, <2>4
<1>5. QED
  BY <1>1, <1>4 DEF D

-----------------------------------------------------------------------------
(***************************************************************************)
(* Delegators who speak for themselves.                                    *)
(***************************************************************************)
Overrides == [StakeAccounts -> VoteOverride \cup {None}]

LEMMA SpeakersFacts ==
    ASSUME NEW L \in Snapshots, NEW vo \in Overrides, NEW v
    PROVE  /\ SpeakersOf(L, vo, v) \subseteq StakeAccounts
           /\ IsFiniteSet(SpeakersOf(L, vo, v))
           /\ \A a \in SpeakersOf(L, vo, v) : vo[a] \in VoteOverride
           /\ Taken(L, vo, v) \in Nat
           /\ \A o \in Options : Pending(L, vo, v, o) \in Nat
<1> DEFINE D == SpeakersOf(L, vo, v)
           stake == [a \in D |-> L.delegated[a]]
<1>1. D \subseteq StakeAccounts /\ \A a \in D : vo[a] \in VoteOverride
  BY DEF SpeakersOf, Having, Overrides
<1>2. IsFiniteSet(D)
  BY <1>1, VotingAssumption, FS_Subset
<1>3. L.delegated \in [StakeAccounts -> Nat]
  BY DEF Snapshots
<1> HIDE DEF D
<1>4. Taken(L, vo, v) \in Nat
  <2>1. stake \in [D -> Nat] /\ Taken(L, vo, v) = Sum(stake)
    BY <1>1, <1>3 DEF Taken, D
  <2> HIDE DEF stake
  <2>2. QED
    BY <1>2, <2>1, SumType
<1>5. ASSUME NEW o \in Options
      PROVE  Pending(L, vo, v, o) \in Nat
  <2> DEFINE w == [a \in D |-> vo[a].lamports[o]]
  <2>1. w \in [D -> Nat] /\ Pending(L, vo, v, o) = Sum(w)
    BY <1>1 DEF Pending, D, VoteOverride
  <2> HIDE DEF w
  <2>2. QED
    BY <1>2, <2>1, SumType
<1>6. QED
  BY <1>1, <1>2, <1>4, <1>5 DEF D

\* A delegator of v speaks for the first time.
LEMMA SpeakerAdded ==
    ASSUME NEW L \in Snapshots, NEW vo \in Overrides, NEW new \in Overrides,
           NEW a \in StakeAccounts, vo[a] = None, new[a] # None,
           \A b \in StakeAccounts \ {a} : new[b] = vo[b]
    PROVE  LET v == L.validator_of[a]
           IN /\ Taken(L, new, v) = Taken(L, vo, v) + L.delegated[a]
              /\ \A w \in Validators \ {v} : Taken(L, new, w) = Taken(L, vo, w)
              /\ \A o \in Options :
                    /\ Pending(L, new, v, o) = Pending(L, vo, v, o) + new[a].lamports[o]
                    /\ \A w \in Validators \ {v} : Pending(L, new, w, o) = Pending(L, vo, w, o)
<1> DEFINE v == L.validator_of[a]
           D == SpeakersOf(L, vo, v)
           E == SpeakersOf(L, new, v)
           sD == [b \in D |-> L.delegated[b]]
           sE == [b \in E |-> L.delegated[b]]
<1>1. E = D \cup {a} /\ a \notin D
  BY DEF SpeakersOf, Having
<1>2. /\ IsFiniteSet(D) /\ D \subseteq StakeAccounts
      /\ \A b \in D : vo[b] \in VoteOverride
  BY SpeakersFacts
<1>3. \A b \in E : new[b] \in VoteOverride /\ b \in StakeAccounts
  BY SpeakersFacts
<1>4. \A b \in D : new[b] = vo[b]
  BY <1>1, <1>2
<1>5. L.delegated \in [StakeAccounts -> Nat]
  BY DEF Snapshots
<1>6. ASSUME NEW w \in Validators \ {v}
      PROVE  /\ SpeakersOf(L, new, w) = SpeakersOf(L, vo, w)
             /\ \A b \in SpeakersOf(L, vo, w) : new[b] = vo[b]
  BY DEF SpeakersOf, Having
<1>7. /\ Taken(L, vo, v) = Sum(sD) /\ Taken(L, new, v) = Sum(sE)
      /\ sE[a] = L.delegated[a]
  BY <1>1 DEF Taken
<1> HIDE DEF D, E, v
<1>8. sD \in [D -> Nat] /\ sE \in [E -> Nat] /\ \A b \in D : sE[b] = sD[b]
  BY <1>1, <1>2, <1>3, <1>5
<1> HIDE DEF sD, sE
<1>9. Sum(sE) = Sum(sD) + sE[a]
  BY ONLY <1>1, <1>2, <1>8, SumAdd
<1>10. ASSUME NEW o \in Options
       PROVE  /\ Pending(L, new, v, o) = Pending(L, vo, v, o) + new[a].lamports[o]
              /\ \A w \in Validators \ {v} : Pending(L, new, w, o) = Pending(L, vo, w, o)
  <2> DEFINE wD == [b \in D |-> vo[b].lamports[o]]
             wE == [b \in E |-> new[b].lamports[o]]
  <2>1. wD \in [D -> Nat] /\ wE \in [E -> Nat]
    BY <1>2, <1>3 DEF VoteOverride
  <2>2. (\A b \in D : wE[b] = wD[b]) /\ wE[a] = new[a].lamports[o]
    BY <1>1, <1>4
  <2>3. Pending(L, vo, v, o) = Sum(wD) /\ Pending(L, new, v, o) = Sum(wE)
    BY DEF Pending, D, E
  <2> HIDE DEF wD, wE
  <2>4. Sum(wE) = Sum(wD) + wE[a]
    BY ONLY <1>1, <1>2, <2>1, <2>2, SumAdd
  <2>5. \A w \in Validators \ {v} : Pending(L, new, w, o) = Pending(L, vo, w, o)
    BY <1>6 DEF Pending
  <2>6. QED
    BY <2>2, <2>3, <2>4, <2>5
<1>11. \A w \in Validators \ {v} : Taken(L, new, w) = Taken(L, vo, w)
  BY <1>6 DEF Taken
<1>12. QED
  BY <1>7, <1>9, <1>10, <1>11 DEF v

\* A delegator of v changes what it said.
LEMMA SpeakerChanged ==
    ASSUME NEW L \in Snapshots, NEW vo \in Overrides, NEW new \in Overrides,
           NEW a \in StakeAccounts, vo[a] # None, new[a] # None,
           \A b \in StakeAccounts \ {a} : new[b] = vo[b]
    PROVE  LET v == L.validator_of[a]
           IN /\ \A w \in Validators : Taken(L, new, w) = Taken(L, vo, w)
              /\ \A o \in Options :
                    /\ Pending(L, new, v, o) + vo[a].lamports[o]
                         = Pending(L, vo, v, o) + new[a].lamports[o]
                    /\ Pending(L, vo, v, o) >= vo[a].lamports[o]
                    /\ \A w \in Validators \ {v} : Pending(L, new, w, o) = Pending(L, vo, w, o)
<1> DEFINE v == L.validator_of[a]
           D == SpeakersOf(L, vo, v)
<1>1. SpeakersOf(L, new, v) = D /\ a \in D
  BY DEF SpeakersOf, Having
<1>2. /\ IsFiniteSet(D) /\ D \subseteq StakeAccounts
      /\ \A b \in D : vo[b] \in VoteOverride /\ new[b] \in VoteOverride
  BY <1>1, SpeakersFacts
<1>3. \A w \in Validators : SpeakersOf(L, new, w) = SpeakersOf(L, vo, w)
  BY DEF SpeakersOf, Having
<1>4. \A w \in Validators \ {v} : \A b \in SpeakersOf(L, vo, w) : new[b] = vo[b]
  BY DEF SpeakersOf, Having
<1> HIDE DEF D, v
<1>5. ASSUME NEW o \in Options
      PROVE  /\ Pending(L, new, v, o) + vo[a].lamports[o]
                  = Pending(L, vo, v, o) + new[a].lamports[o]
             /\ Pending(L, vo, v, o) >= vo[a].lamports[o]
             /\ \A w \in Validators \ {v} : Pending(L, new, w, o) = Pending(L, vo, w, o)
  <2> DEFINE wD == [b \in D |-> vo[b].lamports[o]]
             wE == [b \in D |-> new[b].lamports[o]]
  <2>1. wD \in [D -> Nat] /\ wE \in [D -> Nat]
    BY <1>2 DEF VoteOverride
  <2>2. \A b \in D \ {a} : wD[b] = wE[b]
    BY <1>2
  <2>3. wD[a] = vo[a].lamports[o] /\ wE[a] = new[a].lamports[o]
    BY <1>1
  <2>4. Pending(L, vo, v, o) = Sum(wD) /\ Pending(L, new, v, o) = Sum(wE)
    BY <1>1 DEF Pending, D
  <2> HIDE DEF wD, wE
  <2>5. Sum(wD) + wE[a] = Sum(wE) + wD[a] /\ Sum(wD) >= wD[a]
    BY ONLY <1>1, <1>2, <2>1, <2>2, SumChange
  <2>6. \A w \in Validators \ {v} : Pending(L, new, w, o) = Pending(L, vo, w, o)
    BY <1>3, <1>4 DEF Pending
  <2>7. QED
    BY <2>3, <2>4, <2>5, <2>6
<1>6. \A w \in Validators : Taken(L, new, w) = Taken(L, vo, w)
  BY <1>3 DEF Taken
<1>7. QED
  BY <1>5, <1>6 DEF v

(***************************************************************************)
(* Delegators never take more than their validator has, counting one who   *)
(* has yet to speak.                                                       *)
(***************************************************************************)
Fits(L) ==
    /\ L \in Snapshots
    /\ \A v \in Validators : Sum([a \in DelegatedTo(L, v) |-> L.delegated[a]]) <= L.active[v]

LEMMA TakenFits ==
    ASSUME NEW L, Fits(L), NEW vo \in Overrides, NEW v \in Validators
    PROVE  /\ Taken(L, vo, v) \in Nat /\ L.active[v] \in Nat
           /\ Taken(L, vo, v) <= L.active[v]
           /\ \A a \in StakeAccounts : L.validator_of[a] = v /\ vo[a] = None
                 => Taken(L, vo, v) + L.delegated[a] <= L.active[v]
<1> DEFINE D == SpeakersOf(L, vo, v)
           E == DelegatedTo(L, v)
           sD == [b \in D |-> L.delegated[b]]
           sE == [b \in E |-> L.delegated[b]]
<1>0. L \in Snapshots
  BY DEF Fits
<1>1. L.delegated \in [StakeAccounts -> Nat] /\ L.active \in [Validators -> Nat]
  BY <1>0 DEF Snapshots
<1>2. D \in SUBSET E /\ E \subseteq StakeAccounts
  BY DEF SpeakersOf, Having, DelegatedTo
<1>3. IsFiniteSet(E) /\ IsFiniteSet(D)
  BY <1>2, VotingAssumption, FS_Subset
<1>4. Taken(L, vo, v) = Sum(sD) /\ Sum(sE) <= L.active[v]
  BY DEF Taken, Fits
<1>a. \A a \in StakeAccounts : L.validator_of[a] = v /\ vo[a] = None => a \notin D /\ a \in E
  BY DEF SpeakersOf, Having, DelegatedTo
<1> HIDE DEF D, E
<1>5. sD \in [D -> Nat] /\ sE \in [E -> Nat] /\ \A b \in D : sD[b] <= sE[b]
  <2>1. sD \in [D -> Nat] /\ sE \in [E -> Nat]
    BY <1>1, <1>2
  <2>2. \A b \in D : sD[b] = sE[b]
    BY <1>2
  <2>3. QED
    BY <2>1, <2>2
<1> HIDE DEF sD, sE
<1>6. Sum(sD) \in Nat /\ Sum(sE) \in Nat /\ Sum(sD) <= Sum(sE)
  BY ONLY <1>2, <1>3, <1>5, SumMonotone
<1>7. ASSUME NEW a \in StakeAccounts, L.validator_of[a] = v, vo[a] = None
      PROVE  Taken(L, vo, v) + L.delegated[a] <= L.active[v]
  <2> DEFINE F == D \cup {a}
             sF == [b \in F |-> L.delegated[b]]
  <2>1. a \notin D /\ F \in SUBSET E
    BY <1>2, <1>7, <1>a
  <2>2. /\ sF \in [F -> Nat] /\ (\A b \in F : sF[b] <= sE[b])
        /\ (\A b \in D : sF[b] = sD[b]) /\ sF[a] = L.delegated[a]
    <3>1. \A b \in F : sF[b] = L.delegated[b] /\ L.delegated[b] \in Nat
      BY <1>1, <1>2, <2>1
    <3>2. (\A b \in F : sF[b] = sE[b]) /\ (\A b \in D : sF[b] = sD[b])
      BY <2>1, <3>1 DEF sD, sE
    <3>3. sF \in [F -> Nat]
      BY <3>1
    <3>4. QED
      BY <3>1, <3>2, <3>3
  <2>3. F = D \cup {a}
    OBVIOUS
  <2> HIDE DEF F, sF
  <2>4. Sum(sF) = Sum(sD) + sF[a]
    BY ONLY <1>3, <1>5, <2>1, <2>2, <2>3, SumAdd
  <2>5. Sum(sF) \in Nat /\ Sum(sF) <= Sum(sE)
    BY ONLY <1>3, <1>5, <2>1, <2>2, SumMonotone
  <2>6. QED
    BY <1>1, <1>4, <1>6, <2>2, <2>4, <2>5
<1>8. QED
  BY <1>1, <1>4, <1>6, <1>7

LEMMA SpokenAdded ==
    ASSUME NEW L \in Snapshots, NEW vo \in Overrides, NEW new \in Overrides,
           NEW a \in StakeAccounts, vo[a] = None, new[a] # None,
           \A b \in StakeAccounts \ {a} : new[b] = vo[b],
           TakenIsSpoken(L, vo)
    PROVE  TakenIsSpoken(L, new)
<1> DEFINE v == L.validator_of[a]
           D == Having(StakeAccounts, vo)
           E == Having(StakeAccounts, new)
           sD == [b \in D |-> L.delegated[b]]
           sE == [b \in E |-> L.delegated[b]]
           f == [w \in Validators |-> Taken(L, vo, w)]
           g == [w \in Validators |-> Taken(L, new, w)]
<1>1. E = D \cup {a} /\ a \notin D /\ D \subseteq StakeAccounts
  BY DEF Having
<1>2. IsFiniteSet(D) /\ IsFiniteSet(Validators)
  BY <1>1, VotingAssumption, ProposalAssumption, FS_Subset
<1>3. L.delegated \in [StakeAccounts -> Nat] /\ v \in Validators
  BY DEF Snapshots
<1>4. Taken(L, new, v) = Taken(L, vo, v) + L.delegated[a]
  BY SpeakerAdded
<1>5. \A w \in Validators \ {v} : Taken(L, new, w) = Taken(L, vo, w)
  BY SpeakerAdded
<1>6. \A w \in Validators : Taken(L, new, w) \in Nat /\ Taken(L, vo, w) \in Nat
  BY SpeakersFacts
<1>7. Sum(f) = Sum(sD)
  BY DEF TakenIsSpoken
<1> HIDE DEF v, D, E
<1>8. f \in [Validators -> Nat] /\ g \in [Validators -> Nat] /\ \A w \in Validators \ {v} : f[w] = g[w]
  BY <1>5, <1>6
<1>9. g[v] = f[v] + L.delegated[a] /\ f[v] \in Nat
  BY <1>3, <1>4, <1>6
<1>10. sD \in [D -> Nat] /\ sE \in [E -> Nat] /\ \A b \in D : sE[b] = sD[b]
  BY <1>1, <1>3
<1>11. sE[a] = L.delegated[a] /\ L.delegated[a] \in Nat
  BY <1>1, <1>3
<1>12. TakenIsSpoken(L, new) <=> Sum(g) = Sum(sE)
  BY DEF TakenIsSpoken, E
<1> HIDE DEF f, g, sD, sE
<1>13. Sum(f) \in Nat /\ Sum(g) \in Nat /\ Sum(f) + g[v] = Sum(g) + f[v]
  BY ONLY <1>2, <1>3, <1>8, SumChange
<1>14. Sum(sE) = Sum(sD) + sE[a]
  BY ONLY <1>1, <1>2, <1>10, SumAdd
<1>15. Sum(g) = Sum(f) + L.delegated[a]
  BY ONLY <1>9, <1>11, <1>13
<1>16. QED
  BY <1>7, <1>11, <1>12, <1>14, <1>15

LEMMA SpokenChanged ==
    ASSUME NEW L \in Snapshots, NEW vo \in Overrides, NEW new \in Overrides,
           NEW a \in StakeAccounts, vo[a] # None, new[a] # None,
           \A b \in StakeAccounts \ {a} : new[b] = vo[b],
           TakenIsSpoken(L, vo)
    PROVE  TakenIsSpoken(L, new)
<1>1. Having(StakeAccounts, new) = Having(StakeAccounts, vo)
  BY DEF Having
<1>2. \A w \in Validators : Taken(L, new, w) = Taken(L, vo, w)
  BY SpeakerChanged
<1>3. [w \in Validators |-> Taken(L, new, w)] = [w \in Validators |-> Taken(L, vo, w)]
  BY <1>2
<1>4. QED
  BY <1>1, <1>3 DEF TakenIsSpoken

\* A validator of which nothing is taken has no delegator who spoke.
LEMMA NothingTaken ==
    ASSUME NEW L \in Snapshots, NEW vo \in Overrides, NEW v,
           OverridesInOrder(L, vo), Taken(L, vo, v) = 0
    PROVE  \A o \in Options : Pending(L, vo, v, o) = 0
<1> DEFINE D == SpeakersOf(L, vo, v)
           sD == [b \in D |-> L.delegated[b]]
<1>1. IsFiniteSet(D) /\ D \subseteq StakeAccounts
  BY SpeakersFacts
<1>2. \A b \in D : L.delegated[b] > 0
  BY DEF SpeakersOf, OverridesInOrder
<1>3. Sum(sD) = 0
  BY DEF Taken
<1> HIDE DEF D
<1>4. sD \in [D -> Nat] /\ \A b \in D : sD[b] > 0
  BY <1>1, <1>2 DEF Snapshots
<1> HIDE DEF sD
<1>5. \A b \in D : Sum(sD) >= sD[b]
  BY ONLY <1>1, <1>4, SumChange
<1>6. D = {}
  BY <1>3, <1>4, <1>5
<1>7. ASSUME NEW o \in Options
      PROVE  Pending(L, vo, v, o) = 0
  <2> DEFINE w == [b \in D |-> vo[b].lamports[o]]
  <2>1. Pending(L, vo, v, o) = Sum(w)
    BY DEF Pending, D
  <2>2. DOMAIN w = {}
    BY <1>6
  <2> HIDE DEF w
  <2>3. QED
    BY <2>1, <2>2, SumEmpty
<1>8. QED
  BY <1>7

-----------------------------------------------------------------------------
(***************************************************************************)
(* Each instruction leaves the books in order.                             *)
(***************************************************************************)
Votes == [Validators -> Vote \cup {None}]
Caches == [Validators -> VoteOverrideCache \cup {None}]

LEMMA BooksFacts ==
    ASSUME NEW vt \in Votes, NEW vo \in Overrides
    PROVE  /\ \A v \in Having(Validators, vt) :
                 vt[v].lamports \in [Options -> Nat] /\ vt[v].bp \in [Options -> Nat]
           /\ \A a \in Having(StakeAccounts, vo) :
                 vo[a].lamports \in [Options -> Nat] /\ vo[a].bp \in [Options -> Nat]
           /\ \A o \in Options :
                 Weight(Validators, vt, o) \in Nat /\ Weight(StakeAccounts, vo, o) \in Nat
           /\ Cardinality(Having(Validators, vt)) \in Nat
           /\ Cardinality(Having(StakeAccounts, vo)) \in Nat
<1>1. ASSUME NEW v \in Having(Validators, vt)
      PROVE  vt[v].lamports \in [Options -> Nat] /\ vt[v].bp \in [Options -> Nat]
  <2>1. vt[v] \in Vote
    BY DEF Having, Votes
  <2>2. QED
    BY <2>1, VotingAssumption DEF Vote
<1>2. ASSUME NEW a \in Having(StakeAccounts, vo)
      PROVE  vo[a].lamports \in [Options -> Nat] /\ vo[a].bp \in [Options -> Nat]
  <2>1. vo[a] \in VoteOverride
    BY DEF Having, Overrides
  <2>2. QED
    BY <2>1, VotingAssumption DEF VoteOverride
<1>3. /\ IsFiniteSet(Having(Validators, vt)) /\ IsFiniteSet(Having(StakeAccounts, vo))
      /\ Cardinality(Having(Validators, vt)) \in Nat
      /\ Cardinality(Having(StakeAccounts, vo)) \in Nat
  BY HavingFinite, ProposalAssumption, VotingAssumption
<1>4. ASSUME NEW o \in Options
      PROVE  Weight(Validators, vt, o) \in Nat /\ Weight(StakeAccounts, vo, o) \in Nat
  <2> DEFINE f == [v \in Having(Validators, vt) |-> vt[v].lamports[o]]
             g == [a \in Having(StakeAccounts, vo) |-> vo[a].lamports[o]]
  <2>1. f \in [Having(Validators, vt) -> Nat] /\ g \in [Having(StakeAccounts, vo) -> Nat]
    BY <1>1, <1>2
  <2>2. Weight(Validators, vt, o) = Sum(f) /\ Weight(StakeAccounts, vo, o) = Sum(g)
    BY DEF Weight
  <2> HIDE DEF f, g
  <2>3. QED
    BY <1>3, <2>1, <2>2, SumType
<1>5. QED
  BY <1>1, <1>2, <1>3, <1>4

\* cast_vote
LEMMA CastInOrder ==
    ASSUME NEW L, Fits(L), NEW vt \in Votes, NEW vo \in Overrides, NEW vc \in Caches,
           NEW totals \in [Options -> Nat], NEW count \in Nat,
           InOrder(L, vt, vo, vc, totals, count),
           NEW v \in Validators, vt[v] = None,
           NEW new \in Votes, new[v] # None, \A w \in Validators \ {v} : new[w] = vt[w],
           ValidDistribution(new[v].bp), new[v].stake = L.active[v],
           new[v].override_lamports = CacheOf(vc, v).total_stake,
           new[v].lamports = vote_lamports(L.active[v] - CacheOf(vc, v).total_stake, new[v].bp)
    PROVE  InOrder(L, new, vo, vc, Plus(totals, new[v].lamports), count + 1)
<1>0. VotesInOrder(L, vt, vo) /\ OverridesInOrder(L, vo) /\ CachesInOrder(L, vt, vo, vc)
  BY DEF InOrder
<1>a. TotalsInOrder(vt, vo, totals) /\ TakenIsSpoken(L, vo) /\ VotesCounted(vt, vo, count)
  BY DEF InOrder
<1>1. /\ \A w \in Having(Validators, vt) : vt[w].lamports \in [Options -> Nat]
      /\ \A w \in Having(Validators, new) : new[w].lamports \in [Options -> Nat]
  BY BooksFacts
<1>2. /\ Having(Validators, new) = Having(Validators, vt) \cup {v}
      /\ Cardinality(Having(Validators, new)) = Cardinality(Having(Validators, vt)) + 1
      /\ \A o \in Options :
            Weight(Validators, new, o) = Weight(Validators, vt, o) + new[v].lamports[o]
      /\ \A o \in Options : Weight(Validators, vt, o) \in Nat
  BY <1>1, ProposalAssumption, WeightAdded, SMTT(40)
<1>3. CacheOf(vc, v).total_stake = Taken(L, vo, v)
  BY <1>0 DEF CachesInOrder
<1>4. VotesInOrder(L, new, vo)
  <2> SUFFICES ASSUME NEW w \in Having(Validators, new)
               PROVE  /\ new[w].stake = L.active[w]
                      /\ new[w].override_lamports = Taken(L, vo, w)
                      /\ ValidDistribution(new[w].bp)
                      /\ new[w].lamports = vote_lamports(L.active[w] - Taken(L, vo, w), new[w].bp)
    BY DEF VotesInOrder
  <2>1. CASE w = v
    BY <1>3, <2>1
  <2>2. CASE w # v
    <3>1. w \in Having(Validators, vt) /\ new[w] = vt[w]
      BY <1>2, <2>2 DEF Having
    <3>2. QED
      BY <1>0, <3>1 DEF VotesInOrder
  <2>3. QED
    BY <2>1, <2>2
<1>5. CachesInOrder(L, new, vo, vc)
  BY <1>0 DEF CachesInOrder
<1>6. TotalsInOrder(new, vo, Plus(totals, new[v].lamports))
  <2>1. ASSUME NEW o \in Options
        PROVE  Plus(totals, new[v].lamports)[o]
                 = Weight(Validators, new, o) + Weight(StakeAccounts, vo, o)
    <3>1. Plus(totals, new[v].lamports)[o] = totals[o] + new[v].lamports[o]
      BY DEF Plus
    <3>2. totals[o] = Weight(Validators, vt, o) + Weight(StakeAccounts, vo, o)
      BY <1>a DEF TotalsInOrder
    <3>3. new[v].lamports[o] \in Nat
      BY <1>1, <1>2
    <3>4. Weight(StakeAccounts, vo, o) \in Nat
      BY BooksFacts
    <3>5. QED
      BY ONLY <1>2, <3>1, <3>2, <3>3, <3>4, o \in Options
  <2>2. QED
    BY <2>1 DEF TotalsInOrder
<1>7. VotesCounted(new, vo, count + 1)
  <2>1. Cardinality(Having(Validators, vt)) \in Nat /\ Cardinality(Having(StakeAccounts, vo)) \in Nat
    BY BooksFacts
  <2>2. QED
    BY ONLY <1>2, <1>a, <2>1, count \in Nat DEF VotesCounted
<1>8. QED
  BY <1>0, <1>a, <1>4, <1>5, <1>6, <1>7 DEF InOrder

\* modify_vote
LEMMA ModifyInOrder ==
    ASSUME NEW L, Fits(L), NEW vt \in Votes, NEW vo \in Overrides, NEW vc \in Caches,
           NEW totals \in [Options -> Nat], NEW count \in Nat,
           InOrder(L, vt, vo, vc, totals, count),
           NEW v \in Validators, vt[v] # None,
           NEW new \in Votes, new[v] # None, \A w \in Validators \ {v} : new[w] = vt[w],
           ValidDistribution(new[v].bp), new[v].stake = vt[v].stake,
           new[v].override_lamports = vt[v].override_lamports,
           new[v].lamports = vote_lamports(L.active[v] - vt[v].override_lamports, new[v].bp)
    PROVE  InOrder(L, new, vo, vc, Plus(Minus(totals, vt[v].lamports), new[v].lamports), count)
<1>0. VotesInOrder(L, vt, vo) /\ OverridesInOrder(L, vo) /\ CachesInOrder(L, vt, vo, vc)
  BY DEF InOrder
<1>a. TotalsInOrder(vt, vo, totals) /\ TakenIsSpoken(L, vo) /\ VotesCounted(vt, vo, count)
  BY DEF InOrder
<1>1. /\ \A w \in Having(Validators, vt) : vt[w].lamports \in [Options -> Nat]
      /\ \A w \in Having(Validators, new) : new[w].lamports \in [Options -> Nat]
  BY BooksFacts
<1>2. /\ Having(Validators, new) = Having(Validators, vt) /\ v \in Having(Validators, vt)
      /\ \A o \in Options :
            /\ Weight(Validators, vt, o) \in Nat /\ Weight(Validators, new, o) \in Nat
            /\ Weight(Validators, new, o) + vt[v].lamports[o]
                 = Weight(Validators, vt, o) + new[v].lamports[o]
            /\ Weight(Validators, vt, o) >= vt[v].lamports[o]
  BY <1>1, ProposalAssumption, WeightChanged
<1>3. VotesInOrder(L, new, vo)
  <2> SUFFICES ASSUME NEW w \in Having(Validators, new)
               PROVE  /\ new[w].stake = L.active[w]
                      /\ new[w].override_lamports = Taken(L, vo, w)
                      /\ ValidDistribution(new[w].bp)
                      /\ new[w].lamports = vote_lamports(L.active[w] - Taken(L, vo, w), new[w].bp)
    BY DEF VotesInOrder
  <2>1. /\ w \in Having(Validators, vt)
        /\ vt[w].stake = L.active[w] /\ vt[w].override_lamports = Taken(L, vo, w)
    BY <1>0, <1>2 DEF VotesInOrder
  <2>2. CASE w = v
    BY <2>1, <2>2
  <2>3. CASE w # v
    <3>1. new[w] = vt[w]
      BY <2>1, <2>3 DEF Having
    <3>2. QED
      BY <1>0, <2>1, <3>1 DEF VotesInOrder
  <2>4. QED
    BY <2>2, <2>3
<1>4. CachesInOrder(L, new, vo, vc)
  BY <1>0 DEF CachesInOrder
<1>5. ASSUME NEW o \in Options
      PROVE  Plus(Minus(totals, vt[v].lamports), new[v].lamports)[o]
               = Weight(Validators, new, o) + Weight(StakeAccounts, vo, o)
  <2>1. Plus(Minus(totals, vt[v].lamports), new[v].lamports)[o]
          = totals[o] - vt[v].lamports[o] + new[v].lamports[o]
    BY DEF Plus, Minus
  <2>2. totals[o] = Weight(Validators, vt, o) + Weight(StakeAccounts, vo, o)
    BY <1>a DEF TotalsInOrder
  <2>3. new[v].lamports[o] \in Nat /\ vt[v].lamports[o] \in Nat
    BY <1>1, <1>2
  <2>4. Weight(StakeAccounts, vo, o) \in Nat
    BY BooksFacts
  <2>5. QED
    BY ONLY <1>2, <2>1, <2>2, <2>3, <2>4, o \in Options
<1>6. VotesCounted(new, vo, count)
  BY <1>2, <1>a DEF VotesCounted
<1>7. TotalsInOrder(new, vo, Plus(Minus(totals, vt[v].lamports), new[v].lamports))
  BY <1>5 DEF TotalsInOrder
<1>8. QED
  BY <1>0, <1>a, <1>3, <1>4, <1>6, <1>7 DEF InOrder

\* Delegator a of v speaks for the first time: nvo is what vo becomes.
Speaks(L, a, v, vo, nvo) ==
    /\ a \in StakeAccounts /\ v \in Validators /\ v = L.validator_of[a]
    /\ L.delegated[a] > 0
    /\ vo \in Overrides /\ vo[a] = None
    /\ nvo \in Overrides /\ nvo[a] # None /\ \A b \in StakeAccounts \ {a} : nvo[b] = vo[b]
    /\ ValidDistribution(nvo[a].bp) /\ nvo[a].stake_amount = L.delegated[a]
    /\ nvo[a].lamports = vote_lamports(L.delegated[a], nvo[a].bp)

\* What the one who speaks adds to the overrides there are.
LEMMA SpeakerWeighs ==
    ASSUME NEW L, NEW a, NEW v, NEW vo, NEW nvo, Speaks(L, a, v, vo, nvo)
    PROVE  /\ Having(StakeAccounts, nvo) = Having(StakeAccounts, vo) \cup {a}
           /\ Cardinality(Having(StakeAccounts, nvo)) = Cardinality(Having(StakeAccounts, vo)) + 1
           /\ \A o \in Options :
                 /\ Weight(StakeAccounts, vo, o) \in Nat
                 /\ Weight(StakeAccounts, nvo, o) = Weight(StakeAccounts, vo, o) + nvo[a].lamports[o]
<1>1. /\ a \in StakeAccounts /\ vo \in Overrides /\ nvo \in Overrides
      /\ vo[a] = None /\ nvo[a] # None /\ \A b \in StakeAccounts \ {a} : nvo[b] = vo[b]
  BY DEF Speaks
<1>2. /\ \A b \in Having(StakeAccounts, vo) : vo[b].lamports \in [Options -> Nat]
      /\ \A b \in Having(StakeAccounts, nvo) : nvo[b].lamports \in [Options -> Nat]
  BY <1>1, BooksFacts DEF Having, Overrides, VoteOverride
<1>3. IsFiniteSet(StakeAccounts)
  BY VotingAssumption
<1>4. QED
  BY ONLY <1>1, <1>2, <1>3, WeightAdded

\* The vote of v gives up the stake of delegator a.
GivesUp(L, a, v, vt, nvt) ==
    /\ vt \in Votes /\ vt[v] # None
    /\ nvt \in Votes /\ nvt[v] # None /\ \A w \in Validators \ {v} : nvt[w] = vt[w]
    /\ nvt[v].bp = vt[v].bp /\ nvt[v].stake = vt[v].stake
    /\ nvt[v].override_lamports = vt[v].override_lamports + L.delegated[a]
    /\ nvt[v].lamports =
          vote_lamports(L.active[v] - (L.delegated[a] + vt[v].override_lamports), vt[v].bp)

\* The cache of v takes in what delegator a said.
TakesIn(L, a, v, nvo, vc, nvc) ==
    /\ vc \in Caches
    /\ nvc \in Caches /\ nvc[v] # None /\ \A w \in Validators \ {v} : nvc[w] = vc[w]
    /\ nvc[v] = IF CacheOf(vc, v).total_stake = 0
                THEN [lamports |-> nvo[a].lamports, total_stake |-> L.delegated[a]]
                ELSE [lamports |-> Plus(CacheOf(vc, v).lamports, nvo[a].lamports),
                      total_stake |-> CacheOf(vc, v).total_stake + L.delegated[a]]

\* cast_vote_override when the validator has voted
LEMMA OverrideVotedInOrder ==
    ASSUME NEW L, Fits(L), NEW vt, NEW vo, NEW vc \in Caches,
           NEW totals \in [Options -> Nat], NEW count \in Nat,
           InOrder(L, vt, vo, vc, totals, count),
           NEW a, NEW v, NEW nvt, NEW nvo, Speaks(L, a, v, vo, nvo), GivesUp(L, a, v, vt, nvt),
           NEW nvc \in Caches, \A w \in Validators \ {v} : nvc[w] = vc[w]
    PROVE  InOrder(L, nvt, nvo, nvc,
                   Plus(Plus(Minus(totals, vt[v].lamports), nvo[a].lamports), nvt[v].lamports),
                   count + 1)
<1> USE DEF Speaks, GivesUp
<1>0. VotesInOrder(L, vt, vo) /\ OverridesInOrder(L, vo) /\ CachesInOrder(L, vt, vo, vc)
  BY DEF InOrder
<1>a. TotalsInOrder(vt, vo, totals) /\ TakenIsSpoken(L, vo) /\ VotesCounted(vt, vo, count)
  BY DEF InOrder
<1>b. L \in Snapshots /\ L.delegated \in [StakeAccounts -> Nat] /\ L.active \in [Validators -> Nat]
  BY DEF Fits, Snapshots
<1>1. /\ \A w \in Having(Validators, vt) : vt[w].lamports \in [Options -> Nat]
      /\ \A w \in Having(Validators, nvt) : nvt[w].lamports \in [Options -> Nat]
      /\ \A b \in Having(StakeAccounts, vo) : vo[b].lamports \in [Options -> Nat]
      /\ \A b \in Having(StakeAccounts, nvo) : nvo[b].lamports \in [Options -> Nat]
  BY BooksFacts, SMTT(40)
<1>2. /\ Having(Validators, nvt) = Having(Validators, vt) /\ v \in Having(Validators, vt)
      /\ \A o \in Options :
            /\ Weight(Validators, vt, o) \in Nat /\ Weight(Validators, nvt, o) \in Nat
            /\ Weight(Validators, nvt, o) + vt[v].lamports[o]
                 = Weight(Validators, vt, o) + nvt[v].lamports[o]
            /\ Weight(Validators, vt, o) >= vt[v].lamports[o]
  BY <1>1, ProposalAssumption, WeightChanged, SMTT(40)
<1>3. /\ Having(StakeAccounts, nvo) = Having(StakeAccounts, vo) \cup {a}
      /\ Cardinality(Having(StakeAccounts, nvo)) = Cardinality(Having(StakeAccounts, vo)) + 1
      /\ \A o \in Options :
            /\ Weight(StakeAccounts, vo, o) \in Nat
            /\ Weight(StakeAccounts, nvo, o) = Weight(StakeAccounts, vo, o) + nvo[a].lamports[o]
  BY SpeakerWeighs
<1>4. Taken(L, nvo, v) = Taken(L, vo, v) + L.delegated[a]
  BY <1>b, SpeakerAdded
<1>5. \A w \in Validators \ {v} :
         /\ Taken(L, nvo, w) = Taken(L, vo, w)
         /\ \A o \in Options : Pending(L, nvo, w, o) = Pending(L, vo, w, o)
  BY <1>b, SpeakerAdded
<1>6. Taken(L, vo, v) \in Nat
  BY <1>b, SpeakersFacts
<1>7. VotesInOrder(L, nvt, nvo)
  <2> SUFFICES ASSUME NEW w \in Having(Validators, nvt)
               PROVE  /\ nvt[w].stake = L.active[w]
                      /\ nvt[w].override_lamports = Taken(L, nvo, w)
                      /\ ValidDistribution(nvt[w].bp)
                      /\ nvt[w].lamports = vote_lamports(L.active[w] - Taken(L, nvo, w), nvt[w].bp)
    BY SMTT(40) DEF VotesInOrder
  <2>1. /\ w \in Having(Validators, vt) /\ w \in Validators
        /\ vt[w].stake = L.active[w] /\ vt[w].override_lamports = Taken(L, vo, w)
        /\ ValidDistribution(vt[w].bp)
        /\ vt[w].lamports = vote_lamports(L.active[w] - Taken(L, vo, w), vt[w].bp)
    BY <1>0, <1>2 DEF VotesInOrder, Having
  <2>2. CASE w = v
    <3>1. L.delegated[a] + vt[v].override_lamports = Taken(L, nvo, v)
      BY <1>4, <1>6, <1>b, <2>1, <2>2
    <3>2. nvt[v].override_lamports = Taken(L, nvo, v)
      BY <1>4, <2>1, <2>2
    <3>3. QED
      BY <2>1, <2>2, <3>1, <3>2
  <2>3. CASE w # v
    BY <1>5, <2>1, <2>3
  <2>4. QED
    BY <2>2, <2>3
<1>8. OverridesInOrder(L, nvo)
  <2> SUFFICES ASSUME NEW b \in Having(StakeAccounts, nvo)
               PROVE  /\ L.delegated[b] > 0 /\ nvo[b].stake_amount = L.delegated[b]
                      /\ ValidDistribution(nvo[b].bp)
                      /\ nvo[b].lamports = vote_lamports(L.delegated[b], nvo[b].bp)
    BY DEF OverridesInOrder
  <2>1. CASE b = a
    BY <2>1
  <2>2. CASE b # a
    <3>1. b \in Having(StakeAccounts, vo) /\ nvo[b] = vo[b]
      BY <1>3, <2>2 DEF Having
    <3>2. QED
      BY <1>0, <3>1 DEF OverridesInOrder
  <2>3. QED
    BY <2>1, <2>2
<1>9. CachesInOrder(L, nvt, nvo, nvc)
  <2> SUFFICES ASSUME NEW w \in Validators, nvt[w] = None
               PROVE  /\ CacheOf(nvc, w).total_stake = Taken(L, nvo, w)
                      /\ \A o \in Options : CacheOf(nvc, w).lamports[o] = Pending(L, nvo, w, o)
    BY DEF CachesInOrder
  <2>1. w # v /\ vt[w] = None /\ CacheOf(nvc, w) = CacheOf(vc, w)
    BY DEF CacheOf
  <2>2. QED
    BY <1>0, <1>5, <2>1 DEF CachesInOrder
<1>10. ASSUME NEW o \in Options
       PROVE  Plus(Plus(Minus(totals, vt[v].lamports), nvo[a].lamports), nvt[v].lamports)[o]
                = Weight(Validators, nvt, o) + Weight(StakeAccounts, nvo, o)
  <2>1. Plus(Plus(Minus(totals, vt[v].lamports), nvo[a].lamports), nvt[v].lamports)[o]
          = totals[o] - vt[v].lamports[o] + nvo[a].lamports[o] + nvt[v].lamports[o]
    BY DEF Plus, Minus
  <2>2. totals[o] = Weight(Validators, vt, o) + Weight(StakeAccounts, vo, o)
    BY <1>a, o \in Options, SMTT(40) DEF TotalsInOrder
  <2>3. nvt[v].lamports[o] \in Nat /\ vt[v].lamports[o] \in Nat /\ nvo[a].lamports[o] \in Nat
    BY <1>1, <1>2, <1>3, SMTT(40)
  <2>4. QED
    BY ONLY <1>2, <1>3, <2>1, <2>2, <2>3, o \in Options
<1>11. VotesCounted(nvt, nvo, count + 1)
  <2>1. Cardinality(Having(Validators, vt)) \in Nat /\ Cardinality(Having(StakeAccounts, vo)) \in Nat
    BY BooksFacts
  <2>2. QED
    BY ONLY <1>2, <1>3, <1>a, <2>1, count \in Nat DEF VotesCounted
<1>12. TakenIsSpoken(L, nvo)
  BY <1>a, <1>b, SpokenAdded, SMTT(40)
<1>13. TotalsInOrder(nvt, nvo,
          Plus(Plus(Minus(totals, vt[v].lamports), nvo[a].lamports), nvt[v].lamports))
  BY <1>10 DEF TotalsInOrder
<1>14. QED
  BY <1>7, <1>8, <1>9, <1>11, <1>12, <1>13 DEF InOrder

\* cast_vote_override before the validator votes
LEMMA OverrideUnvotedInOrder ==
    ASSUME NEW L, Fits(L), NEW vt \in Votes, NEW vo, NEW vc,
           NEW totals \in [Options -> Nat], NEW count \in Nat,
           InOrder(L, vt, vo, vc, totals, count),
           NEW a, NEW v, vt[v] = None,
           NEW nvo, NEW nvc, Speaks(L, a, v, vo, nvo), TakesIn(L, a, v, nvo, vc, nvc)
    PROVE  InOrder(L, vt, nvo, nvc, Plus(totals, nvo[a].lamports), count + 1)
<1> USE DEF Speaks, TakesIn
<1>0. VotesInOrder(L, vt, vo) /\ OverridesInOrder(L, vo) /\ CachesInOrder(L, vt, vo, vc)
  BY DEF InOrder
<1>a. TotalsInOrder(vt, vo, totals) /\ TakenIsSpoken(L, vo) /\ VotesCounted(vt, vo, count)
  BY DEF InOrder
<1>b. L \in Snapshots /\ L.delegated \in [StakeAccounts -> Nat]
  BY DEF Fits, Snapshots
<1>1. /\ \A b \in Having(StakeAccounts, vo) : vo[b].lamports \in [Options -> Nat]
      /\ \A b \in Having(StakeAccounts, nvo) : nvo[b].lamports \in [Options -> Nat]
  BY BooksFacts
<1>3. /\ Having(StakeAccounts, nvo) = Having(StakeAccounts, vo) \cup {a}
      /\ Cardinality(Having(StakeAccounts, nvo)) = Cardinality(Having(StakeAccounts, vo)) + 1
      /\ \A o \in Options :
            /\ Weight(StakeAccounts, vo, o) \in Nat
            /\ Weight(StakeAccounts, nvo, o) = Weight(StakeAccounts, vo, o) + nvo[a].lamports[o]
  BY SpeakerWeighs
<1>4. /\ Taken(L, nvo, v) = Taken(L, vo, v) + L.delegated[a]
      /\ \A o \in Options : Pending(L, nvo, v, o) = Pending(L, vo, v, o) + nvo[a].lamports[o]
  BY <1>b, SpeakerAdded
<1>5. \A w \in Validators \ {v} :
         /\ Taken(L, nvo, w) = Taken(L, vo, w)
         /\ \A o \in Options : Pending(L, nvo, w, o) = Pending(L, vo, w, o)
  BY <1>b, SpeakerAdded
<1>6. Taken(L, vo, v) \in Nat /\ \A o \in Options : Pending(L, vo, v, o) \in Nat
  BY <1>b, SpeakersFacts
<1>c. nvo[a].lamports \in [Options -> Nat]
  BY <1>1, <1>3
<1>7. VotesInOrder(L, vt, nvo)
  <2> SUFFICES ASSUME NEW w \in Having(Validators, vt)
               PROVE  /\ vt[w].stake = L.active[w]
                      /\ vt[w].override_lamports = Taken(L, nvo, w)
                      /\ ValidDistribution(vt[w].bp)
                      /\ vt[w].lamports = vote_lamports(L.active[w] - Taken(L, nvo, w), vt[w].bp)
    BY DEF VotesInOrder
  <2>1. Taken(L, nvo, w) = Taken(L, vo, w)
    BY <1>5 DEF Having
  <2>2. QED
    BY <1>0, <2>1 DEF VotesInOrder
<1>8. OverridesInOrder(L, nvo)
  <2> SUFFICES ASSUME NEW b \in Having(StakeAccounts, nvo)
               PROVE  /\ L.delegated[b] > 0 /\ nvo[b].stake_amount = L.delegated[b]
                      /\ ValidDistribution(nvo[b].bp)
                      /\ nvo[b].lamports = vote_lamports(L.delegated[b], nvo[b].bp)
    BY DEF OverridesInOrder
  <2>1. CASE b = a
    BY <2>1
  <2>2. CASE b # a
    <3>1. b \in Having(StakeAccounts, vo) /\ nvo[b] = vo[b]
      BY <1>3, <2>2 DEF Having
    <3>2. QED
      BY <1>0, <3>1 DEF OverridesInOrder
  <2>3. QED
    BY <2>1, <2>2
<1>9. CachesInOrder(L, vt, nvo, nvc)
  <2> SUFFICES ASSUME NEW w \in Validators, vt[w] = None
               PROVE  /\ CacheOf(nvc, w).total_stake = Taken(L, nvo, w)
                      /\ \A o \in Options : CacheOf(nvc, w).lamports[o] = Pending(L, nvo, w, o)
    BY DEF CachesInOrder
  <2>1. CASE w # v
    <3>1. CacheOf(nvc, w) = CacheOf(vc, w)
      BY <2>1 DEF CacheOf
    <3>2. QED
      BY <1>0, <1>5, <2>1, <3>1 DEF CachesInOrder
  <2>2. CASE w = v
    <3>1. CacheOf(nvc, v) = nvc[v]
      BY DEF CacheOf
    <3>2. /\ CacheOf(vc, v).total_stake = Taken(L, vo, v)
          /\ \A o \in Options : CacheOf(vc, v).lamports[o] = Pending(L, vo, v, o)
      BY <1>0 DEF CachesInOrder
    <3>3. CASE Taken(L, vo, v) = 0
      <4>1. nvc[v].lamports = nvo[a].lamports /\ nvc[v].total_stake = L.delegated[a]
        BY <3>2, <3>3
      <4>2. \A o \in Options : Pending(L, vo, v, o) = 0
        BY <1>0, <1>b, <3>3, NothingTaken
      <4>3. \A o \in Options : nvo[a].lamports[o] = 0 + nvo[a].lamports[o]
        BY <1>c
      <4>4. L.delegated[a] = 0 + L.delegated[a]
        BY <1>b
      <4>5. QED
        BY <1>4, <2>2, <3>1, <3>3, <4>1, <4>2, <4>3, <4>4
    <3>4. CASE Taken(L, vo, v) # 0
      <4>1. /\ nvc[v].lamports = Plus(CacheOf(vc, v).lamports, nvo[a].lamports)
            /\ nvc[v].total_stake = CacheOf(vc, v).total_stake + L.delegated[a]
        BY <3>2, <3>4
      <4>2. \A o \in Options : nvc[v].lamports[o] = Pending(L, vo, v, o) + nvo[a].lamports[o]
        BY <3>2, <4>1 DEF Plus
      <4>3. QED
        BY <1>4, <2>2, <3>1, <3>2, <4>1, <4>2
    <3>5. QED
      BY <3>3, <3>4
  <2>3. QED
    BY <2>1, <2>2
<1>10. TotalsInOrder(vt, nvo, Plus(totals, nvo[a].lamports))
  <2>1. ASSUME NEW o \in Options
        PROVE  Plus(totals, nvo[a].lamports)[o]
                 = Weight(Validators, vt, o) + Weight(StakeAccounts, nvo, o)
    <3>1. Plus(totals, nvo[a].lamports)[o] = totals[o] + nvo[a].lamports[o]
      BY DEF Plus
    <3>2. totals[o] = Weight(Validators, vt, o) + Weight(StakeAccounts, vo, o)
      BY <1>a DEF TotalsInOrder
    <3>3. nvo[a].lamports[o] \in Nat /\ Weight(Validators, vt, o) \in Nat
      BY <1>c, BooksFacts
    <3>4. QED
      BY ONLY <1>3, <3>1, <3>2, <3>3, o \in Options
  <2>2. QED
    BY <2>1 DEF TotalsInOrder
<1>11. VotesCounted(vt, nvo, count + 1)
  <2>1. Cardinality(Having(Validators, vt)) \in Nat /\ Cardinality(Having(StakeAccounts, vo)) \in Nat
    BY BooksFacts
  <2>2. QED
    BY ONLY <1>3, <1>a, <2>1, count \in Nat DEF VotesCounted
<1>12. TakenIsSpoken(L, nvo)
  BY <1>a, <1>b, SpokenAdded
<1>13. QED
  BY <1>7, <1>8, <1>9, <1>10, <1>11, <1>12 DEF InOrder

\* Delegator a of v changes what it said.
Changes(L, a, v, vo, nvo) ==
    /\ a \in StakeAccounts /\ v \in Validators /\ v = L.validator_of[a]
    /\ vo \in Overrides /\ vo[a] # None
    /\ nvo \in Overrides /\ nvo[a] # None /\ \A b \in StakeAccounts \ {a} : nvo[b] = vo[b]
    /\ ValidDistribution(nvo[a].bp) /\ nvo[a].stake_amount = vo[a].stake_amount
    /\ nvo[a].lamports = vote_lamports(L.delegated[a], nvo[a].bp)

\* The cache of v, if v has not voted, follows delegator a.
Follows(a, v, vt, vo, nvo, vc, nvc) ==
    /\ vc \in Caches /\ nvc \in Caches
    /\ \A w \in Validators \ {v} : nvc[w] = vc[w]
    /\ vt[v] = None =>
          /\ vc[v] # None /\ nvc[v] # None
          /\ nvc[v].total_stake = vc[v].total_stake
          /\ nvc[v].lamports = Plus(Minus(vc[v].lamports, vo[a].lamports), nvo[a].lamports)

\* modify_vote_override
LEMMA ModifyOverrideInOrder ==
    ASSUME NEW L, Fits(L), NEW vt \in Votes, NEW vo, NEW vc,
           NEW totals \in [Options -> Nat], NEW count \in Nat,
           InOrder(L, vt, vo, vc, totals, count),
           NEW a, NEW v, NEW nvo, NEW nvc,
           Changes(L, a, v, vo, nvo), Follows(a, v, vt, vo, nvo, vc, nvc)
    PROVE  InOrder(L, vt, nvo, nvc, Plus(Minus(totals, vo[a].lamports), nvo[a].lamports), count)
<1> USE DEF Changes, Follows
<1>0. VotesInOrder(L, vt, vo) /\ OverridesInOrder(L, vo) /\ CachesInOrder(L, vt, vo, vc)
  BY DEF InOrder
<1>a. TotalsInOrder(vt, vo, totals) /\ TakenIsSpoken(L, vo) /\ VotesCounted(vt, vo, count)
  BY DEF InOrder
<1>b. L \in Snapshots /\ L.delegated \in [StakeAccounts -> Nat]
  BY DEF Fits, Snapshots
<1>1. /\ \A b \in Having(StakeAccounts, vo) : vo[b].lamports \in [Options -> Nat]
      /\ \A b \in Having(StakeAccounts, nvo) : nvo[b].lamports \in [Options -> Nat]
  BY BooksFacts
<1>2. /\ Having(StakeAccounts, nvo) = Having(StakeAccounts, vo) /\ a \in Having(StakeAccounts, vo)
      /\ \A o \in Options :
            /\ Weight(StakeAccounts, vo, o) \in Nat /\ Weight(StakeAccounts, nvo, o) \in Nat
            /\ Weight(StakeAccounts, nvo, o) + vo[a].lamports[o]
                 = Weight(StakeAccounts, vo, o) + nvo[a].lamports[o]
            /\ Weight(StakeAccounts, vo, o) >= vo[a].lamports[o]
  BY <1>1, VotingAssumption, WeightChanged
<1>c. nvo[a].lamports \in [Options -> Nat] /\ vo[a].lamports \in [Options -> Nat]
  BY <1>1, <1>2
<1>3. \A w \in Validators : Taken(L, nvo, w) = Taken(L, vo, w)
  BY <1>b, SpeakerChanged
<1>4. \A o \in Options :
         /\ Pending(L, nvo, v, o) + vo[a].lamports[o] = Pending(L, vo, v, o) + nvo[a].lamports[o]
         /\ Pending(L, vo, v, o) >= vo[a].lamports[o]
         /\ \A w \in Validators \ {v} : Pending(L, nvo, w, o) = Pending(L, vo, w, o)
  BY <1>b, SpeakerChanged
<1>5. \A o \in Options : Pending(L, vo, v, o) \in Nat /\ Pending(L, nvo, v, o) \in Nat
  BY <1>b, SpeakersFacts
<1>6. VotesInOrder(L, vt, nvo)
  BY <1>0, <1>3 DEF VotesInOrder, Having
<1>7. OverridesInOrder(L, nvo)
  <2> SUFFICES ASSUME NEW b \in Having(StakeAccounts, nvo)
               PROVE  /\ L.delegated[b] > 0 /\ nvo[b].stake_amount = L.delegated[b]
                      /\ ValidDistribution(nvo[b].bp)
                      /\ nvo[b].lamports = vote_lamports(L.delegated[b], nvo[b].bp)
    BY DEF OverridesInOrder
  <2>1. /\ b \in Having(StakeAccounts, vo)
        /\ L.delegated[b] > 0 /\ vo[b].stake_amount = L.delegated[b]
    BY <1>0, <1>2 DEF OverridesInOrder
  <2>2. CASE b = a
    BY <2>1, <2>2
  <2>3. CASE b # a
    <3>1. nvo[b] = vo[b]
      BY <2>1, <2>3 DEF Having
    <3>2. QED
      BY <1>0, <2>1, <3>1 DEF OverridesInOrder
  <2>4. QED
    BY <2>2, <2>3
<1>8. ASSUME vt[v] = None
      PROVE  /\ nvc[v].total_stake = Taken(L, nvo, v)
             /\ \A o \in Options : nvc[v].lamports[o] = Pending(L, nvo, v, o)
  <2>1. /\ vc[v].total_stake = Taken(L, vo, v)
        /\ \A o \in Options : vc[v].lamports[o] = Pending(L, vo, v, o)
    BY <1>0, <1>8 DEF CachesInOrder, CacheOf
  <2>2. ASSUME NEW o \in Options
        PROVE  nvc[v].lamports[o] = Pending(L, nvo, v, o)
    <3>1. nvc[v].lamports[o] = vc[v].lamports[o] - vo[a].lamports[o] + nvo[a].lamports[o]
      BY <1>8 DEF Plus, Minus
    <3>2. vo[a].lamports[o] \in Nat /\ nvo[a].lamports[o] \in Nat
      BY <1>c
    <3>3. QED
      BY ONLY <1>4, <1>5, <2>1, <3>1, <3>2, o \in Options
  <2>3. QED
    BY <1>3, <1>8, <2>1, <2>2
<1>9. CachesInOrder(L, vt, nvo, nvc)
  <2> SUFFICES ASSUME NEW w \in Validators, vt[w] = None
               PROVE  /\ CacheOf(nvc, w).total_stake = Taken(L, nvo, w)
                      /\ \A o \in Options : CacheOf(nvc, w).lamports[o] = Pending(L, nvo, w, o)
    BY DEF CachesInOrder
  <2>1. CASE w # v
    <3>1. CacheOf(nvc, w) = CacheOf(vc, w)
      BY <2>1 DEF CacheOf
    <3>2. QED
      BY <1>0, <1>3, <1>4, <2>1, <3>1 DEF CachesInOrder
  <2>2. CASE w = v
    <3>1. CacheOf(nvc, v) = nvc[v]
      BY <2>2 DEF CacheOf
    <3>2. QED
      BY <1>8, <2>2, <3>1
  <2>3. QED
    BY <2>1, <2>2
<1>10. ASSUME NEW o \in Options
       PROVE  Plus(Minus(totals, vo[a].lamports), nvo[a].lamports)[o]
                = Weight(Validators, vt, o) + Weight(StakeAccounts, nvo, o)
  <2>1. Plus(Minus(totals, vo[a].lamports), nvo[a].lamports)[o]
          = totals[o] - vo[a].lamports[o] + nvo[a].lamports[o]
    BY DEF Plus, Minus
  <2>2. totals[o] = Weight(Validators, vt, o) + Weight(StakeAccounts, vo, o)
    BY <1>a DEF TotalsInOrder
  <2>3. nvo[a].lamports[o] \in Nat /\ vo[a].lamports[o] \in Nat /\ Weight(Validators, vt, o) \in Nat
    BY <1>c, BooksFacts
  <2>4. QED
    BY ONLY <1>2, <2>1, <2>2, <2>3, o \in Options
<1>11. VotesCounted(vt, nvo, count)
  BY <1>2, <1>a DEF VotesCounted
<1>12. TakenIsSpoken(L, nvo)
  BY <1>a, <1>b, SpokenChanged
<1>13. TotalsInOrder(vt, nvo, Plus(Minus(totals, vo[a].lamports), nvo[a].lamports))
  BY <1>10 DEF TotalsInOrder
<1>14. QED
  BY <1>6, <1>7, <1>9, <1>11, <1>12, <1>13 DEF InOrder

\* Before the first vote the books are in order, whatever the snapshot.
LEMMA EmptyInOrder ==
    ASSUME NEW L \in Snapshots, NEW vt \in Votes, NEW vo \in Overrides, NEW vc \in Caches,
           \A v \in Validators : vt[v] = None /\ vc[v] = None,
           \A a \in StakeAccounts : vo[a] = None
    PROVE  InOrder(L, vt, vo, vc, NoLamports, 0)
<1>1. Having(Validators, vt) = {} /\ Having(StakeAccounts, vo) = {}
  BY DEF Having
<1>2. \A v \in Validators : SpeakersOf(L, vo, v) = {}
  BY <1>1 DEF SpeakersOf
<1>3. \A v \in Validators : Taken(L, vo, v) = 0
  BY <1>2, SumEmpty DEF Taken
<1>4. \A v \in Validators, o \in Options : Pending(L, vo, v, o) = 0
  BY <1>2, SumEmpty DEF Pending
<1>5. \A o \in Options : Weight(Validators, vt, o) = 0 /\ Weight(StakeAccounts, vo, o) = 0
  BY <1>1, SumEmpty DEF Weight
<1>6. VotesInOrder(L, vt, vo) /\ OverridesInOrder(L, vo)
  BY <1>1 DEF VotesInOrder, OverridesInOrder
<1>7. CachesInOrder(L, vt, vo, vc)
  BY <1>3, <1>4 DEF CachesInOrder, CacheOf, NoOverrides, NoLamports
<1>8. TotalsInOrder(vt, vo, NoLamports)
  BY <1>5 DEF TotalsInOrder, NoLamports
<1>9. TakenIsSpoken(L, vo)
  <2> DEFINE f == [v \in Validators |-> Taken(L, vo, v)]
             g == [a \in Having(StakeAccounts, vo) |-> L.delegated[a]]
  <2>1. Sum(g) = 0
    BY <1>1, SumEmpty
  <2>2. f = [v \in Validators |-> 0]
    BY <1>3
  <2>3. Units(f) = {}
    <3>1. \A v \in DOMAIN f : 1 .. f[v] = {}
      BY <2>2
    <3> HIDE DEF f
    <3>2. QED
      BY <3>1, UnitsMember
  <2>4. Sum(f) = 0
    BY <2>3, FS_EmptySet DEF Sum
  <2>5. QED
    BY <2>1, <2>4 DEF TakenIsSpoken
<1>10. VotesCounted(vt, vo, 0)
  BY <1>1, FS_EmptySet DEF VotesCounted
<1>11. QED
  BY <1>6, <1>7, <1>8, <1>9, <1>10 DEF InOrder

-----------------------------------------------------------------------------
(***************************************************************************)
(* The invariant step by step.  A proposal whose votes can be weighed is   *)
(* in voting, and its snapshot fits.                                       *)
(***************************************************************************)
LEMMA SnapshotFits ==
    ASSUME ProposalInv, NEW p \in Proposals, Created(p), Weighable(p)
    PROVE  proposal[p].voting /\ Fits(LeavesOf(p))
<1> DEFINE r == status[proposal[p].consensus_result]
<1>1. Bound(proposal[p], status, epoch)
  BY ProposalFacts
<1>2. proposal[p].voting /\ proposal[p].consensus_result \in SnapshotSlots
  BY <1>1 DEF Bound, Weighable
<1>3. status \in [SnapshotSlots -> {Unopened, Open} \cup Snapshot!Result]
  BY DEF ProposalInv, ProposalTypeOK
<1>4. r \in Snapshot!Result /\ r.root # ZeroRoot
  BY <1>2, <1>3 DEF Weighable
<1>5. r.root \in Roots \ {ZeroRoot}
  BY <1>4 DEF Snapshot!Result
<1>6. LeavesOf(p) = Leaves[r.root]
  BY DEF LeavesOf
<1> HIDE DEF r
<1>7. QED
  BY <1>2, <1>5, <1>6, VotingAssumption DEF Fits

\* While voting is open the books are in order under that snapshot.
LEMMA OpenFacts ==
    ASSUME VotingInv, NEW p \in Proposals, VotingOpen(p)
    PROVE  /\ Created(p) /\ proposal[p] \in Proposal /\ Bound(proposal[p], status, epoch)
           /\ proposal[p].votes_lamports \in [Options -> Nat] /\ proposal[p].vote_count \in Nat
           /\ proposal[p].voting /\ epoch >= proposal[p].start_epoch /\ Weighable(p)
           /\ Fits(LeavesOf(p))
           /\ vote[p] \in Votes /\ vote_override[p] \in Overrides
           /\ vote_override_cache[p] \in Caches
           /\ InOrder(LeavesOf(p), vote[p], vote_override[p], vote_override_cache[p],
                      proposal[p].votes_lamports, proposal[p].vote_count)
<1>1. ProposalInv /\ Created(p) /\ epoch >= proposal[p].start_epoch /\ Weighable(p)
  <2>1. slot \in Nat
    BY DEF VotingInv, ProposalInv, ProposalTypeOK
  <2>2. QED
    BY <2>1, EpochType DEF VotingInv, VotingOpen
<1>2. proposal[p] \in Proposal /\ Bound(proposal[p], status, epoch)
  BY <1>1, ProposalFacts
<1>3. proposal[p].votes_lamports \in [Options -> Nat] /\ proposal[p].vote_count \in Nat
  BY <1>2 DEF Proposal
<1>4. proposal[p].voting
  BY <1>1, SnapshotFits
<1>5. Fits(LeavesOf(p))
  BY <1>1, SnapshotFits
<1>6. /\ vote[p] \in Votes /\ vote_override[p] \in Overrides
      /\ vote_override_cache[p] \in Caches
  BY DEF VotingInv, TypeOK, Votes, Overrides, Caches
<1>7. CASE Untouched(p)
  <2>1. LeavesOf(p) \in Snapshots
    BY <1>5 DEF Fits
  <2>2. /\ \A v \in Validators : vote[p][v] = None /\ vote_override_cache[p][v] = None
        /\ \A a \in StakeAccounts : vote_override[p][a] = None
        /\ proposal[p].votes_lamports = NoLamports /\ proposal[p].vote_count = 0
    BY <1>1, <1>7 DEF Untouched
  <2>3. InOrder(LeavesOf(p), vote[p], vote_override[p], vote_override_cache[p], NoLamports, 0)
    BY ONLY <1>6, <2>1, <2>2, EmptyInOrder
  <2>4. QED
    BY <1>1, <1>2, <1>3, <1>4, <1>5, <1>6, <2>2, <2>3
<1>8. CASE UnderWay(p)
  BY <1>1, <1>2, <1>3, <1>4, <1>5, <1>6, <1>8 DEF UnderWay
<1>9. QED
  BY <1>7, <1>8 DEF VotingInv

(***************************************************************************)
(* A voting instruction keeps the invariant if it leaves the books of its  *)
(* proposal in order and those of the others alone.                        *)
(***************************************************************************)
LEMMA RecountKeepsInv ==
    ASSUME VotingInv, NEW p \in Proposals, VotingOpen(p),
           NEW totals \in [Options -> Nat], NEW n \in Nat, Recount(p, totals, n),
           UNCHANGED Unvoted,
           vote' \in [Proposals -> Votes], vote_override' \in [Proposals -> Overrides],
           vote_override_cache' \in [Proposals -> Caches],
           \A q \in Proposals \ {p} :
              /\ vote'[q] = vote[q] /\ vote_override'[q] = vote_override[q]
              /\ vote_override_cache'[q] = vote_override_cache[q],
           InOrder(LeavesOf(p), vote'[p], vote_override'[p], vote_override_cache'[p],
                   totals, proposal[p].vote_count + n)
    PROVE  VotingInv'
<1> DEFINE new == [proposal[p] EXCEPT !.votes_lamports = totals, !.vote_count = @ + n]
<1>0. ProposalInv /\ TypeOK /\ \A q \in Proposals : Untouched(q) \/ UnderWay(q)
  BY DEF VotingInv
<1>1. /\ Created(p) /\ proposal[p] \in Proposal /\ Bound(proposal[p], status, epoch)
      /\ proposal[p].vote_count \in Nat
      /\ proposal[p].voting /\ epoch >= proposal[p].start_epoch /\ Weighable(p)
  BY OpenFacts
<1>2. Counted(proposal[p], p, support)
  BY <1>0, <1>1, ProposalFacts
<1>3. new \in Proposal
  <2> DEFINE count == proposal[p].vote_count + n
  <2>1. count \in Nat
    BY <1>1
  <2>2. new = [proposal[p] EXCEPT !.votes_lamports = totals, !.vote_count = count]
    BY <1>1 DEF Proposal
  <2> HIDE DEF count, new
  <2>3. QED
    BY <1>1, <2>1, <2>2 DEF Proposal
<1>4. /\ new.votes_lamports = totals /\ new.vote_count = proposal[p].vote_count + n
      /\ new.index = proposal[p].index /\ new.creation_epoch = proposal[p].creation_epoch
      /\ new.voting = proposal[p].voting /\ new.finalized = proposal[p].finalized
      /\ new.consensus_result = proposal[p].consensus_result
      /\ new.snapshot_slot = proposal[p].snapshot_slot
      /\ new.start_epoch = proposal[p].start_epoch /\ new.end_epoch = proposal[p].end_epoch
      /\ new.supporters = proposal[p].supporters
  BY <1>1 DEF Proposal
<1>5. proposal \in [Proposals -> Proposal \cup {None}]
  BY <1>0 DEF ProposalInv, ProposalTypeOK
<1>6. proposal' = [proposal EXCEPT ![p] = new]
  BY <1>1, <1>5 DEF Recount, Proposal
<1>7. /\ UNCHANGED <<global_config, slot, epoch_stake, status, proposal_index, support>>
      /\ UNCHANGED epoch
  BY DEF Unvoted, epoch
<1> HIDE DEF new
<1>8. /\ proposal'[p] = new
      /\ \A q \in Proposals \ {p} : proposal'[q] = proposal[q]
  BY <1>5, <1>6
<1>9. ProposalInv'
  <2>1. StatusMoves /\ ResultsStay
    BY <1>0, <1>7 DEF StatusMoves, ResultsStay, ProposalInv, ProposalTypeOK
  <2>2. Bound(new, status', epoch)
    BY <1>1, <1>4, <1>7 DEF Bound
  <2>3. Counted(new, p, support')
    BY <1>2, <1>4, <1>7 DEF Counted, SupportersOf
  <2>4. /\ support' \subseteq Proposals \X Validators
        /\ \A q \in Proposals \ {p}, v \in Validators :
              <<q, v>> \in support' <=> <<q, v>> \in support
    BY <1>0, <1>7 DEF ProposalInv, ProposalTypeOK
  <2>5. QED
    BY <1>0, <1>1, <1>3, <1>4, <1>6, <1>7, <2>1, <2>2, <2>3, <2>4, RewriteKeepsInv
<1>10. TypeOK'
  <2>1. ProposalTypeOK'
    BY <1>9 DEF ProposalInv
  <2>2. QED
    BY <2>1 DEF TypeOK, Votes, Overrides, Caches
<1>11. UnderWay(p)'
  <2>1. Created(p)'
    BY <1>3, <1>8, DistinctAssumption DEF Created
  <2>2. Weighable(p)' /\ LeavesOf(p)' = LeavesOf(p)
    BY <1>1, <1>4, <1>7, <1>8 DEF Weighable, LeavesOf
  <2>3. /\ proposal'[p].votes_lamports = totals
        /\ proposal'[p].vote_count = proposal[p].vote_count + n
        /\ proposal'[p].voting /\ epoch' >= proposal'[p].start_epoch
    BY <1>1, <1>4, <1>7, <1>8
  <2>4. QED
    BY <2>1, <2>2, <2>3 DEF UnderWay
<1>12. ASSUME NEW q \in Proposals \ {p}
       PROVE  (Untouched(q) \/ UnderWay(q))'
  <2>1. /\ proposal'[q] = proposal[q]
        /\ vote'[q] = vote[q] /\ vote_override'[q] = vote_override[q]
        /\ vote_override_cache'[q] = vote_override_cache[q]
    BY <1>8
  <2>2. CASE Untouched(q)
    BY <2>1, <2>2 DEF Untouched, Created
  <2>3. CASE UnderWay(q)
    BY <1>7, <2>1, <2>3 DEF UnderWay, Created, Weighable, LeavesOf
  <2>4. QED
    BY <1>0, <2>2, <2>3
<1>13. QED
  BY <1>9, <1>10, <1>11, <1>12 DEF VotingInv

LEMMA LamportsPlus ==
    ASSUME NEW x \in [Options -> Nat], NEW y \in [Options -> Nat]
    PROVE  /\ Plus(x, y) \in [Options -> Nat]
           /\ Covers(x, y) => Minus(x, y) \in [Options -> Nat]
  BY DEF Plus, Minus, Covers

LEMMA CacheFacts ==
    ASSUME NEW vc \in Caches, NEW v \in Validators
    PROVE  CacheOf(vc, v) \in VoteOverrideCache
  BY DEF CacheOf, Caches, VoteOverrideCache, NoOverrides, NoLamports

\* Writing one account of proposal p.
LEMMA OneAccount ==
    ASSUME NEW S, NEW Acc, NEW f \in [Proposals -> [S -> Acc]], NEW p \in Proposals,
           NEW x \in S, NEW new \in Acc, NEW g, g = [f EXCEPT ![p][x] = new]
    PROVE  /\ g \in [Proposals -> [S -> Acc]]
           /\ g[p][x] = new /\ \A y \in S \ {x} : g[p][y] = f[p][y]
           /\ \A q \in Proposals \ {p} : g[q] = f[q]
  OBVIOUS

LEMMA CastVoteStep ==
    ASSUME VotingInv, NEW p \in Proposals, NEW v \in Validators, NEW bp \in Distributions,
           CastVote(p, v, bp)
    PROVE  VotingInv'
<1> DEFINE L == LeavesOf(p)
           vc == vote_override_cache[p]
           left == L.active[v] - CacheOf(vc, v).total_stake
           lamports == vote_lamports(left, bp)
           new == [bp |-> bp, lamports |-> lamports, stake |-> L.active[v],
                   override_lamports |-> CacheOf(vc, v).total_stake]
           totals == Plus(proposal[p].votes_lamports, lamports)
<1>1. /\ VotingOpen(p) /\ ValidDistribution(bp) /\ vote[p][v] = None
      /\ L.active[v] >= CacheOf(vc, v).total_stake
      /\ Recount(p, totals, 1)
      /\ vote' = [vote EXCEPT ![p][v] = new]
      /\ UNCHANGED Unvoted /\ UNCHANGED <<vote_override, vote_override_cache>>
  BY DEF CastVote, HasVote, Cache, CacheOf
<1>2. /\ Fits(L) /\ vote[p] \in Votes /\ vote_override[p] \in Overrides /\ vc \in Caches
      /\ proposal[p].votes_lamports \in [Options -> Nat] /\ proposal[p].vote_count \in Nat
      /\ InOrder(L, vote[p], vote_override[p], vc,
                 proposal[p].votes_lamports, proposal[p].vote_count)
  BY <1>1, OpenFacts
<1>3. L.active[v] \in Nat /\ CacheOf(vc, v).total_stake \in Nat
  BY <1>2, CacheFacts DEF Fits, Snapshots, VoteOverrideCache
<1>4. bp \in [Options -> Nat]
  BY VotingAssumption
<1>5. left \in Nat
  BY <1>1, <1>3
<1>6. lamports \in [Options -> Nat]
  <2> HIDE DEF left
  <2>1. QED
    BY <1>4, <1>5, LamportsType
<1>7. totals \in [Options -> Nat]
  <2> HIDE DEF lamports
  <2>1. QED
    BY <1>2, <1>6, LamportsPlus
<1>8. new \in Vote /\ new # None
  <2> HIDE DEF lamports
  <2>1. new \in Vote
    BY <1>3, <1>6 DEF Vote
  <2>2. QED
    BY <2>1, NoVoteAssumption
<1>9. /\ new.bp = bp /\ new.lamports = lamports /\ new.stake = L.active[v]
      /\ new.override_lamports = CacheOf(vc, v).total_stake
  OBVIOUS
<1>10. lamports = vote_lamports(L.active[v] - CacheOf(vc, v).total_stake, bp)
  OBVIOUS
<1> HIDE DEF new, lamports
<1>11. /\ vote' \in [Proposals -> Votes]
       /\ vote'[p][v] = new /\ \A w \in Validators \ {v} : vote'[p][w] = vote[p][w]
       /\ \A q \in Proposals \ {p} : vote'[q] = vote[q]
  <2>1. vote \in [Proposals -> [Validators -> Vote \cup {None}]] /\ new \in Vote \cup {None}
    BY <1>8 DEF VotingInv, TypeOK
  <2>2. QED
    BY <1>1, <2>1, OneAccount DEF Votes
<1>12. vote'[p] \in Votes
  BY <1>11
<1>13. InOrder(L, vote'[p], vote_override[p], vc, totals, proposal[p].vote_count + 1)
  <2> HIDE DEF L, vc
  <2>1. InOrder(L, vote'[p], vote_override[p], vc,
                Plus(proposal[p].votes_lamports, vote'[p][v].lamports),
                proposal[p].vote_count + 1)
    <3> DEFINE nvt == vote'[p]
    <3>1. nvt \in Votes /\ nvt[v] = new /\ \A w \in Validators \ {v} : nvt[w] = vote[p][w]
      BY <1>11, <1>12
    <3> HIDE DEF nvt
    <3>2. /\ nvt[v] # None /\ ValidDistribution(nvt[v].bp) /\ nvt[v].stake = L.active[v]
          /\ nvt[v].override_lamports = CacheOf(vc, v).total_stake
          /\ nvt[v].lamports = vote_lamports(L.active[v] - CacheOf(vc, v).total_stake, nvt[v].bp)
      BY <1>1, <1>8, <1>9, <1>10, <3>1
    <3>3. QED
      BY <1>1, <1>2, <3>1, <3>2, CastInOrder DEF nvt
  <2>2. QED
    BY <1>9, <1>11, <2>1
<1>14. /\ vote_override' \in [Proposals -> Overrides] /\ vote_override_cache' \in [Proposals -> Caches]
       /\ vote_override' = vote_override /\ vote_override_cache' = vote_override_cache
  BY <1>1 DEF VotingInv, TypeOK, Overrides, Caches
<1>15. QED
  <2> HIDE DEF totals
  <2>1. 1 \in Nat
    OBVIOUS
  <2>2. QED
    BY <1>1, <1>7, <1>11, <1>13, <1>14, <2>1, RecountKeepsInv

LEMMA ModifyVoteStep ==
    ASSUME VotingInv, NEW p \in Proposals, NEW v \in Validators, NEW bp \in Distributions,
           ModifyVote(p, v, bp)
    PROVE  VotingInv'
<1> DEFINE L == LeavesOf(p)
           vc == vote_override_cache[p]
           old == vote[p][v]
           left == L.active[v] - old.override_lamports
           lamports == vote_lamports(left, bp)
           new == [old EXCEPT !.bp = bp, !.lamports = lamports]
           totals == Plus(Minus(proposal[p].votes_lamports, old.lamports), lamports)
<1>1. /\ VotingOpen(p) /\ ValidDistribution(bp) /\ old # None
      /\ Covers(proposal[p].votes_lamports, old.lamports)
      /\ L.active[v] >= old.override_lamports
      /\ Recount(p, totals, 0)
      /\ vote' = [vote EXCEPT ![p][v].bp = bp, ![p][v].lamports = lamports]
      /\ UNCHANGED Unvoted /\ UNCHANGED <<vote_override, vote_override_cache>>
  BY DEF ModifyVote, HasVote
<1>2. /\ Fits(L) /\ vote[p] \in Votes /\ vote_override[p] \in Overrides /\ vc \in Caches
      /\ proposal[p].votes_lamports \in [Options -> Nat] /\ proposal[p].vote_count \in Nat
      /\ InOrder(L, vote[p], vote_override[p], vc,
                 proposal[p].votes_lamports, proposal[p].vote_count)
  BY <1>1, OpenFacts
<1>3. old \in Vote
  BY <1>1, <1>2 DEF Votes
<1>4. /\ L.active[v] \in Nat /\ old.override_lamports \in Nat
      /\ old.lamports \in [Options -> Nat] /\ bp \in [Options -> Nat]
  BY <1>2, <1>3, VotingAssumption DEF Fits, Snapshots, Vote
<1>5. left \in Nat
  BY <1>1, <1>4
<1>6. lamports \in [Options -> Nat]
  <2> HIDE DEF left
  <2>1. QED
    BY <1>4, <1>5, LamportsType
<1>7. totals \in [Options -> Nat]
  <2> HIDE DEF lamports, old
  <2>1. Minus(proposal[p].votes_lamports, old.lamports) \in [Options -> Nat]
    BY <1>1, <1>2, <1>4, LamportsPlus
  <2>2. QED
    BY <1>6, <2>1, LamportsPlus
<1>a. vote \in [Proposals -> [Validators -> Vote \cup {None}]]
  BY DEF VotingInv, TypeOK
<1>b. vote' = [vote EXCEPT ![p][v] = new]
  BY <1>1, <1>3, <1>a DEF Vote
<1>8. new \in Vote /\ new # None
  <2> HIDE DEF lamports, old
  <2>1. new \in Vote
    BY <1>3, <1>6 DEF Vote
  <2>2. QED
    BY <2>1, NoVoteAssumption
<1>9. /\ new.bp = bp /\ new.lamports = lamports /\ new.stake = old.stake
      /\ new.override_lamports = old.override_lamports
  BY <1>3 DEF Vote
<1>10. lamports = vote_lamports(L.active[v] - old.override_lamports, bp)
  OBVIOUS
<1> HIDE DEF new, lamports
<1>11. /\ vote' \in [Proposals -> Votes]
       /\ vote'[p][v] = new /\ \A w \in Validators \ {v} : vote'[p][w] = vote[p][w]
       /\ \A q \in Proposals \ {p} : vote'[q] = vote[q]
  BY <1>8, <1>a, <1>b, OneAccount DEF Votes
<1>12. vote'[p] \in Votes
  BY <1>11
<1>13. InOrder(L, vote'[p], vote_override[p], vc, totals, proposal[p].vote_count)
  <2> HIDE DEF L, vc
  <2>1. InOrder(L, vote'[p], vote_override[p], vc,
                Plus(Minus(proposal[p].votes_lamports, vote[p][v].lamports), vote'[p][v].lamports),
                proposal[p].vote_count)
    <3> DEFINE nvt == vote'[p]
               vt == vote[p]
    <3>1. nvt \in Votes /\ nvt[v] = new /\ \A w \in Validators \ {v} : nvt[w] = vt[w]
      BY <1>11, <1>12
    <3>2. vt[v] = old
      OBVIOUS
    <3> HIDE DEF nvt, old
    <3>3. /\ nvt[v] # None /\ ValidDistribution(nvt[v].bp) /\ nvt[v].stake = vt[v].stake
          /\ nvt[v].override_lamports = vt[v].override_lamports
          /\ nvt[v].lamports = vote_lamports(L.active[v] - vt[v].override_lamports, nvt[v].bp)
      BY <1>1, <1>8, <1>9, <1>10, <3>1, <3>2
    <3>4. QED
      BY <1>1, <1>2, <3>1, <3>2, <3>3, ModifyInOrder DEF nvt
  <2>2. QED
    BY <1>9, <1>11, <2>1
<1>14. /\ vote_override' \in [Proposals -> Overrides] /\ vote_override_cache' \in [Proposals -> Caches]
       /\ vote_override' = vote_override /\ vote_override_cache' = vote_override_cache
  BY <1>1 DEF VotingInv, TypeOK, Overrides, Caches
<1>15. QED
  <2> HIDE DEF totals
  <2>1. 0 \in Nat /\ proposal[p].vote_count + 0 = proposal[p].vote_count
    BY <1>2
  <2>2. QED
    BY <1>1, <1>7, <1>11, <1>13, <1>14, <2>1, RecountKeepsInv, ZenonT(60)

LEMMA CastVoteOverrideStep ==
    ASSUME VotingInv, NEW p \in Proposals, NEW a \in StakeAccounts, NEW bp \in Distributions,
           CastVoteOverride(p, a, bp)
    PROVE  VotingInv'
<1> DEFINE L == LeavesOf(p)
           v == L.validator_of[a]
           stake == L.delegated[a]
           lamports == vote_lamports(stake, bp)
           vt == vote[p]
           vo == vote_override[p]
           vc == vote_override_cache[p]
           new == [bp |-> bp, lamports |-> lamports, stake_amount |-> stake]
           before == proposal[p].votes_lamports
           count == proposal[p].vote_count
<1>1. /\ VotingOpen(p) /\ ValidDistribution(bp) /\ vo[a] = None /\ stake > 0
      /\ IF vt[v] # None THEN OverrideVoted(p, v, stake, lamports)
                         ELSE OverrideUnvoted(p, v, stake, lamports)
      /\ vote_override' = [vote_override EXCEPT ![p][a] = new]
      /\ UNCHANGED Unvoted
  BY DEF CastVoteOverride, HasVote, HasOverride
<1>2. /\ Fits(L) /\ vt \in Votes /\ vo \in Overrides /\ vc \in Caches
      /\ before \in [Options -> Nat] /\ count \in Nat
      /\ InOrder(L, vt, vo, vc, before, count)
  BY <1>1, OpenFacts
<1>3. v \in Validators /\ stake \in Nat /\ L.active[v] \in Nat /\ bp \in [Options -> Nat]
  BY <1>2, VotingAssumption DEF Fits, Snapshots
<1>4. lamports \in [Options -> Nat]
  <2> HIDE DEF stake
  <2>1. QED
    BY <1>3, LamportsType
<1>5. new \in VoteOverride /\ new # None
  <2> HIDE DEF lamports, stake
  <2>1. new \in VoteOverride
    BY <1>3, <1>4 DEF VoteOverride
  <2>2. QED
    BY <2>1, NoVoteAssumption
<1>6. new.bp = bp /\ new.lamports = lamports /\ new.stake_amount = stake
  OBVIOUS
<1>7. lamports = vote_lamports(L.delegated[a], bp) /\ stake = L.delegated[a]
  OBVIOUS
<1>8. /\ vote \in [Proposals -> [Validators -> Vote \cup {None}]]
      /\ vote_override \in [Proposals -> [StakeAccounts -> VoteOverride \cup {None}]]
      /\ vote_override_cache \in [Proposals -> [Validators -> VoteOverrideCache \cup {None}]]
  BY DEF VotingInv, TypeOK
<1> DEFINE nvo == vote_override'[p]
<1> HIDE DEF new, lamports
<1>9. /\ vote_override' \in [Proposals -> Overrides] /\ nvo \in Overrides
      /\ nvo[a] = new /\ \A b \in StakeAccounts \ {a} : nvo[b] = vo[b]
      /\ \A q \in Proposals \ {p} : vote_override'[q] = vote_override[q]
  BY <1>1, <1>5, <1>8, OneAccount DEF Overrides
<1>10. /\ nvo[a] # None /\ ValidDistribution(nvo[a].bp) /\ nvo[a].stake_amount = L.delegated[a]
       /\ nvo[a].lamports = lamports /\ nvo[a].lamports = vote_lamports(L.delegated[a], nvo[a].bp)
  BY <1>1, <1>5, <1>6, <1>7, <1>9
<1>a. v = L.validator_of[a] /\ 1 \in Nat
  BY SMTT(40)
<1>11. CASE vt[v] # None
  <2> DEFINE old == vt[v]
             left == L.active[v] - (stake + old.override_lamports)
             reduced == vote_lamports(left, old.bp)
             nv == [old EXCEPT !.lamports = reduced, !.override_lamports = @ + stake]
             totals == Plus(Plus(Minus(before, old.lamports), lamports), reduced)
             cache == CacheOf(vc, v)
             nvt == vote'[p]
             nvc == vote_override_cache'[p]
  <2>1. /\ Covers(before, old.lamports) /\ left >= 0 /\ Recount(p, totals, 1)
        /\ vote' = [vote EXCEPT ![p][v].lamports = reduced,
                                ![p][v].override_lamports = @ + stake]
        /\ vote_override_cache' = [vote_override_cache EXCEPT ![p][v] = cache]
    BY <1>1, <1>11 DEF OverrideVoted, Cache, CacheOf
  <2>2. old \in Vote
    BY <1>2, <1>3, <1>11 DEF Votes
  <2>3. /\ old.override_lamports \in Nat /\ old.lamports \in [Options -> Nat]
        /\ old.bp \in [Options -> Nat]
    BY <2>2, VotingAssumption DEF Vote
  <2> HIDE DEF v, vt
  <2>4. left \in Nat
    BY <1>3, <2>1, <2>3
  <2>5. reduced \in [Options -> Nat]
    <3> HIDE DEF left, old
    <3>1. QED
      BY <2>3, <2>4, LamportsType
  <2>6. totals \in [Options -> Nat]
    <3> HIDE DEF old, reduced, before
    <3>1. Minus(before, old.lamports) \in [Options -> Nat]
      BY <1>2, <2>1, <2>3, LamportsPlus
    <3>2. Plus(Minus(before, old.lamports), lamports) \in [Options -> Nat]
      BY <1>4, <3>1, LamportsPlus
    <3>3. QED
      BY <2>5, <3>2, LamportsPlus
  <2>7. vote' = [vote EXCEPT ![p][v] = nv]
    BY <1>3, <1>8, <2>1, <2>2 DEF vt, Vote
  <2>8. nv \in Vote /\ nv # None
    <3> HIDE DEF reduced, old
    <3>1. old.override_lamports + stake \in Nat
      BY <1>3, <2>3
    <3>2. nv \in Vote
      BY <2>2, <2>5, <3>1 DEF Vote
    <3>3. QED
      BY <3>2, NoVoteAssumption
  <2>9. /\ nv.bp = old.bp /\ nv.stake = old.stake /\ nv.lamports = reduced
        /\ nv.override_lamports = old.override_lamports + L.delegated[a]
    BY <2>2 DEF Vote
  <2>10. reduced = vote_lamports(L.active[v] - (L.delegated[a] + old.override_lamports), old.bp)
    OBVIOUS
  <2> HIDE DEF nv, reduced, cache
  <2>11. cache \in VoteOverrideCache
    BY <1>2, <1>3, CacheFacts DEF cache
  <2>12. /\ vote' \in [Proposals -> Votes] /\ nvt \in Votes
         /\ nvt[v] = nv /\ \A w \in Validators \ {v} : nvt[w] = vt[w]
         /\ \A q \in Proposals \ {p} : vote'[q] = vote[q]
    BY <1>3, <1>8, <2>7, <2>8, OneAccount DEF Votes, vt
  <2>13. /\ vote_override_cache' \in [Proposals -> Caches] /\ nvc \in Caches
         /\ \A w \in Validators \ {v} : nvc[w] = vc[w]
         /\ \A q \in Proposals \ {p} : vote_override_cache'[q] = vote_override_cache[q]
    BY <1>3, <1>8, <2>1, <2>11, OneAccount DEF Caches
  <2>14. /\ nvt[v] # None /\ nvt[v].bp = vt[v].bp /\ nvt[v].stake = vt[v].stake
         /\ nvt[v].override_lamports = vt[v].override_lamports + L.delegated[a]
         /\ nvt[v].lamports =
              vote_lamports(L.active[v] - (L.delegated[a] + vt[v].override_lamports), vt[v].bp)
         /\ nvt[v].lamports = reduced
    BY <2>8, <2>9, <2>10, <2>12
  <2>15. InOrder(L, nvt, nvo, nvc, totals, count + 1)
    <3> HIDE DEF L, vo, vc, before, count, nvo, nvt, nvc
    <3>a. v = L.validator_of[a] /\ L.delegated[a] > 0 /\ vo[a] = None
      BY <1>1, <1>a DEF v
    <3>1. InOrder(L, nvt, nvo, nvc,
                  Plus(Plus(Minus(before, vt[v].lamports), nvo[a].lamports), nvt[v].lamports),
                  count + 1)
      <4>1. Speaks(L, a, v, vo, nvo)
        BY <1>2, <1>3, <1>9, <1>10, <3>a DEF Speaks
      <4>2. GivesUp(L, a, v, vt, nvt)
        BY <1>2, <1>11, <2>12, <2>14 DEF GivesUp
      <4>3. QED
        BY ONLY <1>2, <2>13, <4>1, <4>2, OverrideVotedInOrder
    <3>2. QED
      BY <1>10, <2>14, <3>1
  <2>16. QED
    <3> HIDE DEF totals
    <3>1. QED
      BY <1>1, <1>9, <1>a, <2>1, <2>6, <2>12, <2>13, <2>15, RecountKeepsInv, ZenonT(60)
<1>12. CASE vt[v] = None
  <2> DEFINE totals == Plus(before, lamports)
             cache == CacheOf(vc, v)
             nc == IF cache.total_stake = 0
                   THEN [lamports |-> lamports, total_stake |-> stake]
                   ELSE [lamports |-> Plus(cache.lamports, lamports),
                         total_stake |-> cache.total_stake + stake]
             nvc == vote_override_cache'[p]
  <2>1. /\ Recount(p, totals, 1)
        /\ vote_override_cache' = [vote_override_cache EXCEPT ![p][v] = nc]
        /\ vote' = vote
    BY <1>1, <1>12 DEF OverrideUnvoted, Cache, CacheOf
  <2> HIDE DEF v
  <2>2. cache \in VoteOverrideCache
    BY <1>2, <1>3, CacheFacts
  <2>3. cache.lamports \in [Options -> Nat] /\ cache.total_stake \in Nat
    BY <2>2 DEF VoteOverrideCache
  <2> HIDE DEF cache
  <2>4. totals \in [Options -> Nat]
    BY <1>2, <1>4, LamportsPlus
  <2>5. nc \in VoteOverrideCache /\ nc # None
    <3>1. Plus(cache.lamports, lamports) \in [Options -> Nat]
      BY <1>4, <2>3, LamportsPlus
    <3>2. cache.total_stake + stake \in Nat
      BY <1>3, <2>3
    <3>3. nc \in VoteOverrideCache
      BY <1>3, <1>4, <3>1, <3>2 DEF VoteOverrideCache
    <3>4. QED
      BY <3>3, NoVoteAssumption
  <2>6. nc = IF CacheOf(vc, v).total_stake = 0
             THEN [lamports |-> nvo[a].lamports, total_stake |-> L.delegated[a]]
             ELSE [lamports |-> Plus(CacheOf(vc, v).lamports, nvo[a].lamports),
                   total_stake |-> CacheOf(vc, v).total_stake + L.delegated[a]]
    BY <1>10 DEF cache
  <2> HIDE DEF nc
  <2>7. /\ vote_override_cache' \in [Proposals -> Caches] /\ nvc \in Caches
        /\ nvc[v] = nc /\ \A w \in Validators \ {v} : nvc[w] = vc[w]
        /\ \A q \in Proposals \ {p} : vote_override_cache'[q] = vote_override_cache[q]
    BY <1>3, <1>8, <2>1, <2>5, OneAccount DEF Caches
  <2>8. InOrder(L, vt, nvo, nvc, totals, count + 1)
    <3> HIDE DEF L, vt, vo, vc, before, count, nvo, nvc
    <3>a. v = L.validator_of[a] /\ L.delegated[a] > 0 /\ vo[a] = None /\ nvc[v] # None
      BY <1>1, <1>a, <2>5, <2>7 DEF v
    <3>b. nvc[v] = IF CacheOf(vc, v).total_stake = 0
                   THEN [lamports |-> nvo[a].lamports, total_stake |-> L.delegated[a]]
                   ELSE [lamports |-> Plus(CacheOf(vc, v).lamports, nvo[a].lamports),
                         total_stake |-> CacheOf(vc, v).total_stake + L.delegated[a]]
      BY <2>6, <2>7
    <3>1. InOrder(L, vt, nvo, nvc, Plus(before, nvo[a].lamports), count + 1)
      <4>1. Speaks(L, a, v, vo, nvo)
        BY <1>2, <1>3, <1>9, <1>10, <3>a DEF Speaks
      <4>2. TakesIn(L, a, v, nvo, vc, nvc)
        BY <1>2, <2>7, <3>a, <3>b DEF TakesIn
      <4>3. QED
        BY ONLY <1>2, <1>12, <4>1, <4>2, OverrideUnvotedInOrder
    <3>2. QED
      BY <1>10, <3>1
  <2>9. vote' \in [Proposals -> Votes]
    BY <1>8, <2>1 DEF Votes
  <2>10. QED
    <3> HIDE DEF totals
    <3>1. QED
      BY <1>1, <1>9, <1>a, <2>1, <2>4, <2>7, <2>8, <2>9, RecountKeepsInv
<1>13. QED
  BY <1>11, <1>12

LEMMA ModifyVoteOverrideStep ==
    ASSUME VotingInv, NEW p \in Proposals, NEW a \in StakeAccounts, NEW bp \in Distributions,
           ModifyVoteOverride(p, a, bp)
    PROVE  VotingInv'
<1> DEFINE L == LeavesOf(p)
           v == L.validator_of[a]
           stake == L.delegated[a]
           lamports == vote_lamports(stake, bp)
           vt == vote[p]
           vo == vote_override[p]
           vc == vote_override_cache[p]
           old == vo[a]
           new == [old EXCEPT !.bp = bp, !.lamports = lamports]
           before == proposal[p].votes_lamports
           count == proposal[p].vote_count
           totals == Plus(Minus(before, old.lamports), lamports)
           nvo == vote_override'[p]
           nvc == vote_override_cache'[p]
<1>1. /\ VotingOpen(p) /\ ValidDistribution(bp) /\ old # None
      /\ Covers(before, old.lamports)
      /\ Recount(p, totals, 0)
      /\ vote_override' = [vote_override EXCEPT ![p][a].bp = bp, ![p][a].lamports = lamports]
      /\ vt[v] # None => vote_override_cache' = vote_override_cache
      /\ vt[v] = None =>
            /\ vc[v] # None /\ Covers(CacheOf(vc, v).lamports, old.lamports)
            /\ vote_override_cache' = CacheSwapped(p, v, old.lamports, lamports)
      /\ UNCHANGED Unvoted /\ vote' = vote
  BY DEF ModifyVoteOverride, HasVote, HasOverride, Cache, CacheOf
<1>2. /\ Fits(L) /\ vt \in Votes /\ vo \in Overrides /\ vc \in Caches
      /\ before \in [Options -> Nat] /\ count \in Nat
      /\ InOrder(L, vt, vo, vc, before, count)
  BY <1>1, OpenFacts
<1>3. v \in Validators /\ stake \in Nat /\ bp \in [Options -> Nat]
  BY <1>2, VotingAssumption DEF Fits, Snapshots
<1>4. lamports \in [Options -> Nat]
  <2> HIDE DEF stake
  <2>1. QED
    BY <1>3, LamportsType
<1>5. old \in VoteOverride /\ old.lamports \in [Options -> Nat]
  BY <1>1, <1>2 DEF Overrides, VoteOverride
<1>6. totals \in [Options -> Nat]
  <2> HIDE DEF old, lamports, before
  <2>1. Minus(before, old.lamports) \in [Options -> Nat]
    BY <1>1, <1>2, <1>5, LamportsPlus
  <2>2. QED
    BY <1>4, <2>1, LamportsPlus
<1>7. /\ vote \in [Proposals -> [Validators -> Vote \cup {None}]]
      /\ vote_override \in [Proposals -> [StakeAccounts -> VoteOverride \cup {None}]]
      /\ vote_override_cache \in [Proposals -> [Validators -> VoteOverrideCache \cup {None}]]
  BY DEF VotingInv, TypeOK
<1>8. vote_override' = [vote_override EXCEPT ![p][a] = new]
  BY <1>1, <1>5, <1>7 DEF VoteOverride
<1>9. new \in VoteOverride /\ new # None
  <2> HIDE DEF lamports, old
  <2>1. new \in VoteOverride
    BY <1>4, <1>5 DEF VoteOverride
  <2>2. QED
    BY <2>1, NoVoteAssumption
<1>10. new.bp = bp /\ new.lamports = lamports /\ new.stake_amount = old.stake_amount
  BY <1>5 DEF VoteOverride
<1>11. lamports = vote_lamports(L.delegated[a], bp) /\ v = L.validator_of[a] /\ old = vo[a]
  OBVIOUS
<1> HIDE DEF new, lamports
<1>12. /\ vote_override' \in [Proposals -> Overrides] /\ nvo \in Overrides
       /\ nvo[a] = new /\ \A b \in StakeAccounts \ {a} : nvo[b] = vo[b]
       /\ \A q \in Proposals \ {p} : vote_override'[q] = vote_override[q]
  BY <1>7, <1>8, <1>9, OneAccount DEF Overrides
<1>13. Changes(L, a, v, vo, nvo)
  <2> HIDE DEF L, v, vo, nvo, old
  <2>1. QED
    BY <1>1, <1>2, <1>3, <1>9, <1>10, <1>11, <1>12 DEF Changes
<1>14. /\ vote_override_cache' \in [Proposals -> Caches]
       /\ Follows(a, v, vt, vo, nvo, vc, nvc)
       /\ \A q \in Proposals \ {p} : vote_override_cache'[q] = vote_override_cache[q]
  <2>1. CASE vt[v] # None
    <3>1. nvc = vc /\ vote_override_cache' \in [Proposals -> Caches]
      BY <1>1, <1>7, <2>1 DEF Caches
    <3>2. QED
      BY <1>1, <1>2, <2>1, <3>1 DEF Follows
  <2>2. CASE vt[v] = None
    <3> DEFINE cache == vc[v]
               swapped == Plus(Minus(cache.lamports, old.lamports), lamports)
               nc == [cache EXCEPT !.lamports = swapped]
    <3>1. cache \in VoteOverrideCache /\ Covers(cache.lamports, old.lamports)
      BY <1>1, <1>2, <1>3, <2>2 DEF Caches, CacheOf
    <3>2. cache.lamports \in [Options -> Nat]
      BY <3>1 DEF VoteOverrideCache
    <3>3. swapped \in [Options -> Nat]
      <4> HIDE DEF cache, old
      <4>1. Minus(cache.lamports, old.lamports) \in [Options -> Nat]
        BY <1>5, <3>1, <3>2, LamportsPlus
      <4>2. QED
        BY <1>4, <4>1, LamportsPlus
    <3>4. vote_override_cache' = [vote_override_cache EXCEPT ![p][v] = nc]
      <4> HIDE DEF L, v
      <4>1. QED
        BY <1>1, <1>3, <1>7, <2>2, <3>1 DEF CacheSwapped, VoteOverrideCache
    <3> HIDE DEF swapped
    <3>5. nc \in VoteOverrideCache /\ nc # None
      <4> HIDE DEF cache
      <4>1. nc \in VoteOverrideCache
        BY <3>1, <3>3 DEF VoteOverrideCache
      <4>2. QED
        BY <4>1, NoVoteAssumption
    <3>6. nc.lamports = swapped /\ nc.total_stake = cache.total_stake
      BY <3>1 DEF VoteOverrideCache
    <3> HIDE DEF nc, v
    <3>7. /\ vote_override_cache' \in [Proposals -> Caches] /\ nvc \in Caches
          /\ nvc[v] = nc /\ \A w \in Validators \ {v} : nvc[w] = vc[w]
          /\ \A q \in Proposals \ {p} : vote_override_cache'[q] = vote_override_cache[q]
      BY <1>3, <1>7, <3>4, <3>5, OneAccount DEF Caches
    <3>8. swapped = Plus(Minus(vc[v].lamports, vo[a].lamports), nvo[a].lamports)
      BY <1>10, <1>12 DEF swapped
    <3> HIDE DEF nvo, vo, vc, nvc
    <3>9. QED
      BY <1>1, <1>2, <2>2, <3>5, <3>6, <3>7, <3>8 DEF Follows
  <2>3. QED
    BY <2>1, <2>2
<1>15. InOrder(L, vt, nvo, nvc, totals, count)
  <2> HIDE DEF L, v, vt, vo, vc, before, count, nvo, nvc, old
  <2>1. InOrder(L, vt, nvo, nvc, Plus(Minus(before, vo[a].lamports), nvo[a].lamports), count)
    BY ONLY <1>2, <1>13, <1>14, ModifyOverrideInOrder
  <2>2. QED
    BY <1>10, <1>11, <1>12, <2>1
<1>16. vote' \in [Proposals -> Votes]
  BY <1>1, <1>7 DEF Votes
<1>17. QED
  <2> HIDE DEF totals
  <2>1. 0 \in Nat /\ count + 0 = count
    BY <1>2
  <2>2. QED
    <3>1. InOrder(LeavesOf(p), vote'[p], vote_override'[p], vote_override_cache'[p],
                  totals, proposal[p].vote_count + 0)
      BY <1>1, <1>15, <2>1
    <3>2. /\ VotingOpen(p) /\ Recount(p, totals, 0) /\ UNCHANGED Unvoted
          /\ \A q \in Proposals \ {p} :
                /\ vote'[q] = vote[q] /\ vote_override'[q] = vote_override[q]
                /\ vote_override_cache'[q] = vote_override_cache[q]
      BY <1>1, <1>12, <1>14
    <3>3. QED
      BY <1>6, <1>12, <1>14, <1>16, <2>1, <3>1, <3>2, RecountKeepsInv

-----------------------------------------------------------------------------
(***************************************************************************)
(* The instructions of the life cycle leave the totals alone, and a        *)
(* proposal begins with none.                                              *)
(***************************************************************************)
LEMMA TotalsKept ==
    ASSUME ProposalInv, [ProposalNext]_proposalVars, NEW p \in Proposals, Created(p)
    PROVE  /\ Created(p)'
           /\ proposal'[p].votes_lamports = proposal[p].votes_lamports
           /\ proposal'[p].vote_count = proposal[p].vote_count
<1>a. /\ proposal \in [Proposals -> Proposal \cup {None}] /\ proposal[p] \in Proposal
      /\ None \notin Proposal
  BY ProposalFacts, DistinctAssumption DEF ProposalInv, ProposalTypeOK
<1>b. ASSUME NEW new \in Proposal, proposal' = [proposal EXCEPT ![p] = new]
      PROVE  Created(p)' /\ proposal'[p] = new
  BY <1>a, <1>b DEF Created
<1>1. CASE proposal'[p] = proposal[p]
  BY <1>1 DEF Created
<1>2. ASSUME NEW v \in Validators, SupportProposal(p, v)
      PROVE  /\ Created(p)'
             /\ proposal'[p].votes_lamports = proposal[p].votes_lamports
             /\ proposal'[p].vote_count = proposal[p].vote_count
  <2>1. PICK new \in Proposal :
           /\ Activated(p, Supported(proposal[p], v), new)
           /\ proposal[p].votes_lamports = new.votes_lamports
           /\ proposal[p].vote_count = new.vote_count
    BY <1>2, SupportStep
  <2>2. Created(p)' /\ proposal'[p] = new
    BY <1>b, <2>1 DEF Activated
  <2>3. QED
    BY <2>1, <2>2
<1>3. CASE RetallySupport(p)
  BY <1>3, <1>b, RetallyStep DEF Activated
<1>4. ASSUME NEW k \in Keys, FlushMerkleRoot(k, p)
      PROVE  /\ Created(p)'
             /\ proposal'[p].votes_lamports = proposal[p].votes_lamports
             /\ proposal'[p].vote_count = proposal[p].vote_count
  BY <1>4, <1>b, FlushStep
<1>5. CASE FinalizeProposal(p)
  <2>1. PICK new \in Proposal :
           /\ proposal' = [proposal EXCEPT ![p] = new]
           /\ new = [proposal[p] EXCEPT !.finalized = TRUE]
    BY <1>5, FinalizeStep
  <2>2. /\ new.votes_lamports = proposal[p].votes_lamports
        /\ new.vote_count = proposal[p].vote_count
    BY <1>a, <2>1 DEF Proposal
  <2>3. QED
    BY <1>b, <2>1, <2>2
<1>6. QED
  BY <1>1, <1>2, <1>3, <1>4, <1>5, TouchedBy

LEMMA BeginsEmpty ==
    ASSUME ProposalInv, [ProposalNext]_proposalVars, NEW p \in Proposals, ~Created(p), Created(p)'
    PROVE  proposal'[p].votes_lamports = NoLamports /\ proposal'[p].vote_count = 0
<1>a. proposal \in [Proposals -> Proposal \cup {None}]
  BY DEF ProposalInv, ProposalTypeOK
<1>b. ASSUME NEW q \in Proposals, NEW new, proposal' = [proposal EXCEPT ![q] = new]
      PROVE  q = p
  BY <1>a, <1>b DEF Created
<1>c. proposal' # proposal
  BY DEF Created
<1>1. ASSUME NEW q \in Proposals, CreateProposal(q)
      PROVE  proposal'[p].votes_lamports = NoLamports /\ proposal'[p].vote_count = 0
  <2>1. q = p
    BY <1>1, <1>b DEF CreateProposal
  <2>2. QED
    BY <1>1, <1>a, <2>1 DEF CreateProposal
<1>2. ASSUME NEW q \in Proposals, NEW v \in Validators, SupportProposal(q, v)
      PROVE  FALSE
  BY <1>2, <1>b, SupportStep DEF Activated
<1>3. ASSUME NEW q \in Proposals, RetallySupport(q)
      PROVE  FALSE
  BY <1>3, <1>b, RetallyStep DEF Activated
<1>4. ASSUME NEW q \in Proposals, NEW k \in Keys, FlushMerkleRoot(k, q)
      PROVE  FALSE
  BY <1>4, <1>b, FlushStep
<1>5. ASSUME NEW q \in Proposals, FinalizeProposal(q)
      PROVE  FALSE
  BY <1>5, <1>b, FinalizeStep
<1>6. ASSUME NEW s \in SnapshotSlots, NEW r \in Snapshot!Result, PublishResult(s, r)
      PROVE  FALSE
  BY <1>6, <1>c DEF PublishResult
<1>7. QED
  BY <1>1, <1>2, <1>3, <1>4, <1>5, <1>6, <1>c DEF ProposalNext, proposalVars, Tick, InitializeIndex

LEMMA LifeCycleStep ==
    ASSUME VotingInv, [ProposalNext]_proposalVars, UNCHANGED voteVars
    PROVE  VotingInv'
<1>0. ProposalInv /\ TypeOK /\ \A p \in Proposals : Untouched(p) \/ UnderWay(p)
  BY DEF VotingInv
<1>1. ProposalInv'
  BY <1>0, ProposalStep
<1>2. UNCHANGED <<vote, vote_override, vote_override_cache>>
  BY DEF voteVars
<1>3. TypeOK'
  BY <1>0, <1>1, <1>2 DEF TypeOK, ProposalInv
<1>4. ASSUME NEW p \in Proposals, Untouched(p)
      PROVE  Untouched(p)'
  <2>1. Created(p)' => proposal'[p].votes_lamports = NoLamports /\ proposal'[p].vote_count = 0
    <3>1. CASE Created(p)
      BY <1>0, <1>4, <3>1, TotalsKept DEF Untouched
    <3>2. CASE ~Created(p)
      BY <1>0, <3>2, BeginsEmpty
    <3>3. QED
      BY <3>1, <3>2
  <2>2. QED
    BY <1>2, <1>4, <2>1 DEF Untouched
<1>5. ASSUME NEW p \in Proposals, UnderWay(p)
      PROVE  UnderWay(p)'
  <2>1. /\ Created(p) /\ proposal[p].voting /\ epoch >= proposal[p].start_epoch /\ Weighable(p)
        /\ InOrder(LeavesOf(p), vote[p], vote_override[p], vote_override_cache[p],
                   proposal[p].votes_lamports, proposal[p].vote_count)
    BY <1>5 DEF UnderWay
  <2>2. proposal[p] \in Proposal /\ Bound(proposal[p], status, epoch) /\ slot \in Nat
    BY <1>0, <2>1, ProposalFacts DEF ProposalInv, ProposalTypeOK
  <2>3. proposal[p].start_epoch \in Nat /\ epoch \in Nat
    BY <2>2, EpochType DEF Proposal
  <2>4. ~\E k \in Keys : FlushMerkleRoot(k, p)
    BY <2>1, <2>3 DEF FlushMerkleRoot
  <2>5. \/ proposal'[p] = proposal[p]
        \/ proposal'[p] = [proposal[p] EXCEPT !.finalized = TRUE]
    BY <1>0, <2>1, <2>4, ActivatedStays
  <2>6. /\ proposal'[p].voting /\ proposal'[p].start_epoch = proposal[p].start_epoch
        /\ proposal'[p].consensus_result = proposal[p].consensus_result
    BY <2>1, <2>2, <2>5 DEF Proposal
  <2>7. (slot' = slot \/ slot' = slot + 1) /\ StatusMoves
    BY <1>0, WorldMoves
  <2>8. epoch' >= proposal[p].start_epoch
    <3> DEFINE e == epoch
               f == epoch'
    <3>1. e \in Nat /\ f \in Nat /\ e <= f /\ e >= proposal[p].start_epoch
      BY <2>1, <2>2, <2>3, <2>7, EpochMonotone
    <3> HIDE DEF e, f
    <3>2. f >= proposal[p].start_epoch
      BY <2>3, <3>1
    <3>3. QED
      BY <3>2 DEF f
  <2>9. proposal[p].consensus_result \in SnapshotSlots
    BY <2>1, <2>2 DEF Bound
  <2>10. status'[proposal[p].consensus_result] = status[proposal[p].consensus_result]
    BY <2>1, <2>7, <2>9 DEF StatusMoves, Weighable
  <2>11. Weighable(p)' /\ LeavesOf(p)' = LeavesOf(p)
    BY <2>1, <2>6, <2>10 DEF Weighable, LeavesOf
  <2>12. /\ Created(p)' /\ proposal'[p].votes_lamports = proposal[p].votes_lamports
         /\ proposal'[p].vote_count = proposal[p].vote_count
    BY <1>0, <2>1, TotalsKept
  <2>13. QED
    BY <1>2, <2>1, <2>6, <2>8, <2>11, <2>12 DEF UnderWay
<1>6. QED
  BY <1>0, <1>1, <1>3, <1>4, <1>5 DEF VotingInv

LEMMA VotingStart == Init => VotingInv
<1> SUFFICES ASSUME Init
             PROVE  VotingInv
  OBVIOUS
<1>1. ProposalInv
  BY ProposalStart DEF Init
<1>2. TypeOK
  BY <1>1 DEF Init, TypeOK, ProposalInv
<1>3. ASSUME NEW p \in Proposals
      PROVE  Untouched(p)
  BY DEF Init, ProposalInit, Untouched, Created
<1>4. QED
  BY <1>1, <1>2, <1>3 DEF VotingInv

LEMMA VotingStep == VotingInv /\ [Next]_vars => VotingInv'
<1> SUFFICES ASSUME VotingInv, [Next]_vars
             PROVE  VotingInv'
  OBVIOUS
<1>1. CASE ProposalNext /\ UNCHANGED voteVars
  BY <1>1, LifeCycleStep
<1>2. CASE UNCHANGED vars
  BY <1>2, LifeCycleStep DEF vars
<1>3. ASSUME NEW p \in Proposals, NEW bp \in Distributions, NEW v \in Validators,
             CastVote(p, v, bp) \/ ModifyVote(p, v, bp)
      PROVE  VotingInv'
  BY <1>3, CastVoteStep, ModifyVoteStep
<1>4. ASSUME NEW p \in Proposals, NEW bp \in Distributions, NEW a \in StakeAccounts,
             CastVoteOverride(p, a, bp) \/ ModifyVoteOverride(p, a, bp)
      PROVE  VotingInv'
  BY <1>4, CastVoteOverrideStep, ModifyVoteOverrideStep
<1>5. QED
  BY <1>1, <1>2, <1>3, <1>4 DEF Next

LEMMA VotingInvHolds == Spec => []VotingInv
  BY VotingStart, VotingStep, PTL DEF Spec

-----------------------------------------------------------------------------
(***************************************************************************)
(* What the properties say, in terms of the books.                         *)
(***************************************************************************)
LEMMA SameNames ==
    ASSUME NEW p
    PROVE  /\ Voters(p) = Having(Validators, vote[p])
           /\ Overriders(p) = Having(StakeAccounts, vote_override[p])
           /\ \A v : OverridersOf(p, v) = SpeakersOf(LeavesOf(p), vote_override[p], v)
           /\ \A v : Overridden(p, v) = Taken(LeavesOf(p), vote_override[p], v)
           /\ \A v : Cache(p, v) = CacheOf(vote_override_cache[p], v)
<1>1. /\ Voters(p) = Having(Validators, vote[p])
      /\ Overriders(p) = Having(StakeAccounts, vote_override[p])
  BY DEF Voters, HasVote, Overriders, HasOverride, Having
<1>2. \A v : OverridersOf(p, v) = SpeakersOf(LeavesOf(p), vote_override[p], v)
  BY <1>1 DEF OverridersOf, SpeakersOf
<1>3. \A v : Overridden(p, v) = Taken(LeavesOf(p), vote_override[p], v)
  BY <1>2 DEF Overridden, Taken
<1>4. \A v : Cache(p, v) = CacheOf(vote_override_cache[p], v)
  BY DEF Cache, CacheOf
<1>5. QED
  BY <1>1, <1>2, <1>3, <1>4

LEMMA VotedFacts ==
    ASSUME VotingInv, NEW p \in Proposals, Created(p), Voted(p)
    PROVE  /\ UnderWay(p) /\ Weighable(p) /\ Fits(LeavesOf(p))
           /\ vote[p] \in Votes /\ vote_override[p] \in Overrides
           /\ vote_override_cache[p] \in Caches
           /\ InOrder(LeavesOf(p), vote[p], vote_override[p], vote_override_cache[p],
                      proposal[p].votes_lamports, proposal[p].vote_count)
<1>1. ~Untouched(p)
  BY DEF Voted, Voters, Overriders, HasVote, HasOverride, Untouched
<1>2. UnderWay(p) /\ ProposalInv
  BY <1>1 DEF VotingInv
<1>3. Weighable(p) /\ Fits(LeavesOf(p))
  BY <1>2, SnapshotFits DEF UnderWay
<1>4. /\ vote[p] \in Votes /\ vote_override[p] \in Overrides
      /\ vote_override_cache[p] \in Caches
  BY DEF VotingInv, TypeOK, Votes, Overrides, Caches
<1>5. QED
  BY <1>2, <1>3, <1>4 DEF UnderWay

(***************************************************************************)
(* All votes of a proposal are weighed by the one snapshot it is bound to, *)
(* and one is counted per voter (flush_merkle_root.rs:60, cast_vote.rs:    *)
(* 117).                                                                   *)
(***************************************************************************)
THEOREM OneSnapshotWeighsAll == Spec => []WeighedByOneSnapshot
<1>1. VotingInv => WeighedByOneSnapshot
  <2> SUFFICES ASSUME VotingInv, NEW p \in Proposals, Created(p)
               PROVE  /\ proposal[p].vote_count = Cardinality(Voters(p)) + Cardinality(Overriders(p))
                      /\ Voted(p) =>
                            /\ Weighable(p)
                            /\ \A v \in Voters(p) : vote[p][v].stake = LeavesOf(p).active[v]
                            /\ \A a \in Overriders(p) :
                                  vote_override[p][a].stake_amount = LeavesOf(p).delegated[a]
    BY DEF WeighedByOneSnapshot
  <2>1. CASE Voted(p)
    <3>1. /\ Weighable(p)
          /\ InOrder(LeavesOf(p), vote[p], vote_override[p], vote_override_cache[p],
                     proposal[p].votes_lamports, proposal[p].vote_count)
      BY <2>1, VotedFacts
    <3>2. /\ VotesInOrder(LeavesOf(p), vote[p], vote_override[p])
          /\ OverridesInOrder(LeavesOf(p), vote_override[p])
          /\ VotesCounted(vote[p], vote_override[p], proposal[p].vote_count)
      BY <3>1 DEF InOrder
    <3>3. QED
      BY <3>1, <3>2, SameNames DEF VotesInOrder, OverridesInOrder, VotesCounted
  <2>2. CASE ~Voted(p)
    <3>1. Voters(p) = {} /\ Overriders(p) = {}
      BY <2>2 DEF Voted
    <3>2. proposal[p].vote_count = 0
      <4>1. CASE Untouched(p)
        BY <4>1 DEF Untouched
      <4>2. CASE UnderWay(p)
        <5>1. VotesCounted(vote[p], vote_override[p], proposal[p].vote_count)
          BY <4>2 DEF UnderWay, InOrder
        <5>2. QED
          BY <3>1, <5>1, SameNames, FS_EmptySet DEF VotesCounted
      <4>3. QED
        BY <4>1, <4>2 DEF VotingInv
    <3>3. QED
      BY <2>2, <3>1, <3>2, FS_EmptySet
  <2>3. QED
    BY <2>1, <2>2
<1>2. QED
  BY <1>1, VotingInvHolds, PTL

(***************************************************************************)
(* The stake a validator has lost is known where it is needed next: in its *)
(* vote, or in the cache until it votes (cast_vote.rs:174,                 *)
(* cast_vote_override.rs:244, modify_vote_override.rs:230).                *)
(***************************************************************************)
THEOREM OverridesStayRemembered == Spec => []OverridesAreRemembered
<1>1. VotingInv => OverridesAreRemembered
  <2> SUFFICES ASSUME VotingInv, NEW p \in Proposals, NEW v \in Validators, Created(p), Voted(p)
               PROVE  IF HasVote(p, v)
                      THEN vote[p][v].override_lamports = Overridden(p, v)
                      ELSE /\ Cache(p, v).total_stake = Overridden(p, v)
                           /\ \A o \in Options : Cache(p, v).lamports[o] =
                                 Sum([a \in OverridersOf(p, v) |-> vote_override[p][a].lamports[o]])
    BY DEF OverridesAreRemembered
  <2>1. /\ VotesInOrder(LeavesOf(p), vote[p], vote_override[p])
        /\ CachesInOrder(LeavesOf(p), vote[p], vote_override[p], vote_override_cache[p])
    BY VotedFacts DEF InOrder
  <2>2. CASE HasVote(p, v)
    BY <2>1, <2>2, SameNames DEF VotesInOrder, Having, HasVote
  <2>3. CASE ~HasVote(p, v)
    <3>1. /\ Cache(p, v).total_stake = Overridden(p, v)
          /\ \A o \in Options :
                Cache(p, v).lamports[o] = Pending(LeavesOf(p), vote_override[p], v, o)
      BY <2>1, <2>3, SameNames DEF CachesInOrder, HasVote
    <3>2. OverridersOf(p, v) = SpeakersOf(LeavesOf(p), vote_override[p], v)
      BY SameNames
    <3>3. QED
      BY <2>3, <3>1, <3>2 DEF Pending
  <2>4. QED
    BY <2>2, <2>3
<1>2. QED
  BY <1>1, VotingInvHolds, PTL

(***************************************************************************)
(* The totals are what the choices amount to, whatever the order in which  *)
(* votes, overrides and changes of either came in (cast_vote.rs:156-215,   *)
(* cast_vote_override.rs:200-370, modify_vote.rs:143-165,                  *)
(* modify_vote_override.rs:205-217).                                       *)
(***************************************************************************)
THEOREM TotalsStayTheOutcome == Spec => []TotalsAreOutcome
<1>1. ASSUME VotingInv, NEW p \in Proposals, Created(p), Voted(p), NEW o \in Options
      PROVE  proposal[p].votes_lamports[o] = Outcome(p, o)
  <2> DEFINE L == LeavesOf(p)
             D == Having(Validators, vote[p])
             E == Having(StakeAccounts, vote_override[p])
  <2>1. /\ VotesInOrder(L, vote[p], vote_override[p]) /\ OverridesInOrder(L, vote_override[p])
        /\ TotalsInOrder(vote[p], vote_override[p], proposal[p].votes_lamports)
    BY <1>1, VotedFacts DEF InOrder
  <2>2. \A v \in D : vote[p][v].lamports[o]
                       = vote_lamports(L.active[v] - Overridden(p, v), vote[p][v].bp)[o]
    BY <2>1, SameNames DEF VotesInOrder
  <2>3. \A a \in E : vote_override[p][a].lamports[o]
                       = vote_lamports(L.delegated[a], vote_override[p][a].bp)[o]
    BY <2>1 DEF OverridesInOrder
  <2>4. Voters(p) = D /\ Overriders(p) = E
    BY SameNames
  <2>5. proposal[p].votes_lamports[o]
          = Sum([v \in D |-> vote[p][v].lamports[o]])
              + Sum([a \in E |-> vote_override[p][a].lamports[o]])
    BY <2>1 DEF TotalsInOrder, Weight
  <2> HIDE DEF L, D, E
  <2>6. [v \in D |-> vote[p][v].lamports[o]]
          = [v \in D |-> vote_lamports(L.active[v] - Overridden(p, v), vote[p][v].bp)[o]]
    BY <2>2
  <2>7. [a \in E |-> vote_override[p][a].lamports[o]]
          = [a \in E |-> vote_lamports(L.delegated[a], vote_override[p][a].bp)[o]]
    BY <2>3
  <2>8. QED
    BY <2>4, <2>5, <2>6, <2>7 DEF Outcome, L
<1>2. VotingInv => TotalsAreOutcome
  BY <1>1 DEF TotalsAreOutcome, VotingInv
<1>3. QED
  BY <1>2, VotingInvHolds, PTL

-----------------------------------------------------------------------------
(***************************************************************************)
(* A voting instruction moves the totals of one proposal with voting open, *)
(* and nothing else of any proposal.                                       *)
(***************************************************************************)
LEMMA VotingInstruction ==
    ASSUME [Next]_vars
    PROVE  \/ [ProposalNext]_proposalVars
           \/ \E p \in Proposals :
                 /\ VotingOpen(p) /\ UNCHANGED Unvoted
                 /\ \E totals, n : Recount(p, totals, n)
<1>1. CASE ProposalNext \/ UNCHANGED vars
  BY <1>1 DEF vars
<1>2. ASSUME NEW p \in Proposals, NEW bp \in Distributions, NEW v \in Validators,
             CastVote(p, v, bp) \/ ModifyVote(p, v, bp)
      PROVE  VotingOpen(p) /\ UNCHANGED Unvoted /\ \E totals, n : Recount(p, totals, n)
  BY <1>2 DEF CastVote, ModifyVote
<1>3. ASSUME NEW p \in Proposals, NEW bp \in Distributions, NEW a \in StakeAccounts,
             CastVoteOverride(p, a, bp)
      PROVE  VotingOpen(p) /\ UNCHANGED Unvoted /\ \E totals, n : Recount(p, totals, n)
  <2> DEFINE v == LeavesOf(p).validator_of[a]
             stake == LeavesOf(p).delegated[a]
             lamports == vote_lamports(stake, bp)
  <2>1. /\ VotingOpen(p) /\ UNCHANGED Unvoted
        /\ OverrideVoted(p, v, stake, lamports) \/ OverrideUnvoted(p, v, stake, lamports)
    BY <1>3 DEF CastVoteOverride
  <2> HIDE DEF v, stake, lamports
  <2>2. QED
    BY <2>1 DEF OverrideVoted, OverrideUnvoted
<1>4. ASSUME NEW p \in Proposals, NEW bp \in Distributions, NEW a \in StakeAccounts,
             ModifyVoteOverride(p, a, bp)
      PROVE  VotingOpen(p) /\ UNCHANGED Unvoted /\ \E totals, n : Recount(p, totals, n)
  BY <1>4 DEF ModifyVoteOverride
<1>5. QED
  BY <1>1, <1>2, <1>3, <1>4 DEF Next

LEMMA RecountedFields ==
    ASSUME ProposalInv, NEW p \in Proposals, Created(p), NEW totals, NEW n, Recount(p, totals, n)
    PROVE  /\ \A q \in Proposals \ {p} : proposal'[q] = proposal[q]
           /\ proposal'[p].voting = proposal[p].voting
           /\ proposal'[p].finalized = proposal[p].finalized
           /\ proposal'[p].consensus_result = proposal[p].consensus_result
           /\ proposal'[p].start_epoch = proposal[p].start_epoch
           /\ proposal'[p].end_epoch = proposal[p].end_epoch
           /\ proposal'[p].supporters = proposal[p].supporters
<1>1. proposal \in [Proposals -> Proposal \cup {None}] /\ proposal[p] \in Proposal
  BY ProposalFacts DEF ProposalInv, ProposalTypeOK
<1>2. QED
  BY <1>1 DEF Recount, Proposal

(***************************************************************************)
(* While the totals of one proposal move every other proposal stays as it  *)
(* is: the voting instructions write to the proposal they are given alone. *)
(***************************************************************************)
VotesTouchOneProposal ==
    [][\A p \in Proposals :
         Created(p) /\ proposal'[p].votes_lamports # proposal[p].votes_lamports
         => \A r \in Proposals \ {p} : proposal'[r] = proposal[r]]_vars

(***************************************************************************)
(* Totals move only inside the voting window and before finalization       *)
(* (finalize_proposal.rs:20-33): what is announced at the end stays.  They *)
(* move for one proposal at a time.                                        *)
(***************************************************************************)
THEOREM TotalsMoveInWindowOnly == Spec => TotalsMoveInWindow /\ VotesTouchOneProposal
<1> DEFINE moved(p) ==
        Created(p) /\ proposal'[p].votes_lamports # proposal[p].votes_lamports
           inside(p) ==
        moved(p) => /\ proposal[p].start_epoch <= epoch /\ epoch < proposal[p].end_epoch
                    /\ ~proposal[p].finalized
           alone(p) == moved(p) => \A r \in Proposals \ {p} : proposal'[r] = proposal[r]
<1>1. ASSUME VotingInv, [Next]_vars, NEW p \in Proposals
      PROVE  inside(p) /\ alone(p)
  <2>1. CASE [ProposalNext]_proposalVars
    BY <1>1, <2>1, TotalsKept DEF VotingInv
  <2>2. ASSUME NEW q \in Proposals, VotingOpen(q), NEW totals, NEW n, Recount(q, totals, n)
        PROVE  inside(p) /\ alone(p)
    <3>1. \A r \in Proposals : r # q => proposal'[r] = proposal[r]
      BY <1>1, <2>2, RecountedFields DEF VotingInv, VotingOpen
    <3>2. moved(p) => p = q
      BY <3>1
    <3>3. alone(p)
      BY <3>1, <3>2
    <3>4. inside(p)
      BY <2>2, <3>2 DEF VotingOpen
    <3>5. QED
      BY <3>3, <3>4
  <2>3. QED
    BY <1>1, <2>1, <2>2, VotingInstruction
<1> DEFINE Inside == \A p \in Proposals : inside(p)
           Alone == \A p \in Proposals : alone(p)
<1>2. VotingInv /\ [Next]_vars => [Inside]_vars /\ [Alone]_vars
  BY <1>1
<1>3. QED
  BY <1>2, VotingInvHolds, PTL DEF Spec, TotalsMoveInWindow, VotesTouchOneProposal

(***************************************************************************)
(* Voting leaves the life cycle as it is: with votes coming in, proposals  *)
(* stay bound and counted, start only when backed, are bound only to what  *)
(* lies ahead, and are fixed from the epoch in which voting starts; once   *)
(* finalized, a proposal never changes (finalize_proposal.rs:20-33).       *)
(***************************************************************************)
THEOREM VotingKeepsTheLifeCycle ==
    Spec => /\ []BoundToABox /\ []SupportersAreCounted
            /\ ActivationIsBacked /\ NeverBackdated
            /\ [][FixedOnceStarted]_proposalVars
<1>1. VotingInv => BoundToABox /\ SupportersAreCounted
  <2>1. ProposalInv => BoundToABox
    BY DEF ProposalInv, BoundToABox, Bound
  <2>2. ProposalInv => SupportersAreCounted
    BY DEF ProposalInv, SupportersAreCounted, Counted, Numbered, Created
  <2>3. QED
    BY <2>1, <2>2 DEF VotingInv
<1>2. ASSUME VotingInv, NEW q \in Proposals, VotingOpen(q), UNCHANGED Unvoted,
             NEW totals, NEW n, Recount(q, totals, n)
      PROVE  /\ FixedOnceStarted
             /\ \A p \in Proposals : Backs(p) /\ LooksAhead(p)
  <2>1. ProposalInv /\ Created(q) /\ ~proposal[q].finalized
    BY <1>2 DEF VotingInv, VotingOpen
  <2>2. \A p \in Proposals :
           /\ proposal'[p].voting = proposal[p].voting
           /\ proposal'[p].consensus_result = proposal[p].consensus_result
           /\ proposal'[p].start_epoch = proposal[p].start_epoch
           /\ proposal'[p].end_epoch = proposal[p].end_epoch
           /\ proposal'[p].supporters = proposal[p].supporters
           /\ p # q => proposal'[p] = proposal[p]
    BY <1>2, <2>1, RecountedFields
  <2>3. QED
    BY <2>1, <2>2 DEF FixedOnceStarted, Backs, LooksAhead
<1>3. ASSUME VotingInv, [ProposalNext]_proposalVars
      PROVE  /\ FixedOnceStarted
             /\ \A p \in Proposals : Backs(p) /\ LooksAhead(p)
  BY <1>3, FixedStep, BackedStep, AheadStep DEF VotingInv
<1>4. VotingInv /\ [Next]_vars
        => /\ [FixedOnceStarted]_proposalVars
           /\ [\A p \in Proposals : Backs(p)]_proposalVars
           /\ [\A p \in Proposals : LooksAhead(p)]_proposalVars
  <2> SUFFICES ASSUME VotingInv, [Next]_vars
               PROVE  /\ FixedOnceStarted
                      /\ \A p \in Proposals : Backs(p) /\ LooksAhead(p)
    OBVIOUS
  <2>1. QED
    BY <1>2, <1>3, VotingInstruction
<1>5. QED
  BY <1>1, <1>4, VotingInvHolds, PTL
     DEF Spec, ActivationIsBacked, NeverBackdated, Backs, LooksAhead

-----------------------------------------------------------------------------
(***************************************************************************)
(* While voting is open, every check of the voting instructions that       *)
(* depends on what others did succeeds: the vote or override taken back is *)
(* covered by the totals, the stake taken by delegators is covered by the  *)
(* validator's, and the cache a change needs is there (proposal.rs:141-    *)
(* 163, cast_vote.rs:174, cast_vote_override.rs:222,                       *)
(* modify_vote_override.rs:230).  What is left of their guards is the      *)
(* caller's own: stake in the snapshot and a valid distribution.           *)
(* NobodyIsLockedOut says it with ENABLED, which needs TLC.                *)
(***************************************************************************)
NoCheckFails ==
    \A p \in Proposals : Created(p) /\ VotingOpen(p) =>
        LET L == LeavesOf(p)
            totals == proposal[p].votes_lamports
        IN /\ \A v \in Validators :
                 IF HasVote(p, v)
                 THEN /\ Covers(totals, vote[p][v].lamports)
                      /\ L.active[v] >= vote[p][v].override_lamports
                 ELSE L.active[v] >= Cache(p, v).total_stake
           /\ \A a \in StakeAccounts :
                 LET v == L.validator_of[a]
                 IN IF HasOverride(p, a)
                    THEN /\ Covers(totals, vote_override[p][a].lamports)
                         /\ ~HasVote(p, v) =>
                               /\ vote_override_cache[p][v] # None
                               /\ Covers(Cache(p, v).lamports, vote_override[p][a].lamports)
                    ELSE HasVote(p, v) =>
                            L.active[v] >= L.delegated[a] + vote[p][v].override_lamports

\* The totals cover every vote and every override in them.
LEMMA TotalsCover ==
    ASSUME NEW vt \in Votes, NEW vo \in Overrides, NEW totals, TotalsInOrder(vt, vo, totals)
    PROVE  /\ \A v \in Having(Validators, vt) : Covers(totals, vt[v].lamports)
           /\ \A a \in Having(StakeAccounts, vo) : Covers(totals, vo[a].lamports)
<1>1. /\ \A v \in Having(Validators, vt) : vt[v].lamports \in [Options -> Nat]
      /\ \A a \in Having(StakeAccounts, vo) : vo[a].lamports \in [Options -> Nat]
      /\ \A o \in Options :
            Weight(Validators, vt, o) \in Nat /\ Weight(StakeAccounts, vo, o) \in Nat
  BY BooksFacts
<1>2. ASSUME NEW v \in Having(Validators, vt), NEW o \in Options
      PROVE  totals[o] >= vt[v].lamports[o]
  <2>1. v \in Validators /\ vt[v] # None
    BY DEF Having
  <2>2. Weight(Validators, vt, o) >= vt[v].lamports[o]
    BY <1>1, <2>1, ProposalAssumption, WeightChanged
  <2>3. totals[o] = Weight(Validators, vt, o) + Weight(StakeAccounts, vo, o)
    BY DEF TotalsInOrder
  <2>4. vt[v].lamports[o] \in Nat
    BY <1>1
  <2>5. QED
    BY ONLY <1>1, <2>2, <2>3, <2>4, o \in Options
<1>3. ASSUME NEW a \in Having(StakeAccounts, vo), NEW o \in Options
      PROVE  totals[o] >= vo[a].lamports[o]
  <2>1. a \in StakeAccounts /\ vo[a] # None
    BY DEF Having
  <2>2. Weight(StakeAccounts, vo, o) >= vo[a].lamports[o]
    BY <1>1, <2>1, VotingAssumption, WeightChanged
  <2>3. totals[o] = Weight(Validators, vt, o) + Weight(StakeAccounts, vo, o)
    BY DEF TotalsInOrder
  <2>4. vo[a].lamports[o] \in Nat
    BY <1>1
  <2>5. QED
    BY ONLY <1>1, <2>2, <2>3, <2>4, o \in Options
<1>4. QED
  BY <1>2, <1>3 DEF Covers

\* The cache of a validator that has not voted covers its delegators.
LEMMA CacheCovers ==
    ASSUME NEW L, Fits(L), NEW vt \in Votes, NEW vo \in Overrides, NEW vc \in Caches,
           OverridesInOrder(L, vo), CachesInOrder(L, vt, vo, vc),
           NEW a \in StakeAccounts, vo[a] # None, NEW v \in Validators, v = L.validator_of[a],
           vt[v] = None
    PROVE  vc[v] # None /\ Covers(CacheOf(vc, v).lamports, vo[a].lamports)
<1>1. L \in Snapshots /\ L.delegated[a] \in Nat
  BY DEF Fits, Snapshots
<1>2. /\ CacheOf(vc, v).total_stake = Taken(L, vo, v)
      /\ \A o \in Options : CacheOf(vc, v).lamports[o] = Pending(L, vo, v, o)
  BY DEF CachesInOrder
<1>3. \A o \in Options : Pending(L, vo, v, o) >= vo[a].lamports[o]
  BY <1>1, SpeakerChanged
<1>4. Taken(L, vo, v) # 0
  <2> DEFINE D == SpeakersOf(L, vo, v)
             sD == [b \in D |-> L.delegated[b]]
  <2>1. IsFiniteSet(D) /\ D \subseteq StakeAccounts /\ a \in D
    BY <1>1, SpeakersFacts DEF SpeakersOf, Having
  <2>2. L.delegated[a] > 0
    BY DEF OverridesInOrder, Having
  <2>3. Taken(L, vo, v) = Sum(sD)
    BY DEF Taken
  <2> HIDE DEF D
  <2>4. sD \in [D -> Nat] /\ sD[a] = L.delegated[a]
    BY <1>1, <2>1 DEF Snapshots
  <2> HIDE DEF sD
  <2>5. Sum(sD) \in Nat /\ Sum(sD) >= sD[a]
    BY ONLY <2>1, <2>4, SumChange
  <2>6. QED
    BY <1>1, <2>2, <2>3, <2>4, <2>5
<1>5. vc[v] # None
  BY <1>2, <1>4 DEF CacheOf, NoOverrides
<1>6. QED
  BY <1>2, <1>3, <1>5 DEF Covers

THEOREM NoCheckEverFails == Spec => []NoCheckFails
<1>1. ASSUME VotingInv, NEW p \in Proposals, VotingOpen(p)
      PROVE  LET L == LeavesOf(p)
                 totals == proposal[p].votes_lamports
             IN /\ \A v \in Validators :
                      IF HasVote(p, v)
                      THEN /\ Covers(totals, vote[p][v].lamports)
                           /\ L.active[v] >= vote[p][v].override_lamports
                      ELSE L.active[v] >= Cache(p, v).total_stake
                /\ \A a \in StakeAccounts :
                      LET v == L.validator_of[a]
                      IN IF HasOverride(p, a)
                         THEN /\ Covers(totals, vote_override[p][a].lamports)
                              /\ ~HasVote(p, v) =>
                                    /\ vote_override_cache[p][v] # None
                                    /\ Covers(Cache(p, v).lamports, vote_override[p][a].lamports)
                         ELSE HasVote(p, v) =>
                                 L.active[v] >= L.delegated[a] + vote[p][v].override_lamports
  <2> DEFINE L == LeavesOf(p)
             vt == vote[p]
             vo == vote_override[p]
             vc == vote_override_cache[p]
             totals == proposal[p].votes_lamports
  <2>1. /\ Fits(L) /\ vt \in Votes /\ vo \in Overrides /\ vc \in Caches
        /\ VotesInOrder(L, vt, vo) /\ OverridesInOrder(L, vo)
        /\ CachesInOrder(L, vt, vo, vc) /\ TotalsInOrder(vt, vo, totals)
    BY <1>1, OpenFacts DEF InOrder
  <2>2. \A v \in Validators : (HasVote(p, v) <=> vt[v] # None) /\ Cache(p, v) = CacheOf(vc, v)
    BY SameNames DEF HasVote
  <2>3. \A a \in StakeAccounts : HasOverride(p, a) <=> vo[a] # None
    BY DEF HasOverride
  <2>4. L.validator_of \in [StakeAccounts -> Validators] /\ L.delegated \in [StakeAccounts -> Nat]
    BY <2>1 DEF Fits, Snapshots
  <2>a. vote_override_cache[p] = vc /\ vote[p] = vt /\ vote_override[p] = vo
    OBVIOUS
  <2> HIDE DEF L, vt, vo, vc, totals
  <2>5. \A v \in Validators :
           /\ vt[v] # None => Covers(totals, vt[v].lamports)
           /\ vt[v] # None => vt[v].override_lamports = Taken(L, vo, v)
           /\ vt[v] = None => CacheOf(vc, v).total_stake = Taken(L, vo, v)
    BY <2>1, TotalsCover DEF Having, VotesInOrder, CachesInOrder
  <2>6. \A v \in Validators :
           /\ Taken(L, vo, v) \in Nat /\ L.active[v] \in Nat /\ L.active[v] >= Taken(L, vo, v)
           /\ \A a \in StakeAccounts : L.validator_of[a] = v /\ vo[a] = None
                 => Taken(L, vo, v) + L.delegated[a] <= L.active[v]
    BY <2>1, TakenFits
  <2>7. ASSUME NEW v \in Validators
        PROVE  IF HasVote(p, v)
               THEN Covers(totals, vt[v].lamports) /\ L.active[v] >= vt[v].override_lamports
               ELSE L.active[v] >= Cache(p, v).total_stake
    BY <2>2, <2>5, <2>6
  <2>8. ASSUME NEW a \in StakeAccounts, NEW v \in Validators, v = L.validator_of[a]
        PROVE  IF HasOverride(p, a)
               THEN /\ Covers(totals, vo[a].lamports)
                    /\ ~HasVote(p, v) =>
                          vc[v] # None /\ Covers(Cache(p, v).lamports, vo[a].lamports)
               ELSE HasVote(p, v) => L.active[v] >= L.delegated[a] + vt[v].override_lamports
    <3>1. CASE vo[a] # None
      <4>1. Covers(totals, vo[a].lamports)
        BY <2>1, <3>1, TotalsCover DEF Having
      <4>2. ASSUME vt[v] = None
            PROVE  vc[v] # None /\ Covers(CacheOf(vc, v).lamports, vo[a].lamports)
        BY <2>1, <2>8, <3>1, <4>2, CacheCovers
      <4>3. QED
        BY <2>2, <2>3, <3>1, <4>1, <4>2
    <3>2. CASE vo[a] = None
      <4>1. ASSUME vt[v] # None
            PROVE  L.active[v] >= L.delegated[a] + vt[v].override_lamports
        <5>1. /\ vt[v].override_lamports = Taken(L, vo, v)
              /\ Taken(L, vo, v) + L.delegated[a] <= L.active[v]
              /\ Taken(L, vo, v) \in Nat /\ L.active[v] \in Nat /\ L.delegated[a] \in Nat
          BY <2>4, <2>5, <2>6, <2>8, <3>2, <4>1
        <5>2. QED
          BY ONLY <5>1
      <4>2. QED
        BY <2>2, <2>3, <3>2, <4>1
    <3>3. QED
      BY <3>1, <3>2
  <2>9. QED
    BY <2>4, <2>7, <2>8, <2>a DEF L, totals
<1>2. VotingInv => NoCheckFails
  BY <1>1 DEF NoCheckFails
<1>3. QED
  BY <1>2, VotingInvHolds, PTL

-----------------------------------------------------------------------------
(***************************************************************************)
(* Rounding.  Three shares of a stake, each rounded down, miss less than   *)
(* three lamports of it: two at most.                                      *)
(***************************************************************************)
LEMMA ThreeShares ==
    ASSUME NEW n \in Nat, NEW x \in Nat, NEW y \in Nat, NEW z \in Nat, x + y + z = n * 10000
    PROVE  /\ x \div 10000 \in Nat /\ y \div 10000 \in Nat /\ z \div 10000 \in Nat
           /\ (x \div 10000) + (y \div 10000) + (z \div 10000) <= n
           /\ n <= (x \div 10000) + (y \div 10000) + (z \div 10000) + 2
  BY SMT

LEMMA VoteRounds ==
    ASSUME NEW n \in Nat, NEW bp \in [Options -> Nat], ValidDistribution(bp),
           NEW w, w = vote_lamports(n, bp)
    PROVE  /\ w \in [Options -> Nat]
           /\ w["for"] + w["against"] + w["abstain"] <= n
           /\ n <= w["for"] + w["against"] + w["abstain"] + 2
<1> DEFINE b == bp["for"]
           c == bp["against"]
           d == bp["abstain"]
           x == n * b
           y == n * c
           z == n * d
<1>1. /\ b \in Nat /\ c \in Nat /\ d \in Nat
      /\ b + c + d = 10000
  BY SMT DEF ValidDistribution, BASIS_POINTS_MAX, Options
<1>2. /\ w["for"] = x \div 10000
      /\ w["against"] = y \div 10000
      /\ w["abstain"] = z \div 10000
      /\ w = [o \in Options |-> w[o]]
  BY SMT DEF vote_lamports, BASIS_POINTS_MAX, Options
<1> HIDE DEF b, c, d
<1>3. /\ x \in Nat /\ y \in Nat /\ z \in Nat
      /\ x + y + z = n * (b + c + d)
  BY <1>1, SMT
<1>4. x + y + z = n * 10000
  BY <1>1, <1>3, SMT
<1> HIDE DEF x, y, z
<1>5. /\ w["for"] \in Nat /\ w["against"] \in Nat /\ w["abstain"] \in Nat
      /\ w["for"] + w["against"] + w["abstain"] <= n
      /\ n <= w["for"] + w["against"] + w["abstain"] + 2
  BY <1>2, <1>3, <1>4, ThreeShares
<1>6. w \in [Options -> Nat]
  BY <1>2, <1>5 DEF Options
<1>7. QED
  BY <1>5, <1>6

\* A sum of equal terms.
LEMMA SumOfEquals ==
    ASSUME NEW D, IsFiniteSet(D), NEW n \in Nat, NEW f \in [D -> Nat], \A x \in D : f[x] = n
    PROVE  Cardinality(D) \in Nat /\ Sum(f) = Cardinality(D) * n
<1> DEFINE I == 1 .. n
<1>1. IsFiniteSet(I) /\ Cardinality(I) = n
  BY FS_Interval
<1>2. Units(f) = D \X I
  BY UnitsMember
<1> HIDE DEF I
<1>3. Cardinality(D) \in Nat
  BY FS_CardinalityType
<1>4. Cardinality(D \X I) = Cardinality(D) * n
  BY <1>1, FS_Product
<1>5. QED
  BY <1>2, <1>3, <1>4 DEF Sum

(***************************************************************************)
(* Rounding of many votes: own is the stake each decides about, a, b and c *)
(* its three shares of it.                                                 *)
(***************************************************************************)
LEMMA VotesRound ==
    ASSUME NEW D, IsFiniteSet(D), NEW own \in [D -> Nat],
           NEW a \in [D -> Nat], NEW b \in [D -> Nat], NEW c \in [D -> Nat],
           \A x \in D : a[x] + b[x] + c[x] <= own[x] /\ own[x] <= a[x] + b[x] + c[x] + 2
    PROVE  /\ Sum(own) \in Nat /\ Sum(a) \in Nat /\ Sum(b) \in Nat /\ Sum(c) \in Nat
           /\ Cardinality(D) \in Nat
           /\ Sum(a) + Sum(b) + Sum(c) <= Sum(own)
           /\ Sum(own) <= Sum(a) + Sum(b) + Sum(c) + 2 * Cardinality(D)
<1> DEFINE ab == [x \in D |-> a[x] + b[x]]
           abc == [x \in D |-> ab[x] + c[x]]
           two == [x \in D |-> 2]
           most == [x \in D |-> abc[x] + two[x]]
<1>1. ab \in [D -> Nat] /\ \A x \in D : ab[x] = a[x] + b[x]
  OBVIOUS
<1>2. abc \in [D -> Nat] /\ \A x \in D : abc[x] = ab[x] + c[x]
  BY <1>1
<1>3. two \in [D -> Nat] /\ \A x \in D : two[x] = 2
  OBVIOUS
<1> HIDE DEF ab, abc, two
<1>4. /\ two \in [D -> Nat] /\ Cardinality(D) \in Nat
      /\ Sum(two) = Cardinality(D) * 2
  <2>1. 2 \in Nat
    OBVIOUS
  <2>2. QED
    BY <1>3, <2>1, SumOfEquals
<1>5. most \in [D -> Nat] /\ \A x \in D : most[x] = abc[x] + two[x]
  BY <1>2, <1>4
<1> HIDE DEF most
<1>6. Sum(ab) = Sum(a) + Sum(b)
  BY <1>1, SumPlus
<1>7. Sum(abc) = Sum(ab) + Sum(c)
  BY <1>1, <1>2, SumPlus
<1>8. Sum(most) = Sum(abc) + Sum(two)
  BY <1>2, <1>4, <1>5, SumPlus
<1>9. \A x \in D : abc[x] <= own[x] /\ own[x] <= most[x]
  BY <1>1, <1>2, <1>3, <1>5
<1>10. D \in SUBSET D
  OBVIOUS
<1>11. Sum(abc) <= Sum(own)
  BY <1>2, <1>9, <1>10, SumMonotone
<1>12. Sum(own) <= Sum(most)
  BY <1>5, <1>9, <1>10, SumMonotone
<1>13. Sum(own) \in Nat /\ Sum(a) \in Nat /\ Sum(b) \in Nat /\ Sum(c) \in Nat
  BY SumType
<1>14. QED
  BY <1>4, <1>6, <1>7, <1>8, <1>11, <1>12, <1>13

\* The three totals, added up.
LEMMA ThreeTotals ==
    ASSUME NEW f \in [Options -> Nat]
    PROVE  Sum(f) = f["for"] + f["against"] + f["abstain"]
<1> DEFINE A == {"for"}
           B == {"for", "against"}
           fA == [o \in A |-> f[o]]
           fB == [o \in B |-> f[o]]
<1>1. /\ IsFiniteSet(A) /\ "against" \notin A /\ B = A \cup {"against"}
      /\ "abstain" \notin B /\ Options = B \cup {"abstain"}
  BY FS_Singleton DEF Options
<1>2. IsFiniteSet(B)
  BY <1>1, FS_AddElement
<1>3. fA \in [A -> Nat] /\ fB \in [B -> Nat]
  BY DEF Options
<1>4. /\ fA["for"] = f["for"] /\ fB["against"] = f["against"]
      /\ \A o \in A : fB[o] = fA[o]
      /\ \A o \in B : f[o] = fB[o]
  OBVIOUS
<1>5. Sum(fA) = fA["for"]
  <2> HIDE DEF fA
  <2>1. fA \in [{"for"} -> Nat]
    BY <1>3
  <2>2. QED
    BY <2>1, SumOne
<1> HIDE DEF A, B, fA, fB
<1>6. Sum(fB) = Sum(fA) + fB["against"]
  BY <1>1, <1>3, <1>4, SumAdd
<1>7. Sum(f) = Sum(fB) + f["abstain"]
  BY <1>1, <1>2, <1>3, <1>4, SumAdd
<1>8. QED
  BY <1>4, <1>5, <1>6, <1>7

(***************************************************************************)
(* The stake that takes part, cut the other way: what is left to each      *)
(* validator who voted, and what each delegator who spoke holds.           *)
(***************************************************************************)
LEMMA StakeTakingPart ==
    ASSUME NEW L, Fits(L), NEW vt \in Votes, NEW vo \in Overrides, TakenIsSpoken(L, vo),
           NEW D, D = Having(Validators, vt), NEW E, E = Having(StakeAccounts, vo)
    PROVE  Sum([v \in D |-> L.active[v]]) + Sum([v \in Validators \ D |-> Taken(L, vo, v)])
             = Sum([v \in D |-> L.active[v] - Taken(L, vo, v)])
                 + Sum([a \in E |-> L.delegated[a]])
<1> DEFINE R == Validators \ D
           active == [v \in D |-> L.active[v]]
           own == [v \in D |-> L.active[v] - Taken(L, vo, v)]
           lost == [v \in D |-> Taken(L, vo, v)]
           rest == [v \in R |-> Taken(L, vo, v)]
           all == [v \in Validators |-> Taken(L, vo, v)]
           spoken == [a \in E |-> L.delegated[a]]
<1>1. \A v \in Validators : /\ Taken(L, vo, v) \in Nat /\ L.active[v] \in Nat
                            /\ L.active[v] - Taken(L, vo, v) \in Nat
                            /\ (L.active[v] - Taken(L, vo, v)) + Taken(L, vo, v) = L.active[v]
  <2> SUFFICES ASSUME NEW v \in Validators
               PROVE  /\ Taken(L, vo, v) \in Nat /\ L.active[v] \in Nat
                      /\ L.active[v] - Taken(L, vo, v) \in Nat
                      /\ (L.active[v] - Taken(L, vo, v)) + Taken(L, vo, v) = L.active[v]
    OBVIOUS
  <2>1. /\ Taken(L, vo, v) \in Nat /\ L.active[v] \in Nat
        /\ Taken(L, vo, v) <= L.active[v]
    BY TakenFits
  <2>2. QED
    BY <2>1
<1>2. /\ D \subseteq Validators /\ IsFiniteSet(D) /\ IsFiniteSet(R)
      /\ D \cap R = {} /\ D \cup R = Validators
  <2>1. D \in SUBSET Validators /\ R \in SUBSET Validators
    BY DEF Having
  <2>2. IsFiniteSet(D) /\ IsFiniteSet(R)
    BY <2>1, ProposalAssumption, FS_Subset
  <2>3. QED
    BY <2>1, <2>2
<1>3. /\ active \in [D -> Nat] /\ own \in [D -> Nat] /\ lost \in [D -> Nat]
      /\ \A v \in D : active[v] = own[v] + lost[v]
  BY <1>1, <1>2
<1>4. /\ rest \in [R -> Nat] /\ all \in [D \cup R -> Nat]
      /\ \A v \in D : all[v] = lost[v]
      /\ \A v \in R : all[v] = rest[v]
  BY <1>1, <1>2
<1>5. Sum(all) = Sum(spoken)
  BY DEF TakenIsSpoken
<1> HIDE DEF active, own, lost, rest, all, spoken, R
<1>6. Sum(active) = Sum(own) + Sum(lost)
  BY <1>2, <1>3, SumPlus
<1>7. Sum(all) = Sum(lost) + Sum(rest)
  <2>1. IsFiniteSet(D) /\ IsFiniteSet(R) /\ D \cap R = {}
    BY <1>2
  <2>2. /\ all \in [D \cup R -> Nat] /\ lost \in [D -> Nat] /\ rest \in [R -> Nat]
        /\ \A v \in D : all[v] = lost[v]
        /\ \A v \in R : all[v] = rest[v]
    BY <1>3, <1>4
  <2>3. QED
    BY ONLY <2>1, <2>2, SumSplit
<1>8. Sum(own) \in Nat /\ Sum(lost) \in Nat /\ Sum(rest) \in Nat
  BY <1>2, <1>3, <1>4, SumType
<1>9. Sum(active) + Sum(rest) = Sum(own) + Sum(spoken)
  BY <1>5, <1>6, <1>7, <1>8
<1>10. QED
  BY <1>9 DEF active, own, rest, spoken, R

\* Accounts f, each with the shares of a stake own[x].
LEMMA WeightsRound ==
    ASSUME NEW S, IsFiniteSet(S), NEW f, NEW D, D = Having(S, f), NEW own \in [D -> Nat],
           \A x \in D : /\ f[x].bp \in [Options -> Nat] /\ ValidDistribution(f[x].bp)
                        /\ f[x].lamports = vote_lamports(own[x], f[x].bp)
    PROVE  /\ Sum(own) \in Nat /\ Cardinality(D) \in Nat
           /\ \A o \in Options : Weight(S, f, o) \in Nat
           /\ Weight(S, f, "for") + Weight(S, f, "against") + Weight(S, f, "abstain") <= Sum(own)
           /\ Sum(own) <= Weight(S, f, "for") + Weight(S, f, "against")
                            + Weight(S, f, "abstain") + 2 * Cardinality(D)
<1> DEFINE a == [x \in D |-> f[x].lamports["for"]]
           b == [x \in D |-> f[x].lamports["against"]]
           c == [x \in D |-> f[x].lamports["abstain"]]
<1>1. IsFiniteSet(D)
  BY FS_Subset DEF Having
<1>2. ASSUME NEW x \in D
      PROVE  /\ a[x] \in Nat /\ b[x] \in Nat /\ c[x] \in Nat
             /\ a[x] + b[x] + c[x] <= own[x] /\ own[x] <= a[x] + b[x] + c[x] + 2
  <2>1. own[x] \in Nat
    OBVIOUS
  <2>2. /\ f[x].lamports \in [Options -> Nat]
        /\ f[x].lamports["for"] + f[x].lamports["against"] + f[x].lamports["abstain"] <= own[x]
        /\ own[x] <= f[x].lamports["for"] + f[x].lamports["against"]
                       + f[x].lamports["abstain"] + 2
    BY <2>1, VoteRounds
  <2>3. QED
    BY <2>2 DEF Options
<1>3. a \in [D -> Nat] /\ b \in [D -> Nat] /\ c \in [D -> Nat]
  BY <1>2
<1>4. Weight(S, f, "for") = Sum(a) /\ Weight(S, f, "against") = Sum(b)
        /\ Weight(S, f, "abstain") = Sum(c)
  BY DEF Weight
<1> HIDE DEF a, b, c
<1>5. /\ Sum(own) \in Nat /\ Sum(a) \in Nat /\ Sum(b) \in Nat /\ Sum(c) \in Nat
      /\ Cardinality(D) \in Nat
      /\ Sum(a) + Sum(b) + Sum(c) <= Sum(own)
      /\ Sum(own) <= Sum(a) + Sum(b) + Sum(c) + 2 * Cardinality(D)
  BY <1>1, <1>2, <1>3, VotesRound
<1>6. QED
  BY <1>4, <1>5 DEF Options

(***************************************************************************)
(* Rounding costs at most two lamports per vote and never creates any: the *)
(* three totals add up to the stake that took part, less that              *)
(* (utils.rs:52-61), however often votes and overrides were changed.       *)
(***************************************************************************)
THEOREM RoundingStaysBounded == Spec => []RoundingIsBounded
<1>1. ASSUME VotingInv, NEW p \in Proposals, Created(p), Voted(p)
      PROVE  /\ Sum(proposal[p].votes_lamports) <= StakeVoting(p)
             /\ Sum(proposal[p].votes_lamports) + 2 * proposal[p].vote_count >= StakeVoting(p)
  <2> DEFINE L == LeavesOf(p)
             vt == vote[p]
             vo == vote_override[p]
             D == Having(Validators, vt)
             E == Having(StakeAccounts, vo)
             left == [v \in D |-> L.active[v] - Taken(L, vo, v)]
             spoken == [a \in E |-> L.delegated[a]]
             V(o) == Weight(Validators, vt, o)
             W(o) == Weight(StakeAccounts, vo, o)
             total == proposal[p].votes_lamports
             count == proposal[p].vote_count
  <2>1. /\ Fits(L) /\ vt \in Votes /\ vo \in Overrides
        /\ VotesInOrder(L, vt, vo) /\ OverridesInOrder(L, vo)
        /\ TotalsInOrder(vt, vo, total) /\ TakenIsSpoken(L, vo)
        /\ VotesCounted(vt, vo, count)
    BY <1>1, VotedFacts DEF InOrder
  <2>2. total \in [Options -> Nat]
    <3>1. proposal[p] \in Proposal
      BY <1>1 DEF VotingInv, TypeOK, ProposalTypeOK, Created
    <3>2. QED
      BY <3>1 DEF Proposal
  <2>3. StakeVoting(p) = Sum([v \in D |-> L.active[v]])
                           + Sum([v \in Validators \ D |-> Taken(L, vo, v)])
    <3>1. Voters(p) = D /\ \A v : Overridden(p, v) = Taken(L, vo, v)
      BY SameNames
    <3> HIDE DEF L, D, vo
    <3>2. QED
      BY <3>1 DEF StakeVoting, L
  <2> HIDE DEF L, vt, vo, total, count
  <2>4. StakeVoting(p) = Sum(left) + Sum(spoken)
    BY <2>1, <2>3, StakeTakingPart
  <2>5. \A v \in D : /\ left[v] \in Nat /\ vt[v].bp \in [Options -> Nat]
                     /\ ValidDistribution(vt[v].bp)
                     /\ vt[v].lamports = vote_lamports(left[v], vt[v].bp)
    <3> SUFFICES ASSUME NEW v \in D
                 PROVE  /\ L.active[v] - Taken(L, vo, v) \in Nat /\ vt[v].bp \in [Options -> Nat]
                        /\ ValidDistribution(vt[v].bp)
                        /\ vt[v].lamports = vote_lamports(L.active[v] - Taken(L, vo, v), vt[v].bp)
      OBVIOUS
    <3>1. v \in Validators
      BY DEF Having
    <3>2. /\ Taken(L, vo, v) \in Nat /\ L.active[v] \in Nat
          /\ Taken(L, vo, v) <= L.active[v]
      BY <2>1, <3>1, TakenFits
    <3>3. vt[v].bp \in [Options -> Nat]
      BY <2>1, BooksFacts
    <3>4. QED
      BY <2>1, <3>2, <3>3 DEF VotesInOrder
  <2>6. \A a \in E : /\ spoken[a] \in Nat /\ vo[a].bp \in [Options -> Nat]
                     /\ ValidDistribution(vo[a].bp)
                     /\ vo[a].lamports = vote_lamports(spoken[a], vo[a].bp)
    <3> SUFFICES ASSUME NEW a \in E
                 PROVE  /\ L.delegated[a] \in Nat /\ vo[a].bp \in [Options -> Nat]
                        /\ ValidDistribution(vo[a].bp)
                        /\ vo[a].lamports = vote_lamports(L.delegated[a], vo[a].bp)
      OBVIOUS
    <3>1. a \in StakeAccounts
      BY DEF Having
    <3>2. L.delegated[a] \in Nat
      BY <2>1, <3>1 DEF Fits, Snapshots
    <3>3. vo[a].bp \in [Options -> Nat]
      BY <2>1, BooksFacts
    <3>4. QED
      BY <2>1, <3>2, <3>3 DEF OverridesInOrder
  <2>7. left \in [D -> Nat] /\ spoken \in [E -> Nat]
    BY <2>5, <2>6
  <2> HIDE DEF left, spoken
  <2>8. /\ Sum(left) \in Nat /\ Cardinality(D) \in Nat
        /\ \A o \in Options : V(o) \in Nat
        /\ V("for") + V("against") + V("abstain") <= Sum(left)
        /\ Sum(left) <= V("for") + V("against") + V("abstain") + 2 * Cardinality(D)
    <3> HIDE DEF D
    <3>1. IsFiniteSet(Validators) /\ D = Having(Validators, vt)
      BY ProposalAssumption DEF D
    <3>2. QED
      BY ONLY <2>5, <2>7, <3>1, WeightsRound, ZenonT(60)
  <2>9. /\ Sum(spoken) \in Nat /\ Cardinality(E) \in Nat
        /\ \A o \in Options : W(o) \in Nat
        /\ W("for") + W("against") + W("abstain") <= Sum(spoken)
        /\ Sum(spoken) <= W("for") + W("against") + W("abstain") + 2 * Cardinality(E)
    <3> HIDE DEF E
    <3>1. IsFiniteSet(StakeAccounts) /\ E = Having(StakeAccounts, vo)
      BY VotingAssumption DEF E
    <3>2. QED
      BY ONLY <2>6, <2>7, <3>1, WeightsRound, ZenonT(60)
  <2>10. /\ Sum(total) = total["for"] + total["against"] + total["abstain"]
         /\ total["for"] = V("for") + W("for")
         /\ total["against"] = V("against") + W("against")
         /\ total["abstain"] = V("abstain") + W("abstain")
    BY <2>1, <2>2, ThreeTotals DEF TotalsInOrder, Options
  <2>11. count = Cardinality(D) + Cardinality(E)
    BY <2>1 DEF VotesCounted
  <2>12. V("for") \in Nat /\ V("against") \in Nat /\ V("abstain") \in Nat
    BY <2>8 DEF Options
  <2>13. W("for") \in Nat /\ W("against") \in Nat /\ W("abstain") \in Nat
    BY <2>9 DEF Options
  <2> HIDE DEF V, W, D, E
  <2>14. Sum(total) <= StakeVoting(p) /\ Sum(total) + 2 * count >= StakeVoting(p)
    BY <2>4, <2>8, <2>9, <2>10, <2>11, <2>12, <2>13
  <2>15. QED
    BY <2>14 DEF total, count
<1>2. VotingInv => RoundingIsBounded
  BY <1>1 DEF RoundingIsBounded
<1>3. QED
  BY <1>2, VotingInvHolds, PTL
=============================================================================
