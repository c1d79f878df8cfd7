------------------------- MODULE NcnServicesProofs -------------------------
(***************************************************************************)
(* Proofs about what runs beside the chain: the job that writes the        *)
(* whitelists and the router that reads them, for any number of verifiers, *)
(* networks, threads and rewrites, the trees of the snapshots, for any     *)
(* number of leaves, the service of a verifier, for any files, uploads and *)
(* readers, the figures pages show of the snapshots, for any validators,   *)
(* stakes and ages of the answers, and the links to documents, for any     *)
(* paths and limit on segments.                                            *)
(***************************************************************************)
EXTENDS NcnRouter, SequenceTheorems, FiniteSetTheorems, WellFoundedInduction, TLAPS

-----------------------------------------------------------------------------
(***************************************************************************)
(* Induction over data.  The induction principles of the library take an   *)
(* operator; that the finite sets of numbers are well-founded by inclusion *)
(* does not, and gives the least number of a set.                          *)
(***************************************************************************)
LEMMA LeastNumber ==
    ASSUME NEW T \in SUBSET Nat, T # {}
    PROVE  \E k \in T : \A m \in T : k <= m
<1> DEFINE F == {0 .. (k - 1) : k \in T}
<1>1. F \subseteq FiniteSubsetsOf(Nat)
  <2>1. ASSUME NEW k \in T PROVE IsFiniteSet(0 .. (k - 1)) /\ 0 .. (k - 1) \subseteq Nat
    BY FS_Interval
  <2>2. QED BY <2>1 DEF FiniteSubsetsOf
<1>2. F # {} OBVIOUS
<1> HIDE DEF F
<1>3. PICK least \in F : \A other \in F : <<other, least>> \notin StrictSubsetOrdering(Nat)
  BY <1>1, <1>2, FS_StrictSubsetOrderingWellFounded, WFMin
<1>4. PICK k \in T : least = 0 .. (k - 1) BY <1>3 DEF F
<1>5. ASSUME NEW m \in T, m < k PROVE FALSE
  <2>1. 0 .. (m - 1) \in F BY DEF F
  <2>2. m \in least /\ m \notin 0 .. (m - 1) BY <1>4, <1>5
  <2>3. 0 .. (m - 1) \subseteq least /\ least \subseteq Nat BY <1>4, <1>5
  <2>4. <<0 .. (m - 1), least>> \in StrictSubsetOrdering(Nat)
    BY <2>2, <2>3 DEF StrictSubsetOrdering
  <2>5. QED BY <1>3, <2>1, <2>4
<1>6. QED BY <1>5

\* What holds of 0 and passes from each number below n to the next holds of all
\* numbers up to n.
LEMMA UpTo ==
    ASSUME NEW n \in Nat, NEW T, 0 \in T, \A k \in 1 .. n : k - 1 \in T => k \in T
    PROVE  0 .. n \subseteq T /\ n \in T
<1> DEFINE Missing == (0 .. n) \ T
<1>1. SUFFICES ASSUME Missing # {} PROVE FALSE
  <2>1. n \in 0 .. n OBVIOUS
  <2>2. QED BY <2>1
<1>2. PICK k \in Missing : \A m \in Missing : k <= m
  <2>1. Missing \in SUBSET Nat OBVIOUS
  <2>2. QED BY <1>1, <2>1, LeastNumber
<1>3. k \in 1 .. n /\ k \notin T BY <1>2
<1>4. k - 1 \in Missing BY <1>3
<1>5. QED BY <1>2, <1>3, <1>4

LEMMA MaxIsLargest ==
    ASSUME NEW S \in SUBSET Nat, NEW m \in S, \A k \in S : k <= m
    PROVE  Max(S) = m
<1>1. \A x \in S : (\A y \in S : x >= y) => x = m OBVIOUS
<1>2. \A y \in S : m >= y OBVIOUS
<1>3. QED BY <1>1, <1>2, Zenon DEF Max

-----------------------------------------------------------------------------
(***************************************************************************)
(* A fold of a sequence goes through the accumulators it should.           *)
(***************************************************************************)
Iterates(f, base, next, n) ==
    /\ f[{}] = base
    /\ \A s \in SUBSET (1 .. n) : s # {} => f[s] = next[<<f[s \ {Max(s)}], Max(s)>>]

LEMMA MaxOfBounded ==
    ASSUME NEW n \in Nat, NEW s \in SUBSET (0 .. n), s # {}
    PROVE  Max(s) \in s /\ \A i \in s : i <= Max(s)
<1> DEFINE Above == {d \in 0 .. n : n - d \in s}
<1>1. PICK i \in s : TRUE OBVIOUS
<1>2. n - i \in Above BY <1>1
<1>3. PICK d \in Above : \A e \in Above : d <= e
  <2>1. Above # {} BY <1>2
  <2>2. \A e \in Above : e \in Nat OBVIOUS
  <2> HIDE DEF Above
  <2>3. Above \in SUBSET Nat BY <2>2
  <2>4. QED BY <2>1, <2>3, LeastNumber
<1>4. ASSUME NEW j \in s PROVE j <= n - d
  <2>1. j \in Int /\ n - j \in 0 .. n /\ n - (n - j) = j OBVIOUS
  <2>2. n - j \in Above BY <2>1
  <2>3. d <= n - j BY <1>3, <2>2
  <2>4. d \in Int OBVIOUS
  <2>5. QED BY <2>1, <2>3, <2>4
<1>5. n - d \in s BY <1>3
<1>6. s \in SUBSET Nat OBVIOUS
<1> HIDE DEF Above
<1>7. Max(s) = n - d BY <1>4, <1>5, <1>6, MaxIsLargest
<1>8. QED BY <1>4, <1>5, <1>7

LEMMA MaxOfSome ==
    ASSUME NEW n \in Nat, NEW s \in SUBSET (1 .. n), s # {}
    PROVE  Max(s) \in s /\ \A i \in s : i <= Max(s)
<1>1. s \in SUBSET (0 .. n) OBVIOUS
<1>2. QED BY <1>1, MaxOfBounded

LEMMA IterationExists ==
    ASSUME NEW n \in Nat, NEW A, NEW base \in A, NEW next \in [A \X (1 .. n) -> A]
    PROVE  \E f \in [SUBSET (1 .. n) -> A] : Iterates(f, base, next, n)
<1> DEFINE Exists(k) == \E f \in [SUBSET (1 .. k) -> A] : Iterates(f, base, next, k)
           T == {k \in 0 .. n : Exists(k)}
<1>1. 0 \in T
  <2> DEFINE f == [s \in SUBSET (1 .. 0) |-> base]
  <2>1. 1 .. 0 = {} OBVIOUS
  <2>2. f \in [SUBSET (1 .. 0) -> A] OBVIOUS
  <2>3. f[{}] = base OBVIOUS
  <2>4. \A s \in SUBSET (1 .. 0) : s = {} BY <2>1
  <2>5. Iterates(f, base, next, 0) BY <2>3, <2>4 DEF Iterates
  <2> HIDE DEF f
  <2>6. Exists(0) BY <2>2, <2>5
  <2>7. 0 \in 0 .. n OBVIOUS
  <2> HIDE DEF Exists
  <2>8. QED BY <2>6, <2>7
<1>2. ASSUME NEW k \in 1 .. n, k - 1 \in T PROVE k \in T
  <2>1. PICK g \in [SUBSET (1 .. (k - 1)) -> A] : Iterates(g, base, next, k - 1)
    <3>1. Exists(k - 1) BY <1>2
    <3>2. QED BY <3>1
  <2> DEFINE f == [s \in SUBSET (1 .. k) |->
                      IF k \in s THEN next[<<g[s \ {k}], k>>] ELSE g[s]]
  <2>2. \A s \in SUBSET (1 .. k) : s \ {k} \in SUBSET (1 .. (k - 1)) OBVIOUS
  <2>3. \A s \in SUBSET (1 .. k) : k \notin s => s \in SUBSET (1 .. (k - 1)) OBVIOUS
  <2>4. f \in [SUBSET (1 .. k) -> A]
    <3>1. ASSUME NEW s \in SUBSET (1 .. k), k \in s PROVE next[<<g[s \ {k}], k>>] \in A
      <4>1. g[s \ {k}] \in A BY <2>2
      <4>2. <<g[s \ {k}], k>> \in A \X (1 .. n) BY <4>1
      <4>3. QED BY <4>2
    <3>2. QED BY <3>1, <2>3
  <2>5. \A s \in SUBSET (1 .. k) : f[s] = IF k \in s THEN next[<<g[s \ {k}], k>>] ELSE g[s]
    OBVIOUS
  <2> HIDE DEF f
  <2>6. f[{}] = base BY <2>1, <2>5 DEF Iterates
  <2>7. ASSUME NEW s \in SUBSET (1 .. k), s # {}
        PROVE  f[s] = next[<<f[s \ {Max(s)}], Max(s)>>]
    <3>1. CASE k \in s
      <4>1. s \in SUBSET Nat /\ \A i \in s : i <= k BY <2>7
      <4>2. Max(s) = k BY <3>1, <4>1, MaxIsLargest
      <4>3. f[s \ {k}] = g[s \ {k}]
        <5>1. s \ {k} \in SUBSET (1 .. k) /\ k \notin s \ {k} OBVIOUS
        <5>2. QED BY <5>1, <2>5
      <4>4. QED BY <2>5, <3>1, <4>2, <4>3
    <3>2. CASE k \notin s
      <4>1. s \in SUBSET (1 .. (k - 1)) BY <2>3, <3>2
      <4>2. g[s] = next[<<g[s \ {Max(s)}], Max(s)>>] BY <4>1, <2>1, <2>7 DEF Iterates
      <4>3. s \ {Max(s)} \in SUBSET (1 .. k) /\ k \notin s \ {Max(s)} BY <3>2
      <4>4. QED BY <2>5, <3>2, <4>2, <4>3
    <3>3. QED BY <3>1, <3>2
  <2>8. Iterates(f, base, next, k) BY <2>6, <2>7 DEF Iterates
  <2>9. Exists(k) BY <2>4, <2>8
  <2>10. QED BY <2>9
<1> HIDE DEF T
<1>3. 0 .. n \subseteq T BY <1>1, <1>2, UpTo
<1>4. n \in T BY <1>3
<1>5. Exists(n) BY <1>4 DEF T
<1>6. QED BY <1>5

LEMMA Initials ==
    ASSUME NEW n \in Nat, NEW k \in 1 .. n
    PROVE  /\ 1 .. k \in SUBSET (1 .. n) /\ 1 .. k # {}
           /\ Max(1 .. k) = k
           /\ (1 .. k) \ {Max(1 .. k)} = 1 .. (k - 1)
<1>1. 1 .. k \in SUBSET Nat /\ k \in 1 .. k /\ \A i \in 1 .. k : i <= k OBVIOUS
<1>2. Max(1 .. k) = k BY <1>1, MaxIsLargest
<1>3. QED BY <1>1, <1>2

\* The same of a function that may be anything but where it is told.
IteratesIn(A, g, base, next, n) ==
    /\ g[{}] = base
    /\ \A s \in SUBSET (1 .. n) :
          s # {} /\ g[s \ {Max(s)}] \in A => g[s] = next[<<g[s \ {Max(s)}], Max(s)>>]

\* The last of n accumulators, each made from the one before.
Accumulates(A, acc, base, next, n) ==
    /\ acc \in [0 .. n -> A]
    /\ acc[0] = base
    /\ \A k \in 1 .. n : acc[k] = next[<<acc[k - 1], k>>]

Reaches(A, last, base, next, n) ==
    \E acc : Accumulates(A, acc, base, next, n) /\ acc[n] = last

LEMMA IterationIsInOrder ==
    ASSUME NEW n \in Nat, NEW A, NEW base \in A, NEW next \in [A \X (1 .. n) -> A],
           NEW g, IteratesIn(A, g, base, next, n)
    PROVE  Reaches(A, g[1 .. n], base, next, n)
<1> DEFINE acc == [k \in 0 .. n |-> g[1 .. k]]
<1>1. acc[0] = base
  <2>1. 1 .. 0 = {} OBVIOUS
  <2>2. QED BY <2>1 DEF IteratesIn
<1>2. ASSUME NEW k \in 1 .. n, acc[k - 1] \in A
      PROVE  acc[k] = next[<<acc[k - 1], k>>]
  <2>1. /\ 1 .. k \in SUBSET (1 .. n) /\ 1 .. k # {} /\ Max(1 .. k) = k
        /\ (1 .. k) \ {Max(1 .. k)} = 1 .. (k - 1)
    BY Initials
  <2>2. acc[k - 1] = g[1 .. (k - 1)] /\ acc[k] = g[1 .. k] OBVIOUS
  <2>3. QED BY <1>2, <2>1, <2>2 DEF IteratesIn
<1>3. acc[n] = g[1 .. n] OBVIOUS
<1>4. DOMAIN acc = 0 .. n /\ acc = [k \in 0 .. n |-> acc[k]] OBVIOUS
<1> HIDE DEF acc
<1> DEFINE T == {k \in 0 .. n : acc[k] \in A}
<1>5. 0 \in T
  <2>1. 0 \in 0 .. n OBVIOUS
  <2>2. QED BY <1>1, <2>1
<1>6. ASSUME NEW k \in 1 .. n, k - 1 \in T PROVE k \in T
  <2>1. acc[k - 1] \in A /\ k \in 0 .. n BY <1>6
  <2>2. <<acc[k - 1], k>> \in A \X (1 .. n) BY <2>1
  <2>3. acc[k] \in A BY <1>2, <2>1, <2>2
  <2>4. QED BY <2>1, <2>3
<1> HIDE DEF T
<1>7. 0 .. n \subseteq T BY <1>5, <1>6, UpTo
<1>8. \A k \in 0 .. n : acc[k] \in A BY <1>7 DEF T
<1>9. \A k \in 1 .. n : acc[k] = next[<<acc[k - 1], k>>]
  <2>1. \A k \in 1 .. n : k - 1 \in 0 .. n OBVIOUS
  <2>2. QED BY <1>2, <1>8, <2>1
<1>10. acc \in [0 .. n -> A] BY <1>4, <1>8
<1>11. Accumulates(A, acc, base, next, n) BY <1>1, <1>9, <1>10 DEF Accumulates
<1>12. QED BY <1>3, <1>11 DEF Reaches

-----------------------------------------------------------------------------
Row == [domain : [origin : STRING, slash : BOOLEAN], slot : Nat,
        status : {"ok", "mismatch", "error", "stale"}]

LEMMA KeptType ==
    ASSUME NEW kept \in Seq(Row), NEW row \in Row
    PROVE  Kept(kept, row) \in Seq(Row)
<1> DEFINE same == {i \in DOMAIN kept :
                       canonical_domain(kept[i].domain) = canonical_domain(row.domain)}
           i == Min(same)
<1>1. CASE same = {}
  BY <1>1 DEF Kept
<1>2. CASE same # {}
  <2> HIDE DEF i
  <2>1. kept \in [1 .. Len(kept) -> Row] /\ Len(kept) \in Nat OBVIOUS
  <2>2. [kept EXCEPT ![i] = row] \in [1 .. Len(kept) -> Row] BY <2>1
  <2>3. [kept EXCEPT ![i] = row] \in Seq(Row) BY <2>1, <2>2, IsASeq
  <2>4. QED BY <1>2, <2>3 DEF Kept, i
<1>3. QED BY <1>1, <1>2

\* dedupe_verifiers_by_domain goes through the rows one by one.
LEMMA DedupeSteps ==
    ASSUME NEW rows \in Seq(Row)
    PROVE  \E acc \in [0 .. Len(rows) -> Seq(Row)] :
              /\ acc[0] = <<>>
              /\ \A k \in 1 .. Len(rows) : acc[k] = Kept(acc[k - 1], rows[k])
              /\ dedupe_verifiers_by_domain(rows) = acc[Len(rows)]
<1> DEFINE n == Len(rows)
           Body(D, g) == [s \in SUBSET D |->
                             IF s = {} THEN <<>> ELSE Kept(g[s \ {Max(s)}], rows[Max(s)])]
           next == [x \in Seq(Row) \X (1 .. n) |-> Kept(x[1], rows[x[2]])]
<1>1. n \in Nat /\ DOMAIN rows = 1 .. n /\ \A i \in 1 .. n : rows[i] \in Row OBVIOUS
<1>2. dedupe_verifiers_by_domain(rows) = (CHOOSE g : g = Body(DOMAIN rows, g))[DOMAIN rows]
  BY DEF dedupe_verifiers_by_domain, FoldLeft, MapThenFoldSet
<1>3. next \in [Seq(Row) \X (1 .. n) -> Seq(Row)] BY <1>1, KeptType
<1>4. \A kept \in Seq(Row), i \in 1 .. n : next[<<kept, i>>] = Kept(kept, rows[i]) OBVIOUS
<1> HIDE DEF n, next
<1>5. PICK f \in [SUBSET (1 .. n) -> Seq(Row)] : Iterates(f, <<>>, next, n)
  <2>1. <<>> \in Seq(Row) OBVIOUS
  <2>2. QED BY <1>1, <1>3, <2>1, IterationExists
<1>6. f = Body(1 .. n, f)
  <2>1. ASSUME NEW s \in SUBSET (1 .. n), s # {}
        PROVE  f[s] = Kept(f[s \ {Max(s)}], rows[Max(s)])
    <3>1. Max(s) \in 1 .. n BY <1>1, <2>1, MaxOfSome
    <3>2. f[s \ {Max(s)}] \in Seq(Row) OBVIOUS
    <3>3. QED BY <1>4, <1>5, <2>1, <3>1, <3>2 DEF Iterates
  <2>2. f[{}] = <<>> BY <1>5 DEF Iterates
  <2>3. QED BY <2>1, <2>2
<1> DEFINE g == CHOOSE g : g = Body(1 .. n, g)
<1>7. g = Body(1 .. n, g) BY <1>6
<1>8. dedupe_verifiers_by_domain(rows) = g[1 .. n] BY <1>1, <1>2
<1> HIDE DEF g
<1>9. g[{}] = <<>> BY <1>7
<1>10. IteratesIn(Seq(Row), g, <<>>, next, n)
  <2>1. ASSUME NEW s \in SUBSET (1 .. n), s # {}, g[s \ {Max(s)}] \in Seq(Row)
        PROVE  g[s] = next[<<g[s \ {Max(s)}], Max(s)>>]
    <3>1. Max(s) \in 1 .. n BY <1>1, <2>1, MaxOfSome
    <3>2. QED BY <1>4, <1>7, <2>1, <3>1
  <2>2. QED BY <1>9, <2>1 DEF IteratesIn
<1>11. PICK acc : Accumulates(Seq(Row), acc, <<>>, next, n) /\ acc[n] = g[1 .. n]
  <2>1. <<>> \in Seq(Row) OBVIOUS
  <2>2. Reaches(Seq(Row), g[1 .. n], <<>>, next, n)
    BY <1>1, <1>3, <1>10, <2>1, IterationIsInOrder
  <2>3. QED BY <2>2 DEF Reaches
<1>12. \A k \in 1 .. n : acc[k] = Kept(acc[k - 1], rows[k])
  <2>1. \A k \in 1 .. n : k - 1 \in 0 .. n BY <1>1
  <2>2. QED BY <1>4, <1>11, <2>1 DEF Accumulates
<1>13. QED BY <1>8, <1>11, <1>12 DEF n, Accumulates

LEMMA RoutableType ==
    ASSUME NEW seen \in Seq(Row), NEW row \in Row
    PROVE  Routable(seen, row) \in Seq(Row)
BY DEF Routable

\* So does select_routable_verifiers.
LEMMA RoutableSteps ==
    ASSUME NEW rows \in Seq(Row)
    PROVE  \E acc \in [0 .. Len(rows) -> Seq(Row)] :
              /\ acc[0] = <<>>
              /\ \A k \in 1 .. Len(rows) : acc[k] = Routable(acc[k - 1], rows[k])
              /\ select_routable_verifiers(rows) = acc[Len(rows)]
<1> DEFINE n == Len(rows)
           Body(D, g) == [s \in SUBSET D |->
                             IF s = {} THEN <<>> ELSE Routable(g[s \ {Max(s)}], rows[Max(s)])]
           next == [x \in Seq(Row) \X (1 .. n) |-> Routable(x[1], rows[x[2]])]
<1>1. n \in Nat /\ DOMAIN rows = 1 .. n /\ \A i \in 1 .. n : rows[i] \in Row OBVIOUS
<1>2. select_routable_verifiers(rows) = (CHOOSE g : g = Body(DOMAIN rows, g))[DOMAIN rows]
  BY DEF select_routable_verifiers, FoldLeft, MapThenFoldSet
<1>3. next \in [Seq(Row) \X (1 .. n) -> Seq(Row)] BY <1>1, RoutableType
<1>4. \A seen \in Seq(Row), i \in 1 .. n : next[<<seen, i>>] = Routable(seen, rows[i]) OBVIOUS
<1> HIDE DEF n, next
<1>5. PICK f \in [SUBSET (1 .. n) -> Seq(Row)] : Iterates(f, <<>>, next, n)
  <2>1. <<>> \in Seq(Row) OBVIOUS
  <2>2. QED BY <1>1, <1>3, <2>1, IterationExists
<1>6. f = Body(1 .. n, f)
  <2>1. ASSUME NEW s \in SUBSET (1 .. n), s # {}
        PROVE  f[s] = Routable(f[s \ {Max(s)}], rows[Max(s)])
    <3>1. Max(s) \in 1 .. n BY <1>1, <2>1, MaxOfSome
    <3>2. f[s \ {Max(s)}] \in Seq(Row) OBVIOUS
    <3>3. QED BY <1>4, <1>5, <2>1, <3>1, <3>2 DEF Iterates
  <2>2. f[{}] = <<>> BY <1>5 DEF Iterates
  <2>3. QED BY <2>1, <2>2
<1> DEFINE g == CHOOSE g : g = Body(1 .. n, g)
<1>7. g = Body(1 .. n, g) BY <1>6
<1>8. select_routable_verifiers(rows) = g[1 .. n] BY <1>1, <1>2
<1> HIDE DEF g
<1>9. g[{}] = <<>> BY <1>7
<1>10. IteratesIn(Seq(Row), g, <<>>, next, n)
  <2>1. ASSUME NEW s \in SUBSET (1 .. n), s # {}, g[s \ {Max(s)}] \in Seq(Row)
        PROVE  g[s] = next[<<g[s \ {Max(s)}], Max(s)>>]
    <3>1. Max(s) \in 1 .. n BY <1>1, <2>1, MaxOfSome
    <3>2. QED BY <1>4, <1>7, <2>1, <3>1
  <2>2. QED BY <1>9, <2>1 DEF IteratesIn
<1>11. PICK acc : Accumulates(Seq(Row), acc, <<>>, next, n) /\ acc[n] = g[1 .. n]
  <2>1. <<>> \in Seq(Row) OBVIOUS
  <2>2. Reaches(Seq(Row), g[1 .. n], <<>>, next, n)
    BY <1>1, <1>3, <1>10, <2>1, IterationIsInOrder
  <2>3. QED BY <2>2 DEF Reaches
<1>12. \A k \in 1 .. n : acc[k] = Routable(acc[k - 1], rows[k])
  <2>1. \A k \in 1 .. n : k - 1 \in 0 .. n BY <1>1
  <2>2. QED BY <1>4, <1>11, <2>1 DEF Accumulates
<1>13. QED BY <1>8, <1>11, <1>12 DEF n, Accumulates

LogEntry == [domain : [origin : STRING, slash : BOOLEAN], network : DOMAIN PathOf,
             slot : Nat, error : BOOLEAN]

LEMMA PushedType ==
    ASSUME NEW found \in Seq(LogEntry), NEW entry \in LogEntry
    PROVE  Pushed(found, entry) \in Seq(LogEntry)
BY DEF Pushed

\* And the selection of a network's entries from the log.
LEMMA EntriesSteps ==
    ASSUME log \in Seq(LogEntry)
    PROVE  \E acc \in [0 .. Len(log) -> Seq(LogEntry)] :
              /\ acc[0] = <<>>
              /\ \A k \in 1 .. Len(log) : acc[k] = Pushed(acc[k - 1], log[k])
              /\ entries = acc[Len(log)]
<1> DEFINE n == Len(log)
           Body(D, g) == [s \in SUBSET D |->
                             IF s = {} THEN <<>> ELSE Pushed(g[s \ {Max(s)}], log[Max(s)])]
           next == [x \in Seq(LogEntry) \X (1 .. n) |-> Pushed(x[1], log[x[2]])]
<1>1. n \in Nat /\ DOMAIN log = 1 .. n /\ \A i \in 1 .. n : log[i] \in LogEntry OBVIOUS
<1>2. entries = (CHOOSE g : g = Body(DOMAIN log, g))[DOMAIN log]
  BY DEF entries, FoldLeft, MapThenFoldSet
<1>3. next \in [Seq(LogEntry) \X (1 .. n) -> Seq(LogEntry)] BY <1>1, PushedType
<1>4. \A found \in Seq(LogEntry), i \in 1 .. n : next[<<found, i>>] = Pushed(found, log[i]) OBVIOUS
<1> HIDE DEF n, next
<1>5. PICK f \in [SUBSET (1 .. n) -> Seq(LogEntry)] : Iterates(f, <<>>, next, n)
  <2>1. <<>> \in Seq(LogEntry) OBVIOUS
  <2>2. QED BY <1>1, <1>3, <2>1, IterationExists
<1>6. f = Body(1 .. n, f)
  <2>1. ASSUME NEW s \in SUBSET (1 .. n), s # {}
        PROVE  f[s] = Pushed(f[s \ {Max(s)}], log[Max(s)])
    <3>1. Max(s) \in 1 .. n BY <1>1, <2>1, MaxOfSome
    <3>2. f[s \ {Max(s)}] \in Seq(LogEntry) OBVIOUS
    <3>3. QED BY <1>4, <1>5, <2>1, <3>1, <3>2 DEF Iterates
  <2>2. f[{}] = <<>> BY <1>5 DEF Iterates
  <2>3. QED BY <2>1, <2>2
<1> DEFINE g == CHOOSE g : g = Body(1 .. n, g)
<1>7. g = Body(1 .. n, g) BY <1>6
<1>8. entries = g[1 .. n] BY <1>1, <1>2
<1> HIDE DEF g
<1>9. g[{}] = <<>> BY <1>7
<1>10. IteratesIn(Seq(LogEntry), g, <<>>, next, n)
  <2>1. ASSUME NEW s \in SUBSET (1 .. n), s # {}, g[s \ {Max(s)}] \in Seq(LogEntry)
        PROVE  g[s] = next[<<g[s \ {Max(s)}], Max(s)>>]
    <3>1. Max(s) \in 1 .. n BY <1>1, <2>1, MaxOfSome
    <3>2. QED BY <1>4, <1>7, <2>1, <3>1
  <2>2. QED BY <1>9, <2>1 DEF IteratesIn
<1>11. PICK acc : Accumulates(Seq(LogEntry), acc, <<>>, next, n) /\ acc[n] = g[1 .. n]
  <2>1. <<>> \in Seq(LogEntry) OBVIOUS
  <2>2. Reaches(Seq(LogEntry), g[1 .. n], <<>>, next, n)
    BY <1>1, <1>3, <1>10, <2>1, IterationIsInOrder
  <2>3. QED BY <2>2 DEF Reaches
<1>12. \A k \in 1 .. n : acc[k] = Pushed(acc[k - 1], log[k])
  <2>1. \A k \in 1 .. n : k - 1 \in 0 .. n BY <1>1
  <2>2. QED BY <1>4, <1>11, <2>1 DEF Accumulates
<1>13. QED BY <1>8, <1>11, <1>12 DEF n, Accumulates

-----------------------------------------------------------------------------
(* What the folds yield.                                                   *)

LEMMA AppendToSet ==
    ASSUME NEW S, NEW s \in Seq(S), NEW e \in S
    PROVE  ToSet(Append(s, e)) = ToSet(s) \cup {e}
<1>1. /\ Len(s) \in Nat /\ Append(s, e) \in Seq(S)
      /\ DOMAIN s = 1 .. Len(s) /\ DOMAIN Append(s, e) = 1 .. (Len(s) + 1)
      /\ Append(s, e)[Len(s) + 1] = e /\ \A i \in 1 .. Len(s) : Append(s, e)[i] = s[i]
  OBVIOUS
<1>2. 1 .. (Len(s) + 1) = (1 .. Len(s)) \cup {Len(s) + 1} BY <1>1
<1>3. QED BY <1>1, <1>2 DEF ToSet

\* The router picks among ok rows of the whitelist.
LEMMA RoutableRows ==
    ASSUME NEW rows \in Seq(Row)
    PROVE  /\ select_routable_verifiers(rows) \in Seq(Row)
           /\ \A v \in ToSet(select_routable_verifiers(rows)) :
                 v \in ToSet(rows) /\ v.status = "ok"
<1> DEFINE n == Len(rows)
<1>1. PICK acc \in [0 .. n -> Seq(Row)] :
         /\ acc[0] = <<>>
         /\ \A k \in 1 .. n : acc[k] = Routable(acc[k - 1], rows[k])
         /\ select_routable_verifiers(rows) = acc[n]
  BY RoutableSteps
<1>2. n \in Nat /\ \A i \in 1 .. n : rows[i] \in Row /\ rows[i] \in ToSet(rows)
  BY DEF ToSet
<1> HIDE DEF n
<1> DEFINE Good(seen) == \A v \in ToSet(seen) : v \in ToSet(rows) /\ v.status = "ok"
           T == {k \in 0 .. n : Good(acc[k])}
<1>3. Good(<<>>) BY DEF ToSet
<1>4. 0 \in T BY <1>1, <1>2, <1>3
<1>5. ASSUME NEW k \in 1 .. n, k - 1 \in T PROVE k \in T
  <2>1. Good(acc[k - 1]) /\ acc[k - 1] \in Seq(Row) /\ k \in 0 .. n BY <1>2, <1>5
  <2>2. Good(Routable(acc[k - 1], rows[k]))
    BY <1>2, <2>1, AppendToSet DEF Routable
  <2> HIDE DEF Good
  <2>3. QED BY <1>1, <2>1, <2>2
<1> HIDE DEF T
<1>6. n \in T BY <1>2, <1>4, <1>5, UpTo
<1>7. Good(acc[n]) BY <1>6 DEF T
<1>8. QED BY <1>1, <1>2, <1>7

\* The entries the job compares are of the network at hand.
LEMMA EntriesOfNetwork ==
    ASSUME log \in Seq(LogEntry)
    PROVE  /\ entries \in Seq(LogEntry)
           /\ \A e \in ToSet(entries) : e \in ToSet(log) /\ e.network = Network
<1> DEFINE n == Len(log)
<1>1. PICK acc \in [0 .. n -> Seq(LogEntry)] :
         /\ acc[0] = <<>>
         /\ \A k \in 1 .. n : acc[k] = Pushed(acc[k - 1], log[k])
         /\ entries = acc[n]
  BY EntriesSteps
<1>2. n \in Nat /\ \A i \in 1 .. n : log[i] \in LogEntry /\ log[i] \in ToSet(log)
  BY DEF ToSet
<1> HIDE DEF n
<1> DEFINE Good(found) == \A e \in ToSet(found) : e \in ToSet(log) /\ e.network = Network
           T == {k \in 0 .. n : Good(acc[k])}
<1>3. Good(<<>>) BY DEF ToSet
<1>4. 0 \in T BY <1>1, <1>2, <1>3
<1>5. ASSUME NEW k \in 1 .. n, k - 1 \in T PROVE k \in T
  <2>1. Good(acc[k - 1]) /\ acc[k - 1] \in Seq(LogEntry) /\ k \in 0 .. n BY <1>2, <1>5
  <2>2. Good(Pushed(acc[k - 1], log[k]))
    BY <1>2, <2>1, AppendToSet DEF Pushed
  <2> HIDE DEF Good
  <2>3. QED BY <1>1, <2>1, <2>2
<1> HIDE DEF T
<1>6. n \in T BY <1>2, <1>4, <1>5, UpTo
<1>7. Good(acc[n]) BY <1>6 DEF T
<1>8. QED BY <1>1, <1>2, <1>7

-----------------------------------------------------------------------------
\* One row per origin: each row of kept is one of the first k rows, and each of
\* those is represented in kept, by an ok row if it is ok.
OnePerOrigin(kept, rows, k) ==
    /\ \A i \in DOMAIN kept : \E j \in 1 .. k : kept[i] = rows[j]
    /\ \A i, j \in DOMAIN kept : kept[i].domain.origin = kept[j].domain.origin => i = j
    /\ \A j \in 1 .. k : \E i \in DOMAIN kept :
          /\ kept[i].domain.origin = rows[j].domain.origin
          /\ rows[j].status = "ok" => kept[i].status = "ok"

\* Two spellings are one domain exactly when they have one origin.
LEMMA CanonicalOrigin ==
    ASSUME NEW a \in [origin : STRING, slash : BOOLEAN],
           NEW b \in [origin : STRING, slash : BOOLEAN]
    PROVE  canonical_domain(a) = canonical_domain(b) <=> a.origin = b.origin
<1> DEFINE Domain == [origin : STRING, slash : BOOLEAN]
<1>1. ASSUME NEW d \in Domain
      PROVE  /\ canonical_domain(d) \in Domain
             /\ canonical_domain(d).origin = d.origin /\ canonical_domain(d).slash = TRUE
  BY DEF canonical_domain
<1>2. \A c, d \in Domain : c.origin = d.origin /\ c.slash = d.slash => c = d
  OBVIOUS
<1>3. QED BY <1>1, <1>2

LEMMA KeptStep ==
    ASSUME NEW rows \in Seq(Row), NEW k \in 1 .. Len(rows), NEW kept \in Seq(Row),
           OnePerOrigin(kept, rows, k - 1)
    PROVE  OnePerOrigin(Kept(kept, rows[k]), rows, k)
<1> DEFINE row == rows[k]
           same == {i \in DOMAIN kept :
                       canonical_domain(kept[i].domain) = canonical_domain(row.domain)}
<1>1. row \in Row /\ \A i \in DOMAIN kept : kept[i] \in Row OBVIOUS
<1>2. k \in Nat /\ 1 .. k = (1 .. (k - 1)) \cup {k} OBVIOUS
<1>3. \A i \in DOMAIN kept : i \in same <=> kept[i].domain.origin = row.domain.origin
  BY <1>1, CanonicalOrigin DEF Row
<1>a. same \subseteq DOMAIN kept OBVIOUS
<1>4. CASE same = {}
  <2>1. Kept(kept, row) = Append(kept, row) BY <1>4 DEF Kept
  <2> DEFINE new == Append(kept, row)
  <2>2. /\ DOMAIN new = DOMAIN kept \cup {Len(kept) + 1} /\ Len(kept) + 1 \notin DOMAIN kept
        /\ new[Len(kept) + 1] = row /\ \A i \in DOMAIN kept : new[i] = kept[i]
    <3>1. Len(kept) \in Nat /\ DOMAIN kept = 1 .. Len(kept) OBVIOUS
    <3>2. QED BY <3>1, <1>1
  <2>3. \A i \in DOMAIN kept : kept[i].domain.origin # row.domain.origin BY <1>3, <1>4
  <2> HIDE DEF new, row, same
  <2>4. \A i \in DOMAIN new : \E j \in 1 .. k : new[i] = rows[j]
    <3>1. ASSUME NEW i \in DOMAIN kept PROVE \E j \in 1 .. k : new[i] = rows[j]
      <4>1. PICK j \in 1 .. (k - 1) : kept[i] = rows[j] BY DEF OnePerOrigin
      <4>2. j \in 1 .. k /\ new[i] = rows[j] BY <1>2, <2>2, <4>1
      <4>3. QED BY <4>2
    <3>2. new[Len(kept) + 1] = rows[k] /\ k \in 1 .. k BY <1>2, <2>2 DEF row
    <3>3. QED BY <2>2, <3>1, <3>2
  <2>5. ASSUME NEW i \in DOMAIN new, NEW j \in DOMAIN new,
               new[i].domain.origin = new[j].domain.origin
        PROVE  i = j
    BY <2>2, <2>3, <2>5 DEF OnePerOrigin
  <2>6. ASSUME NEW j \in 1 .. k
        PROVE  \E i \in DOMAIN new : /\ new[i].domain.origin = rows[j].domain.origin
                                     /\ rows[j].status = "ok" => new[i].status = "ok"
    <3>1. CASE j = k BY <3>1, <2>2 DEF row
    <3>2. CASE j \in 1 .. (k - 1)
      <4>1. PICK i \in DOMAIN kept : /\ kept[i].domain.origin = rows[j].domain.origin
                                     /\ rows[j].status = "ok" => kept[i].status = "ok"
        BY <3>2 DEF OnePerOrigin
      <4>2. i \in DOMAIN new /\ new[i] = kept[i] BY <2>2
      <4>3. QED BY <4>1, <4>2
    <3>3. QED BY <1>2, <3>1, <3>2
  <2>7. OnePerOrigin(new, rows, k) BY <2>4, <2>5, <2>6 DEF OnePerOrigin
  <2>8. QED BY <2>1, <2>7 DEF new, row
<1>5. CASE same # {}
  <2> DEFINE m == Min(same)
  <2>1. m \in same
    <3>1. same \in SUBSET Nat OBVIOUS
    <3>2. PICK least \in same : \A i \in same : least <= i BY <1>5, <3>1, LeastNumber
    <3>3. QED BY <3>2 DEF Min
  <2>2. kept[m].domain.origin = row.domain.origin /\ m \in DOMAIN kept BY <1>3, <2>1
  <2> DEFINE new == IF kept[m].status # "ok" /\ row.status = "ok"
                    THEN [kept EXCEPT ![m] = row] ELSE kept
  <2>3. Kept(kept, row) = new BY <1>5 DEF Kept
  <2>4. /\ DOMAIN new = DOMAIN kept
        /\ \A i \in DOMAIN kept : new[i] = kept[i] \/ (i = m /\ new[i] = row /\ row.status = "ok")
        /\ row.status = "ok" => new[m].status = "ok"
    BY <2>2
  <2> HIDE DEF new, row, same, m
  <2>5. \A i \in DOMAIN new : new[i].domain.origin = kept[i].domain.origin
    BY <2>2, <2>4
  <2>6. ASSUME NEW i \in DOMAIN new PROVE \E j \in 1 .. k : new[i] = rows[j]
    <3>1. CASE new[i] = kept[i] BY <1>2, <2>4, <3>1 DEF OnePerOrigin
    <3>2. CASE new[i] = row BY <1>2, <3>2 DEF row
    <3>3. QED BY <2>4, <3>1, <3>2
  <2>7. ASSUME NEW i \in DOMAIN new, NEW j \in DOMAIN new,
               new[i].domain.origin = new[j].domain.origin
        PROVE  i = j
    BY <2>4, <2>5, <2>7 DEF OnePerOrigin
  <2>8. ASSUME NEW j \in 1 .. k
        PROVE  \E i \in DOMAIN new : /\ new[i].domain.origin = rows[j].domain.origin
                                     /\ rows[j].status = "ok" => new[i].status = "ok"
    <3>1. CASE j = k
      <4>1. m \in DOMAIN new /\ new[m].domain.origin = row.domain.origin
        BY <2>2, <2>4, <2>5
      <4>2. QED BY <3>1, <4>1, <2>4 DEF row
    <3>2. CASE j \in 1 .. (k - 1)
      <4>1. PICK i \in DOMAIN kept : /\ kept[i].domain.origin = rows[j].domain.origin
                                     /\ rows[j].status = "ok" => kept[i].status = "ok"
        BY <3>2 DEF OnePerOrigin
      <4>2. i \in DOMAIN new /\ new[i].domain.origin = rows[j].domain.origin BY <2>4, <2>5, <4>1
      <4>3. rows[j].status = "ok" => new[i].status = "ok" BY <2>4, <4>1
      <4>4. QED BY <4>2, <4>3
    <3>3. QED BY <1>2, <3>1, <3>2
  <2>9. OnePerOrigin(new, rows, k) BY <2>6, <2>7, <2>8 DEF OnePerOrigin
  <2>10. QED BY <2>3, <2>9 DEF new, row
<1>6. QED BY <1>4, <1>5

LEMMA Deduped ==
    ASSUME NEW rows \in Seq(Row)
    PROVE  /\ dedupe_verifiers_by_domain(rows) \in Seq(Row)
           /\ OnePerOrigin(dedupe_verifiers_by_domain(rows), rows, Len(rows))
<1> DEFINE n == Len(rows)
<1>1. PICK acc \in [0 .. n -> Seq(Row)] :
         /\ acc[0] = <<>>
         /\ \A k \in 1 .. n : acc[k] = Kept(acc[k - 1], rows[k])
         /\ dedupe_verifiers_by_domain(rows) = acc[n]
  BY DedupeSteps
<1>2. n \in Nat OBVIOUS
<1> DEFINE T == {k \in 0 .. n : OnePerOrigin(acc[k], rows, k)}
<1>3. 0 \in T
  <2>1. OnePerOrigin(<<>>, rows, 0) BY DEF OnePerOrigin
  <2>2. 0 \in 0 .. n BY <1>2
  <2>3. QED BY <1>1, <2>1, <2>2
<1>4. ASSUME NEW k \in 1 .. n, k - 1 \in T PROVE k \in T
  <2>1. OnePerOrigin(acc[k - 1], rows, k - 1) /\ acc[k - 1] \in Seq(Row) /\ k \in 0 .. n
    BY <1>2, <1>4
  <2>2. OnePerOrigin(Kept(acc[k - 1], rows[k]), rows, k) BY <2>1, KeptStep
  <2>3. QED BY <1>1, <2>1, <2>2
<1> HIDE DEF T, n
<1>5. n \in T BY <1>2, <1>3, <1>4, UpTo
<1>6. OnePerOrigin(acc[n], rows, n) BY <1>5 DEF T
<1>7. QED BY <1>1, <1>2, <1>6 DEF n

-----------------------------------------------------------------------------
(* The whitelist made of the rows.                                         *)

LEMMA SlotsAreBounded ==
    ASSUME NEW rows \in Seq(Row)
    PROVE  \E b \in Nat : \A i \in DOMAIN rows : rows[i].slot <= b
<1> DEFINE n == Len(rows)
           Bounded(k) == \E b \in Nat : \A i \in 1 .. k : rows[i].slot <= b
           T == {k \in 0 .. n : Bounded(k)}
<1>1. n \in Nat /\ DOMAIN rows = 1 .. n /\ \A i \in 1 .. n : rows[i].slot \in Nat
  <2>1. n \in Nat /\ DOMAIN rows = 1 .. n /\ \A i \in 1 .. n : rows[i] \in Row OBVIOUS
  <2>2. \A r \in Row : r.slot \in Nat BY DEF Row
  <2>3. QED BY <2>1, <2>2
<1> HIDE DEF n
<1>2. 0 \in T
  <2>1. Bounded(0) OBVIOUS
  <2>2. 0 \in 0 .. n BY <1>1
  <2> HIDE DEF Bounded
  <2>3. QED BY <2>1, <2>2
<1>3. ASSUME NEW k \in 1 .. n, k - 1 \in T PROVE k \in T
  <2>1. PICK b \in Nat : \A i \in 1 .. (k - 1) : rows[i].slot <= b BY <1>3
  <2> DEFINE c == IF rows[k].slot <= b THEN b ELSE rows[k].slot
  <2>2. c \in Nat /\ b <= c /\ rows[k].slot <= c BY <1>1
  <2> HIDE DEF c
  <2>3. ASSUME NEW i \in 1 .. k PROVE rows[i].slot <= c
    <3>1. CASE i = k BY <2>2, <3>1
    <3>2. CASE i \in 1 .. (k - 1)
      <4>1. rows[i].slot <= b /\ rows[i].slot \in Nat BY <1>1, <2>1, <3>2
      <4>2. QED BY <2>2, <4>1
    <3>3. QED BY <1>1, <3>1, <3>2
  <2>4. Bounded(k) BY <2>2, <2>3
  <2>5. k \in 0 .. n BY <1>1
  <2> HIDE DEF Bounded
  <2>6. QED BY <2>4, <2>5
<1> HIDE DEF T, Bounded
<1>4. n \in T BY <1>1, <1>2, <1>3, UpTo
<1>5. Bounded(n) BY <1>4 DEF T
<1>6. QED BY <1>1, <1>5 DEF Bounded

LEMMA ChosenSlot ==
    ASSUME NEW rows \in Seq(Row)
    PROVE  /\ chosen_slot(rows) \in Nat
           /\ \A s \in OkSlots(rows) : s \in Nat /\ s <= chosen_slot(rows)
           /\ OkSlots(rows) # {} => chosen_slot(rows) \in OkSlots(rows)
<1>1. PICK b \in Nat : \A i \in DOMAIN rows : rows[i].slot <= b BY SlotsAreBounded
<1>2. \A s \in OkSlots(rows) : s \in 0 .. b
  <2>1. \A i \in DOMAIN rows : rows[i] \in Row OBVIOUS
  <2>2. \A r \in Row : r.slot \in Nat BY DEF Row
  <2>3. \A i \in DOMAIN rows : rows[i].slot \in 0 .. b BY <1>1, <2>1, <2>2
  <2>4. QED BY <2>3 DEF OkSlots
<1> DEFINE S == {0} \union OkSlots(rows)
<1>3. S \in SUBSET (0 .. b) /\ S # {} BY <1>1, <1>2
<1>4. Max(S) \in S /\ \A s \in S : s <= Max(S) BY <1>3, MaxOfBounded
<1>5. chosen_slot(rows) = Max(S) BY DEF chosen_slot
<1> HIDE DEF S
<1>6. Max(S) \in Nat
  <2>1. Max(S) \in 0 .. b BY <1>3, <1>4
  <2>2. QED BY <2>1
<1>7. \A s \in OkSlots(rows) : s \in S BY DEF S
<1>8. ASSUME OkSlots(rows) # {} PROVE Max(S) \in OkSlots(rows)
  <2>1. PICK s \in OkSlots(rows) : TRUE BY <1>8
  <2>2. CASE Max(S) = 0
    <3>1. s <= 0 /\ s \in 0 .. b BY <1>2, <1>4, <1>7, <2>2
    <3>2. s = 0 BY <3>1
    <3>3. QED BY <2>2, <3>2
  <2>3. CASE Max(S) # 0 BY <1>4, <2>3 DEF S
  <2>4. QED BY <2>2, <2>3
<1>9. QED BY <1>2, <1>4, <1>5, <1>6, <1>7, <1>8

\* The rows that may be routed to: ok on chain, and within the lag of the
\* freshest of those.
IsFresh(row, rows) ==
    row.status = "ok" /\ \A s \in OkSlots(rows) : s - row.slot <= MaxLag

LEMMA Demoted ==
    ASSUME WhitelistAssumption, NEW rows \in Seq(Row)
    PROVE  LET out == demote_stale_verifiers(rows, chosen_slot(rows))
           IN  /\ out \in Seq(Row) /\ Len(out) = Len(rows)
               /\ \A i \in 1 .. Len(rows) :
                     /\ out[i].domain = rows[i].domain /\ out[i].slot = rows[i].slot
                     /\ out[i].status = "ok" <=> IsFresh(rows[i], rows)
<1> DEFINE c == chosen_slot(rows)
           out == demote_stale_verifiers(rows, c)
           n == Len(rows)
<1>1. n \in Nat /\ DOMAIN rows = 1 .. n /\ \A i \in 1 .. n : rows[i] \in Row OBVIOUS
<1>2. MaxLag \in Nat BY DEF WhitelistAssumption
<1>3. \A i \in 1 .. n : out[i] = IF rows[i].status = "ok" /\ Lag(c, rows[i].slot) > MaxLag
                                 THEN [rows[i] EXCEPT !.status = "stale"] ELSE rows[i]
  BY <1>1 DEF demote_stale_verifiers
<1>4. \A i \in 1 .. n : out[i] \in Row
  <2>1. \A r \in Row : [r EXCEPT !.status = "stale"] \in Row BY DEF Row
  <2> HIDE DEF out
  <2>2. QED BY <1>1, <1>3, <2>1
<1>5. DOMAIN out = 1 .. n BY <1>1 DEF demote_stale_verifiers
<1>6. out = [i \in 1 .. n |-> out[i]] BY <1>1 DEF demote_stale_verifiers
<1> HIDE DEF out, n
<1>7. out \in Seq(Row) /\ Len(out) = n
  <2>1. out \in [1 .. n -> Row] BY <1>4, <1>6
  <2>2. QED BY <1>1, <2>1, IsASeq, <1>5
<1>8. ASSUME NEW i \in 1 .. n
      PROVE  /\ out[i].domain = rows[i].domain /\ out[i].slot = rows[i].slot
             /\ out[i].status = "ok" <=> IsFresh(rows[i], rows)
  <2>1. rows[i] \in Row /\ rows[i].slot \in Nat BY <1>1 DEF Row
  <2>2. /\ out[i].domain = rows[i].domain /\ out[i].slot = rows[i].slot
        /\ out[i].status = "ok" <=> rows[i].status = "ok" /\ ~(Lag(c, rows[i].slot) > MaxLag)
    BY <1>3, <2>1 DEF Row
  <2>3. c \in Nat /\ \A s \in OkSlots(rows) : s \in Nat /\ s <= c BY ChosenSlot
  <2>4. ASSUME rows[i].status = "ok"
        PROVE  ~(Lag(c, rows[i].slot) > MaxLag) <=> \A s \in OkSlots(rows) : s - rows[i].slot <= MaxLag
    <3>1. rows[i].slot \in OkSlots(rows) BY <1>1, <2>4 DEF OkSlots
    <3>2. c \in OkSlots(rows) /\ rows[i].slot <= c BY <3>1, ChosenSlot
    <3> HIDE DEF c
    <3>3. ~(Lag(c, rows[i].slot) > MaxLag) <=> c - rows[i].slot <= MaxLag
      BY <1>2, <2>1, <2>3, <3>2 DEF Lag
    <3>4. \A s \in OkSlots(rows) : s - rows[i].slot <= c - rows[i].slot
      BY <2>1, <2>3
    <3>5. c - rows[i].slot <= MaxLag => \A s \in OkSlots(rows) : s - rows[i].slot <= MaxLag
      BY <1>2, <2>1, <2>3, <3>4
    <3>6. QED BY <3>2, <3>3, <3>5
  <2>5. QED BY <2>2, <2>4 DEF IsFresh
<1>9. QED BY <1>7, <1>8 DEF out, n

\* What the whitelist says of the verifiers the rows are about.
LEMMA WhitelistOfRows ==
    ASSUME WhitelistAssumption, NEW rows \in Seq(Row)
    PROVE  LET out == whitelist_verifiers(rows)
           IN  /\ out \in Seq(Row)
               /\ \A v \in ToSet(out) : \E r \in ToSet(rows) :
                     /\ v.domain = r.domain /\ v.slot = r.slot
                     /\ v.status = "ok" => IsFresh(r, rows)
               /\ \A i, j \in DOMAIN out : out[i].domain.origin = out[j].domain.origin => i = j
               /\ \A r \in ToSet(rows) : \E v \in ToSet(out) :
                     /\ v.domain.origin = r.domain.origin
                     /\ IsFresh(r, rows) => v.status = "ok"
<1> DEFINE mid == demote_stale_verifiers(rows, chosen_slot(rows))
           out == dedupe_verifiers_by_domain(mid)
           n == Len(rows)
<1>1. /\ mid \in Seq(Row) /\ Len(mid) = n /\ n \in Nat /\ DOMAIN rows = 1 .. n
      /\ \A i \in 1 .. n : /\ mid[i].domain = rows[i].domain /\ mid[i].slot = rows[i].slot
                           /\ mid[i].status = "ok" <=> IsFresh(rows[i], rows)
  BY Demoted
<1>2. out \in Seq(Row) /\ OnePerOrigin(out, mid, n) BY <1>1, Deduped
<1>3. whitelist_verifiers(rows) = out BY DEF whitelist_verifiers
<1> HIDE DEF out, mid, n
<1>4. ASSUME NEW v \in ToSet(out)
      PROVE  \E r \in ToSet(rows) : /\ v.domain = r.domain /\ v.slot = r.slot
                                    /\ v.status = "ok" => IsFresh(r, rows)
  <2>1. PICK i \in DOMAIN out : v = out[i] BY DEF ToSet
  <2>2. PICK j \in 1 .. n : v = mid[j] BY <1>2, <2>1 DEF OnePerOrigin
  <2>3. rows[j] \in ToSet(rows) BY <1>1 DEF ToSet
  <2>4. QED BY <1>1, <2>2, <2>3
<1>5. ASSUME NEW r \in ToSet(rows)
      PROVE  \E v \in ToSet(out) : /\ v.domain.origin = r.domain.origin
                                   /\ IsFresh(r, rows) => v.status = "ok"
  <2>1. PICK j \in 1 .. n : r = rows[j] BY <1>1 DEF ToSet
  <2>2. PICK i \in DOMAIN out : /\ out[i].domain.origin = mid[j].domain.origin
                                /\ mid[j].status = "ok" => out[i].status = "ok"
    BY <1>2 DEF OnePerOrigin
  <2>3. out[i] \in ToSet(out) BY DEF ToSet
  <2>4. QED BY <1>1, <2>1, <2>2, <2>3
<1>6. \A i, j \in DOMAIN out : out[i].domain.origin = out[j].domain.origin => i = j
  BY <1>2 DEF OnePerOrigin
<1>7. QED BY <1>2, <1>3, <1>4, <1>5, <1>6

-----------------------------------------------------------------------------
(***************************************************************************)
(* The invariant of the job: the log has what was polled, the rows come    *)
(* from the log, the whitelist from the rows, a file that is whole has the *)
(* last whitelist written to it, and while one is being written it is not  *)
(* whole.                                                                  *)
(***************************************************************************)
AllPolls == Len(Config) * Len(Networks)

Whitelist ==
    {[network |-> n, slot |-> snapshot_slot(rows), verifiers |-> whitelist_verifiers(rows)] :
        n \in DOMAIN PathOf, rows \in Seq(Row)}

RowFrom(row, n) ==
    \E e \in ToSet(log) : /\ e.network = n /\ e.domain = row.domain /\ e.slot = row.slot
                          /\ row.status = "ok" => ~e.error

FileIsLast(file, past) ==
    file.whole => Len(past) > 0 /\ file.content = past[Len(past)]

Job == [pc : {"idle", "polling", "comparing", "writing"}, net : DOMAIN Networks,
        rows : Seq(Row), out : Whitelist \cup {<<>>}]

JobInv ==
    /\ log \in Seq(LogEntry) /\ Len(log) <= AllPolls
    /\ job \in Job /\ jobs \in 0 .. MaxJobs
    /\ job.pc = "polling" => Len(log) < AllPolls
    /\ \A row \in ToSet(job.rows) : RowFrom(row, Network)
    /\ job.pc = "writing" =>
          /\ job.out = [network |-> Network, slot |-> snapshot_slot(job.rows),
                        verifiers |-> whitelist_verifiers(job.rows)]
          /\ ~files[PathOf[Network]].whole

FilesInv ==
    /\ clock \in Nat
    /\ files \in [Paths -> [mtime : Nat, whole : BOOLEAN, content : Whitelist \cup {<<>>}]]
    /\ written \in [Paths -> Seq(Whitelist)]
    /\ \A p \in Paths : files[p].mtime <= clock /\ FileIsLast(files[p], written[p])

CronInv == JobInv /\ FilesInv

LEMMA PollsOfAll ==
    ASSUME WhitelistAssumption
    PROVE  AllPolls \in Nat /\ AllPolls > 0
<1>1. Len(Config) \in Nat /\ Len(Networks) \in Nat /\ Len(Config) > 0 /\ Len(Networks) > 0
  BY DEF WhitelistAssumption
<1>2. \A a, b \in Nat : a > 0 /\ b > 0 => a * b \in Nat /\ a * b > 0 OBVIOUS
<1>3. QED BY <1>1, <1>2 DEF AllPolls

LEMMA PlaceInGrid ==
    ASSUME NEW c \in Nat, NEW d \in Nat, d > 0, NEW m \in Nat, m < c * d
    PROVE  (m \div d) + 1 \in 1 .. c /\ (m % d) + 1 \in 1 .. d
<1> DEFINE q == m \div d
<1>1. q \in Nat /\ d * q <= m BY SMT
<1>2. m % d \in 0 .. (d - 1) BY SMT
<1> HIDE DEF q
<1>3. q < c
  <2>1. SUFFICES ASSUME q >= c PROVE FALSE BY <1>1
  <2>2. d * q >= d * c BY <1>1, <2>1, SMTT(20)
  <2>3. QED BY <1>1, <2>2, SMTT(20)
<1>4. QED BY <1>1, <1>2, <1>3 DEF q

LEMMA PollIsAnEntry ==
    ASSUME WhitelistAssumption, JobInv, job.pc = "polling", NEW entry \in fetch_meta
    PROVE  entry \in LogEntry
<1>1. /\ Len(Config) \in Nat /\ Len(Networks) \in Nat /\ Len(Networks) > 0
      /\ Config \in Seq([origin : STRING, slash : BOOLEAN]) /\ Networks \in Seq(DOMAIN PathOf)
  BY DEF WhitelistAssumption
<1>2. Len(log) \in Nat /\ Len(log) < Len(Config) * Len(Networks)
  <2>1. Len(log) \in Nat BY DEF JobInv
  <2>2. Len(log) < AllPolls BY DEF JobInv
  <2>3. QED BY <2>1, <2>2 DEF AllPolls
<1>3. /\ (Len(log) \div Len(Networks)) + 1 \in 1 .. Len(Config)
      /\ (Len(log) % Len(Networks)) + 1 \in 1 .. Len(Networks)
  BY <1>1, <1>2, PlaceInGrid
<1>4. NextPoll.domain \in [origin : STRING, slash : BOOLEAN]
  <2>1. \A i \in 1 .. Len(Config) : Config[i] \in [origin : STRING, slash : BOOLEAN]
    BY <1>1, ElementOfSeq
  <2>2. QED BY <1>3, <2>1 DEF NextPoll
<1>5. NextPoll.network \in DOMAIN PathOf
  <2>1. \A i \in 1 .. Len(Networks) : Networks[i] \in DOMAIN PathOf BY <1>1
  <2>2. QED BY <1>3, <2>1 DEF NextPoll
<1>6. Slots \subseteq Nat BY DEF WhitelistAssumption
<1>7. PICK s \in Nat, e \in BOOLEAN :
        entry = [domain |-> NextPoll.domain, network |-> NextPoll.network, slot |-> s, error |-> e]
  BY <1>6, 0 \in Nat, Zenon DEF fetch_meta
<1> HIDE DEF NextPoll
<1>8. QED BY <1>4, <1>5, <1>7 DEF LogEntry

LEMMA OfNetwork ==
    ASSUME WhitelistAssumption, job \in Job
    PROVE  Network \in DOMAIN PathOf /\ PathOf[Network] \in Paths
BY DEF WhitelistAssumption, Job, Network, Paths

LEMMA CronStarts ==
    ASSUME WhitelistAssumption, CronInit
    PROVE  CronInv
<1>1. AllPolls \in Nat /\ AllPolls > 0 BY PollsOfAll
<1>2. Len(Networks) \in Nat /\ Len(Networks) > 0 /\ DOMAIN Networks = 1 .. Len(Networks) /\ MaxJobs \in Nat
  BY DEF WhitelistAssumption
<1>3. log = <<>> /\ log \in Seq(LogEntry) /\ Len(log) = 0 BY DEF CronInit
<1>4. job = Idle /\ job \in Job BY <1>2 DEF CronInit, Job, Idle
<1>5. job.pc = "idle" /\ ToSet(job.rows) = {} BY <1>4 DEF Idle, ToSet
<1>6. JobInv BY <1>1, <1>2, <1>3, <1>4, <1>5 DEF JobInv, CronInit
<1>7. FilesInv BY DEF FilesInv, CronInit, FileIsLast, NoFile
<1>8. QED BY <1>6, <1>7 DEF CronInv

LEMMA NextNetworkIsFresh ==
    ASSUME WhitelistAssumption, job \in Job
    PROVE  NextNetwork \in Job /\ NextNetwork.pc \in {"idle", "comparing"} /\ NextNetwork.rows = <<>>
<1>1. Len(Networks) \in Nat /\ Len(Networks) > 0 /\ DOMAIN Networks = 1 .. Len(Networks)
  BY DEF WhitelistAssumption
<1>2. job.net \in 1 .. Len(Networks) BY <1>1 DEF Job
<1>3. Idle \in Job BY <1>1 DEF Idle, Job
<1>4. CASE job.net = Len(Networks) BY <1>3, <1>4 DEF NextNetwork, Idle
<1>5. CASE job.net # Len(Networks)
  <2>1. job.net + 1 \in DOMAIN Networks BY <1>1, <1>2, <1>5
  <2>2. NextNetwork = [pc |-> "comparing", net |-> job.net + 1, rows |-> <<>>, out |-> <<>>]
    BY <1>5 DEF NextNetwork, Idle
  <2>3. NextNetwork \in Job BY <2>1, <2>2 DEF Job
  <2>4. QED BY <2>2, <2>3
<1>6. QED BY <1>4, <1>5

\* A step that leaves the log alone and starts with no rows.
LEMMA FreshJob ==
    ASSUME WhitelistAssumption, JobInv, job' \in Job, job'.rows = <<>>,
           job'.pc \in {"idle", "comparing"}, log' = log, jobs' = jobs
    PROVE  JobInv'
<1>1. ToSet(job'.rows) = {} BY DEF ToSet
<1>2. job'.pc # "polling" /\ job'.pc # "writing" OBVIOUS
<1>3. log' \in Seq(LogEntry) /\ Len(log') <= AllPolls /\ jobs' \in 0 .. MaxJobs BY DEF JobInv
<1>4. QED BY <1>1, <1>2, <1>3 DEF JobInv

LEMMA CronRuns ==
    ASSUME WhitelistAssumption, CronInv, run
    PROVE  CronInv'
<1>1. AllPolls \in Nat /\ AllPolls > 0 BY PollsOfAll
<1>2. Len(Networks) \in Nat /\ Len(Networks) > 0 /\ DOMAIN Networks = 1 .. Len(Networks) /\ MaxJobs \in Nat
  BY DEF WhitelistAssumption
<1>3. log' = <<>> /\ log' \in Seq(LogEntry) /\ Len(log') = 0 BY DEF run
<1>4. job' = [pc |-> "polling", net |-> 1, rows |-> <<>>, out |-> <<>>] BY DEF run, Idle
<1>5. job' \in Job /\ ToSet(job'.rows) = {} /\ job'.pc = "polling" BY <1>2, <1>4 DEF Job, ToSet
<1>6. jobs' \in 0 .. MaxJobs
  <2>1. jobs \in 0 .. MaxJobs BY DEF CronInv, JobInv
  <2>2. jobs < MaxJobs /\ jobs' = jobs + 1 BY DEF run
  <2>3. QED BY <1>2, <2>1, <2>2
<1>7. JobInv' BY <1>1, <1>3, <1>5, <1>6 DEF JobInv
<1>8. FilesInv' BY DEF run, CronInv, FilesInv
<1>9. QED BY <1>7, <1>8 DEF CronInv

LEMMA CronPolls ==
    ASSUME WhitelistAssumption, CronInv, run_meta_job
    PROVE  CronInv'
<1>1. AllPolls \in Nat BY PollsOfAll
<1>2. log \in Seq(LogEntry) /\ job \in Job /\ job.pc = "polling" /\ Len(log) < AllPolls /\ Len(log) \in Nat
  BY DEF CronInv, JobInv, run_meta_job
<1>3. PICK entry \in fetch_meta : log' = Append(log, entry) BY DEF run_meta_job
<1>4. entry \in LogEntry BY <1>2, PollIsAnEntry DEF CronInv
<1>5. log' \in Seq(LogEntry) /\ Len(log') = Len(log) + 1 /\ ToSet(log) \subseteq ToSet(log')
  BY <1>2, <1>3, <1>4, AppendToSet
<1>6. job' = [job EXCEPT !.pc = IF Len(log') = AllPolls THEN "comparing" ELSE "polling"]
  BY <1>2 DEF run_meta_job, AllPolls
<1>7. job' \in Job BY <1>2, <1>6 DEF Job
<1>8. job'.rows = job.rows /\ job'.net = job.net /\ job'.pc # "writing" BY <1>2, <1>6 DEF Job
<1>9. job'.pc = "polling" => Len(log') < AllPolls BY <1>1, <1>2, <1>5, <1>6 DEF Job
<1>10. Len(log') <= AllPolls BY <1>1, <1>2, <1>5
<1>11. ASSUME NEW row \in ToSet(job'.rows) PROVE RowFrom(row, Network)'
  <2>1. RowFrom(row, Network) BY <1>8, <1>11 DEF CronInv, JobInv
  <2>2. Network' = Network BY <1>8 DEF Network
  <2>3. QED BY <1>5, <2>1, <2>2 DEF RowFrom
<1>12. jobs' \in 0 .. MaxJobs BY DEF run_meta_job, CronInv, JobInv
<1>13. JobInv' BY <1>5, <1>7, <1>8, <1>9, <1>10, <1>11, <1>12 DEF JobInv
<1>14. FilesInv' BY DEF run_meta_job, CronInv, FilesInv
<1>15. QED BY <1>13, <1>14 DEF CronInv

LEMMA CronCompares ==
    ASSUME WhitelistAssumption, CronInv, compare_with_chain
    PROVE  CronInv'
<1>1. log \in Seq(LogEntry) /\ job \in Job /\ job.pc = "comparing" /\ job.rows \in Seq(Row)
  BY DEF CronInv, JobInv, compare_with_chain, Job
<1> DEFINE entry == entries[Len(job.rows) + 1]
<1>2. entry \in LogEntry /\ entry \in ToSet(log) /\ entry.network = Network
  <2>1. entries \in Seq(LogEntry) /\ \A e \in ToSet(entries) : e \in ToSet(log) /\ e.network = Network
    BY <1>1, EntriesOfNetwork
  <2>2. Len(job.rows) < Len(entries) BY DEF compare_with_chain
  <2> DEFINE k == Len(job.rows) + 1
  <2>3. k \in 1 .. Len(entries) BY <1>1, <2>1, <2>2
  <2>4. entries[k] \in LogEntry /\ entries[k] \in ToSet(entries)
    <3> HIDE DEF k
    <3>1. QED BY <2>1, <2>3 DEF ToSet
  <2>5. QED BY <2>1, <2>4
<1>3. PICK status \in Verdicts(entry) :
        job' = [job EXCEPT !.rows =
                  Append(@, [domain |-> entry.domain, slot |-> entry.slot, status |-> status])]
  BY DEF compare_with_chain
<1> HIDE DEF entry
<1> DEFINE row == [domain |-> entry.domain, slot |-> entry.slot, status |-> status]
<1>4. row \in Row /\ RowFrom(row, Network)
  <2>1. status \in {"ok", "mismatch", "error"} /\ (status = "ok" => ~entry.error) BY DEF Verdicts
  <2>2. row \in Row BY <1>2, <2>1 DEF Row, LogEntry
  <2>3. QED BY <1>2, <2>1, <2>2 DEF RowFrom
<1>5. job' = [job EXCEPT !.rows = Append(job.rows, row)] BY <1>3
<1> HIDE DEF row
<1>6. job' \in Job /\ job'.rows = Append(job.rows, row) /\ job'.net = job.net /\ job'.pc = "comparing"
  <2> DEFINE rows == Append(job.rows, row)
  <2>1. rows \in Seq(Row) BY <1>1, <1>4
  <2> HIDE DEF rows
  <2>2. job' = [job EXCEPT !.rows = rows] BY <1>5 DEF rows
  <2>3. job' \in Job BY <1>1, <2>1, <2>2 DEF Job
  <2>4. job'.rows = rows /\ job'.net = job.net /\ job'.pc = "comparing"
    BY <1>1, <2>2 DEF Job
  <2>5. QED BY <2>3, <2>4 DEF rows
<1>7. log' = log /\ Network' = Network BY <1>6 DEF compare_with_chain, Network
<1>8. ASSUME NEW r \in ToSet(job'.rows) PROVE RowFrom(r, Network)'
  <2>1. r \in ToSet(job.rows) \/ r = row BY <1>1, <1>4, <1>6, <1>8, AppendToSet
  <2>2. RowFrom(r, Network) BY <1>4, <2>1 DEF CronInv, JobInv
  <2>3. QED BY <1>7, <2>2 DEF RowFrom
<1>9. JobInv' BY <1>6, <1>7, <1>8 DEF JobInv, CronInv, compare_with_chain
<1>10. FilesInv' BY DEF compare_with_chain, CronInv, FilesInv
<1>11. QED BY <1>9, <1>10 DEF CronInv

LEMMA CronTruncates ==
    ASSUME WhitelistAssumption, CronInv, Truncate
    PROVE  CronInv'
<1>1. job \in Job /\ job.pc = "comparing" /\ job.rows \in Seq(Row)
  BY DEF CronInv, JobInv, Truncate, Job
<1>2. Network \in DOMAIN PathOf /\ PathOf[Network] \in Paths BY <1>1, OfNetwork
<1> DEFINE out == [network |-> Network, slot |-> snapshot_slot(job.rows),
                   verifiers |-> whitelist_verifiers(job.rows)]
<1>3. out \in Whitelist BY <1>1, <1>2 DEF Whitelist
<1>4. job' = [job EXCEPT !.pc = "writing", !.out = out] BY DEF Truncate
<1>5. /\ job' \in Job /\ job'.pc = "writing" /\ job'.rows = job.rows
      /\ job'.net = job.net /\ job'.out = out
  <2> HIDE DEF out
  <2>1. QED BY <1>1, <1>3, <1>4 DEF Job
<1>6. log' = log /\ jobs' = jobs /\ Network' = Network BY <1>5 DEF Truncate, Network
<1>7. /\ clock \in Nat /\ clock' = clock + 1
      /\ files' = [files EXCEPT ![PathOf[Network]] = [NoFile EXCEPT !.mtime = clock + 1]]
      /\ files \in [Paths -> [mtime : Nat, whole : BOOLEAN, content : Whitelist \cup {<<>>}]]
  BY DEF CronInv, FilesInv, Truncate
<1>8. /\ files' \in [Paths -> [mtime : Nat, whole : BOOLEAN, content : Whitelist \cup {<<>>}]]
      /\ files'[PathOf[Network]].whole = FALSE
      /\ \A p \in Paths : files'[p].mtime <= clock' /\ FileIsLast(files'[p], written[p])
  <2> DEFINE p0 == PathOf[Network]
             f0 == [NoFile EXCEPT !.mtime = clock + 1]
  <2>1. f0 \in [mtime : Nat, whole : BOOLEAN, content : Whitelist \cup {<<>>}]
    <3>1. NoFile \in [mtime : Nat, whole : BOOLEAN, content : Whitelist \cup {<<>>}] BY DEF NoFile
    <3>2. clock + 1 \in Nat BY <1>7
    <3>3. QED BY <3>1, <3>2
  <2>2. f0.whole = FALSE /\ f0.mtime = clock' BY <1>7 DEF NoFile
  <2>3. files' = [files EXCEPT ![p0] = f0] BY <1>7
  <2> HIDE DEF p0, f0
  <2>4. files' \in [Paths -> [mtime : Nat, whole : BOOLEAN, content : Whitelist \cup {<<>>}]]
    BY <1>7, <2>1, <2>3
  <2>5. p0 \in Paths BY <1>2 DEF p0
  <2>6. files'[p0] = f0 /\ \A p \in Paths : p # p0 => files'[p] = files[p] BY <1>7, <2>3, <2>5
  <2>7. ASSUME NEW p \in Paths PROVE files'[p].mtime <= clock' /\ FileIsLast(files'[p], written[p])
    <3>1. CASE p = p0
      <4>1. files'[p].mtime = clock' /\ files'[p].whole = FALSE BY <2>2, <2>6, <3>1
      <4>2. clock' \in Nat BY <1>7
      <4>3. files'[p].mtime <= clock' BY <4>1, <4>2
      <4>4. FileIsLast(files'[p], written[p]) BY <4>1 DEF FileIsLast
      <4>5. QED BY <4>3, <4>4
    <3>2. CASE p # p0
      <4>1. files[p].mtime <= clock /\ files[p].mtime \in Nat /\ FileIsLast(files[p], written[p])
        BY <1>7 DEF CronInv, FilesInv
      <4>2. QED BY <1>7, <2>6, <3>2, <4>1
    <3>3. QED BY <3>1, <3>2
  <2>8. QED BY <2>2, <2>4, <2>6, <2>7 DEF p0
<1>9. written' = written /\ written \in [Paths -> Seq(Whitelist)] BY DEF Truncate, CronInv, FilesInv
<1>10. clock' \in Nat BY <1>7
<1>11. FilesInv' BY <1>8, <1>9, <1>10 DEF FilesInv
<1>12. ASSUME NEW r \in ToSet(job'.rows) PROVE RowFrom(r, Network)'
  <2>1. RowFrom(r, Network) BY <1>5, <1>12 DEF CronInv, JobInv
  <2>2. QED BY <1>6, <2>1 DEF RowFrom
<1>13. log' \in Seq(LogEntry) /\ Len(log') <= AllPolls /\ jobs' \in 0 .. MaxJobs
  BY <1>6 DEF CronInv, JobInv
<1>14. /\ job'.out = [network |-> Network', slot |-> snapshot_slot(job'.rows),
                      verifiers |-> whitelist_verifiers(job'.rows)]
       /\ ~files'[PathOf[Network']].whole
  BY <1>5, <1>6, <1>8
<1>15. JobInv'
  <2> HIDE DEF out
  <2>1. job'.pc # "polling" BY <1>5
  <2>2. QED BY <1>5, <1>12, <1>13, <1>14, <2>1 DEF JobInv
<1>16. QED BY <1>11, <1>15 DEF CronInv

LEMMA CronWrites ==
    ASSUME WhitelistAssumption, CronInv, WriteWhitelist
    PROVE  CronInv'
<1>1. job \in Job /\ job.pc = "writing" /\ job.rows \in Seq(Row)
  BY DEF CronInv, JobInv, WriteWhitelist, Job
<1>2. Network \in DOMAIN PathOf /\ PathOf[Network] \in Paths BY <1>1, OfNetwork
<1>3. job.out \in Whitelist
  <2>1. job.out = [network |-> Network, slot |-> snapshot_slot(job.rows),
                   verifiers |-> whitelist_verifiers(job.rows)]
    BY <1>1 DEF CronInv, JobInv
  <2>2. QED BY <1>1, <1>2, <2>1 DEF Whitelist
<1>4. JobInv'
  <2>1. job' = NextNetwork /\ log' = log /\ jobs' = jobs BY DEF WriteWhitelist
  <2>2. QED BY <1>1, <2>1, NextNetworkIsFresh, FreshJob DEF CronInv
<1> DEFINE p0 == PathOf[Network]
           o == job.out
           File0 == [mtime : Nat, whole : BOOLEAN, content : Whitelist \cup {<<>>}]
<1>5. PICK t \in {clock, clock + 1} :
        /\ clock' = t
        /\ files' = [files EXCEPT ![p0] = [mtime |-> t, whole |-> TRUE, content |-> o]]
  BY DEF WriteWhitelist
<1>6. written' = [written EXCEPT ![p0] = Append(written[p0], o)] BY DEF WriteWhitelist
<1>7. /\ clock \in Nat /\ files \in [Paths -> File0] /\ written \in [Paths -> Seq(Whitelist)]
      /\ \A p \in Paths : files[p].mtime <= clock /\ FileIsLast(files[p], written[p])
  BY DEF CronInv, FilesInv
<1>8. t \in Nat /\ clock <= t BY <1>5, <1>7
<1> DEFINE f0 == [mtime |-> t, whole |-> TRUE, content |-> o]
           w0 == Append(written[p0], o)
<1>9. f0 \in File0 /\ f0.mtime = t /\ f0.content = o BY <1>3, <1>8
<1>10. files' = [files EXCEPT ![p0] = f0] /\ p0 \in Paths /\ o \in Whitelist BY <1>2, <1>3, <1>5
<1>11. /\ written[p0] \in Seq(Whitelist) /\ w0 \in Seq(Whitelist)
       /\ Len(w0) > 0 /\ w0[Len(w0)] = o
  <2> HIDE DEF p0, o
  <2>1. written[p0] \in Seq(Whitelist) BY <1>7, <1>10
  <2>2. QED BY <1>10, <2>1
<1>12. written' = [written EXCEPT ![p0] = w0] BY <1>6
<1> HIDE DEF p0, o, f0, w0, File0
<1>13. files' \in [Paths -> File0] /\ written' \in [Paths -> Seq(Whitelist)]
  BY <1>7, <1>9, <1>10, <1>11, <1>12
<1>14. /\ files'[p0] = f0 /\ written'[p0] = w0
       /\ \A p \in Paths : p # p0 => files'[p] = files[p] /\ written'[p] = written[p]
  BY <1>7, <1>10, <1>12
<1>15. ASSUME NEW p \in Paths PROVE files'[p].mtime <= clock' /\ FileIsLast(files'[p], written'[p])
  <2>1. CASE p = p0
    <3>1. files'[p].mtime <= clock' BY <1>5, <1>8, <1>9, <1>14, <2>1
    <3>2. FileIsLast(files'[p], written'[p]) BY <1>9, <1>11, <1>14, <2>1 DEF FileIsLast
    <3>3. QED BY <3>1, <3>2
  <2>2. CASE p # p0
    <3>1. files[p].mtime <= clock /\ files[p].mtime \in Nat /\ FileIsLast(files[p], written[p])
      BY <1>7 DEF File0
    <3>2. QED BY <1>5, <1>7, <1>8, <1>14, <2>2, <3>1
  <2>3. QED BY <2>1, <2>2
<1>16. FilesInv' BY <1>5, <1>8, <1>13, <1>15 DEF FilesInv, File0
<1>17. QED BY <1>4, <1>16 DEF CronInv

LEMMA CronEnds ==
    ASSUME WhitelistAssumption, CronInv, CompareFails \/ WriteFails \/ JobDies
    PROVE  CronInv'
<1>1. job \in Job BY DEF CronInv, JobInv
<1>2. log' = log /\ jobs' = jobs /\ files' = files /\ clock' = clock /\ written' = written
  BY DEF CompareFails, WriteFails, JobDies
<1>3. job' = NextNetwork \/ job' = Idle BY DEF CompareFails, WriteFails, JobDies
<1>4. Idle \in Job /\ Idle.pc = "idle" /\ Idle.rows = <<>>
  BY DEF Idle, Job, WhitelistAssumption
<1>5. job' \in Job /\ job'.pc \in {"idle", "comparing"} /\ job'.rows = <<>>
  BY <1>1, <1>3, <1>4, NextNetworkIsFresh
<1>6. JobInv' BY <1>2, <1>5, FreshJob DEF CronInv
<1>7. FilesInv' BY <1>2 DEF CronInv, FilesInv
<1>8. QED BY <1>6, <1>7 DEF CronInv

LEMMA CronSteps ==
    ASSUME WhitelistAssumption, CronInv, CronNext \/ UNCHANGED cronVars
    PROVE  CronInv'
<1>1. CASE UNCHANGED cronVars
  <2>1. log' = log /\ job' = job /\ jobs' = jobs /\ files' = files /\ clock' = clock /\ written' = written
    BY <1>1 DEF cronVars
  <2>2. JobInv' BY <2>1 DEF CronInv, JobInv, Network, RowFrom
  <2>3. FilesInv' BY <2>1 DEF CronInv, FilesInv
  <2>4. QED BY <2>2, <2>3 DEF CronInv
<1>2. CASE CronNext
  BY <1>2, CronRuns, CronPolls, CronCompares, CronTruncates, CronWrites, CronEnds DEF CronNext
<1>3. QED BY <1>1, <1>2

THEOREM CronInvAlways == ASSUME WhitelistAssumption PROVE CronSpec => []CronInv
<1>1. CronInit => CronInv BY CronStarts
<1>2. CronInv /\ [CronNext]_cronVars => CronInv' BY CronSteps
<1>3. QED BY <1>1, <1>2, PTL DEF CronSpec

-----------------------------------------------------------------------------
(* What the job promises of a whitelist it writes.                         *)

LEMMA CronTypes ==
    ASSUME WhitelistAssumption, CronInv
    PROVE  CronTypeOK
<1>1. job.pc \in {"idle", "polling", "comparing", "writing"} /\ job.net \in DOMAIN Networks
  BY DEF CronInv, JobInv, Job
<1>2. jobs \in 0 .. MaxJobs /\ Len(log) <= Len(Config) * Len(Networks)
  BY DEF CronInv, JobInv, AllPolls
<1>3. ASSUME NEW p \in Paths
      PROVE  /\ files[p].mtime \in 0 .. clock
             /\ files[p].whole => files[p].content = written[p][Len(written[p])]
  <2>1. clock \in Nat /\ files[p].mtime \in Nat /\ files[p].mtime <= clock /\ FileIsLast(files[p], written[p])
    BY DEF CronInv, FilesInv
  <2>2. QED BY <2>1 DEF FileIsLast
<1>4. QED BY <1>1, <1>2, <1>3 DEF CronTypeOK

\* In the state in which a whitelist is written.
LEMMA Writing ==
    ASSUME WhitelistAssumption, CronInv, job.pc = "writing"
    PROVE  /\ job.rows \in Seq(Row)
           /\ job.out.network = Network /\ job.out.verifiers = whitelist_verifiers(job.rows)
           /\ \A row \in ToSet(job.rows) : RowFrom(row, Network)
BY DEF CronInv, JobInv, Job

LEMMA FreshestIsKept ==
    ASSUME WhitelistAssumption, NEW rows \in Seq(Row), OkSlots(rows) # {}
    PROVE  \E r \in ToSet(rows) : IsFresh(r, rows)
<1>1. /\ \A s \in OkSlots(rows) : s \in Nat /\ s <= chosen_slot(rows)
      /\ chosen_slot(rows) \in OkSlots(rows)
  BY ChosenSlot
<1>2. PICK i \in DOMAIN rows : rows[i].status = "ok" /\ rows[i].slot = chosen_slot(rows)
  BY <1>1 DEF OkSlots
<1>3. MaxLag \in Nat BY DEF WhitelistAssumption
<1>4. \A s \in OkSlots(rows) : s - rows[i].slot <= MaxLag BY <1>1, <1>2, <1>3
<1>5. QED BY <1>2, <1>4 DEF IsFresh, ToSet

LEMMA PoolHasAVerifier ==
    ASSUME WhitelistAssumption, CronInv
    PROVE  PoolIsNeverEmptied
<1>1. SUFFICES ASSUME job.pc = "writing", OkSlots(job.rows) # {}
               PROVE  OkOrigins(job.out.verifiers) # {}
  BY DEF PoolIsNeverEmptied
<1>2. job.rows \in Seq(Row) /\ job.out.verifiers = whitelist_verifiers(job.rows) BY <1>1, Writing
<1>3. PICK r \in ToSet(job.rows) : IsFresh(r, job.rows) BY <1>1, <1>2, FreshestIsKept
<1>4. PICK v \in ToSet(whitelist_verifiers(job.rows)) : v.status = "ok"
  BY <1>2, <1>3, WhitelistOfRows
<1>5. v.domain.origin \in OkOrigins(job.out.verifiers) BY <1>2, <1>4 DEF OkOrigins
<1>6. QED BY <1>5

LEMMA WhitelistFromItsLog ==
    ASSUME WhitelistAssumption, CronInv
    PROVE  WhitelistIsOfItsNetwork
<1>1. SUFFICES ASSUME job.pc = "writing", NEW v \in ToSet(job.out.verifiers)
               PROVE  \E e \in ToSet(log) : /\ e.network = job.out.network
                                            /\ e.domain = v.domain /\ e.slot = v.slot
                                            /\ v.status = "ok" => ~e.error
  BY DEF WhitelistIsOfItsNetwork
<1>2. /\ job.rows \in Seq(Row) /\ job.out.verifiers = whitelist_verifiers(job.rows)
      /\ job.out.network = Network /\ \A row \in ToSet(job.rows) : RowFrom(row, Network)
  BY <1>1, Writing
<1>3. PICK r \in ToSet(job.rows) : /\ v.domain = r.domain /\ v.slot = r.slot
                                   /\ v.status = "ok" => IsFresh(r, job.rows)
  BY <1>1, <1>2, WhitelistOfRows
<1>4. RowFrom(r, Network) BY <1>2, <1>3
<1>5. v.status = "ok" => r.status = "ok" BY <1>3 DEF IsFresh
<1>6. QED BY <1>2, <1>3, <1>4, <1>5 DEF RowFrom

LEMMA OneTicketEach ==
    ASSUME WhitelistAssumption, CronInv
    PROVE  OneTicketPerFreshOrigin
<1>1. SUFFICES ASSUME job.pc = "writing" PROVE OneTicketPerFreshOrigin
  BY DEF OneTicketPerFreshOrigin
<1> DEFINE rows == job.rows
           out == job.out.verifiers
           n == Len(out)
           polled == {r.domain.origin : r \in ToSet(rows)}
           fresh == {r \in ToSet(rows) : /\ r.status = "ok"
                                         /\ \A s \in OkSlots(rows) : s - r.slot <= MaxLag}
           place == [i \in 1 .. n |-> out[i].domain.origin]
<1>2. rows \in Seq(Row) /\ out = whitelist_verifiers(rows) BY <1>1, Writing
<1>3. fresh = {r \in ToSet(rows) : IsFresh(r, rows)} BY DEF IsFresh
<1> HIDE DEF rows, out
<1>4. /\ out \in Seq(Row)
      /\ \A v \in ToSet(out) : \E r \in ToSet(rows) :
            /\ v.domain = r.domain /\ v.slot = r.slot
            /\ v.status = "ok" => IsFresh(r, rows)
      /\ \A i, j \in DOMAIN out : out[i].domain.origin = out[j].domain.origin => i = j
      /\ \A r \in ToSet(rows) : \E v \in ToSet(out) :
            /\ v.domain.origin = r.domain.origin
            /\ IsFresh(r, rows) => v.status = "ok"
  BY <1>2, WhitelistOfRows
<1>5. n \in Nat /\ DOMAIN out = 1 .. n BY <1>4
<1> HIDE DEF fresh, n
<1>6. {v.domain.origin : v \in ToSet(out)} = polled
  <2>1. \A v \in ToSet(out) : \E r \in ToSet(rows) : v.domain.origin = r.domain.origin BY <1>4
  <2>2. \A r \in ToSet(rows) : \E v \in ToSet(out) : r.domain.origin = v.domain.origin BY <1>4
  <2>3. QED BY <2>1, <2>2
<1>7. Cardinality(polled) = n
  <2>1. \A i \in 1 .. n : out[i] \in ToSet(out) BY <1>5 DEF ToSet
  <2>2. \A i \in 1 .. n : place[i] \in polled BY <1>6, <2>1
  <2>3. \A x \in polled : \E i \in 1 .. n : place[i] = x
    <3>1. ASSUME NEW x \in polled PROVE \E i \in 1 .. n : place[i] = x
      <4>1. PICK v \in ToSet(out) : v.domain.origin = x BY <1>6
      <4>2. PICK i \in 1 .. n : v = out[i] BY <1>5, <4>1 DEF ToSet
      <4>3. QED BY <4>1, <4>2
    <3>2. QED BY <3>1
  <2>4. \A i, j \in 1 .. n : place[i] = place[j] => i = j BY <1>4, <1>5
  <2>5. place \in [1 .. n -> polled]
    <3> HIDE DEF polled
    <3>1. QED BY <2>2
  <2> HIDE DEF place, polled
  <2>6. place \in Bijection(1 .. n, polled)
    BY <2>3, <2>4, <2>5 DEF Bijection, Injection, Surjection, IsInjective
  <2>7. ExistsBijection(1 .. n, polled) BY <2>6 DEF ExistsBijection
  <2>8. QED BY <1>5, <2>7, FS_CountingElements
<1>8. OkOrigins(out) = {r.domain.origin : r \in fresh}
  <2>1. ASSUME NEW x \in OkOrigins(out) PROVE x \in {r.domain.origin : r \in fresh}
    <3>1. PICK v \in ToSet(out) : v.status = "ok" /\ x = v.domain.origin BY DEF OkOrigins
    <3>2. PICK r \in ToSet(rows) : v.domain = r.domain /\ IsFresh(r, rows) BY <1>4, <3>1
    <3>3. QED BY <1>3, <3>1, <3>2
  <2>2. ASSUME NEW r \in fresh PROVE r.domain.origin \in OkOrigins(out)
    <3>1. r \in ToSet(rows) /\ IsFresh(r, rows) BY <1>3
    <3>2. PICK v \in ToSet(out) : v.domain.origin = r.domain.origin /\ v.status = "ok" BY <1>4, <3>1
    <3>3. QED BY <3>2 DEF OkOrigins
  <2>3. QED BY <2>1, <2>2
<1>9. QED BY <1>6, <1>7, <1>8 DEF OneTicketPerFreshOrigin, rows, out, n, fresh

-----------------------------------------------------------------------------
(***************************************************************************)
(* The router.  A whitelist is Known under a network and an mtime if the   *)
(* network's file held it when it had that mtime, and no request that saw  *)
(* the mtime came after it was replaced: what is parsed and what is cached *)
(* is Known, whatever the job does to the file meanwhile.                  *)
(***************************************************************************)
Pending == {"checking", "reading", "parsed"}

Statuses == {"", "bad_request", "no_whitelist_data", "whitelist_network_mismatch",
             "no_ok_verifiers", "routed", "proxy_upstream_failed"}

Req == [pc : Pending \cup {"idle", "proxying", "answered"}, network : Supported \cup {""},
        mtime : Nat, since : Nat, snapshot : Whitelist \cup {<<>>}, status : Statuses,
        origin : STRING \cup {""}]

Past(n) == written[PathOf[n]]

HeldSince(n, since, snap) ==
    since >= 1 /\ \E i \in since .. Len(Past(n)) : Past(n)[i] = snap

Known(n, m, snap) ==
    /\ m >= 1 /\ m <= File(n).mtime /\ snap \in Whitelist
    /\ m = File(n).mtime => File(n).whole /\ snap = File(n).content
    /\ \A t \in Threads :
          (req[t].pc \in Pending /\ req[t].network = n /\ req[t].mtime = m) =>
              HeldSince(n, req[t].since, snap)

IsRouted(r) ==
    \E i \in DOMAIN Past(r.network) :
        /\ Past(r.network)[i].network = r.network
        /\ r.origin \in OkOrigins(Past(r.network)[i].verifiers)

RequestOK(r) ==
    /\ r \in Req
    /\ r.pc \in Pending \cup {"proxying"} =>
          /\ r.network \in Supported
          /\ r.mtime >= 1 /\ r.mtime <= File(r.network).mtime
          /\ r.since >= 1 /\ r.since <= Current(r.network)
    /\ r.pc \in {"checking", "reading"} => r.snapshot = <<>>
    /\ r.pc = "proxying" => r.status = "routed"
    /\ (r.pc \in {"proxying", "answered"} /\ r.snapshot # <<>>) =>
          r.network \in Supported /\ HeldSince(r.network, r.since, r.snapshot)
    /\ r.status = "routed" => r.network \in Supported /\ IsRouted(r)

RouterInv ==
    /\ CronInv
    /\ req \in [Threads -> Req] /\ served \in 0 .. MaxRequests
    /\ cache \in [Supported -> [mtime : Nat, snapshot : Whitelist \cup {<<>>}]]
    /\ \A t \in Threads : RequestOK(req[t])
    /\ \A t \in Threads :
          req[t].pc = "parsed" => Known(req[t].network, req[t].mtime, req[t].snapshot)
    /\ \A n \in Supported : cache[n].mtime # 0 => Known(n, cache[n].mtime, cache[n].snapshot)

\* What one step of the job does to a file: nothing, or its mtime does not go
\* back, and grows when it was whole.
Moves(p) ==
    /\ files'[p] = files[p] \/
          /\ files[p].mtime <= files'[p].mtime
          /\ files[p].whole => files[p].mtime < files'[p].mtime
    /\ Len(written[p]) <= Len(written'[p])
    /\ \A i \in 1 .. Len(written[p]) : written'[p][i] = written[p][i]
    /\ files[p].whole \/ files'[p] = files[p] \/ Len(written'[p]) = Len(written[p]) + 1 \/ ~files'[p].whole

LEMMA FileOfNetwork ==
    ASSUME CronInv, NEW n \in Supported
    PROVE  /\ PathOf[n] \in Paths
           /\ File(n) \in [mtime : Nat, whole : BOOLEAN, content : Whitelist \cup {<<>>}]
           /\ File(n).mtime <= clock
           /\ Past(n) \in Seq(Whitelist)
           /\ File(n).whole => Len(Past(n)) > 0 /\ File(n).content = Past(n)[Len(Past(n))]
<1>1. PathOf[n] \in Paths BY DEF Paths, Supported
<1>2. QED BY <1>1 DEF CronInv, FilesInv, FileIsLast, File, Past

LEMMA FilesMove ==
    ASSUME WhitelistAssumption, CronInv, CronNext \/ UNCHANGED cronVars, NEW p \in Paths
    PROVE  Moves(p)
<1>1. /\ clock \in Nat /\ files[p].mtime \in Nat /\ files[p].mtime <= clock
      /\ files \in [Paths -> [mtime : Nat, whole : BOOLEAN, content : Whitelist \cup {<<>>}]]
      /\ written[p] \in Seq(Whitelist) /\ written \in [Paths -> Seq(Whitelist)]
  BY DEF CronInv, FilesInv
<1>2. CASE files' = files /\ written' = written
  <2>1. Len(written[p]) \in Nat BY <1>1
  <2>2. QED BY <1>2, <2>1 DEF Moves
<1>3. CASE Truncate
  <2>1. written' = written /\ files' = [files EXCEPT ![PathOf[Network]] = [NoFile EXCEPT !.mtime = clock + 1]]
    BY <1>3 DEF Truncate
  <2> DEFINE f0 == [NoFile EXCEPT !.mtime = clock + 1]
  <2>2. f0.mtime = clock + 1 /\ f0.whole = FALSE BY DEF NoFile
  <2>3. files' = [files EXCEPT ![PathOf[Network]] = f0] BY <2>1
  <2> HIDE DEF f0
  <2>4. Len(written[p]) \in Nat BY <1>1
  <2>5. CASE p = PathOf[Network]
    <3>1. files'[p] = f0 BY <1>1, <2>3, <2>5
    <3>2. files[p].mtime <= files'[p].mtime /\ files[p].mtime < files'[p].mtime /\ ~files'[p].whole
      BY <1>1, <2>2, <3>1
    <3>3. QED BY <2>1, <2>4, <3>2 DEF Moves
  <2>6. CASE p # PathOf[Network]
    <3>1. files'[p] = files[p] BY <1>1, <2>3, <2>6
    <3>2. QED BY <2>1, <2>4, <3>1 DEF Moves
  <2>7. QED BY <2>5, <2>6
<1>4. CASE WriteWhitelist
  <2>1. job \in Job /\ job.pc = "writing" BY <1>4 DEF CronInv, JobInv, WriteWhitelist
  <2>2. ~files[PathOf[Network]].whole BY <2>1 DEF CronInv, JobInv
  <2>3. PICK t \in {clock, clock + 1} :
          files' = [files EXCEPT ![PathOf[Network]] = [mtime |-> t, whole |-> TRUE, content |-> job.out]]
    BY <1>4 DEF WriteWhitelist
  <2>4. written' = [written EXCEPT ![PathOf[Network]] = Append(written[PathOf[Network]], job.out)]
    BY <1>4 DEF WriteWhitelist
  <2>5. t \in Nat /\ clock <= t BY <1>1
  <2>6. CASE p = PathOf[Network]
    <3>1. written'[p] = Append(written[p], job.out) BY <1>1, <2>4, <2>6
    <3>2. files'[p] = [mtime |-> t, whole |-> TRUE, content |-> job.out] BY <1>1, <2>3, <2>6
    <3>3. files[p].mtime <= files'[p].mtime BY <1>1, <2>5, <3>2
    <3>4. /\ Len(written'[p]) = Len(written[p]) + 1 /\ Len(written[p]) \in Nat
          /\ \A i \in 1 .. Len(written[p]) : written'[p][i] = written[p][i]
      <4> DEFINE S == Whitelist \cup {job.out}
      <4>1. written[p] \in Seq(S) BY <1>1
      <4>2. job.out \in S OBVIOUS
      <4> HIDE DEF S
      <4>3. QED BY <3>1, <4>1, <4>2
    <3>5. QED BY <2>2, <2>6, <3>3, <3>4 DEF Moves
  <2>7. CASE p # PathOf[Network]
    <3>1. files'[p] = files[p] /\ written'[p] = written[p] BY <1>1, <2>3, <2>4, <2>7
    <3>2. Len(written[p]) \in Nat BY <1>1
    <3>3. QED BY <3>1, <3>2 DEF Moves
  <2>8. QED BY <2>6, <2>7
<1>5. CASE UNCHANGED cronVars BY <1>2, <1>5 DEF cronVars
<1>6. CASE run \/ run_meta_job \/ compare_with_chain \/ CompareFails \/ WriteFails \/ JobDies
  BY <1>2, <1>6 DEF run, run_meta_job, compare_with_chain, CompareFails, WriteFails, JobDies
<1>7. QED BY <1>3, <1>4, <1>5, <1>6 DEF CronNext

\* Whatever the job does, what held of a request and of a whitelist still does.
LEMMA MovesKeep ==
    ASSUME WhitelistAssumption, CronInv, CronInv', NEW n \in Supported, Moves(PathOf[n])
    PROVE  /\ File(n).mtime <= (File(n).mtime)'
           /\ Current(n) <= Current(n)'
           /\ \A since \in Nat : \A snap : HeldSince(n, since, snap) => HeldSince(n, since, snap)'
           /\ \A i \in DOMAIN Past(n) : i \in DOMAIN Past(n)' /\ Past(n)'[i] = Past(n)[i]
<1>1. /\ PathOf[n] \in Paths /\ Past(n) \in Seq(Whitelist) /\ File(n).mtime \in Nat
      /\ Past(n)' \in Seq(Whitelist) /\ (File(n).mtime)' \in Nat
  <2>1. PathOf[n] \in Paths BY DEF Paths, Supported
  <2>2. QED BY <2>1 DEF CronInv, FilesInv, File, Past
<1> DEFINE a == Len(written[PathOf[n]])
           b == Len(written'[PathOf[n]])
<1>2. /\ a \in Nat /\ b \in Nat /\ a <= b
      /\ \A i \in 1 .. a : written'[PathOf[n]][i] = written[PathOf[n]][i]
      /\ DOMAIN Past(n) = 1 .. a /\ DOMAIN Past(n)' = 1 .. b
  BY <1>1 DEF Moves, Past
<1>3. /\ File(n)' = File(n) \/
           /\ File(n).mtime <= (File(n).mtime)'
           /\ File(n).whole => File(n).mtime < (File(n).mtime)'
      /\ File(n).whole \/ File(n)' = File(n) \/ b = a + 1 \/ ~File(n).whole'
  BY DEF Moves, File
<1>4. File(n).mtime <= (File(n).mtime)' BY <1>1, <1>3
<1>5. Current(n) <= Current(n)'
  <2>1. Current(n) = a + (IF File(n).whole THEN 0 ELSE 1) BY DEF Current
  <2>2. Current(n)' = b + (IF File(n).whole' THEN 0 ELSE 1) BY DEF Current
  <2> HIDE DEF a, b
  <2>3. QED BY <1>2, <1>3, <2>1, <2>2
<1>6. ASSUME NEW since \in Nat, NEW snap, HeldSince(n, since, snap) PROVE HeldSince(n, since, snap)'
  <2>1. PICK i \in since .. a : written[PathOf[n]][i] = snap BY <1>6 DEF HeldSince, Past
  <2>2. since >= 1 BY <1>6 DEF HeldSince
  <2> HIDE DEF a, b
  <2>3. i \in since .. b /\ i \in 1 .. a BY <1>2, <2>1, <2>2
  <2>4. written'[PathOf[n]][i] = snap BY <1>2, <2>1, <2>3
  <2>5. QED BY <2>2, <2>3, <2>4 DEF HeldSince, Past, b
<1>7. ASSUME NEW i \in DOMAIN Past(n) PROVE i \in DOMAIN Past(n)' /\ Past(n)'[i] = Past(n)[i]
  <2> HIDE DEF a, b
  <2>1. i \in 1 .. a /\ i \in 1 .. b BY <1>2, <1>7
  <2>2. QED BY <1>2, <2>1 DEF Past
<1>8. QED BY <1>4, <1>5, <1>6, <1>7

LEMMA CronKeepsRequest ==
    ASSUME WhitelistAssumption, CronInv, CronInv', NEW r, RequestOK(r),
           \A p \in Paths : Moves(p)
    PROVE  RequestOK(r)'
<1>0. r \in Req /\ r.since \in Nat /\ r.mtime \in Nat BY DEF RequestOK, Req
<1>1. ASSUME NEW n \in Supported
      PROVE  /\ File(n).mtime \in Nat /\ (File(n).mtime)' \in Nat
             /\ Current(n) \in Nat /\ Current(n)' \in Nat
             /\ File(n).mtime <= (File(n).mtime)' /\ Current(n) <= Current(n)'
             /\ \A since \in Nat : \A snap : HeldSince(n, since, snap) => HeldSince(n, since, snap)'
             /\ \A i \in DOMAIN Past(n) : i \in DOMAIN Past(n)' /\ Past(n)'[i] = Past(n)[i]
  <2>1. PathOf[n] \in Paths BY DEF Paths, Supported
  <2>2. File(n).mtime \in Nat /\ (File(n).mtime)' \in Nat BY <2>1 DEF CronInv, FilesInv, File
  <2>3. Len(written[PathOf[n]]) \in Nat /\ Len(written'[PathOf[n]]) \in Nat
    BY <2>1 DEF CronInv, FilesInv
  <2>4. Current(n) \in Nat /\ Current(n)' \in Nat
    <3>1. \A k \in Nat, w \in BOOLEAN : k + (IF w THEN 0 ELSE 1) \in Nat OBVIOUS
    <3>2. File(n).whole \in BOOLEAN /\ File(n).whole' \in BOOLEAN
      BY <2>1 DEF CronInv, FilesInv, File
    <3>3. Current(n) \in Nat BY <2>3, <3>1, <3>2 DEF Current
    <3>4. Current(n)' \in Nat BY <2>3, <3>1, <3>2 DEF Current
    <3>5. QED BY <3>3, <3>4
  <2>5. QED BY <2>1, <2>2, <2>4, MovesKeep
<1>2. r.pc \in Pending \cup {"proxying"} =>
        /\ r.network \in Supported
        /\ r.mtime >= 1 /\ r.mtime <= (File(r.network).mtime)'
        /\ r.since >= 1 /\ r.since <= Current(r.network)'
  BY <1>0, <1>1 DEF RequestOK
<1>3. (r.pc \in {"proxying", "answered"} /\ r.snapshot # <<>>) =>
        r.network \in Supported /\ HeldSince(r.network, r.since, r.snapshot)'
  BY <1>0, <1>1 DEF RequestOK
<1>4. r.status = "routed" => r.network \in Supported /\ IsRouted(r)'
  <2>1. SUFFICES ASSUME r.status = "routed" PROVE r.network \in Supported /\ IsRouted(r)'
    OBVIOUS
  <2>2. r.network \in Supported /\ IsRouted(r) BY <2>1 DEF RequestOK
  <2> DEFINE n == r.network
  <2>3. PICK i \in DOMAIN Past(n) : /\ Past(n)[i].network = n
                                    /\ r.origin \in OkOrigins(Past(n)[i].verifiers)
    BY <2>2 DEF IsRouted
  <2>4. i \in DOMAIN Past(n)' /\ Past(n)'[i] = Past(n)[i] BY <1>1, <2>2
  <2>5. QED BY <2>2, <2>3, <2>4 DEF IsRouted
<1>5. QED BY <1>0, <1>2, <1>3, <1>4 DEF RequestOK

LEMMA CronKeepsKnown ==
    ASSUME WhitelistAssumption, CronInv, CronInv', req' = req, req \in [Threads -> Req],
           NEW n \in Supported, NEW m \in Nat, NEW snap, Known(n, m, snap), Moves(PathOf[n])
    PROVE  Known(n, m, snap)'
<1>1. PathOf[n] \in Paths BY DEF Paths, Supported
<1>2. File(n).mtime \in Nat /\ (File(n).mtime)' \in Nat BY <1>1 DEF CronInv, FilesInv, File
<1>3. /\ File(n).mtime <= (File(n).mtime)'
      /\ \A since \in Nat : \A s : HeldSince(n, since, s) => HeldSince(n, since, s)'
  BY MovesKeep
<1>4. m >= 1 /\ m <= (File(n).mtime)' /\ snap \in Whitelist BY <1>2, <1>3 DEF Known
<1>5. ASSUME m = (File(n).mtime)' PROVE File(n).whole' /\ snap = (File(n).content)'
  <2>1. m = File(n).mtime BY <1>2, <1>3, <1>5 DEF Known
  <2>2. File(n).whole /\ snap = File(n).content BY <2>1 DEF Known
  <2>3. ~(File(n).mtime < (File(n).mtime)') BY <1>2, <1>5, <2>1
  <2>4. File(n)' = File(n) BY <2>2, <2>3 DEF Moves, File
  <2>5. QED BY <2>2, <2>4
<1>6. ASSUME NEW t \in Threads, req'[t].pc \in Pending, req'[t].network = n, req'[t].mtime = m
      PROVE  HeldSince(n, req[t].since, snap)'
  <2>1. HeldSince(n, req[t].since, snap) BY <1>6 DEF Known
  <2>2. req[t].since \in Nat /\ req'[t].since = req[t].since BY DEF Req
  <2>3. HeldSince(n, req[t].since, snap)' BY <1>3, <2>1, <2>2
  <2>4. QED BY <2>3
<1>7. QED BY <1>4, <1>5, <1>6 DEF Known

LEMMA RouterSurvivesCron ==
    ASSUME WhitelistAssumption, RouterInv, CronNext \/ UNCHANGED cronVars, UNCHANGED routerVars
    PROVE  RouterInv'
<1>1. CronInv /\ CronInv' BY CronSteps DEF RouterInv
<1>2. \A p \in Paths : Moves(p) BY <1>1, FilesMove
<1>3. cache' = cache /\ req' = req /\ served' = served BY DEF routerVars
<1>4. req \in [Threads -> Req] BY DEF RouterInv
<1>5. ASSUME NEW t \in Threads PROVE RequestOK(req[t])' BY <1>1, <1>2, <1>3, CronKeepsRequest DEF RouterInv
<1>6. \A n \in Supported : PathOf[n] \in Paths BY DEF Paths, Supported
<1>7. ASSUME NEW t \in Threads, req'[t].pc = "parsed"
      PROVE  Known(req[t].network, req[t].mtime, req[t].snapshot)'
  <2> DEFINE n == req[t].network
             m == req[t].mtime
             snap == req[t].snapshot
  <2>1. n \in Supported /\ m \in Nat /\ Known(n, m, snap)
    BY <1>3, <1>4, <1>7 DEF RouterInv, RequestOK, Pending, Req
  <2>2. n' = n /\ m' = m /\ snap' = snap BY <1>3
  <2> HIDE DEF n, m, snap
  <2>3. QED BY <1>1, <1>2, <1>3, <1>4, <1>6, <2>1, <2>2, CronKeepsKnown DEF n, m, snap
<1>8. ASSUME NEW n \in Supported, cache'[n].mtime # 0
      PROVE  Known(n, cache[n].mtime, cache[n].snapshot)'
  <2> DEFINE m == cache[n].mtime
             snap == cache[n].snapshot
  <2>1. m \in Nat /\ Known(n, m, snap) BY <1>3, <1>8 DEF RouterInv
  <2>2. m' = m /\ snap' = snap BY <1>3
  <2> HIDE DEF m, snap
  <2>3. QED BY <1>1, <1>2, <1>3, <1>4, <1>6, <2>1, <2>2, CronKeepsKnown DEF m, snap
<1>9. /\ req' \in [Threads -> Req] /\ served' \in 0 .. MaxRequests
      /\ cache' \in [Supported -> [mtime : Nat, snapshot : Whitelist \cup {<<>>}]]
  BY <1>3 DEF RouterInv
<1>10. \A t \in Threads : RequestOK(req[t])'
  BY <1>5
<1>11. QED BY <1>1, <1>7, <1>8, <1>9, <1>10 DEF RouterInv

\* A step of one request: its record becomes a, which waits for the whitelist it
\* waited for, or has just come, or has just parsed what the file holds.
Follows(t, a) ==
    /\ UNCHANGED cronVars /\ req' = [req EXCEPT ![t] = a]
    /\ RequestOK(a)
    /\ a.pc \in Pending =>
          \/ /\ req[t].pc \in Pending /\ a.network = req[t].network
             /\ a.mtime = req[t].mtime /\ a.since = req[t].since
          \/ a.pc = "checking" /\ a.mtime = File(a.network).mtime /\ a.since = Current(a.network)
    /\ a.pc = "parsed" => File(a.network).whole /\ a.snapshot = File(a.network).content

Caches(t) ==
    /\ cache' \in [Supported -> [mtime : Nat, snapshot : Whitelist \cup {<<>>}]]
    /\ served' \in 0 .. MaxRequests
    /\ \A n \in Supported : cache'[n] = cache[n] \/
          /\ req[t].pc = "parsed" /\ req[t].network = n
          /\ cache'[n].mtime = req[t].mtime /\ cache'[n].snapshot = req[t].snapshot

LEMMA SameFiles ==
    ASSUME UNCHANGED cronVars, NEW n, NEW since, NEW snap, NEW r
    PROVE  /\ File(n)' = File(n) /\ Past(n)' = Past(n) /\ Current(n)' = Current(n)
           /\ HeldSince(n, since, snap)' <=> HeldSince(n, since, snap)
           /\ RequestOK(r)' <=> RequestOK(r)
<1>1. files' = files /\ written' = written BY DEF cronVars
<1>2. File(n)' = File(n) /\ Past(n)' = Past(n) /\ Current(n)' = Current(n)
  BY <1>1 DEF File, Past, Current
<1>3. HeldSince(n, since, snap)' <=> HeldSince(n, since, snap) BY <1>1 DEF HeldSince, Past
<1>4. RequestOK(r)' <=> RequestOK(r)
  BY <1>1 DEF RequestOK, File, Current, HeldSince, IsRouted, Past
<1>5. QED BY <1>2, <1>3, <1>4

\* The last whitelist in a file that is whole is one that every request the file
\* has seen may be routed by.
LEMMA LastIsHeld ==
    ASSUME CronInv, NEW n \in Supported, File(n).whole, NEW since \in Nat, since >= 1,
           since <= Current(n)
    PROVE  HeldSince(n, since, File(n).content) /\ File(n).content \in Whitelist
<1>1. Past(n) \in Seq(Whitelist) /\ Len(Past(n)) > 0 /\ File(n).content = Past(n)[Len(Past(n))]
  BY FileOfNetwork
<1>2. Len(Past(n)) \in Nat BY <1>1
<1>3. Current(n) = Len(Past(n))
  <2>1. Current(n) = Len(Past(n)) + 0 BY DEF Current, Past
  <2>2. QED BY <1>2, <2>1
<1>4. Len(Past(n)) \in since .. Len(Past(n)) /\ Len(Past(n)) \in 1 .. Len(Past(n)) BY <1>1, <1>2, <1>3
<1>5. File(n).content \in Whitelist BY <1>1, <1>4, ElementOfSeq
<1>6. QED BY <1>1, <1>4, <1>5 DEF HeldSince

LEMMA RequestKeepsKnown ==
    ASSUME RouterInv, NEW t \in Threads, NEW a, Follows(t, a),
           NEW n \in Supported, NEW m \in Nat, NEW snap, Known(n, m, snap)
    PROVE  Known(n, m, snap)'
<1>1. UNCHANGED cronVars /\ req' = [req EXCEPT ![t] = a] /\ RequestOK(a) /\ req \in [Threads -> Req]
  BY DEF Follows, RouterInv
<1>2. File(n)' = File(n) BY <1>1, SameFiles
<1>3. ASSUME NEW u \in Threads, req'[u].pc \in Pending, req'[u].network = n, req'[u].mtime = m
      PROVE  HeldSince(n, req'[u].since, snap)
  <2>1. CASE req[u].pc \in Pending /\ req[u].network = n /\ req[u].mtime = m /\ req'[u].since = req[u].since
    BY <2>1 DEF Known
  <2>2. CASE u # t
    <3>1. req'[u] = req[u] BY <1>1, <2>2
    <3>2. QED BY <1>3, <2>1, <3>1
  <2>3. CASE u = t
    <3>1. req'[u] = a BY <1>1, <2>3
    <3>2. CASE /\ req[t].pc \in Pending /\ a.network = req[t].network
               /\ a.mtime = req[t].mtime /\ a.since = req[t].since
      BY <1>3, <2>1, <2>3, <3>1, <3>2
    <3>3. CASE a.pc = "checking" /\ a.mtime = File(a.network).mtime /\ a.since = Current(a.network)
      <4>1. m = File(n).mtime /\ a.since = Current(n) BY <1>3, <3>1, <3>3
      <4>2. File(n).whole /\ snap = File(n).content BY <4>1 DEF Known
      <4>3. a.since \in Nat /\ a.since >= 1 /\ a.since <= Current(n)
        <5>1. a \in Req /\ a.pc \in Pending \cup {"proxying"} /\ a.network = n
          BY <1>1, <1>3, <3>1 DEF RequestOK
        <5>2. a.since \in Nat BY <5>1 DEF Req
        <5>3. QED BY <1>1, <4>1, <5>1, <5>2 DEF RequestOK
      <4>4. CronInv BY DEF RouterInv
      <4>5. QED BY <3>1, <4>2, <4>3, <4>4, LastIsHeld
    <3>4. QED BY <1>3, <3>1, <3>2, <3>3 DEF Follows
  <2>4. QED BY <2>2, <2>3
<1>4. ASSUME NEW u \in Threads
      PROVE  (req[u].pc \in Pending /\ req[u].network = n /\ req[u].mtime = m =>
                HeldSince(n, req[u].since, snap))'
  BY <1>1, <1>3, SameFiles DEF cronVars, HeldSince, Past
<1>5. QED BY <1>2, <1>4 DEF Known

LEMMA ParsedIsKnown ==
    ASSUME RouterInv, NEW t \in Threads, NEW a, Follows(t, a), a.pc = "parsed"
    PROVE  Known(a.network, a.mtime, a.snapshot)'
<1> DEFINE n == a.network
<1>1. UNCHANGED cronVars /\ req' = [req EXCEPT ![t] = a] /\ RequestOK(a) /\ req \in [Threads -> Req]
  BY DEF Follows, RouterInv
<1>2. /\ a \in Req /\ n \in Supported /\ a.mtime >= 1 /\ a.mtime <= File(n).mtime
      /\ a.since >= 1 /\ a.since <= Current(n) /\ a.since \in Nat
  BY <1>1 DEF RequestOK, Pending, Req
<1>3. File(n).whole /\ a.snapshot = File(n).content BY DEF Follows
<1>4. CronInv BY DEF RouterInv
<1>5. a.snapshot \in Whitelist BY <1>2, <1>3, <1>4, LastIsHeld
<1>6. ASSUME NEW u \in Threads, req'[u].pc \in Pending, req'[u].network = n
      PROVE  HeldSince(n, req'[u].since, a.snapshot)
  <2>1. CASE u = t
    <3>1. req'[u] = a BY <1>1, <2>1
    <3>2. QED BY <1>2, <1>3, <1>4, <3>1, LastIsHeld
  <2>2. CASE u # t
    <3>1. req'[u] = req[u] /\ RequestOK(req[u]) BY <1>1, <2>2 DEF RouterInv
    <3>2. req[u].since \in Nat /\ req[u].since >= 1 /\ req[u].since <= Current(n)
      BY <1>6, <3>1 DEF RequestOK, Req
    <3>3. QED BY <1>2, <1>3, <1>4, <3>1, <3>2, LastIsHeld
  <2>3. QED BY <2>1, <2>2
<1>7. File(n)' = File(n) BY <1>1, SameFiles
<1>8. ASSUME NEW u \in Threads
      PROVE  (req[u].pc \in Pending /\ req[u].network = n /\ req[u].mtime = a.mtime =>
                HeldSince(n, req[u].since, a.snapshot))'
  BY <1>1, <1>6, SameFiles DEF cronVars, HeldSince, Past
<1>9. QED BY <1>2, <1>3, <1>5, <1>7, <1>8 DEF Known

LEMMA RouterMoves ==
    ASSUME WhitelistAssumption, RouterInv, NEW t \in Threads, NEW a, Follows(t, a), Caches(t)
    PROVE  RouterInv'
<1>1. UNCHANGED cronVars /\ req' = [req EXCEPT ![t] = a] /\ RequestOK(a) /\ req \in [Threads -> Req]
  BY DEF Follows, RouterInv
<1>2. CronInv' BY <1>1, CronSteps DEF RouterInv
<1>3. a \in Req BY <1>1 DEF RequestOK
<1>4. req' \in [Threads -> Req] BY <1>1, <1>3
<1>5. ASSUME NEW u \in Threads PROVE RequestOK(req[u])'
  <2>1. RequestOK(req'[u])
    <3>1. CASE u = t BY <1>1, <3>1
    <3>2. CASE u # t BY <1>1, <3>2 DEF RouterInv
    <3>3. QED BY <3>1, <3>2
  <2>2. files' = files /\ written' = written BY <1>1 DEF cronVars
  <2>3. QED BY <2>1, <2>2 DEF RequestOK, File, Current, HeldSince, IsRouted, Past
<1>6. ASSUME NEW u \in Threads, req'[u].pc = "parsed"
      PROVE  Known(req[u].network, req[u].mtime, req[u].snapshot)'
  <2>1. CASE u = t
    <3>1. req'[u] = a BY <1>1, <2>1
    <3>2. Known(a.network, a.mtime, a.snapshot)' BY <1>6, <3>1, ParsedIsKnown
    <3>3. QED BY <3>1, <3>2
  <2>2. CASE u # t
    <3>1. req'[u] = req[u] BY <1>1, <2>2
    <3> DEFINE n == req[u].network
               m == req[u].mtime
               snap == req[u].snapshot
    <3>2. n \in Supported /\ m \in Nat /\ Known(n, m, snap)
      BY <1>1, <1>6, <3>1 DEF RouterInv, RequestOK, Pending, Req
    <3>3. n' = n /\ m' = m /\ snap' = snap BY <3>1
    <3> HIDE DEF n, m, snap
    <3>4. QED BY <3>2, <3>3, RequestKeepsKnown DEF n, m, snap
  <2>3. QED BY <2>1, <2>2
<1>7. ASSUME NEW n \in Supported, cache'[n].mtime # 0
      PROVE  Known(n, cache[n].mtime, cache[n].snapshot)'
  <2> DEFINE m == cache'[n].mtime
             snap == cache'[n].snapshot
  <2>1. m \in Nat BY DEF Caches
  <2>2. Known(n, m, snap)
    <3>1. CASE cache'[n] = cache[n] BY <1>7, <3>1 DEF RouterInv
    <3>2. CASE /\ req[t].pc = "parsed" /\ req[t].network = n
               /\ cache'[n].mtime = req[t].mtime /\ cache'[n].snapshot = req[t].snapshot
      BY <3>2 DEF RouterInv
    <3>3. QED BY <3>1, <3>2 DEF Caches
  <2> HIDE DEF m, snap
  <2>3. \A x \in Nat : \A y : Known(n, x, y) => Known(n, x, y)' BY RequestKeepsKnown
  <2>4. Known(n, m, snap) => \A x, y : x = m /\ y = snap => Known(n, x, y)' BY <2>1, <2>3
  <2>5. QED BY <2>2, <2>4 DEF m, snap, Known, HeldSince, Past, File
<1>8. QED BY <1>2, <1>4, <1>5, <1>6, <1>7 DEF RouterInv, Caches

LEMMA Edited ==
    ASSUME NEW b \in Req
    PROVE  /\ \A p \in Pending \cup {"idle", "proxying", "answered"} : [b EXCEPT !.pc = p] \in Req
           /\ \A n \in Supported : [b EXCEPT !.network = n] \in Req
           /\ \A m \in Nat : [b EXCEPT !.mtime = m] \in Req
           /\ \A k \in Nat : [b EXCEPT !.since = k] \in Req
           /\ \A snap \in Whitelist : [b EXCEPT !.snapshot = snap] \in Req
           /\ \A s \in Statuses : [b EXCEPT !.status = s] \in Req
           /\ \A o \in STRING \cup {""} : [b EXCEPT !.origin = o] \in Req
BY DEF Req

LEMMA NoRequestTyped == NoRequest \in Req
BY DEF NoRequest, Req, Statuses

\* However a request goes on once it has a whitelist that its file held since it
\* came, the record it leaves is one the invariant allows.
LEMMA Outcome ==
    ASSUME WhitelistAssumption, RouterAssumption, CronInv, NEW r, RequestOK(r), r.pc \in Pending,
           NEW snap \in Whitelist, HeldSince(r.network, r.since, snap), NEW a \in Routed(r, snap)
    PROVE  RequestOK(a) /\ a.pc \notin Pending
<1> DEFINE n == r.network
           got == [r EXCEPT !.pc = "answered", !.snapshot = snap]
           pool == select_routable_verifiers(snap.verifiers)
<1>1. /\ r \in Req /\ n \in Supported /\ r.mtime >= 1 /\ r.mtime <= File(n).mtime
      /\ r.since >= 1 /\ r.since <= Current(n) /\ r.since \in Nat
  BY DEF RequestOK, Req
<1>2. snap.verifiers \in Seq(Row)
  <2>1. PICK m \in DOMAIN PathOf, rows \in Seq(Row) :
          snap = [network |-> m, slot |-> snapshot_slot(rows), verifiers |-> whitelist_verifiers(rows)]
    BY DEF Whitelist
  <2>2. whitelist_verifiers(rows) \in Seq(Row) BY WhitelistOfRows
  <2>3. QED BY <2>1, <2>2
<1>3. PICK i \in DOMAIN Past(n) : Past(n)[i] = snap
  <2>1. PICK i \in r.since .. Len(Past(n)) : Past(n)[i] = snap BY DEF HeldSince
  <2>2. Past(n) \in Seq(Whitelist) BY <1>1, FileOfNetwork
  <2>3. Len(Past(n)) \in Nat /\ DOMAIN Past(n) = 1 .. Len(Past(n)) BY <2>2
  <2>4. i \in DOMAIN Past(n) BY <1>1, <2>1, <2>3
  <2>5. QED BY <2>1, <2>4
<1>4. /\ got \in Req /\ got.network = n /\ got.mtime = r.mtime /\ got.since = r.since
      /\ got.snapshot = snap /\ got.pc = "answered"
  BY <1>1 DEF Req
<1>5. /\ a \in Req /\ a.network = n /\ a.mtime = r.mtime /\ a.since = r.since /\ a.snapshot = snap
      /\ a.pc \in {"answered", "proxying"} /\ (a.pc = "proxying" => a.status = "routed")
      /\ a.status = "routed" => snap.network = n /\ a.origin \in OkOrigins(snap.verifiers)
  <2> HIDE DEF got
  <2>1. CASE snap.network # n
    <3>1. a = [got EXCEPT !.status = "whitelist_network_mismatch"] BY <2>1 DEF Routed, got
    <3>2. a \in Req
      <4>1. "whitelist_network_mismatch" \in Statuses BY DEF Statuses
      <4>2. QED BY <1>4, <3>1, <4>1, Edited
    <3>3. /\ a.network = got.network /\ a.mtime = got.mtime /\ a.since = got.since
          /\ a.snapshot = got.snapshot /\ a.pc = got.pc /\ a.status # "routed"
      BY <1>4, <3>1 DEF Req
    <3>4. QED BY <1>4, <3>2, <3>3
  <2>2. CASE snap.network = n /\ pool = <<>>
    <3>1. a = [got EXCEPT !.status = "no_ok_verifiers"] BY <2>2 DEF Routed, got
    <3>2. a \in Req
      <4>1. "no_ok_verifiers" \in Statuses BY DEF Statuses
      <4>2. QED BY <1>4, <3>1, <4>1, Edited
    <3>3. /\ a.network = got.network /\ a.mtime = got.mtime /\ a.since = got.since
          /\ a.snapshot = got.snapshot /\ a.pc = got.pc /\ a.status # "routed"
      BY <1>4, <3>1 DEF Req
    <3>4. QED BY <1>4, <3>2, <3>3
  <2>3. CASE snap.network = n /\ pool # <<>>
    <3>1. PICK v \in ToSet(pool) :
            a = [got EXCEPT !.pc = IF Proxy THEN "proxying" ELSE @, !.status = "routed",
                            !.origin = canonical_domain(v.domain).origin]
      BY <2>3 DEF Routed, got
    <3>2. v \in ToSet(snap.verifiers) /\ v.status = "ok" BY <1>2, RoutableRows
    <3>3. v \in Row BY <1>2, <3>2 DEF ToSet
    <3>4. canonical_domain(v.domain).origin = v.domain.origin /\ v.domain.origin \in STRING
      BY <3>3 DEF Row, canonical_domain
    <3>5. v.domain.origin \in OkOrigins(snap.verifiers) BY <3>2 DEF OkOrigins
    <3>6. a = [got EXCEPT !.pc = IF Proxy THEN "proxying" ELSE "answered", !.status = "routed",
                          !.origin = v.domain.origin]
      BY <1>4, <3>1, <3>4
    <3>7. a \in Req
      <4> DEFINE p == IF Proxy THEN "proxying" ELSE "answered"
      <4>1. p \in Pending \cup {"idle", "proxying", "answered"} /\ "routed" \in Statuses
        BY DEF Pending, Statuses
      <4>2. a = [[[got EXCEPT !.pc = p] EXCEPT !.status = "routed"] EXCEPT !.origin = v.domain.origin]
        BY <3>6
      <4> HIDE DEF p
      <4>3. [got EXCEPT !.pc = p] \in Req BY <1>4, <4>1, Edited
      <4>4. [[got EXCEPT !.pc = p] EXCEPT !.status = "routed"] \in Req BY <4>1, <4>3, Edited
      <4>5. QED BY <3>4, <4>2, <4>4, Edited
    <3>8. /\ a.network = got.network /\ a.mtime = got.mtime /\ a.since = got.since
          /\ a.snapshot = got.snapshot /\ a.pc \in {"answered", "proxying"}
          /\ a.status = "routed" /\ a.origin = v.domain.origin
      BY <1>4, <3>6 DEF Req
    <3>9. QED BY <1>4, <2>3, <3>5, <3>7, <3>8
  <2>4. QED BY <2>1, <2>2, <2>3
<1> HIDE DEF n
<1>6. a.status = "routed" => IsRouted(a)
  <2>1. SUFFICES ASSUME a.status = "routed" PROVE IsRouted(a) OBVIOUS
  <2>2. Past(a.network)[i].network = a.network /\ a.origin \in OkOrigins(Past(a.network)[i].verifiers)
    BY <1>3, <1>5, <2>1
  <2>3. QED BY <1>3, <1>5, <2>2 DEF IsRouted
<1>7. HeldSince(a.network, a.since, a.snapshot) BY <1>5 DEF n
<1>8. a.pc \notin Pending /\ a.pc \notin {"checking", "reading"} BY <1>5 DEF Pending
<1>9. QED BY <1>1, <1>5, <1>6, <1>7, <1>8 DEF RequestOK

\* The requests of a thread whose record it is.
LEMMA RequestTyped ==
    ASSUME RouterInv, NEW t \in Threads
    PROVE  req[t] \in Req /\ RequestOK(req[t]) /\ req \in [Threads -> Req]
BY DEF RouterInv

LEMMA CacheStays ==
    ASSUME RouterInv, cache' = cache, served' = served, NEW t
    PROVE  Caches(t)
BY DEF RouterInv, Caches

LEMMA RequestArrives ==
    ASSUME WhitelistAssumption, RouterAssumption, RouterInv, NEW t \in Threads, NEW q \in Queries,
           handle_request(t, q)
    PROVE  RouterInv'
<1> DEFINE n == select_network(q)
           refused == [NoRequest EXCEPT !.pc = "answered", !.status = "bad_request"]
           missing == [NoRequest EXCEPT !.pc = "answered", !.network = n, !.status = "no_whitelist_data"]
           taken == [NoRequest EXCEPT !.pc = "checking", !.network = n,
                                      !.mtime = File(n).mtime, !.since = Current(n)]
           b == CASE n \notin Supported -> refused
                  [] n \in Supported /\ File(n).mtime = 0 -> missing
                  [] OTHER -> taken
<1>1. /\ req' = [req EXCEPT ![t] = b] /\ served' = served + 1 /\ served < MaxRequests
      /\ UNCHANGED cronVars /\ cache' = cache
  BY DEF handle_request
<1>2. \/ n \notin Supported /\ b = refused
      \/ n \in Supported /\ b = missing
      \/ n \in Supported /\ File(n).mtime # 0 /\ b = taken
  <2> HIDE DEF refused, missing, taken
  <2>1. CASE n \notin Supported BY <2>1
  <2>2. CASE n \in Supported /\ File(n).mtime = 0 BY <2>2
  <2>3. CASE n \in Supported /\ File(n).mtime # 0 BY <2>3
  <2>4. QED BY <2>1, <2>2, <2>3
<1> HIDE DEF b, n
<1>3. NoRequest = [pc |-> "idle", network |-> "", mtime |-> 0, since |-> 0,
                   snapshot |-> <<>>, status |-> "", origin |-> ""]
  BY DEF NoRequest
<1>4. Follows(t, b)
  <2>1. CASE n \notin Supported /\ b = refused
    <3>1. /\ b.pc = "answered" /\ b.network = "" /\ b.mtime = 0 /\ b.since = 0
          /\ b.snapshot = <<>> /\ b.status = "bad_request" /\ b.origin = ""
      BY <2>1 DEF NoRequest
    <3>2. b \in Req
      <4>1. [NoRequest EXCEPT !.pc = "answered"] \in Req BY NoRequestTyped, Edited
      <4>2. "bad_request" \in Statuses BY DEF Statuses
      <4>3. QED BY <2>1, <4>1, <4>2, Edited
    <3>3. RequestOK(b) BY <3>1, <3>2 DEF RequestOK, Pending
    <3>4. QED BY <1>1, <3>1, <3>3 DEF Follows, Pending
  <2>2. CASE n \in Supported /\ b = missing
    <3>1. /\ b.pc = "answered" /\ b.network = n /\ b.mtime = 0 /\ b.since = 0
          /\ b.snapshot = <<>> /\ b.status = "no_whitelist_data" /\ b.origin = ""
      BY <2>2 DEF NoRequest
    <3>2. b \in Req
      <4>1. [NoRequest EXCEPT !.pc = "answered"] \in Req BY NoRequestTyped, Edited
      <4>2. [NoRequest EXCEPT !.pc = "answered", !.network = n] \in Req BY <2>2, <4>1, Edited
      <4>3. "no_whitelist_data" \in Statuses BY DEF Statuses
      <4>4. QED BY <2>2, <4>2, <4>3, Edited
    <3>3. RequestOK(b) BY <3>1, <3>2 DEF RequestOK, Pending
    <3>4. QED BY <1>1, <3>1, <3>3 DEF Follows, Pending
  <2>3. CASE n \in Supported /\ File(n).mtime # 0 /\ b = taken
    <3>1. /\ b.pc = "checking" /\ b.network = n /\ b.mtime = File(n).mtime /\ b.since = Current(n)
          /\ b.snapshot = <<>> /\ b.status = "" /\ b.origin = ""
      BY <2>3 DEF NoRequest
    <3>2. File(n).mtime \in Nat /\ File(n).mtime >= 1 /\ Current(n) \in Nat /\ Current(n) >= 1
      <4>1. CronInv BY DEF RouterInv
      <4>2. /\ File(n).mtime \in Nat /\ File(n).whole \in BOOLEAN /\ Len(Past(n)) \in Nat
            /\ File(n).whole => Len(Past(n)) > 0
        BY <2>3, <4>1, FileOfNetwork
      <4>3. Current(n) = Len(Past(n)) + (IF File(n).whole THEN 0 ELSE 1) BY DEF Current, Past
      <4>4. \A k \in Nat, w \in BOOLEAN :
              (w => k > 0) => k + (IF w THEN 0 ELSE 1) \in Nat /\ k + (IF w THEN 0 ELSE 1) >= 1
        OBVIOUS
      <4>5. QED BY <2>3, <4>2, <4>3, <4>4
    <3>3. b \in Req
      <4>1. [NoRequest EXCEPT !.pc = "checking"] \in Req BY NoRequestTyped, Edited DEF Pending
      <4>2. [NoRequest EXCEPT !.pc = "checking", !.network = n] \in Req BY <2>3, <4>1, Edited
      <4>3. [NoRequest EXCEPT !.pc = "checking", !.network = n, !.mtime = File(n).mtime] \in Req
        BY <3>2, <4>2, Edited
      <4>4. QED BY <2>3, <3>2, <4>3, Edited
    <3>4. RequestOK(b)
      <4>1. /\ b.network = n /\ n \in Supported
            /\ b.mtime = File(n).mtime /\ b.since = Current(n)
        BY <2>3, <3>1
      <4>2. /\ b.network \in Supported
            /\ b.mtime >= 1 /\ b.mtime <= File(b.network).mtime
            /\ b.since >= 1 /\ b.since <= Current(b.network)
        <5>1. File(n).mtime <= File(n).mtime /\ Current(n) <= Current(n) BY <3>2
        <5>2. QED BY ONLY <3>2, <4>1, <5>1, Zenon
      <4>3. b.pc \notin {"proxying", "answered"} /\ b.status # "routed" BY <3>1
      <4>4. b.pc \in {"checking", "reading"} => b.snapshot = <<>> BY <3>1
      <4>5. b.pc # "proxying" /\ ~(b.pc \in {"proxying", "answered"} /\ b.snapshot # <<>>) BY <4>3
      <4>6. QED BY ONLY <3>3, <4>2, <4>3, <4>4, <4>5 DEF RequestOK
    <3>5. QED BY <1>1, <3>1, <3>4 DEF Follows, Pending
  <2>4. QED BY <1>2, <2>1, <2>2, <2>3
<1>5. served' \in 0 .. MaxRequests
  <2>1. served \in 0 .. MaxRequests /\ MaxRequests \in Nat BY DEF RouterInv, RouterAssumption
  <2>2. QED BY <1>1, <2>1
<1>6. Caches(t) BY <1>1, <1>5 DEF RouterInv, Caches
<1>7. QED BY <1>4, <1>6, RouterMoves

\* A step of a request that keeps its network, mtime and arrival, and neither
\* waits any longer nor has parsed anything.
LEMMA RequestLeaves ==
    ASSUME WhitelistAssumption, RouterInv, NEW t \in Threads, NEW a, RequestOK(a),
           a.pc \notin Pending, UNCHANGED cronVars, req' = [req EXCEPT ![t] = a], Caches(t)
    PROVE  RouterInv'
<1>1. Follows(t, a) BY DEF Follows, Pending
<1>2. QED BY <1>1, RouterMoves

LEMMA CacheIsConsulted ==
    ASSUME WhitelistAssumption, RouterAssumption, RouterInv, NEW t \in Threads, load_whitelist(t)
    PROVE  RouterInv'
<1> DEFINE r == req[t]
           n == r.network
           c == cache[n]
<1>1. r \in Req /\ RequestOK(r) /\ req \in [Threads -> Req] BY RequestTyped
<1>2. r.pc = "checking" /\ UNCHANGED cronVars /\ cache' = cache /\ served' = served
  BY DEF load_whitelist
<1>3. /\ n \in Supported /\ r.mtime >= 1 /\ r.mtime <= File(n).mtime /\ r.mtime \in Nat
      /\ r.since >= 1 /\ r.since <= Current(n) /\ r.snapshot = <<>>
  BY <1>1, <1>2 DEF RequestOK, Pending, Req
<1>4. Caches(t) BY <1>2, CacheStays
<1>5. CASE c.mtime = r.mtime
  <2>1. PICK a \in Routed(r, c.snapshot) : req' = [req EXCEPT ![t] = a]
    BY <1>5 DEF load_whitelist
  <2>2. c.mtime # 0 BY <1>3, <1>5
  <2>3. Known(n, c.mtime, c.snapshot) BY <1>3, <2>2 DEF RouterInv
  <2>4. c.snapshot \in Whitelist BY <2>3 DEF Known
  <2>5. HeldSince(n, r.since, c.snapshot) BY <1>2, <1>5, <2>3 DEF Known, Pending
  <2>6. CronInv /\ r.pc \in Pending BY <1>2 DEF RouterInv, Pending
  <2> HIDE DEF r, c
  <2>7. RequestOK(a) /\ a.pc \notin Pending BY <1>1, <2>1, <2>4, <2>5, <2>6, Outcome
  <2>8. QED BY <1>2, <1>4, <2>1, <2>7, RequestLeaves
<1>6. CASE c.mtime # r.mtime
  <2> DEFINE a == [r EXCEPT !.pc = "reading"]
  <2>1. req' = [req EXCEPT ![t] = a] BY <1>1, <1>6 DEF load_whitelist
  <2>2. a \in Req BY <1>1, Edited DEF Pending
  <2>3. /\ a.pc = "reading" /\ a.network = n /\ a.mtime = r.mtime /\ a.since = r.since
        /\ a.snapshot = <<>> /\ a.status = r.status /\ a.origin = r.origin
    BY <1>1, <1>3 DEF Req
  <2> HIDE DEF a
  <2>4. RequestOK(a)
    <3>1. r.status = "routed" => IsRouted(r) BY <1>1 DEF RequestOK
    <3>2. a.status = "routed" => IsRouted(a) BY <2>3, <3>1 DEF IsRouted
    <3>3. QED BY <1>3, <2>2, <2>3, <3>2 DEF RequestOK
  <2>5. Follows(t, a) BY <1>2, <2>1, <2>3, <2>4 DEF Follows, Pending
  <2>6. QED BY <1>4, <2>5, RouterMoves
<1>7. QED BY <1>5, <1>6

LEMMA FileIsRead ==
    ASSUME WhitelistAssumption, RouterAssumption, RouterInv, NEW t \in Threads, ReadFile(t)
    PROVE  RouterInv'
<1> DEFINE r == req[t]
           n == r.network
<1>1. r \in Req /\ RequestOK(r) /\ req \in [Threads -> Req] /\ CronInv
  BY RequestTyped DEF RouterInv
<1>2. r.pc = "reading" /\ UNCHANGED cronVars /\ cache' = cache /\ served' = served
  BY DEF ReadFile
<1>3. /\ n \in Supported /\ r.mtime >= 1 /\ r.mtime <= File(n).mtime /\ r.mtime \in Nat
      /\ r.since >= 1 /\ r.since <= Current(n) /\ r.since \in Nat /\ r.snapshot = <<>>
  BY <1>1, <1>2 DEF RequestOK, Pending, Req
<1>4. Caches(t) BY <1>2, CacheStays
<1>5. r.status = "routed" => IsRouted(r) BY <1>1 DEF RequestOK
<1>6. CASE File(n).whole
  <2> DEFINE a == [r EXCEPT !.pc = "parsed", !.snapshot = File(n).content]
  <2>1. req' = [req EXCEPT ![t] = a] BY <1>6 DEF ReadFile
  <2>2. File(n).content \in Whitelist BY <1>1, <1>3, <1>6, LastIsHeld
  <2>3. a \in Req
    <3>1. [r EXCEPT !.pc = "parsed"] \in Req BY <1>1, Edited DEF Pending
    <3>2. QED BY <2>2, <3>1, Edited
  <2>4. /\ a.pc = "parsed" /\ a.network = n /\ a.mtime = r.mtime /\ a.since = r.since
        /\ a.snapshot = File(n).content /\ a.status = r.status /\ a.origin = r.origin
    BY <1>1 DEF Req
  <2> HIDE DEF a
  <2>5. a.status = "routed" => IsRouted(a) BY <1>5, <2>4 DEF IsRouted
  <2>6. RequestOK(a)
    <3>1. a.pc \notin {"checking", "reading"} /\ a.pc \notin {"proxying", "answered"} BY <2>4
    <3>2. /\ a.network \in Supported /\ a.mtime >= 1 /\ a.mtime <= File(a.network).mtime
          /\ a.since >= 1 /\ a.since <= Current(a.network)
      BY <1>3, <2>4
    <3>3. QED BY <2>3, <2>5, <3>1, <3>2 DEF RequestOK
  <2>7. Follows(t, a) BY <1>2, <1>6, <2>1, <2>4, <2>6 DEF Follows, Pending
  <2>8. QED BY <1>4, <2>7, RouterMoves
<1>7. CASE ~File(n).whole
  <2> DEFINE a == [r EXCEPT !.pc = "answered", !.status = "no_whitelist_data"]
  <2>1. req' = [req EXCEPT ![t] = a] BY <1>7 DEF ReadFile
  <2>2. a \in Req
    <3>1. [r EXCEPT !.pc = "answered"] \in Req BY <1>1, Edited
    <3>2. "no_whitelist_data" \in Statuses BY DEF Statuses
    <3>3. QED BY <3>1, <3>2, Edited
  <2>3. a.pc = "answered" /\ a.snapshot = <<>> /\ a.status # "routed" BY <1>1, <1>3 DEF Req
  <2> HIDE DEF a
  <2>4. RequestOK(a) BY <2>2, <2>3 DEF RequestOK, Pending
  <2>5. a.pc \notin Pending BY <2>3 DEF Pending
  <2>6. QED BY <1>2, <1>4, <2>1, <2>4, <2>5, RequestLeaves
<1>8. QED BY <1>6, <1>7

LEMMA CacheIsFilled ==
    ASSUME WhitelistAssumption, RouterAssumption, RouterInv, NEW t \in Threads, StoreInCache(t)
    PROVE  RouterInv'
<1> DEFINE r == req[t]
           n == r.network
           c == [mtime |-> r.mtime, snapshot |-> r.snapshot]
<1>1. r \in Req /\ RequestOK(r) /\ req \in [Threads -> Req] /\ CronInv
  BY RequestTyped DEF RouterInv
<1>2. r.pc = "parsed" /\ UNCHANGED cronVars /\ served' = served /\ cache' = [cache EXCEPT ![n] = c]
  BY DEF StoreInCache
<1>3. n \in Supported /\ r.mtime \in Nat /\ r.pc \in Pending
  BY <1>1, <1>2 DEF RequestOK, Pending, Req
<1>4. Known(n, r.mtime, r.snapshot) BY <1>2 DEF RouterInv
<1>5. r.snapshot \in Whitelist /\ HeldSince(n, r.since, r.snapshot) BY <1>3, <1>4 DEF Known
<1>6. PICK a \in Routed(r, r.snapshot) : req' = [req EXCEPT ![t] = a] BY DEF StoreInCache
<1>7. Caches(t)
  <2>1. cache \in [Supported -> [mtime : Nat, snapshot : Whitelist \cup {<<>>}]]
        /\ served \in 0 .. MaxRequests
    BY DEF RouterInv
  <2>2. c \in [mtime : Nat, snapshot : Whitelist \cup {<<>>}] /\ c.mtime = r.mtime /\ c.snapshot = r.snapshot
    BY <1>3, <1>5
  <2> HIDE DEF c
  <2>3. cache' \in [Supported -> [mtime : Nat, snapshot : Whitelist \cup {<<>>}]]
    BY <1>2, <2>1, <2>2
  <2>4. \A m \in Supported : cache'[m] = IF m = n THEN c ELSE cache[m] BY <1>2, <2>1
  <2>5. QED BY <1>2, <2>1, <2>2, <2>3, <2>4 DEF Caches
<1> HIDE DEF r
<1>8. RequestOK(a) /\ a.pc \notin Pending BY <1>1, <1>3, <1>5, <1>6, Outcome
<1>9. QED BY <1>2, <1>6, <1>7, <1>8, RequestLeaves

LEMMA RequestEnds ==
    ASSUME WhitelistAssumption, RouterInv, NEW t \in Threads, respond_proxy(t) \/ Respond(t)
    PROVE  RouterInv'
<1> DEFINE r == req[t]
<1>1. r \in Req /\ RequestOK(r) /\ req \in [Threads -> Req] BY RequestTyped
<1>2. UNCHANGED cronVars /\ cache' = cache /\ served' = served BY DEF respond_proxy, Respond
<1>3. Caches(t) BY <1>2, CacheStays
<1>4. CASE Respond(t)
  <2>1. req' = [req EXCEPT ![t] = NoRequest] BY <1>4 DEF Respond
  <2>2. RequestOK(NoRequest) /\ NoRequest.pc \notin Pending
    <3>1. NoRequest.pc = "idle" /\ NoRequest.status = "" BY DEF NoRequest
    <3>2. QED BY <3>1, NoRequestTyped DEF RequestOK, Pending
  <2>3. QED BY <1>2, <1>3, <2>1, <2>2, RequestLeaves
<1>5. CASE respond_proxy(t)
  <2>1. PICK status \in {"routed", "proxy_upstream_failed"} :
          req' = [req EXCEPT ![t].pc = "answered", ![t].status = status]
    BY <1>5 DEF respond_proxy
  <2> DEFINE a == [r EXCEPT !.pc = "answered", !.status = status]
  <2>2. req' = [req EXCEPT ![t] = a] BY <1>1, <2>1
  <2>3. a \in Req
    <3>1. [r EXCEPT !.pc = "answered"] \in Req BY <1>1, Edited
    <3>2. status \in Statuses BY DEF Statuses
    <3>3. QED BY <3>1, <3>2, Edited
  <2>4. /\ a.pc = "answered" /\ a.network = r.network /\ a.since = r.since
        /\ a.snapshot = r.snapshot /\ a.status = status /\ a.origin = r.origin
    BY <1>1 DEF Req
  <2>5. r.pc = "proxying" BY <1>5 DEF respond_proxy
  <2>6. /\ r.network \in Supported /\ IsRouted(r)
        /\ r.snapshot # <<>> => HeldSince(r.network, r.since, r.snapshot)
    BY <1>1, <2>5 DEF RequestOK, Pending
  <2> HIDE DEF a, r
  <2>7. IsRouted(a) BY <2>4, <2>6 DEF IsRouted
  <2>8. a.snapshot # <<>> => HeldSince(a.network, a.since, a.snapshot) BY <2>4, <2>6
  <2>9. a.pc \notin {"checking", "reading"} /\ a.pc # "proxying" /\ a.pc \notin Pending BY <2>4 DEF Pending
  <2>10. RequestOK(a) BY <2>3, <2>4, <2>6, <2>7, <2>8, <2>9 DEF RequestOK
  <2>11. QED BY <1>2, <1>3, <2>2, <2>9, <2>10, RequestLeaves
<1>6. QED BY <1>4, <1>5

LEMMA RouterStarts ==
    ASSUME WhitelistAssumption, RouterAssumption, RouterInit
    PROVE  RouterInv
<1>1. CronInv BY CronStarts DEF RouterInit
<1>2. /\ cache = [n \in Supported |-> [mtime |-> 0, snapshot |-> <<>>]]
      /\ req = [t \in Threads |-> NoRequest] /\ served = 0 /\ MaxRequests \in Nat
  BY DEF RouterInit, RouterAssumption
<1>3. NoRequest.pc = "idle" /\ NoRequest.status = "" /\ NoRequest \in Req
  BY NoRequestTyped DEF NoRequest
<1>4. RequestOK(NoRequest) BY <1>3 DEF RequestOK, Pending
<1>5. \A t \in Threads : req[t] = NoRequest BY <1>2
<1>6. \A n \in Supported : cache[n].mtime = 0 BY <1>2
<1>7. req \in [Threads -> Req] BY <1>2, <1>3
<1>8. served \in 0 .. MaxRequests BY <1>2
<1>9. cache \in [Supported -> [mtime : Nat, snapshot : Whitelist \cup {<<>>}]] BY <1>2
<1>10. QED BY <1>1, <1>3, <1>4, <1>5, <1>6, <1>7, <1>8, <1>9 DEF RouterInv

LEMMA RouterSteps ==
    ASSUME WhitelistAssumption, RouterAssumption, RouterInv, [Next]_vars
    PROVE  RouterInv'
<1>1. CASE UNCHANGED vars
  <2>1. UNCHANGED cronVars /\ UNCHANGED routerVars BY <1>1 DEF vars, cronVars, routerVars
  <2>2. QED BY <2>1, RouterSurvivesCron
<1>2. CASE CronNext /\ UNCHANGED routerVars BY <1>2, RouterSurvivesCron
<1>3. ASSUME NEW t \in Threads, NEW q \in Queries, handle_request(t, q) PROVE RouterInv'
  BY <1>3, RequestArrives
<1>4. ASSUME NEW t \in Threads, load_whitelist(t) PROVE RouterInv' BY <1>4, CacheIsConsulted
<1>5. ASSUME NEW t \in Threads, ReadFile(t) PROVE RouterInv' BY <1>5, FileIsRead
<1>6. ASSUME NEW t \in Threads, StoreInCache(t) PROVE RouterInv' BY <1>6, CacheIsFilled
<1>7. ASSUME NEW t \in Threads, respond_proxy(t) \/ Respond(t) PROVE RouterInv' BY <1>7, RequestEnds
<1>8. QED BY <1>1, <1>2, <1>3, <1>4, <1>5, <1>6, <1>7 DEF Next

\* The invariant of the job and the router together (VerifierWhitelist, NcnRouter).
THEOREM RouterInvAlways ==
    ASSUME WhitelistAssumption, RouterAssumption PROVE Spec => []RouterInv
<1>1. RouterInit => RouterInv BY RouterStarts
<1>2. RouterInv /\ [Next]_vars => RouterInv' BY RouterSteps
<1>3. QED BY <1>1, <1>2, PTL DEF Spec

LEMMA RouterTypes ==
    ASSUME WhitelistAssumption, RouterAssumption, RouterInv
    PROVE  RouterTypeOK
<1>1. ASSUME NEW t \in Threads
      PROVE  /\ req[t].pc \in {"idle", "checking", "reading", "parsed", "proxying", "answered"}
             /\ req[t].pc \in {"checking", "reading", "parsed", "proxying"} =>
                   /\ req[t].network \in Supported
                   /\ req[t].mtime \in 1 .. File(req[t].network).mtime
  <2>1. req[t] \in Req /\ RequestOK(req[t]) BY RequestTyped
  <2>2. req[t].pc \in {"idle", "checking", "reading", "parsed", "proxying", "answered"}
    BY <2>1 DEF Req, Pending
  <2>3. ASSUME req[t].pc \in {"checking", "reading", "parsed", "proxying"}
        PROVE  req[t].network \in Supported /\ req[t].mtime \in 1 .. File(req[t].network).mtime
    <3>1. /\ req[t].network \in Supported /\ req[t].mtime \in Nat
          /\ req[t].mtime >= 1 /\ req[t].mtime <= File(req[t].network).mtime
      BY <2>1, <2>3 DEF RequestOK, Pending, Req
    <3>2. File(req[t].network).mtime \in Nat BY <3>1, FileOfNetwork DEF RouterInv
    <3>3. QED BY <3>1, <3>2
  <2>4. QED BY <2>2, <2>3
<1>2. ASSUME NEW n \in Supported PROVE cache[n].mtime <= File(n).mtime
  <2>1. File(n).mtime \in Nat /\ cache[n].mtime \in Nat BY FileOfNetwork DEF RouterInv
  <2>2. CASE cache[n].mtime = 0 BY <2>1, <2>2
  <2>3. CASE cache[n].mtime # 0 BY <2>3 DEF RouterInv, Known
  <2>4. QED BY <2>2, <2>3
<1>3. served \in 0 .. MaxRequests BY DEF RouterInv
<1>4. QED BY <1>1, <1>2, <1>3 DEF RouterTypeOK

\* The types of job, files, threads and cache (CronTypeOK, RouterTypeOK), and that
\* a file that is whole has the last whitelist written to it.
THEOREM ServicesAreTyped ==
    ASSUME WhitelistAssumption, RouterAssumption PROVE Spec => [](CronTypeOK /\ RouterTypeOK)
<1>1. RouterInv => CronTypeOK /\ RouterTypeOK BY CronTypes, RouterTypes DEF RouterInv
<1>2. QED BY <1>1, RouterInvAlways, PTL

\* cron_job.rs:417-448: dropping the stale verifiers never empties the pool.
THEOREM PoolNeverEmpties ==
    ASSUME WhitelistAssumption, RouterAssumption PROVE Spec => []PoolIsNeverEmptied
<1>1. RouterInv => PoolIsNeverEmptied BY PoolHasAVerifier DEF RouterInv
<1>2. QED BY <1>1, RouterInvAlways, PTL

\* cron_job.rs:465-506: one row per origin, ok exactly if a poll of it was
\* confirmed and within the lag of the freshest, for any configuration.
THEOREM TicketsAreFair ==
    ASSUME WhitelistAssumption, RouterAssumption PROVE Spec => []OneTicketPerFreshOrigin
<1>1. RouterInv => OneTicketPerFreshOrigin BY OneTicketEach DEF RouterInv
<1>2. QED BY <1>1, RouterInvAlways, PTL

\* cron_job.rs:113-121, 210-221: a whitelist has what its verifiers reported of
\* its own network.
THEOREM NetworksStayApart ==
    ASSUME WhitelistAssumption, RouterAssumption PROVE Spec => []WhitelistIsOfItsNetwork
<1>1. RouterInv => WhitelistIsOfItsNetwork BY WhitelistFromItsLog DEF RouterInv
<1>2. QED BY <1>1, RouterInvAlways, PTL

\* router.rs:391-396: what is cached under the file's mtime is what the file has.
THEOREM CacheFollowsFile ==
    ASSUME WhitelistAssumption, RouterAssumption PROVE Spec => []CacheIsCurrent
<1>1. RouterInv => CacheIsCurrent BY DEF RouterInv, Known, CacheIsCurrent
<1>2. QED BY <1>1, RouterInvAlways, PTL

\* router.rs:384-421: a request is answered by a whitelist its file held between
\* its arrival and its answer, however threads and rewrites interleave.
THEOREM RoutingIsCurrent ==
    ASSUME WhitelistAssumption, RouterAssumption PROVE Spec => []RoutedByACurrentWhitelist
<1>1. RouterInv => RoutedByACurrentWhitelist
  BY DEF RouterInv, RequestOK, RoutedByACurrentWhitelist, Answered, HeldSince, Past
<1>2. QED BY <1>1, RouterInvAlways, PTL

\* router.rs:169-189: a request is routed to a verifier that is ok on the network
\* it selected, also when the networks share a file.
THEOREM RoutingStaysInNetwork ==
    ASSUME WhitelistAssumption, RouterAssumption PROVE Spec => []RoutedWithinTheNetwork
<1>1. RouterInv => RoutedWithinTheNetwork
  BY DEF RouterInv, RequestOK, RoutedWithinTheNetwork, IsRouted, Past
<1>2. QED BY <1>1, RouterInvAlways, PTL

\* All that job and router promise together, RequestsAreRouted, for any number of
\* verifiers, networks, threads and runs of the job.
THEOREM RoutingIsSound ==
    ASSUME WhitelistAssumption, RouterAssumption PROVE Spec => []RequestsAreRouted
BY ServicesAreTyped, PoolNeverEmpties, TicketsAreFair, NetworksStayApart, CacheFollowsFile,
   RoutingIsCurrent, RoutingStaysInNetwork, PTL DEF RequestsAreRouted

-----------------------------------------------------------------------------
(***************************************************************************)
(* The trees of the snapshots (MerkleProofs), for any number of leaves.    *)
(***************************************************************************)
CONSTANTS Trees, Items
VARIABLES items, levels, index, level, nodeIndex, path, leaf, altered, node, used, pc

Tree == INSTANCE MerkleProofs

\* Hashing is free of collisions: leaves and inner nodes are apart, and each has
\* the hash of what it is.
LEMMA HashesAreApart ==
    ASSUME NEW x, NEW y, NEW a, NEW b, NEW c, NEW d
    PROVE  /\ Tree!hash_leaf(x) # Tree!hash_intermediate(a, b)
           /\ Tree!hash_leaf(x) = Tree!hash_leaf(y) => x = y
           /\ Tree!hash_intermediate(a, b) = Tree!hash_intermediate(c, d) => {a, b} = {c, d}
<1>1. Tree!hash_leaf(x) # Tree!hash_intermediate(a, b)
  <2>1. DOMAIN Tree!hash_leaf(x) = {"leaf"} BY DEF Tree!hash_leaf
  <2>2. DOMAIN Tree!hash_intermediate(a, b) = {"children"} BY DEF Tree!hash_intermediate
  <2>3. QED BY <2>1, <2>2
<1>2. Tree!hash_leaf(x).leaf = x /\ Tree!hash_leaf(y).leaf = y BY DEF Tree!hash_leaf
<1>3. /\ Tree!hash_intermediate(a, b).children = {a, b}
      /\ Tree!hash_intermediate(c, d).children = {c, d}
  BY DEF Tree!hash_intermediate
<1>4. QED BY <1>1, <1>2, <1>3

\* A pair with a common member is equal to another exactly when the others are.
LEMMA PairsOfOne ==
    ASSUME NEW a, NEW b, NEW c, {a, c} = {b, c} PROVE a = b
<1>1. a \in {b, c} /\ b \in {a, c} OBVIOUS
<1>2. QED BY <1>1

\* The node above place i of a level.
Above(nodes, i) ==
    LET l == 2 * i
        r == IF l + 1 < Len(nodes) THEN l + 1 ELSE l
    IN  Tree!Parent(Tree!At(nodes, l), Tree!At(nodes, r))

AllNodes == UNION {ToSet(levels[l]) : l \in DOMAIN levels}

IsLevel(nodes) == nodes \in Seq(ToSet(nodes)) /\ Len(nodes) >= 1

LevelsInv ==
    /\ items \in Seq(Items) /\ levels \in Seq(ToSet(levels))
    /\ items = <<>> <=> levels = <<>>
    /\ \A l \in 1 .. Len(levels) : IsLevel(levels[l])
    /\ levels # <<>> => levels[1] = [i \in DOMAIN items |-> Tree!hash_leaf(items[i])]
    /\ \A l \in 2 .. Len(levels) :
          /\ Len(levels[l]) = (Len(levels[l - 1]) + 1) \div 2
          /\ \A i \in 1 .. Len(levels[l]) : levels[l][i] = Above(levels[l - 1], i - 1)

\* A node and its sibling are what the node above them is made of.
LEMMA SiblingsAbove ==
    ASSUME NEW nodes, IsLevel(nodes), NEW i \in 0 .. (Len(nodes) - 1)
    PROVE  /\ Above(nodes, i \div 2) =
                 Tree!hash_intermediate(Tree!At(nodes, i), Tree!Sibling(nodes, i))
           /\ i \div 2 \in 0 .. (((Len(nodes) + 1) \div 2) - 1)
           /\ Tree!Sibling(nodes, i) \in ToSet(nodes) /\ Tree!At(nodes, i) \in ToSet(nodes)
<1> DEFINE n == Len(nodes)
           q == i \div 2
<1>1. /\ nodes \in Seq(ToSet(nodes)) /\ n \in Nat /\ n >= 1 /\ DOMAIN nodes = 1 .. n
      /\ \A k \in 0 .. (n - 1) : Tree!At(nodes, k) = nodes[k + 1] /\ nodes[k + 1] \in ToSet(nodes)
  BY DEF IsLevel, ToSet, Tree!At
<1> HIDE DEF n
<1>2. i \in 0 .. (n - 1) BY DEF n
<1>3. q \in Nat /\ ((i = 2 * q /\ i % 2 = 0) \/ (i = 2 * q + 1 /\ i % 2 = 1))
  <2>1. i \in Nat BY <1>1, <1>2
  <2>2. i = 2 * (i \div 2) + (i % 2) /\ i \div 2 \in Nat /\ i % 2 \in 0 .. 1 BY ONLY <2>1, SMT
  <2>3. i % 2 = 0 \/ i % 2 = 1 BY <2>2
  <2>4. QED BY <2>1, <2>2, <2>3
<1>4. q \in 0 .. (((n + 1) \div 2) - 1) BY <1>1, <1>2, <1>3
<1>5. Above(nodes, q) =
        Tree!hash_intermediate(Tree!At(nodes, 2 * q),
                               Tree!At(nodes, IF 2 * q + 1 < n THEN 2 * q + 1 ELSE 2 * q))
  BY DEF Above, Tree!Parent, n
<1> HIDE DEF q
<1>6. \A a, b : Tree!hash_intermediate(a, b) = Tree!hash_intermediate(b, a)
  <2>1. \A a, b : {a, b} = {b, a} OBVIOUS
  <2>2. QED BY <2>1 DEF Tree!hash_intermediate
<1>7. CASE i = 2 * q + 1 /\ i % 2 = 1
  <2>1. Tree!Sibling(nodes, i) = Tree!At(nodes, 2 * q)
    <3>1. i - 1 = 2 * q BY <1>3, <1>7
    <3>2. Tree!Sibling(nodes, i) = Tree!At(nodes, i - 1) BY <1>7 DEF Tree!Sibling
    <3>3. QED BY <3>1, <3>2
  <2>2. Above(nodes, q) = Tree!hash_intermediate(Tree!At(nodes, 2 * q), Tree!At(nodes, i))
    <3>1. 2 * q + 1 < n BY <1>1, <1>2, <1>3, <1>7
    <3>2. QED BY <1>5, <1>7, <3>1
  <2>3. 2 * q \in 0 .. (n - 1) BY <1>1, <1>2, <1>3, <1>7
  <2>4. QED BY <1>1, <1>2, <1>4, <1>6, <2>1, <2>2, <2>3 DEF n, q
<1>8. CASE i = 2 * q /\ i % 2 = 0 /\ i + 1 < n
  <2>1. Tree!Sibling(nodes, i) = Tree!At(nodes, i + 1) BY <1>8 DEF Tree!Sibling, n
  <2>2. i + 1 \in 0 .. (n - 1) BY <1>1, <1>2, <1>8
  <2>3. Above(nodes, q) = Tree!hash_intermediate(Tree!At(nodes, i), Tree!At(nodes, i + 1))
    BY <1>5, <1>8
  <2>4. QED BY <1>1, <1>2, <1>4, <2>1, <2>2, <2>3 DEF n, q
<1>9. CASE i = 2 * q /\ i % 2 = 0 /\ ~(i + 1 < n)
  <2>1. Tree!Sibling(nodes, i) = Tree!At(nodes, i) BY <1>9 DEF Tree!Sibling, n
  <2>2. Above(nodes, q) = Tree!hash_intermediate(Tree!At(nodes, i), Tree!At(nodes, i))
    BY <1>5, <1>9
  <2>3. QED BY <1>1, <1>2, <1>4, <2>1, <2>2 DEF n, q
<1>10. QED BY <1>3, <1>7, <1>8, <1>9

\* A node of the tree is a leaf's hash, or has both its children in the tree.
LEMMA NodesOfTheTree ==
    ASSUME LevelsInv, NEW h \in AllNodes
    PROVE  \/ \E x \in ToSet(items) : h = Tree!hash_leaf(x)
           \/ \E a, b \in AllNodes : h = Tree!hash_intermediate(a, b)
<1>1. /\ levels \in Seq(ToSet(levels)) /\ Len(levels) \in Nat /\ DOMAIN levels = 1 .. Len(levels)
      /\ items \in Seq(Items) /\ DOMAIN items = 1 .. Len(items)
  BY DEF LevelsInv
<1>2. PICK l \in 1 .. Len(levels) : h \in ToSet(levels[l]) BY <1>1 DEF AllNodes
<1>3. IsLevel(levels[l]) BY DEF LevelsInv
<1>4. PICK i \in 1 .. Len(levels[l]) : h = levels[l][i] BY <1>2, <1>3 DEF IsLevel, ToSet
<1>5. CASE l = 1
  <2>1. levels # <<>> BY <1>1, <1>2
  <2>2. levels[1] = [k \in DOMAIN items |-> Tree!hash_leaf(items[k])] BY <2>1 DEF LevelsInv
  <2>3. i \in DOMAIN items
    <3>1. DOMAIN levels[1] = 1 .. Len(levels[1]) BY <1>3, <1>5 DEF IsLevel
    <3>2. DOMAIN levels[1] = DOMAIN items BY <2>2
    <3>3. QED BY <1>4, <1>5, <3>1, <3>2
  <2>4. h = Tree!hash_leaf(items[i]) /\ items[i] \in ToSet(items)
    BY <1>4, <1>5, <2>2, <2>3 DEF ToSet
  <2>5. QED BY <2>4
<1>6. CASE l \in 2 .. Len(levels)
  <2> DEFINE below == levels[l - 1]
             n == Len(below)
             k == i - 1
  <2>1. l - 1 \in 1 .. Len(levels) BY <1>1, <1>6
  <2>2. IsLevel(below) BY <2>1 DEF LevelsInv
  <2>3. below \in Seq(ToSet(below)) /\ n \in Nat /\ n >= 1 /\ DOMAIN below = 1 .. n BY <2>2 DEF IsLevel
  <2>4. Len(levels[l]) = (n + 1) \div 2 /\ h = Above(below, k) BY <1>4, <1>6 DEF LevelsInv
  <2> HIDE DEF below, n
  <2>5. k \in Nat /\ 2 * k \in 0 .. (n - 1) /\ (2 * k + 1 < n => 2 * k + 1 \in 0 .. (n - 1))
    <3>1. k \in 0 .. (((n + 1) \div 2) - 1) BY <1>4, <2>3, <2>4
    <3>2. 2 * ((n + 1) \div 2) <= n + 1 /\ (n + 1) \div 2 \in Nat BY <2>3
    <3> HIDE DEF k
    <3>3. QED BY <2>3, <3>1, <3>2
  <2>6. \A j \in 0 .. (n - 1) : Tree!At(below, j) \in AllNodes
    <3>1. \A j \in 0 .. (n - 1) : Tree!At(below, j) \in ToSet(below)
      BY <2>3 DEF Tree!At, ToSet
    <3>2. ToSet(below) \subseteq AllNodes BY <1>1, <2>1 DEF AllNodes, below
    <3>3. QED BY <3>1, <3>2
  <2> DEFINE a == Tree!At(below, 2 * k)
             b == Tree!At(below, IF 2 * k + 1 < n THEN 2 * k + 1 ELSE 2 * k)
  <2>7. a \in AllNodes /\ b \in AllNodes BY <2>5, <2>6
  <2>8. h = Tree!hash_intermediate(a, b) BY <2>4 DEF Above, Tree!Parent, n
  <2> HIDE DEF a, b
  <2>9. QED BY <2>7, <2>8
<1>7. QED BY <1>1, <1>2, <1>5, <1>6

\* A new level keeps the tree a tree.
LEMMA LevelIsAdded ==
    ASSUME LevelsInv, Tree!new
    PROVE  LevelsInv'
<1>1. /\ levels \in Seq(ToSet(levels)) /\ Len(levels) \in Nat /\ DOMAIN levels = 1 .. Len(levels)
  BY DEF LevelsInv
<1>2. levels' = Append(levels, Tree!NextLevel) /\ items' = items /\ Tree!next_level_len > 0
  BY DEF Tree!new
<1>3. levels # <<>> /\ Len(levels) >= 1 /\ Len(Tree!Top) # 1
  BY <1>1, <1>2 DEF Tree!next_level_len
<1> DEFINE top == levels[Len(levels)]
           n == Len(top)
           more == Tree!NextLevel
           m == (n + 1) \div 2
<1>4. IsLevel(top) /\ n \in Nat /\ n >= 1
  <2>1. IsLevel(top) BY <1>1, <1>3 DEF LevelsInv
  <2>2. QED BY <2>1 DEF IsLevel
<1>5. more = [i \in 1 .. m |-> Above(top, i - 1)]
  BY DEF Tree!NextLevel, Tree!Top, Above
<1>6. m \in Nat /\ m >= 1
  <2>1. \A x \in Nat : x >= 1 => (x + 1) \div 2 \in Nat /\ (x + 1) \div 2 >= 1 OBVIOUS
  <2> HIDE DEF n
  <2>2. QED BY <1>4, <2>1
<1> HIDE DEF n, m, more
<1>7. IsLevel(more) /\ Len(more) = m /\ \A i \in 1 .. m : more[i] = Above(top, i - 1)
  <2>1. DOMAIN more = 1 .. m BY <1>5
  <2>2. \A i \in 1 .. m : more[i] = Above(top, i - 1) /\ more[i] \in ToSet(more) BY <1>5, <2>1 DEF ToSet
  <2>3. more \in [1 .. m -> ToSet(more)] BY <1>5, <2>2
  <2>4. more \in Seq(ToSet(more)) /\ Len(more) = m BY <1>6, <2>1, <2>3, IsASeq
  <2>5. QED BY <1>6, <2>2, <2>4 DEF IsLevel
<1> DEFINE S == ToSet(levels) \cup {more}
           k == Len(levels)
<1>8. /\ levels' \in Seq(S) /\ Len(levels') = k + 1 /\ levels'[k + 1] = more
      /\ \A l \in 1 .. k : levels'[l] = levels[l]
  <2>1. levels \in Seq(S) /\ more \in S BY <1>1
  <2>2. levels' = Append(levels, more) BY <1>2 DEF more
  <2> HIDE DEF S
  <2>3. QED BY <1>1, <2>1, <2>2
<1>9. levels' \in Seq(ToSet(levels'))
  <2>1. levels \in Seq(S) /\ more \in S BY <1>1
  <2>2. levels' = Append(levels, more) BY <1>2 DEF more
  <2>3. ToSet(levels') = ToSet(levels) \cup {more}
    <3> HIDE DEF S
    <3>1. QED BY <2>1, <2>2, AppendToSet
  <2>4. QED BY <1>8, <2>3
<1> HIDE DEF S, k
<1>10. k \in Nat /\ k >= 1 BY <1>1, <1>3 DEF k
<1>11. ASSUME NEW l \in 1 .. Len(levels') PROVE IsLevel(levels'[l])
  <2>1. CASE l = k + 1 BY <1>7, <1>8, <2>1
  <2>2. CASE l \in 1 .. k BY <1>8, <2>2 DEF LevelsInv, k
  <2>3. QED BY <1>8, <1>10, <2>1, <2>2
<1>12. levels' # <<>> /\ levels'[1] = levels[1] /\ items # <<>>
  <2>1. levels' # <<>> BY <1>8, <1>10
  <2>2. items # <<>> BY <1>3 DEF LevelsInv
  <2>3. QED BY <1>8, <1>10, <2>1, <2>2
<1>13. ASSUME NEW l \in 2 .. Len(levels')
       PROVE  /\ Len(levels'[l]) = (Len(levels'[l - 1]) + 1) \div 2
              /\ \A i \in 1 .. Len(levels'[l]) : levels'[l][i] = Above(levels'[l - 1], i - 1)
  <2>1. CASE l = k + 1
    <3>1. levels'[l] = more /\ levels'[l - 1] = top BY <1>8, <1>10, <2>1 DEF k
    <3>2. QED BY <1>7, <3>1 DEF m, n
  <2>2. CASE l \in 2 .. k
    <3>1. l \in 1 .. k /\ l - 1 \in 1 .. k BY <1>10, <2>2
    <3>2. levels'[l] = levels[l] /\ levels'[l - 1] = levels[l - 1] BY <1>8, <3>1
    <3>3. QED BY <2>2, <3>2 DEF LevelsInv, k
  <2>3. l = k + 1 \/ l \in 2 .. k BY <1>8, <1>10
  <2>4. QED BY <2>1, <2>2, <2>3
<1>14. levels'[1] = [i \in DOMAIN items |-> Tree!hash_leaf(items[i])] BY <1>3, <1>12 DEF LevelsInv
<1>15. items' \in Seq(Items) BY <1>2 DEF LevelsInv
<1>16. items' = <<>> <=> levels' = <<>> BY <1>2, <1>12
<1>17. levels' # <<>> => levels'[1] = [i \in DOMAIN items' |-> Tree!hash_leaf(items'[i])] BY <1>2, <1>14
<1>18. QED BY <1>9, <1>11, <1>13, <1>15, <1>16, <1>17 DEF LevelsInv

\* The places of the leaf and of its parents, up to a level: each is below half
\* of the one before, and the path has the sibling of each but the last.
Climbs(pos, to) ==
    /\ pos \in [1 .. to -> Nat] /\ pos[1] = index
    /\ \A k \in 1 .. to : pos[k] < Len(levels[k])
    /\ \A k \in 1 .. (to - 1) :
          pos[k + 1] = pos[k] \div 2 /\ path[k] = Tree!Sibling(levels[k], pos[k])

OwnNode(pos) == Tree!At(levels[used + 1], pos[used + 1])

Walked(to, at) == \E pos : Climbs(pos, to) /\ pos[to] = at

\* The hash that is carried up is the node of the place exactly if the leaf is the
\* one of that place.
Carried ==
    \E pos : /\ Climbs(pos, Len(levels))
             /\ leaf = Tree!At(items, index) <=> node = OwnNode(pos)

TreeInv ==
    /\ LevelsInv /\ index \in 0 .. Len(items)
    /\ pc \in {"building", "walking", "none", "verifying", "valid", "invalid"}
    /\ pc # "building" /\ items # <<>> => Len(Tree!Top) = 1
    /\ pc \in {"walking", "verifying", "valid", "invalid"} => index < Len(items)
    /\ pc \in {"building", "none", "walking"} =>
          used = 0 /\ ~altered /\ node = Tree!hash_leaf(leaf)
    /\ pc \in {"building", "none"} => path = <<>>
    /\ path \in Seq(AllNodes) /\ used \in 0 .. Len(path) /\ Len(path) <= Len(levels)
    /\ pc = "walking" =>
          level \in 1 .. Len(levels) /\ Len(path) = level - 1 /\ Walked(level, nodeIndex)
    /\ pc = "verifying" =>
          /\ ~altered => Len(path) = Len(levels) - 1 /\ Carried
          /\ leaf \notin ToSet(items) => node \notin AllNodes
    /\ Tree!OwnProofVerifies /\ Tree!OnlyTheTreesLeavesVerify

LEMMA TreeStarts ==
    ASSUME Tree!MerkleAssumption, Tree!Init
    PROVE  TreeInv
<1>1. /\ items \in Seq(Items) /\ index \in 0 .. Len(items) /\ pc = "building" /\ path = <<>>
      /\ used = 0 /\ ~altered /\ node = Tree!hash_leaf(leaf)
      /\ levels = IF items = <<>> THEN <<>> ELSE <<[i \in DOMAIN items |-> Tree!hash_leaf(items[i])]>>
  BY DEF Tree!Init, Tree!MerkleAssumption
<1>2. LevelsInv
  <2>1. CASE items = <<>>
    <3>1. levels = <<>> /\ levels \in Seq(ToSet(levels)) /\ Len(levels) = 0 BY <1>1, <2>1
    <3>2. QED BY <1>1, <2>1, <3>1 DEF LevelsInv
  <2>2. CASE items # <<>>
    <3> DEFINE first == [i \in DOMAIN items |-> Tree!hash_leaf(items[i])]
               n == Len(items)
    <3>1. levels = <<first>> BY <1>1, <2>2
    <3>2. n \in Nat /\ n >= 1 /\ DOMAIN items = 1 .. n BY <1>1, <2>2
    <3>3. IsLevel(first)
      <4>1. DOMAIN first = 1 .. n BY <3>2
      <4>2. first = [i \in 1 .. n |-> first[i]] /\ \A i \in 1 .. n : first[i] \in ToSet(first)
        BY <3>2, <4>1 DEF ToSet
      <4> HIDE DEF first, n
      <4>3. first \in [1 .. n -> ToSet(first)] BY <4>2
      <4>4. first \in Seq(ToSet(first)) /\ Len(first) = n BY <3>2, <4>1, <4>3
      <4>5. QED BY <3>2, <4>4 DEF IsLevel
    <3> HIDE DEF first
    <3>4. Len(levels) = 1 /\ levels[1] = first /\ levels # <<>> /\ DOMAIN levels = 1 .. 1 BY <3>1
    <3>5. levels \in Seq(ToSet(levels))
      <4>1. ToSet(levels) = {first} BY <3>4 DEF ToSet
      <4>2. QED BY <3>1, <4>1
    <3>6. QED BY <1>1, <2>2, <3>3, <3>4, <3>5 DEF LevelsInv, first
  <2>3. QED BY <2>1, <2>2
<1>3. path \in Seq(AllNodes) /\ Len(path) = 0 BY <1>1
<1>4. Len(path) <= Len(levels) /\ used \in 0 .. Len(path)
  <2>1. Len(levels) \in Nat BY <1>2 DEF LevelsInv
  <2>2. QED BY <1>1, <1>3, <2>1
<1>5. Tree!OwnProofVerifies /\ Tree!OnlyTheTreesLeavesVerify
  BY <1>1 DEF Tree!OwnProofVerifies, Tree!OnlyTheTreesLeavesVerify
<1>6. QED BY <1>1, <1>2, <1>3, <1>4, <1>5 DEF TreeInv

\* While no verdict is reached there is nothing to be wrong about.
LEMMA NoVerdict ==
    ASSUME pc \notin {"valid", "invalid"}
    PROVE  Tree!OwnProofVerifies /\ Tree!OnlyTheTreesLeavesVerify
BY DEF Tree!OwnProofVerifies, Tree!OnlyTheTreesLeavesVerify

LEMMA TreeGrows ==
    ASSUME TreeInv, Tree!new
    PROVE  TreeInv'
<1>1. /\ pc = "building" /\ pc' = pc /\ items' = items /\ index' = index /\ path' = path /\ used' = used
      /\ altered' = altered /\ node' = node /\ leaf' = leaf /\ levels' = Append(levels, Tree!NextLevel)
  BY DEF Tree!new
<1>2. LevelsInv' BY LevelIsAdded DEF TreeInv
<1>3. path' = <<>> /\ used' = 0 /\ ~altered' /\ node' = Tree!hash_leaf(leaf') /\ pc' = "building"
      /\ index' \in 0 .. Len(items')
  BY <1>1 DEF TreeInv
<1>4. path' \in Seq(AllNodes') /\ Len(path') = 0 BY <1>3
<1>5. Len(levels') \in Nat BY <1>2 DEF LevelsInv
<1>6. Len(path') <= Len(levels') /\ used' \in 0 .. Len(path') BY <1>3, <1>4, <1>5
<1>7. (Tree!OwnProofVerifies /\ Tree!OnlyTheTreesLeavesVerify)'
  BY <1>3 DEF Tree!OwnProofVerifies, Tree!OnlyTheTreesLeavesVerify
<1>8. QED BY <1>2, <1>3, <1>4, <1>6, <1>7 DEF TreeInv

LEMMA PathIsAskedFor ==
    ASSUME TreeInv, Tree!FindPath
    PROVE  TreeInv'
<1>1. /\ pc = "building" /\ Tree!next_level_len = 0 /\ level' = 1 /\ nodeIndex' = index
      /\ pc' = (IF index < Len(items) THEN "walking" ELSE "none")
      /\ items' = items /\ levels' = levels /\ index' = index /\ path' = path /\ used' = used
      /\ altered' = altered /\ node' = node /\ leaf' = leaf
  BY DEF Tree!FindPath
<1>2. /\ LevelsInv /\ index \in 0 .. Len(items) /\ path = <<>> /\ used = 0 /\ ~altered
      /\ node = Tree!hash_leaf(leaf) /\ path \in Seq(AllNodes) /\ Len(path) <= Len(levels)
  BY <1>1 DEF TreeInv
<1>3. LevelsInv' BY <1>1, <1>2 DEF LevelsInv
<1>4. /\ items \in Seq(Items) /\ Len(items) \in Nat /\ DOMAIN items = 1 .. Len(items)
      /\ levels \in Seq(ToSet(levels)) /\ Len(levels) \in Nat /\ DOMAIN levels = 1 .. Len(levels)
      /\ items # <<>> => levels # <<>>
  BY <1>2 DEF LevelsInv
<1>5. items # <<>> => Len(Tree!Top) = 1
  <2>1. SUFFICES ASSUME items # <<>>, Len(Tree!Top) # 1 PROVE FALSE OBVIOUS
  <2>2. levels # <<>> /\ Len(levels) \in 1 .. Len(levels) BY <1>4, <2>1
  <2>3. IsLevel(Tree!Top) BY <1>2, <2>2 DEF LevelsInv, Tree!Top
  <2>4. Len(Tree!Top) \in Nat /\ Len(Tree!Top) >= 1 BY <2>3 DEF IsLevel
  <2>5. (Len(Tree!Top) + 1) \div 2 = 0 BY <1>1, <2>1, <2>2 DEF Tree!next_level_len
  <2>6. QED BY <2>4, <2>5
<1>6. Tree!Top' = Tree!Top BY <1>1 DEF Tree!Top
<1>7. ASSUME index < Len(items)
      PROVE  1 \in 1 .. Len(levels) /\ Walked(1, index)'
  <2>1. items # <<>> /\ levels # <<>> /\ Len(levels) >= 1 BY <1>2, <1>4, <1>7
  <2>2. Len(levels[1]) = Len(items)
    <3>1. levels[1] = [i \in DOMAIN items |-> Tree!hash_leaf(items[i])] BY <1>2, <2>1 DEF LevelsInv
    <3>2. IsLevel(levels[1]) BY <1>2, <1>4, <2>1 DEF LevelsInv
    <3>3. DOMAIN levels[1] = 1 .. Len(levels[1]) /\ Len(levels[1]) \in Nat BY <3>2 DEF IsLevel
    <3>4. 1 .. Len(levels[1]) = 1 .. Len(items) BY <1>4, <3>1, <3>3
    <3>5. QED BY <1>4, <3>3, <3>4
  <2> DEFINE pos == [k \in 1 .. 1 |-> index]
  <2>3. pos \in [1 .. 1 -> Nat] /\ pos[1] = index /\ index \in Nat BY <1>2, <1>4
  <2>4. Climbs(pos, 1)' BY <1>1, <1>7, <2>2, <2>3 DEF Climbs
  <2>5. pos[1] = index' BY <1>1, <2>3
  <2>6. QED BY <1>4, <2>1, <2>4, <2>5 DEF Walked
<1>8. (Tree!OwnProofVerifies /\ Tree!OnlyTheTreesLeavesVerify)'
  BY <1>1 DEF Tree!OwnProofVerifies, Tree!OnlyTheTreesLeavesVerify
<1>9. AllNodes' = AllNodes BY <1>1 DEF AllNodes
<1>10. CASE index < Len(items)
  <2>1. pc' = "walking" /\ Walked(level, nodeIndex)' /\ level' \in 1 .. Len(levels') /\ Len(path') = level' - 1
    BY <1>1, <1>2, <1>7, <1>10 DEF Walked, Climbs
  <2>2. QED BY <1>1, <1>2, <1>3, <1>5, <1>6, <1>8, <1>9, <1>10, <2>1 DEF TreeInv
<1>11. CASE ~(index < Len(items))
  <2>1. pc' = "none" BY <1>1, <1>11
  <2>2. QED BY <1>1, <1>2, <1>3, <1>5, <1>6, <1>8, <1>9, <2>1 DEF TreeInv
<1>12. QED BY <1>10, <1>11

LEMMA PathIsWalked ==
    ASSUME TreeInv, Tree!find_path
    PROVE  TreeInv'
<1>1. /\ pc = "walking" /\ level < Len(levels)
      /\ path' = Append(path, Tree!Sibling(levels[level], nodeIndex))
      /\ nodeIndex' = nodeIndex \div 2 /\ level' = level + 1
      /\ items' = items /\ levels' = levels /\ index' = index /\ used' = used
      /\ altered' = altered /\ node' = node /\ leaf' = leaf /\ pc' = pc
  BY DEF Tree!find_path
<1>2. /\ LevelsInv /\ path \in Seq(AllNodes) /\ Len(path) = level - 1 /\ level \in 1 .. Len(levels)
      /\ used = 0 /\ Walked(level, nodeIndex)
  BY <1>1 DEF TreeInv
<1>3. LevelsInv' BY <1>1, <1>2 DEF LevelsInv
<1>4. AllNodes' = AllNodes /\ Tree!Top' = Tree!Top BY <1>1 DEF AllNodes, Tree!Top
<1>5. Len(levels) \in Nat /\ DOMAIN levels = 1 .. Len(levels) /\ level \in Nat
  BY <1>2 DEF LevelsInv
<1>6. PICK pos : Climbs(pos, level) /\ pos[level] = nodeIndex BY <1>2 DEF Walked
<1> DEFINE here == levels[level]
           h == Tree!Sibling(here, nodeIndex)
           q == nodeIndex \div 2
<1>7. IsLevel(here) /\ ToSet(here) \subseteq AllNodes /\ Len(here) \in Nat
  <2>1. IsLevel(here) BY <1>2 DEF LevelsInv
  <2>2. ToSet(here) \subseteq AllNodes BY <1>2, <1>5 DEF AllNodes
  <2>3. QED BY <2>1, <2>2 DEF IsLevel
<1>8. nodeIndex \in 0 .. (Len(here) - 1)
  <2>1. pos[level] \in Nat /\ pos[level] < Len(here) BY <1>2, <1>5, <1>6 DEF Climbs
  <2>2. QED BY <1>6, <1>7, <2>1
<1>9. h \in AllNodes /\ q \in 0 .. (((Len(here) + 1) \div 2) - 1) BY <1>7, <1>8, SiblingsAbove
<1>10. level + 1 \in 2 .. Len(levels) /\ Len(levels[level + 1]) = (Len(here) + 1) \div 2
  <2>1. level + 1 \in 2 .. Len(levels) BY <1>1, <1>2, <1>5
  <2>2. (level + 1) - 1 = level BY <1>5
  <2>3. QED BY <1>2, <2>1, <2>2 DEF LevelsInv
<1> HIDE DEF h
<1>11. /\ path' \in Seq(AllNodes) /\ Len(path') = level /\ path'[level] = h
       /\ \A k \in 1 .. (level - 1) : path'[k] = path[k]
  <2>1. path' = Append(path, h) BY <1>1 DEF h
  <2>2. level = Len(path) + 1 BY <1>2, <1>5
  <2>3. QED BY <1>2, <1>9, <2>1, <2>2
<1>20. PICK to : to = level + 1 OBVIOUS
<1>21. PICK more : more = [k \in 1 .. to |-> IF k = to THEN q ELSE pos[k]] OBVIOUS
<1>12. Climbs(more, to)' /\ more[to] = q
  <2>1. /\ pos \in [1 .. level -> Nat] /\ pos[1] = index
        /\ \A k \in 1 .. level : pos[k] < Len(levels[k])
        /\ \A k \in 1 .. (level - 1) :
              pos[k + 1] = pos[k] \div 2 /\ path[k] = Tree!Sibling(levels[k], pos[k])
    BY <1>6 DEF Climbs
  <2>2. q \in Nat /\ q < Len(levels[to])
    <3> DEFINE n == Len(here)
               m == (n + 1) \div 2
    <3>1. m \in Nat
      <4>1. \A x \in Nat : (x + 1) \div 2 \in Nat OBVIOUS
      <4> HIDE DEF n
      <4>2. QED BY <1>7, <4>1 DEF n
    <3>2. q \in 0 .. (m - 1) BY <1>9
    <3>3. Len(levels[to]) = m BY <1>10, <1>20
    <3> HIDE DEF m, q
    <3>4. QED BY <3>1, <3>2, <3>3
  <2> HIDE DEF q
  <2>3. more[to] = q /\ \A k \in 1 .. level : more[k] = pos[k] BY <1>5, <1>20, <1>21
  <2>4. more \in [1 .. to -> Nat] BY <1>5, <1>20, <1>21, <2>1, <2>2
  <2>5. more[1] = index BY <1>2, <1>5, <2>1, <2>3
  <2>6. ASSUME NEW k \in 1 .. to PROVE more[k] < Len(levels[k])
    <3>1. CASE k = to BY <2>2, <2>3, <3>1
    <3>2. CASE k \in 1 .. level BY <2>1, <2>3, <3>2
    <3>3. QED BY <1>5, <1>20, <3>1, <3>2
  <2>7. ASSUME NEW k \in 1 .. (to - 1)
        PROVE  more[k + 1] = more[k] \div 2 /\ path'[k] = Tree!Sibling(levels[k], more[k])
    <3>1. CASE k = level
      <4>1. more[k] = nodeIndex /\ more[k + 1] = q BY <1>2, <1>6, <1>20, <2>3, <3>1
      <4>2. QED BY <1>11, <3>1, <4>1 DEF h, q
    <3>2. CASE k \in 1 .. (level - 1)
      <4>1. k \in 1 .. level /\ k + 1 \in 1 .. level BY <1>5, <3>2
      <4>2. more[k] = pos[k] /\ more[k + 1] = pos[k + 1] BY <2>3, <4>1
      <4>3. QED BY <1>11, <2>1, <3>2, <4>2
    <3>3. QED BY <1>5, <1>20, <3>1, <3>2
  <2>8. /\ more \in [1 .. to -> Nat] /\ more[1] = index'
        /\ \A k \in 1 .. to : more[k] < Len(levels'[k])
        /\ \A k \in 1 .. (to - 1) :
              more[k + 1] = more[k] \div 2 /\ path'[k] = Tree!Sibling(levels'[k], more[k])
    BY <1>1, <2>4, <2>5, <2>6, <2>7
  <2>9. Climbs(more, to)' BY <2>8 DEF Climbs, Tree!Sibling, Tree!At
  <2>10. QED BY <2>3, <2>9
<1>14. Walked(level, nodeIndex)' 
  <2>1. to = level' /\ more[to] = nodeIndex' BY <1>1, <1>12, <1>20
  <2>2. QED BY <1>12, <2>1 DEF Walked
<1>15. pc' = "walking" /\ level' \in 1 .. Len(levels') /\ Len(path') = level' - 1
  BY <1>1, <1>2, <1>5, <1>10, <1>11
<1>16. used' \in 0 .. Len(path') /\ Len(path') <= Len(levels') BY <1>1, <1>2, <1>5, <1>11
<1>17. (Tree!OwnProofVerifies /\ Tree!OnlyTheTreesLeavesVerify)'
  BY <1>1 DEF Tree!OwnProofVerifies, Tree!OnlyTheTreesLeavesVerify
<1>18. path' \in Seq(AllNodes') BY <1>4, <1>11
<1>19. QED
  BY <1>1, <1>3, <1>4, <1>14, <1>15, <1>16, <1>17, <1>18 DEF TreeInv

\* The hash of a leaf that is not in the tree is none of its nodes.
LEMMA StrangersAreNoNodes ==
    ASSUME LevelsInv, leaf \notin ToSet(items)
    PROVE  Tree!hash_leaf(leaf) \notin AllNodes
<1>1. SUFFICES ASSUME Tree!hash_leaf(leaf) \in AllNodes PROVE FALSE OBVIOUS
<1>2. CASE \E x \in ToSet(items) : Tree!hash_leaf(leaf) = Tree!hash_leaf(x)
  BY <1>2, HashesAreApart
<1>3. CASE \E a, b \in AllNodes : Tree!hash_leaf(leaf) = Tree!hash_intermediate(a, b)
  BY <1>3, HashesAreApart
<1>4. QED BY <1>1, <1>2, <1>3, NodesOfTheTree

LEMMA OwnLeaf ==
    ASSUME LevelsInv, index \in 0 .. Len(items), index < Len(items)
    PROVE  Tree!At(levels[1], index) = Tree!hash_leaf(Tree!At(items, index))
<1>1. items \in Seq(Items) /\ Len(items) \in Nat /\ DOMAIN items = 1 .. Len(items) BY DEF LevelsInv
<1>2. items # <<>> /\ levels # <<>> BY <1>1 DEF LevelsInv
<1>3. levels[1] = [i \in DOMAIN items |-> Tree!hash_leaf(items[i])] BY <1>2 DEF LevelsInv
<1>4. index + 1 \in DOMAIN items BY <1>1
<1>5. QED BY <1>3, <1>4 DEF Tree!At

LEMMA ProofIsPresented ==
    ASSUME TreeInv, Tree!get_proof
    PROVE  TreeInv'
<1>1. /\ pc = "walking" /\ level = Len(levels) /\ pc' = "verifying"
      /\ items' = items /\ levels' = levels /\ index' = index /\ used' = used
      /\ node' = node /\ leaf' = leaf
  BY DEF Tree!get_proof
<1>2. /\ LevelsInv /\ path \in Seq(AllNodes) /\ Len(path) = level - 1 /\ level \in 1 .. Len(levels)
      /\ used = 0 /\ ~altered /\ node = Tree!hash_leaf(leaf) /\ Walked(level, nodeIndex)
      /\ index \in 0 .. Len(items) /\ index < Len(items)
  BY <1>1 DEF TreeInv
<1>3. LevelsInv' BY <1>1, <1>2 DEF LevelsInv
<1>4. AllNodes' = AllNodes /\ Tree!Top' = Tree!Top BY <1>1 DEF AllNodes, Tree!Top
<1>5. Len(levels) \in Nat BY <1>2 DEF LevelsInv
<1>6. path' \in Seq(AllNodes) /\ Len(path') \in Nat /\ Len(path') <= Len(path)
  <2>1. CASE path' = path BY <1>2, <2>1
  <2>2. CASE \E i \in DOMAIN path : path' = SubSeq(path, 1, i - 1)
    <3>1. PICK i \in DOMAIN path : path' = SubSeq(path, 1, i - 1) BY <2>2
    <3>2. i \in 1 .. Len(path) /\ Len(path) \in Nat BY <1>2
    <3>3. QED BY <1>2, <3>1, <3>2
  <2>3. CASE \E i \in DOMAIN path, l \in DOMAIN levels : \E h \in ToSet(levels[l]) :
                path' = [path EXCEPT ![i] = h]
    <3>1. PICK i \in DOMAIN path, l \in DOMAIN levels : \E h \in ToSet(levels[l]) :
                path' = [path EXCEPT ![i] = h]
      BY <2>3
    <3>2. PICK h \in ToSet(levels[l]) : path' = [path EXCEPT ![i] = h] BY <3>1
    <3>3. h \in AllNodes BY DEF AllNodes
    <3>4. QED BY <1>2, <3>2, <3>3
  <2>4. \/ path' = path
        \/ \E i \in DOMAIN path : path' = SubSeq(path, 1, i - 1)
        \/ \E i \in DOMAIN path, l \in DOMAIN levels : \E h \in ToSet(levels[l]) :
              path' = [path EXCEPT ![i] = h]
    <3>1. \A s : Tree!ToSet(s) = ToSet(s) BY DEF Tree!ToSet, ToSet
    <3>2. Tree!get_proof OBVIOUS
    <3>3. QED BY ONLY <3>1, <3>2 DEF Tree!get_proof
  <2>5. QED BY <2>1, <2>2, <2>3, <2>4
<1>7. ~altered' => path' = path BY DEF Tree!get_proof
<1>8. used' \in 0 .. Len(path') /\ Len(path') <= Len(levels') BY <1>1, <1>2, <1>5, <1>6
<1>9. ASSUME ~altered' PROVE Len(path') = Len(levels') - 1 /\ Carried'
  <2>1. PICK pos : Climbs(pos, level) /\ pos[level] = nodeIndex BY <1>2 DEF Walked
  <2>2. Climbs(pos, Len(levels))' BY <1>1, <1>7, <1>9, <2>1 DEF Climbs
  <2>3. pos[1] = index BY <2>1 DEF Climbs
  <2>4. OwnNode(pos)' = Tree!hash_leaf(Tree!At(items, index))
    <3>1. Tree!At(levels[1], index) = Tree!hash_leaf(Tree!At(items, index)) BY <1>2, OwnLeaf
    <3>2. used' + 1 = 1 BY <1>1, <1>2
    <3>3. OwnNode(pos)' = Tree!At(levels[used' + 1], pos[used' + 1]) BY <1>1 DEF OwnNode, Tree!At
    <3>4. QED BY <2>3, <3>1, <3>2, <3>3
  <2>5. (leaf = Tree!At(items, index) <=> node = OwnNode(pos))'
    <3>1. Tree!At(items, index)' = Tree!At(items, index) BY <1>1 DEF Tree!At
    <3>2. leaf = Tree!At(items, index) <=> Tree!hash_leaf(leaf) = Tree!hash_leaf(Tree!At(items, index))
      BY HashesAreApart
    <3>3. QED BY <1>1, <1>2, <2>4, <3>1, <3>2
  <2>6. Carried' BY <2>2, <2>5 DEF Carried
  <2>7. QED BY <1>1, <1>2, <1>7, <1>9, <2>6
<1>10. leaf' \notin ToSet(items') => node' \notin AllNodes'
  BY <1>1, <1>2, <1>4, StrangersAreNoNodes
<1>11. (Tree!OwnProofVerifies /\ Tree!OnlyTheTreesLeavesVerify)'
  BY <1>1 DEF Tree!OwnProofVerifies, Tree!OnlyTheTreesLeavesVerify
<1>12. items' # <<>> => Len(Tree!Top)' = 1 BY <1>1, <1>4 DEF TreeInv
<1>13. QED BY <1>1, <1>2, <1>3, <1>4, <1>6, <1>8, <1>9, <1>10, <1>11, <1>12 DEF TreeInv

\* One hash more: on its own way the hash is the next node's exactly if it was
\* this one's, and a hash that is none of the tree's leads to none.
LEMMA HashIsCarried ==
    ASSUME TreeInv, Tree!verify_helper
    PROVE  TreeInv'
<1> DEFINE k == used + 1
<1>1. /\ pc = "verifying" /\ used < Len(path) /\ node' = Tree!hash_intermediate(node, path[k])
      /\ used' = used + 1 /\ items' = items /\ levels' = levels /\ index' = index /\ path' = path
      /\ leaf' = leaf /\ altered' = altered /\ pc' = pc
  BY DEF Tree!verify_helper
<1>2. /\ LevelsInv /\ index \in 0 .. Len(items) /\ index < Len(items)
      /\ path \in Seq(AllNodes) /\ used \in 0 .. Len(path) /\ Len(path) <= Len(levels)
      /\ ~altered => Len(path) = Len(levels) - 1 /\ Carried
      /\ leaf \notin ToSet(items) => node \notin AllNodes
      /\ items # <<>> => Len(Tree!Top) = 1
  BY <1>1 DEF TreeInv
<1>3. LevelsInv' BY <1>1, <1>2 DEF LevelsInv
<1>4. AllNodes' = AllNodes /\ Tree!Top' = Tree!Top BY <1>1 DEF AllNodes, Tree!Top
<1>5. Len(levels) \in Nat /\ Len(path) \in Nat /\ k \in Nat /\ k \in 1 .. Len(path) BY <1>1, <1>2 DEF LevelsInv
<1>6. used' \in 0 .. Len(path') BY <1>1, <1>2, <1>5
<1>7. ASSUME leaf \notin ToSet(items), node' \in AllNodes PROVE FALSE
  <2>1. node \notin AllNodes BY <1>2, <1>7
  <2>2. CASE \E x \in ToSet(items) : node' = Tree!hash_leaf(x) BY <1>1, <2>2, HashesAreApart
  <2>3. CASE \E a, b \in AllNodes : node' = Tree!hash_intermediate(a, b)
    <3>1. PICK a \in AllNodes, b \in AllNodes : node' = Tree!hash_intermediate(a, b) BY <2>3
    <3> HIDE DEF k
    <3>2. Tree!hash_intermediate(a, b) = Tree!hash_intermediate(node, path[k]) BY <1>1, <3>1
    <3>5. {a, b} = {node, path[k]} BY ONLY <3>2, HashesAreApart
    <3>3. node \in {a, b} BY <3>5
    <3>4. QED BY <2>1, <3>3
  <2>4. QED BY <1>2, <1>7, <2>2, <2>3, NodesOfTheTree
<1>8. ASSUME ~altered PROVE Carried'
  <2>1. PICK pos : /\ Climbs(pos, Len(levels))
                   /\ leaf = Tree!At(items, index) <=> node = OwnNode(pos)
    BY <1>2, <1>8 DEF Carried
  <2>2. k \in 1 .. (Len(levels) - 1) /\ k \in 1 .. Len(levels) /\ k + 1 \in 2 .. Len(levels)
    BY <1>2, <1>5, <1>8
  <2>3. /\ pos[k] \in Nat /\ pos[k] < Len(levels[k]) /\ pos[k + 1] < Len(levels[k + 1])
        /\ pos[k + 1] \in Nat /\ pos[k + 1] = pos[k] \div 2
        /\ path[k] = Tree!Sibling(levels[k], pos[k])
    <3>1. k + 1 \in 1 .. Len(levels) BY <1>5, <2>2
    <3>2. QED BY <2>1, <2>2, <3>1 DEF Climbs
  <2> HIDE DEF k
  <2>4. IsLevel(levels[k]) /\ IsLevel(levels[k + 1])
    <3>1. k + 1 \in 1 .. Len(levels) BY <1>5, <2>2
    <3>2. QED BY <1>2, <2>2, <3>1 DEF LevelsInv
  <2>5. Len(levels[k]) \in Nat /\ Len(levels[k + 1]) \in Nat BY <2>4 DEF IsLevel
  <2>6. pos[k] \in 0 .. (Len(levels[k]) - 1) BY <2>3, <2>5
  <2>7. Above(levels[k], pos[k + 1]) =
          Tree!hash_intermediate(Tree!At(levels[k], pos[k]), path[k])
    BY <2>3, <2>4, <2>6, SiblingsAbove
  <2>8. levels[k + 1][pos[k + 1] + 1] = Above(levels[k], pos[k + 1])
    <3> DEFINE i == pos[k + 1] + 1
    <3>1. i \in 1 .. Len(levels[k + 1]) /\ i - 1 = pos[k + 1] BY <2>3, <2>5
    <3>2. (k + 1) - 1 = k BY <1>5
    <3> HIDE DEF i
    <3>3. levels[k + 1][i] = Above(levels[(k + 1) - 1], i - 1) BY <1>2, <2>2, <3>1 DEF LevelsInv
    <3>4. QED BY <3>1, <3>2, <3>3 DEF i
  <2>9. OwnNode(pos) = Tree!At(levels[k], pos[k]) BY DEF OwnNode, k
  <2>10. OwnNode(pos)' = Tree!hash_intermediate(OwnNode(pos), path[k])
    <3>1. used' + 1 = k + 1 BY <1>1 DEF k
    <3>2. OwnNode(pos)' = Tree!At(levels[used' + 1], pos[used' + 1]) BY <1>1 DEF OwnNode, Tree!At
    <3>3. QED BY <2>7, <2>8, <2>9, <3>1, <3>2 DEF Tree!At
  <2>11. node' = OwnNode(pos)' <=> node = OwnNode(pos)
    <3> DEFINE own == OwnNode(pos)
    <3>1. Tree!hash_intermediate(node, path[k]) = Tree!hash_intermediate(own, path[k]) =>
            {node, path[k]} = {own, path[k]}
      BY HashesAreApart
    <3> HIDE DEF own
    <3>2. Tree!hash_intermediate(node, path[k]) = Tree!hash_intermediate(own, path[k]) => node = own
      BY <3>1, PairsOfOne
    <3>3. QED BY <1>1, <2>10, <3>2 DEF own
  <2>12. Climbs(pos, Len(levels))' BY <1>1, <2>1 DEF Climbs, Tree!Sibling, Tree!At
  <2>13. Tree!At(items, index)' = Tree!At(items, index) BY <1>1 DEF Tree!At
  <2>14. (leaf = Tree!At(items, index) <=> node = OwnNode(pos))' BY <1>1, <2>1, <2>11, <2>13
  <2>15. QED BY <2>12, <2>14 DEF Carried
<1>9. (Tree!OwnProofVerifies /\ Tree!OnlyTheTreesLeavesVerify)'
  BY <1>1 DEF Tree!OwnProofVerifies, Tree!OnlyTheTreesLeavesVerify
<1>10. QED BY <1>1, <1>2, <1>3, <1>4, <1>6, <1>7, <1>8, <1>9 DEF TreeInv

\* At the top there is one node, the root, and it is the last on the leaf's way.
LEMMA RootIsCompared ==
    ASSUME TreeInv, Tree!CompareRoot
    PROVE  TreeInv'
<1>1. /\ pc = "verifying" /\ used = Len(path) /\ node' = node /\ used' = used
      /\ pc' = (IF node = Tree!get_root THEN "valid" ELSE "invalid")
      /\ items' = items /\ levels' = levels /\ index' = index /\ path' = path
      /\ leaf' = leaf /\ altered' = altered
  BY DEF Tree!CompareRoot
<1>2. /\ LevelsInv /\ index \in 0 .. Len(items) /\ index < Len(items)
      /\ path \in Seq(AllNodes) /\ used \in 0 .. Len(path) /\ Len(path) <= Len(levels)
      /\ ~altered => Len(path) = Len(levels) - 1 /\ Carried
      /\ leaf \notin ToSet(items) => node \notin AllNodes
      /\ items # <<>> => Len(Tree!Top) = 1
  BY <1>1 DEF TreeInv
<1>3. LevelsInv' BY <1>1, <1>2 DEF LevelsInv
<1>4. AllNodes' = AllNodes /\ Tree!Top' = Tree!Top BY <1>1 DEF AllNodes, Tree!Top
<1>5. /\ items \in Seq(Items) /\ Len(items) \in Nat /\ DOMAIN items = 1 .. Len(items)
      /\ levels \in Seq(ToSet(levels)) /\ Len(levels) \in Nat /\ DOMAIN levels = 1 .. Len(levels)
      /\ items = <<>> <=> levels = <<>>
  BY <1>2 DEF LevelsInv
<1> DEFINE n == Len(levels)
<1>6. items # <<>> /\ levels # <<>> /\ n \in 1 .. n
  <2>1. Len(items) >= 1
    <3> DEFINE m == Len(items)
    <3>1. m \in Nat /\ index \in 0 .. m /\ index < m BY <1>2, <1>5
    <3> HIDE DEF m
    <3>2. m >= 1 BY ONLY <3>1
    <3>3. QED BY <3>2 DEF m
  <2>2. items # <<>> BY <2>1, EmptySeq
  <2>3. levels # <<>> BY <1>5, <2>2
  <2>4. n \in Nat /\ n >= 1 BY <1>5, <2>3
  <2>5. QED BY <2>2, <2>3, <2>4
<1>7. IsLevel(Tree!Top) /\ Len(Tree!Top) = 1 BY <1>2, <1>6 DEF LevelsInv, Tree!Top
<1>8. Tree!get_root = Tree!Top[1] /\ Tree!get_root \in AllNodes
  <2>1. Tree!get_root = Tree!Top[1] BY <1>6 DEF Tree!get_root
  <2>2. Tree!Top[1] \in ToSet(levels[n]) BY <1>7 DEF IsLevel, ToSet, Tree!Top
  <2>3. QED BY <1>5, <1>6, <2>1, <2>2 DEF AllNodes
<1>9. Tree!At(items, index) \in ToSet(items)
  <2> DEFINE m == Len(items)
  <2>1. m \in Nat /\ index \in 0 .. m /\ index < m /\ DOMAIN items = 1 .. m BY <1>2, <1>5
  <2> HIDE DEF m
  <2>2. index + 1 \in DOMAIN items BY <2>1
  <2>3. QED BY <2>2 DEF Tree!At, ToSet
<1>10. ASSUME ~altered PROVE leaf = Tree!At(items, index) <=> node = Tree!get_root
  <2>1. PICK pos : /\ Climbs(pos, n)
                   /\ leaf = Tree!At(items, index) <=> node = OwnNode(pos)
    BY <1>2, <1>10 DEF Carried
  <2>2. used + 1 = n BY <1>1, <1>2, <1>5, <1>10
  <2>3. pos[n] \in Nat /\ pos[n] < Len(levels[n]) BY <1>6, <2>1 DEF Climbs
  <2>4. Len(levels[n]) = 1 BY <1>7 DEF Tree!Top
  <2>5. pos[n] = 0 BY <2>3, <2>4
  <2>6. OwnNode(pos) = Tree!Top[1] BY <2>2, <2>5 DEF OwnNode, Tree!At, Tree!Top
  <2>7. QED BY <1>8, <2>1, <2>6
<1>11. pc' \in {"valid", "invalid"} /\ (pc' = "valid" <=> node = Tree!get_root) BY <1>1
<1>12. Tree!OwnProofVerifies'
  <2>1. Tree!At(items, index)' = Tree!At(items, index) BY <1>1 DEF Tree!At
  <2>2. QED BY <1>1, <1>10, <1>11, <2>1 DEF Tree!OwnProofVerifies
<1>13. Tree!OnlyTheTreesLeavesVerify'
  <2>1. Tree!At(items, index)' = Tree!At(items, index) BY <1>1 DEF Tree!At
  <2>2. Tree!ToSet(items)' = ToSet(items) BY <1>1 DEF Tree!ToSet, ToSet
  <2>3. pc' = "valid" => leaf \in ToSet(items) BY <1>2, <1>8, <1>11
  <2>4. QED BY <1>1, <1>10, <1>11, <2>1, <2>2, <2>3 DEF Tree!OnlyTheTreesLeavesVerify
<1>14. QED BY <1>1, <1>2, <1>3, <1>4, <1>11, <1>12, <1>13 DEF TreeInv

LEMMA TreeSteps ==
    ASSUME TreeInv, [Tree!Next]_Tree!vars
    PROVE  TreeInv'
<1>1. CASE UNCHANGED Tree!vars
  <2>1. /\ items' = items /\ levels' = levels /\ index' = index /\ level' = level
        /\ nodeIndex' = nodeIndex /\ path' = path /\ leaf' = leaf /\ altered' = altered
        /\ node' = node /\ used' = used /\ pc' = pc
    BY <1>1 DEF Tree!vars
  <2>2. LevelsInv' BY <2>1 DEF TreeInv, LevelsInv
  <2>3. AllNodes' = AllNodes /\ Tree!Top' = Tree!Top BY <2>1 DEF AllNodes, Tree!Top
  <2>4. Walked(level, nodeIndex)' <=> Walked(level, nodeIndex)
    BY <2>1 DEF Walked, Climbs
  <2>5. Carried' <=> Carried BY <2>1 DEF Carried, Climbs, OwnNode, Tree!At
  <2>6. (Tree!OwnProofVerifies /\ Tree!OnlyTheTreesLeavesVerify)'
    BY <2>1 DEF TreeInv, Tree!OwnProofVerifies, Tree!OnlyTheTreesLeavesVerify, Tree!At, Tree!ToSet
  <2>7. QED BY <2>1, <2>2, <2>3, <2>4, <2>5, <2>6 DEF TreeInv
<1>2. CASE Tree!Next
  BY <1>2, TreeGrows, PathIsAskedFor, PathIsWalked, ProofIsPresented, HashIsCarried, RootIsCompared
     DEF Tree!Next
<1>3. QED BY <1>1, <1>2

\* The invariant of the trees and their proofs (MerkleProofs).
THEOREM TreeInvAlways ==
    ASSUME Tree!MerkleAssumption PROVE Tree!Spec => []TreeInv
<1>1. Tree!Init => TreeInv BY TreeStarts
<1>2. TreeInv /\ [Tree!Next]_Tree!vars => TreeInv' BY TreeSteps
<1>3. QED BY <1>1, <1>2, PTL DEF Tree!Spec

\* merkle_tree.rs:75-137: every level is half of the one below, rounded up, and
\* the last has one node, for any number of leaves.
THEOREM TreesAreTyped ==
    ASSUME Tree!MerkleAssumption PROVE Tree!Spec => []Tree!TreeTypeOK
<1>1. ASSUME TreeInv PROVE Tree!TreeTypeOK
  <2>1. used <= Len(path)
    <3>1. path \in Seq(AllNodes) /\ used \in 0 .. Len(path) BY <1>1 DEF TreeInv
    <3>2. QED BY <3>1
  <2>2. QED BY <1>1, <2>1 DEF TreeInv, LevelsInv, Tree!TreeTypeOK
<1>2. QED BY <1>1, TreeInvAlways, PTL

\* merkle_tree.rs:169-205 against merkle_helper.rs:33-52: a leaf's own proof
\* verifies, for any number of leaves and any place.
THEOREM OwnProofsVerify ==
    ASSUME Tree!MerkleAssumption PROVE Tree!Spec => []Tree!OwnProofVerifies
<1>1. TreeInv => Tree!OwnProofVerifies BY DEF TreeInv
<1>2. QED BY <1>1, TreeInvAlways, PTL

\* merkle_helper.rs:21-25: nothing but the leaf of the place verifies with its
\* proof, and no stranger with a changed one, for trees of any size.
THEOREM OnlyLeavesVerify ==
    ASSUME Tree!MerkleAssumption PROVE Tree!Spec => []Tree!OnlyTheTreesLeavesVerify
<1>1. TreeInv => Tree!OnlyTheTreesLeavesVerify BY DEF TreeInv
<1>2. QED BY <1>1, TreeInvAlways, PTL
-----------------------------------------------------------------------------
(***************************************************************************)
(* The verifiers' service (VerifierService), for any files, wallets,       *)
(* requests and numbers of uploads and readers at once.                    *)
(***************************************************************************)
CONSTANTS Files, Requests, Wallets, OldUploads, Uploaders, Readers, I64Max, U64Max,
          MaxUploads, None
VARIABLES db, version, up, upload, summary, uploads

Store == INSTANCE VerifierService

\* A value for each number up to n, made from the one before, can be found.
LEMMA AccumulatorsExist ==
    ASSUME NEW n \in Nat, NEW A, NEW base \in A, NEW next \in [A \X (1 .. n) -> A]
    PROVE  \E acc : Accumulates(A, acc, base, next, n)
<1>1. PICK f \in [SUBSET (1 .. n) -> A] : Iterates(f, base, next, n) BY IterationExists
<1>2. IteratesIn(A, f, base, next, n) BY <1>1 DEF Iterates, IteratesIn
<1>3. Reaches(A, f[1 .. n], base, next, n) BY <1>2, IterationIsInOrder
<1>4. QED BY <1>3 DEF Reaches

\* FlattenSeq appends one sequence after the other.
Appended(A, parts, f) ==
    /\ f \in [0 .. Len(parts) -> A] /\ f[0] = <<>>
    /\ \A k \in 1 .. Len(parts) : f[k] = f[k - 1] \o parts[k]

LEMMA AppendedExists ==
    ASSUME NEW S, NEW parts \in Seq(Seq(S))
    PROVE  \E f : Appended(Seq(S), parts, f)
<1> DEFINE A == Seq(S)
           n == Len(parts)
           next == [x \in A \X (1 .. n) |-> x[1] \o parts[x[2]]]
<1>1. n \in Nat /\ \A k \in 1 .. n : parts[k] \in A OBVIOUS
<1>2. ASSUME NEW x \in A \X (1 .. n) PROVE x[1] \o parts[x[2]] \in A
  <2>1. x[1] \in Seq(S) /\ parts[x[2]] \in Seq(S) BY <1>1
  <2>2. QED BY <2>1
<1>3. next \in [A \X (1 .. n) -> A] BY <1>2
<1>4. \A a \in A, k \in 1 .. n : next[<<a, k>>] = a \o parts[k] OBVIOUS
<1>5. <<>> \in A OBVIOUS
<1> HIDE DEF next, n, A
<1>6. PICK acc : Accumulates(A, acc, <<>>, next, n) BY <1>1, <1>3, <1>5, AccumulatorsExist
<1>7. \A k \in 1 .. n : acc[k - 1] \in A
  <2>1. \A k \in 1 .. n : k - 1 \in 0 .. n BY <1>1
  <2>2. QED BY <1>6, <2>1 DEF Accumulates
<1>8. QED BY <1>4, <1>6, <1>7 DEF Accumulates, Appended, n, A

LEMMA FlattenedIsAppended ==
    ASSUME NEW S, NEW parts \in Seq(Seq(S)), Len(parts) # 0
    PROVE  \E f : Appended(Seq(S), parts, f) /\ Store!FlattenSeq(parts) = f[Len(parts)]
<1> DEFINE n == Len(parts)
           Body(g) == [i \in 1 .. n |-> IF i = 1 THEN parts[i] ELSE g[i - 1] \o parts[i]]
           g == CHOOSE g : g = Body(g)
<1>1. n \in Nat /\ n # 0 /\ \A k \in 1 .. n : parts[k] \in Seq(S) OBVIOUS
<1>2. Store!FlattenSeq(parts) = g[n] BY DEF Store!FlattenSeq
<1>3. PICK f : Appended(Seq(S), parts, f) BY AppendedExists
<1>4. \A k \in 1 .. n : f[k - 1] \in Seq(S) /\ f[k] \in Seq(S)
  <2>1. \A k \in 1 .. n : k - 1 \in 0 .. n /\ k \in 0 .. n BY <1>1
  <2>2. QED BY <1>3, <2>1 DEF Appended
<1>5. f[1] = parts[1]
  <2>1. 1 \in 1 .. n /\ 1 - 1 = 0 BY <1>1
  <2>2. f[1] = <<>> \o parts[1] BY <1>3, <2>1 DEF Appended
  <2>3. parts[1] \in Seq(S) BY <1>1, <2>1
  <2>4. QED BY <2>2, <2>3
<1>6. [i \in 1 .. n |-> f[i]] = Body([i \in 1 .. n |-> f[i]])
  <2>1. ASSUME NEW i \in 1 .. n, i # 1
        PROVE  f[i] = [k \in 1 .. n |-> f[k]][i - 1] \o parts[i]
    <3>1. i - 1 \in 1 .. n BY <1>1, <2>1
    <3>2. QED BY <1>3, <3>1 DEF Appended
  <2>2. QED BY <1>5, <2>1
<1>7. g = Body(g) BY <1>6
<1>8. \A i \in 1 .. n : g[i] = IF i = 1 THEN parts[i] ELSE g[i - 1] \o parts[i] BY <1>7
<1> HIDE DEF n, g
<1> DEFINE T == {i \in 0 .. n : i = 0 \/ g[i] = f[i]}
<1>9. 0 \in T BY <1>1
<1>10. ASSUME NEW k \in 1 .. n, k - 1 \in T PROVE k \in T
  <2>1. CASE k = 1 BY <1>1, <1>5, <1>8, <2>1
  <2>2. CASE k # 1
    <3>1. g[k] = g[k - 1] \o parts[k] BY <1>8, <2>2
    <3>2. g[k - 1] = f[k - 1] BY <1>10, <2>2
    <3>3. f[k] = f[k - 1] \o parts[k] BY <1>3 DEF Appended, n
    <3>4. g[k] = f[k] BY <3>1, <3>2, <3>3
    <3>5. k \in 0 .. n BY <1>1
    <3>6. QED BY <3>4, <3>5
  <2>3. QED BY <2>1, <2>2
<1> HIDE DEF T
<1>11. n \in T BY <1>1, <1>9, <1>10, UpTo
<1>12. QED BY <1>1, <1>2, <1>3, <1>11 DEF T, n

\* Every member of every part has its own place in what they are appended to.
InPlace(S, parts, f) ==
    /\ \A k \in 0 .. Len(parts) : f[k] \in Seq(S) /\ Len(f[k]) \in Nat
    /\ \A k \in 1 .. Len(parts) : Len(f[k]) = Len(f[k - 1]) + Len(parts[k])
    /\ \A m \in 0 .. Len(parts) : \A k \in 0 .. m : Len(f[k]) <= Len(f[m])
    /\ \A m \in 0 .. Len(parts) : \A k \in 1 .. m : \A j \in DOMAIN parts[k] :
          f[m][Len(f[k - 1]) + j] = parts[k][j]

LEMMA AppendedPlaces ==
    ASSUME NEW S, NEW parts \in Seq(Seq(S)), NEW f, Appended(Seq(S), parts, f)
    PROVE  InPlace(S, parts, f)
<1> DEFINE n == Len(parts)
<1>1. n \in Nat /\ \A k \in 1 .. n : parts[k] \in Seq(S) /\ Len(parts[k]) \in Nat
      /\ DOMAIN parts[k] = 1 .. Len(parts[k])
  OBVIOUS
<1>2. \A k \in 0 .. n : f[k] \in Seq(S) /\ Len(f[k]) \in Nat BY DEF Appended
<1>3. \A k \in 1 .. n : k - 1 \in 0 .. n /\ k \in 0 .. n BY <1>1
<1>4. \A k \in 1 .. n : f[k] = f[k - 1] \o parts[k] BY DEF Appended
<1> HIDE DEF n
<1>5. ASSUME NEW k \in 1 .. n
      PROVE  /\ Len(f[k]) = Len(f[k - 1]) + Len(parts[k])
             /\ \A p \in 1 .. Len(f[k - 1]) : f[k][p] = f[k - 1][p]
             /\ \A j \in DOMAIN parts[k] : f[k][Len(f[k - 1]) + j] = parts[k][j]
  <2>1. PICK a \in Seq(S) : a = f[k - 1] BY <1>2, <1>3
  <2>2. PICK b \in Seq(S) : b = parts[k] BY <1>1
  <2>3. f[k] = a \o b BY <1>4, <2>1, <2>2
  <2>4. /\ Len(a \o b) = Len(a) + Len(b)
        /\ \A p \in 1 .. Len(a) : (a \o b)[p] = a[p]
        /\ \A j \in 1 .. Len(b) : (a \o b)[Len(a) + j] = b[j]
    OBVIOUS
  <2>5. DOMAIN b = 1 .. Len(b) OBVIOUS
  <2>6. QED BY <2>1, <2>2, <2>3, <2>4, <2>5
<1> DEFINE Good(m) ==
             /\ \A k \in 0 .. m : Len(f[k]) <= Len(f[m])
             /\ \A k \in 1 .. m : \A j \in DOMAIN parts[k] :
                   f[m][Len(f[k - 1]) + j] = parts[k][j]
           T == {m \in 0 .. n : Good(m)}
<1>6. 0 \in T
  <2>1. 0 \in 0 .. n /\ 0 .. 0 = {0} /\ 1 .. 0 = {} BY <1>1
  <2>2. Len(f[0]) <= Len(f[0]) BY <1>2, <2>1
  <2>3. QED BY <2>1, <2>2
<1>7. ASSUME NEW m \in 1 .. n, m - 1 \in T PROVE m \in T
  <2>1. Good(m - 1) BY <1>7
  <2>2. ASSUME NEW k \in 0 .. m PROVE Len(f[k]) <= Len(f[m])
    <3>1. CASE k = m
      <4>1. Len(f[m]) \in Nat BY <1>2, <1>3
      <4>2. QED BY <3>1, <4>1
    <3>2. CASE k # m
      <4>1. k \in 0 .. (m - 1) /\ k \in 0 .. n BY <1>1, <3>2
      <4>2. Len(f[k]) <= Len(f[m - 1]) BY <2>1, <4>1
      <4>3. Len(f[m - 1]) \in Nat /\ Len(f[k]) \in Nat /\ Len(parts[m]) \in Nat
        BY <1>1, <1>2, <1>3, <4>1
      <4>4. Len(f[m]) = Len(f[m - 1]) + Len(parts[m]) BY <1>5
      <4>5. \A a, b, c, d \in Nat : a <= b /\ d = b + c => a <= d OBVIOUS
      <4>6. Len(f[m]) \in Nat BY <1>2, <1>3
      <4>7. QED BY <4>2, <4>3, <4>4, <4>5, <4>6, Zenon
    <3>3. QED BY <3>1, <3>2
  <2>3. ASSUME NEW k \in 1 .. m, NEW j \in DOMAIN parts[k]
        PROVE  f[m][Len(f[k - 1]) + j] = parts[k][j]
    <3>1. CASE k = m BY <1>5, <3>1
    <3>2. CASE k # m
      <4>1. k \in 1 .. (m - 1) /\ k \in 1 .. n /\ k \in 0 .. (m - 1) BY <1>1, <3>2
      <4>2. f[m - 1][Len(f[k - 1]) + j] = parts[k][j] BY <2>1, <4>1
      <4>3. /\ Len(f[k]) = Len(f[k - 1]) + Len(parts[k]) /\ j \in 1 .. Len(parts[k])
            /\ Len(f[k - 1]) \in Nat /\ Len(parts[k]) \in Nat /\ Len(f[m - 1]) \in Nat
            /\ Len(f[k]) <= Len(f[m - 1])
        BY <1>1, <1>2, <1>3, <1>5, <2>1, <4>1
      <4>4. Len(f[k - 1]) + j \in 1 .. Len(f[m - 1])
        <5>1. \A a, b, c, d \in Nat : \A i \in 1 .. b :
                 c = a + b /\ c <= d => a + i \in 1 .. d
          OBVIOUS
        <5>2. Len(f[k]) \in Nat BY <1>2, <1>3, <4>1
        <5>3. QED BY <4>3, <5>1, <5>2, Zenon
      <4>5. QED BY <1>5, <4>2, <4>4
    <3>3. QED BY <3>1, <3>2
  <2>4. Good(m) BY <2>2, <2>3
  <2>5. m \in 0 .. n BY <1>3
  <2> HIDE DEF Good
  <2>6. QED BY <2>4, <2>5
<1> HIDE DEF T
<1>8. 0 .. n \subseteq T BY <1>1, <1>6, <1>7, UpTo
<1>9. \A m \in 0 .. n : Good(m) BY <1>8 DEF T
<1>10. QED BY <1>2, <1>5, <1>9 DEF n, InPlace
-----------------------------------------------------------------------------
(* The rows of a file, bundle after bundle.                                *)

Bundles(h) == Files[h].bundles
BundleStakes(h, i) == Bundles(h)[i].stakes

LEMMA FileShape ==
    ASSUME Store!ServiceAssumption, NEW h \in DOMAIN Files
    PROVE  /\ Len(Bundles(h)) \in Nat /\ DOMAIN Bundles(h) = 1 .. Len(Bundles(h))
           /\ Store!ToSet(Bundles(h)) = {Bundles(h)[i] : i \in 1 .. Len(Bundles(h))}
           /\ \A i \in 1 .. Len(Bundles(h)) :
                 /\ Bundles(h)[i].leaf.stake \in Nat
                 /\ Len(BundleStakes(h, i)) \in Nat /\ DOMAIN BundleStakes(h, i) = 1 .. Len(BundleStakes(h, i))
                 /\ Store!ToSet(BundleStakes(h, i)) = {BundleStakes(h, i)[j] : j \in 1 .. Len(BundleStakes(h, i))}
                 /\ \A j \in 1 .. Len(BundleStakes(h, i)) : BundleStakes(h, i)[j].stake \in Nat
<1>1. Store!WellFormed(Files[h]) BY DEF Store!ServiceAssumption
<1>2. Bundles(h) \in Seq(Store!ToSet(Bundles(h))) BY <1>1 DEF Store!WellFormed, Bundles
<1>3. Len(Bundles(h)) \in Nat /\ DOMAIN Bundles(h) = 1 .. Len(Bundles(h)) BY <1>2
<1>4. Store!ToSet(Bundles(h)) = {Bundles(h)[i] : i \in 1 .. Len(Bundles(h))}
  BY <1>3 DEF Store!ToSet
<1>5. ASSUME NEW i \in 1 .. Len(Bundles(h))
      PROVE  /\ Bundles(h)[i].leaf.stake \in Nat
             /\ Len(BundleStakes(h, i)) \in Nat /\ DOMAIN BundleStakes(h, i) = 1 .. Len(BundleStakes(h, i))
             /\ Store!ToSet(BundleStakes(h, i)) = {BundleStakes(h, i)[j] : j \in 1 .. Len(BundleStakes(h, i))}
             /\ \A j \in 1 .. Len(BundleStakes(h, i)) : BundleStakes(h, i)[j].stake \in Nat
  <2>1. Bundles(h)[i] \in Store!ToSet(Bundles(h)) BY <1>4
  <2>2. /\ Bundles(h)[i].leaf.stake \in Nat
        /\ BundleStakes(h, i) \in Seq(Store!ToSet(BundleStakes(h, i)))
        /\ \A x \in Store!ToSet(BundleStakes(h, i)) : x.stake \in Nat
    BY <1>1, <2>1 DEF Store!WellFormed, Bundles, BundleStakes
  <2>3. Len(BundleStakes(h, i)) \in Nat /\ DOMAIN BundleStakes(h, i) = 1 .. Len(BundleStakes(h, i)) BY <2>2
  <2>4. Store!ToSet(BundleStakes(h, i)) = {BundleStakes(h, i)[j] : j \in 1 .. Len(BundleStakes(h, i))}
    BY <2>3 DEF Store!ToSet
  <2>5. \A j \in 1 .. Len(BundleStakes(h, i)) : BundleStakes(h, i)[j].stake \in Nat BY <2>2, <2>4
  <2>6. QED BY <2>2, <2>3, <2>4, <2>5
<1>6. QED BY <1>3, <1>4, <1>5

\* Tables over some keys and rows.
Tables(K, R) == UNION {[D -> R] : D \in SUBSET K}

LEMMA UpsertTable ==
    ASSUME NEW K, NEW R, NEW t \in Tables(K, R), NEW rows \in Tables(K, R)
    PROVE  Store!Upsert(t, rows) \in Tables(K, R)
<1>1. PICK D \in SUBSET K : t \in [D -> R] BY DEF Tables
<1>2. PICK E \in SUBSET K : rows \in [E -> R] BY DEF Tables
<1>3. D \cup E \in SUBSET K OBVIOUS
<1>4. Store!Upsert(t, rows) \in [D \cup E -> R] BY <1>1, <1>2 DEF Store!Upsert
<1>5. QED BY <1>3, <1>4 DEF Tables

LEMMA IsATable ==
    ASSUME NEW K, NEW R, NEW t, t = [k \in DOMAIN t |-> t[k]],
           DOMAIN t \subseteq K, \A k \in DOMAIN t : t[k] \in R
    PROVE  t \in Tables(K, R)
<1>1. t \in [DOMAIN t -> R] OBVIOUS
<1>2. QED BY <1>1 DEF Tables

\* Where the rows of a file are, and what is in them.
VotePlace(h, n, i) == <<n, Files[h].slot, Bundles(h)[i].leaf.vote>>
VoteOf(h, i) ==
    [leaf |-> Bundles(h)[i].leaf, proof |-> Store!get_proof(Store!Leaves(Bundles(h)), i)]
StakePlace(h, n, i, j) == <<n, Files[h].slot, BundleStakes(h, i)[j].account>>
StakeOf(h, i, j) ==
    [leaf |-> BundleStakes(h, i)[j], vote |-> Bundles(h)[i].leaf.vote,
     proof |-> Store!get_proof(BundleStakes(h, i), j)]

VotesOfBundle(h, n, i) == Store!VoteRow(Files[h], n, i)
StakesOfBundle(h, n, i) == Store!StakeRows(Files[h], n, i)

BundleHasRows(h, n, i, votes, stakes) ==
    /\ votes = [x \in {VotePlace(h, n, i)} |-> VoteOf(h, i)]
    /\ DOMAIN stakes = {StakePlace(h, n, i, j) : j \in 1 .. Len(BundleStakes(h, i))}
    /\ stakes = [x \in DOMAIN stakes |-> stakes[x]]
    /\ \A x \in DOMAIN stakes : \E j \in 1 .. Len(BundleStakes(h, i)) :
          x = StakePlace(h, n, i, j) /\ stakes[x] = StakeOf(h, i, j)

LEMMA RowsOfBundle ==
    ASSUME Store!ServiceAssumption, NEW h \in DOMAIN Files, NEW n,
           NEW i \in 1 .. Len(Bundles(h))
    PROVE  BundleHasRows(h, n, i, VotesOfBundle(h, n, i), StakesOfBundle(h, n, i))
<1>1. VotesOfBundle(h, n, i) = [x \in {VotePlace(h, n, i)} |-> VoteOf(h, i)]
  BY DEF VotesOfBundle, Store!VoteRow, VotePlace, VoteOf, Bundles
<1> DEFINE at(account) == CHOOSE j \in DOMAIN BundleStakes(h, i) : BundleStakes(h, i)[j].account = account
           D == {<<n, Files[h].slot, y.account>> : y \in Store!ToSet(BundleStakes(h, i))}
<1>2. StakesOfBundle(h, n, i) =
        [x \in D |-> [leaf |-> BundleStakes(h, i)[at(x[3])], vote |-> Bundles(h)[i].leaf.vote,
                      proof |-> Store!get_proof(BundleStakes(h, i), at(x[3]))]]
  BY DEF StakesOfBundle, Store!StakeRows, BundleStakes, Bundles
<1>3. /\ DOMAIN BundleStakes(h, i) = 1 .. Len(BundleStakes(h, i))
      /\ Store!ToSet(BundleStakes(h, i)) = {BundleStakes(h, i)[j] : j \in 1 .. Len(BundleStakes(h, i))}
  BY FileShape
<1>4. D = {StakePlace(h, n, i, j) : j \in 1 .. Len(BundleStakes(h, i))} BY <1>3 DEF StakePlace
<1>5. ASSUME NEW x \in D
      PROVE  \E j \in 1 .. Len(BundleStakes(h, i)) :
                x = StakePlace(h, n, i, j) /\ StakesOfBundle(h, n, i)[x] = StakeOf(h, i, j)
  <2>1. PICK m \in 1 .. Len(BundleStakes(h, i)) : x = StakePlace(h, n, i, m) BY <1>4
  <2>2. x[3] = BundleStakes(h, i)[m].account BY <2>1 DEF StakePlace
  <2>3. at(x[3]) \in DOMAIN BundleStakes(h, i) /\ BundleStakes(h, i)[at(x[3])].account = x[3]
    BY <1>3, <2>2
  <2>4. PICK j \in 1 .. Len(BundleStakes(h, i)) : j = at(x[3]) BY <1>3, <2>3
  <2>5. x = StakePlace(h, n, i, j) BY <2>1, <2>2, <2>3, <2>4 DEF StakePlace
  <2>6. StakesOfBundle(h, n, i)[x] = StakeOf(h, i, j) BY <1>2, <2>4 DEF StakeOf
  <2>7. QED BY <2>5, <2>6
<1>6. DOMAIN StakesOfBundle(h, n, i) = D BY <1>2
<1>7. StakesOfBundle(h, n, i) =
        [x \in DOMAIN StakesOfBundle(h, n, i) |-> StakesOfBundle(h, n, i)[x]]
  BY <1>2
<1>8. QED BY <1>1, <1>4, <1>5, <1>6, <1>7 DEF BundleHasRows

\* What the tables hold after each bundle, and after the last.
Builds(acc, h, n) ==
    /\ acc[0] = Store!EmptyDb
    /\ \A k \in 1 .. Len(Bundles(h)) : acc[k] = Store!InsertBundle(acc[k - 1], Files[h], n, k)
    /\ acc[Len(Bundles(h))] = Store!Indexed(Store!EmptyDb, h, n)

LEMMA IndexSteps ==
    ASSUME Store!ServiceAssumption, NEW h \in DOMAIN Files, NEW n
    PROVE  \E acc : Builds(acc, h, n)
<1> DEFINE m == Len(Bundles(h))
           KV == UNION {DOMAIN VotesOfBundle(h, n, i) : i \in 1 .. m}
           RV == UNION {{VotesOfBundle(h, n, i)[x] : x \in DOMAIN VotesOfBundle(h, n, i)} :
                           i \in 1 .. m}
           KS == UNION {DOMAIN StakesOfBundle(h, n, i) : i \in 1 .. m}
           RS == UNION {{StakesOfBundle(h, n, i)[x] : x \in DOMAIN StakesOfBundle(h, n, i)} :
                           i \in 1 .. m}
           A == [votes : Tables(KV, RV), stakes : Tables(KS, RS), metas : {Store!EmptyTable}]
           Insert(d, k) == Store!InsertBundle(d, Files[h], n, k)
           seq == [i \in DOMAIN Bundles(h) |-> i]
           Body(D, g) == [s \in SUBSET D |-> IF s = {} THEN Store!EmptyDb
                                             ELSE Insert(g[s \ {Store!Max(s)}], seq[Store!Max(s)])]
           next == [x \in A \X (1 .. m) |-> Insert(x[1], x[2])]
<1>1. m \in Nat /\ DOMAIN Bundles(h) = 1 .. m BY FileShape
<1>2. ASSUME NEW i \in 1 .. m
      PROVE  VotesOfBundle(h, n, i) \in Tables(KV, RV) /\ StakesOfBundle(h, n, i) \in Tables(KS, RS)
  <2> HIDE DEF KV, RV, KS, RS
  <2>0. BundleHasRows(h, n, i, VotesOfBundle(h, n, i), StakesOfBundle(h, n, i)) BY RowsOfBundle
  <2>1. VotesOfBundle(h, n, i) =
          [x \in DOMAIN VotesOfBundle(h, n, i) |-> VotesOfBundle(h, n, i)[x]]
    BY <2>0 DEF BundleHasRows
  <2>2. StakesOfBundle(h, n, i) =
          [x \in DOMAIN StakesOfBundle(h, n, i) |-> StakesOfBundle(h, n, i)[x]]
    BY <2>0 DEF BundleHasRows
  <2>3. DOMAIN VotesOfBundle(h, n, i) \subseteq KV /\ DOMAIN StakesOfBundle(h, n, i) \subseteq KS
    BY DEF KV, KS
  <2>4. /\ \A x \in DOMAIN VotesOfBundle(h, n, i) : VotesOfBundle(h, n, i)[x] \in RV
        /\ \A x \in DOMAIN StakesOfBundle(h, n, i) : StakesOfBundle(h, n, i)[x] \in RS
    BY DEF RV, RS
  <2>5. QED BY <2>1, <2>2, <2>3, <2>4, IsATable
<1> HIDE DEF KV, RV, KS, RS
<1>3. ASSUME NEW d \in A, NEW k \in 1 .. m PROVE Insert(d, k) \in A
  <2>1. d.votes \in Tables(KV, RV) /\ d.stakes \in Tables(KS, RS) /\ d.metas = Store!EmptyTable
    OBVIOUS
  <2>2. /\ Store!Upsert(d.votes, VotesOfBundle(h, n, k)) \in Tables(KV, RV)
        /\ Store!Upsert(d.stakes, StakesOfBundle(h, n, k)) \in Tables(KS, RS)
    BY <1>2, <2>1, UpsertTable
  <2>3. Insert(d, k) = [d EXCEPT !.votes = Store!Upsert(d.votes, VotesOfBundle(h, n, k)),
                                 !.stakes = Store!Upsert(d.stakes, StakesOfBundle(h, n, k))]
    BY DEF Store!InsertBundle, VotesOfBundle, StakesOfBundle
  <2> HIDE DEF Insert
  <2>4. QED BY <2>2, <2>3
<1>4. Store!EmptyDb \in A
  <2>1. Store!EmptyTable \in [{} -> RV] /\ Store!EmptyTable \in [{} -> RS]
    BY DEF Store!EmptyTable
  <2>2. {} \in SUBSET KV /\ {} \in SUBSET KS OBVIOUS
  <2>3. Store!EmptyTable \in Tables(KV, RV) /\ Store!EmptyTable \in Tables(KS, RS)
    BY <2>1, <2>2 DEF Tables
  <2>4. QED BY <2>3 DEF Store!EmptyDb
<1>5. Store!Indexed(Store!EmptyDb, h, n) = (CHOOSE g : g = Body(DOMAIN Bundles(h), g))[DOMAIN Bundles(h)]
  <2>1. DOMAIN seq = DOMAIN Bundles(h) OBVIOUS
  <2>2. QED BY <2>1 DEF Store!Indexed, Store!FoldLeft, Store!MapThenFoldSet, Bundles
<1>6. \A s : Store!Max(s) = Max(s) BY DEF Store!Max, Max
<1>7. \A k \in 1 .. m : seq[k] = k BY <1>1
<1> HIDE DEF A, m, seq
<1>8. next \in [A \X (1 .. m) -> A] BY <1>3
<1>9. \A d \in A, k \in 1 .. m : next[<<d, k>>] = Insert(d, k) OBVIOUS
<1> HIDE DEF next, Insert
<1>10. PICK f \in [SUBSET (1 .. m) -> A] : Iterates(f, Store!EmptyDb, next, m)
  BY <1>1, <1>4, <1>8, IterationExists
<1>11. f = Body(1 .. m, f)
  <2>1. ASSUME NEW s \in SUBSET (1 .. m), s # {}
        PROVE  f[s] = Insert(f[s \ {Store!Max(s)}], seq[Store!Max(s)])
    <3>1. Max(s) \in 1 .. m BY <1>1, <2>1, MaxOfSome
    <3>2. f[s \ {Max(s)}] \in A OBVIOUS
    <3>3. f[s] = next[<<f[s \ {Max(s)}], Max(s)>>] BY <1>10, <2>1 DEF Iterates
    <3>4. QED BY <1>6, <1>7, <1>9, <3>1, <3>2, <3>3
  <2>2. f[{}] = Store!EmptyDb BY <1>10 DEF Iterates
  <2>3. QED BY <2>1, <2>2
<1> DEFINE g == CHOOSE g : g = Body(1 .. m, g)
<1>12. g = Body(1 .. m, g) BY <1>11
<1>13. Store!Indexed(Store!EmptyDb, h, n) = g[1 .. m] BY <1>1, <1>5
<1> HIDE DEF g
<1>14. g[{}] = Store!EmptyDb BY <1>12
<1>15. IteratesIn(A, g, Store!EmptyDb, next, m)
  <2>1. ASSUME NEW s \in SUBSET (1 .. m), s # {}, g[s \ {Max(s)}] \in A
        PROVE  g[s] = next[<<g[s \ {Max(s)}], Max(s)>>]
    <3>1. Max(s) \in 1 .. m BY <1>1, <2>1, MaxOfSome
    <3>2. g[s] = Insert(g[s \ {Store!Max(s)}], seq[Store!Max(s)]) BY <1>12, <2>1
    <3>3. QED BY <1>6, <1>7, <1>9, <2>1, <3>1, <3>2
  <2>2. QED BY <1>14, <2>1 DEF IteratesIn
<1>16. PICK acc : Accumulates(A, acc, Store!EmptyDb, next, m) /\ acc[m] = g[1 .. m]
  <2>1. Reaches(A, g[1 .. m], Store!EmptyDb, next, m)
    BY <1>1, <1>4, <1>8, <1>15, IterationIsInOrder
  <2>2. QED BY <2>1 DEF Reaches
<1>17. \A k \in 1 .. m : acc[k] = Insert(acc[k - 1], k)
  <2>1. \A k \in 1 .. m : k - 1 \in 0 .. m BY <1>1
  <2>2. QED BY <1>9, <1>16, <2>1 DEF Accumulates
<1>18. Builds(acc, h, n) BY <1>13, <1>16, <1>17 DEF Builds, m, Insert, Accumulates
<1>19. QED BY <1>18

Built(h, n) == CHOOSE acc : Builds(acc, h, n)

\* What the tables hold after k bundles.
VotesUpTo(t, h, n, k) ==
    /\ t = [x \in DOMAIN t |-> t[x]]
    /\ \A x \in DOMAIN t : \E i \in 1 .. k : x = VotePlace(h, n, i) /\ t[x] = VoteOf(h, i)
    /\ \A i \in 1 .. k : VotePlace(h, n, i) \in DOMAIN t

StakesUpTo(t, h, n, k) ==
    /\ t = [x \in DOMAIN t |-> t[x]]
    /\ \A x \in DOMAIN t : \E i \in 1 .. k : \E j \in 1 .. Len(BundleStakes(h, i)) :
          x = StakePlace(h, n, i, j) /\ t[x] = StakeOf(h, i, j)
    /\ \A i \in 1 .. k : \A j \in 1 .. Len(BundleStakes(h, i)) : StakePlace(h, n, i, j) \in DOMAIN t

LEMMA InsertedBundle ==
    ASSUME Store!ServiceAssumption, NEW h \in DOMAIN Files, NEW n,
           NEW k \in 1 .. Len(Bundles(h)), NEW t, NEW v,
           VotesUpTo(t, h, n, k - 1), StakesUpTo(v, h, n, k - 1)
    PROVE  /\ VotesUpTo(Store!Upsert(t, VotesOfBundle(h, n, k)), h, n, k)
           /\ StakesUpTo(Store!Upsert(v, StakesOfBundle(h, n, k)), h, n, k)
<1> DEFINE votes == VotesOfBundle(h, n, k)
           stakes == StakesOfBundle(h, n, k)
<1>1. k \in Nat /\ k \in 1 .. k /\ \A i \in 1 .. k : i = k \/ i \in 1 .. (k - 1)
  BY FileShape
<1>2. \A i \in 1 .. (k - 1) : i \in 1 .. k BY <1>1
<1>3. /\ DOMAIN votes = {VotePlace(h, n, k)} /\ votes[VotePlace(h, n, k)] = VoteOf(h, k)
      /\ DOMAIN stakes = {StakePlace(h, n, k, j) : j \in 1 .. Len(BundleStakes(h, k))}
      /\ \A x \in DOMAIN stakes : \E j \in 1 .. Len(BundleStakes(h, k)) :
            x = StakePlace(h, n, k, j) /\ stakes[x] = StakeOf(h, k, j)
  <2>1. BundleHasRows(h, n, k, votes, stakes) BY RowsOfBundle
  <2> HIDE DEF votes, stakes
  <2>2. QED BY <2>1 DEF BundleHasRows
<1> HIDE DEF votes, stakes
<1> DEFINE t2 == Store!Upsert(t, votes)
           v2 == Store!Upsert(v, stakes)
<1>4. /\ DOMAIN t2 = DOMAIN t \cup DOMAIN votes
      /\ \A x \in DOMAIN t2 : t2[x] = IF x \in DOMAIN votes THEN votes[x] ELSE t[x]
      /\ DOMAIN v2 = DOMAIN v \cup DOMAIN stakes
      /\ \A x \in DOMAIN v2 : v2[x] = IF x \in DOMAIN stakes THEN stakes[x] ELSE v[x]
      /\ t2 = [x \in DOMAIN t2 |-> t2[x]] /\ v2 = [x \in DOMAIN v2 |-> v2[x]]
  BY DEF Store!Upsert
<1> HIDE DEF t2, v2
<1>5. VotesUpTo(t2, h, n, k)
  <2>1. ASSUME NEW x \in DOMAIN t2
        PROVE  \E i \in 1 .. k : x = VotePlace(h, n, i) /\ t2[x] = VoteOf(h, i)
    <3>1. CASE x \in DOMAIN votes BY <1>1, <1>3, <1>4, <3>1
    <3>2. CASE x \notin DOMAIN votes BY <1>2, <1>4, <3>2 DEF VotesUpTo
    <3>3. QED BY <3>1, <3>2
  <2>2. \A i \in 1 .. k : VotePlace(h, n, i) \in DOMAIN t2 BY <1>1, <1>3, <1>4 DEF VotesUpTo
  <2>3. QED BY <1>4, <2>1, <2>2 DEF VotesUpTo
<1>6. StakesUpTo(v2, h, n, k)
  <2>1. ASSUME NEW x \in DOMAIN v2
        PROVE  \E i \in 1 .. k : \E j \in 1 .. Len(BundleStakes(h, i)) :
                  x = StakePlace(h, n, i, j) /\ v2[x] = StakeOf(h, i, j)
    <3>1. CASE x \in DOMAIN stakes BY <1>1, <1>3, <1>4, <3>1
    <3>2. CASE x \notin DOMAIN stakes
      <4>1. x \in DOMAIN v /\ v2[x] = v[x] BY <1>4, <3>2
      <4>2. PICK i \in 1 .. (k - 1) : \E j \in 1 .. Len(BundleStakes(h, i)) :
               x = StakePlace(h, n, i, j) /\ v[x] = StakeOf(h, i, j)
        BY <4>1 DEF StakesUpTo
      <4>3. QED BY <1>2, <4>1, <4>2
    <3>3. QED BY <3>1, <3>2
  <2>2. \A i \in 1 .. k : \A j \in 1 .. Len(BundleStakes(h, i)) : StakePlace(h, n, i, j) \in DOMAIN v2
    BY <1>1, <1>3, <1>4 DEF StakesUpTo
  <2>3. QED BY <1>4, <2>1, <2>2 DEF StakesUpTo
<1>7. QED BY <1>5, <1>6 DEF t2, v2, votes, stakes

LEMMA BuiltRows ==
    ASSUME Store!ServiceAssumption, NEW h \in DOMAIN Files, NEW n
    PROVE  /\ Builds(Built(h, n), h, n)
           /\ \A k \in 0 .. Len(Bundles(h)) :
                 /\ VotesUpTo(Built(h, n)[k].votes, h, n, k)
                 /\ StakesUpTo(Built(h, n)[k].stakes, h, n, k)
                 /\ DOMAIN Built(h, n)[k] = {"votes", "stakes", "metas"}
<1>1. Builds(Built(h, n), h, n) BY IndexSteps DEF Built
<1> DEFINE m == Len(Bundles(h))
           acc == Built(h, n)
           T == {k \in 0 .. m :
                    /\ VotesUpTo(acc[k].votes, h, n, k) /\ StakesUpTo(acc[k].stakes, h, n, k)
                    /\ DOMAIN acc[k] = {"votes", "stakes", "metas"}}
<1>2. m \in Nat BY FileShape
<1>3. 0 \in T
  <2>1. 0 \in 0 .. m BY <1>2
  <2>2. /\ acc[0].votes = <<>> /\ acc[0].stakes = <<>>
        /\ DOMAIN acc[0] = {"votes", "stakes", "metas"}
    BY <1>1 DEF Builds, Store!EmptyDb, Store!EmptyTable
  <2>3. VotesUpTo(<<>>, h, n, 0) /\ StakesUpTo(<<>>, h, n, 0) BY DEF VotesUpTo, StakesUpTo
  <2>4. QED BY <2>1, <2>2, <2>3
<1>4. ASSUME NEW k \in 1 .. m, k - 1 \in T PROVE k \in T
  <2>1. /\ VotesUpTo(acc[k - 1].votes, h, n, k - 1) /\ StakesUpTo(acc[k - 1].stakes, h, n, k - 1)
        /\ DOMAIN acc[k - 1] = {"votes", "stakes", "metas"}
    BY <1>4
  <2>2. acc[k] = [acc[k - 1] EXCEPT !.votes = Store!Upsert(acc[k - 1].votes, VotesOfBundle(h, n, k)),
                                    !.stakes = Store!Upsert(acc[k - 1].stakes, StakesOfBundle(h, n, k))]
    BY <1>1 DEF Builds, Store!InsertBundle, VotesOfBundle, StakesOfBundle
  <2>3. /\ VotesUpTo(Store!Upsert(acc[k - 1].votes, VotesOfBundle(h, n, k)), h, n, k)
        /\ StakesUpTo(Store!Upsert(acc[k - 1].stakes, StakesOfBundle(h, n, k)), h, n, k)
    BY <2>1, InsertedBundle
  <2>4. k \in 0 .. m BY <1>2
  <2> HIDE DEF acc
  <2>5. /\ acc[k].votes = Store!Upsert(acc[k - 1].votes, VotesOfBundle(h, n, k))
        /\ acc[k].stakes = Store!Upsert(acc[k - 1].stakes, StakesOfBundle(h, n, k))
        /\ DOMAIN acc[k] = {"votes", "stakes", "metas"}
    BY <2>1, <2>2
  <2>6. QED BY <2>3, <2>4, <2>5
<1> HIDE DEF T
<1>5. 0 .. m \subseteq T BY <1>2, <1>3, <1>4, UpTo
<1>6. QED BY <1>1, <1>5 DEF T

-----------------------------------------------------------------------------
(* The rows of a network and slot, and those elsewhere.                    *)

Here(t, n, s) == Store!Restrict(t, Store!RowsAt(t, n, s))
Elsewhere(t, n, s) == Store!delete_by_slot(t, n, s)

LEMMA UpsertedHere ==
    ASSUME NEW t, NEW rows, NEW n, NEW s, \A k \in DOMAIN rows : k[1] = n /\ k[2] = s
    PROVE  /\ Here(Store!Upsert(t, rows), n, s) = Store!Upsert(Here(t, n, s), rows)
           /\ Elsewhere(Store!Upsert(t, rows), n, s) = Elsewhere(t, n, s)
<1> DEFINE D == {k \in DOMAIN t : k[1] = n /\ k[2] = s}
           new == Store!Upsert(t, rows)
<1>1. /\ DOMAIN new = DOMAIN t \cup DOMAIN rows
      /\ \A k \in DOMAIN new : new[k] = IF k \in DOMAIN rows THEN rows[k] ELSE t[k]
  BY DEF Store!Upsert
<1>2. Here(t, n, s) = [k \in D |-> t[k]]
  BY DEF Here, Elsewhere, Store!Restrict, Store!RowsAt, Store!delete_by_slot
<1>3. Store!Upsert(Here(t, n, s), rows) =
        [k \in D \cup DOMAIN rows |-> IF k \in DOMAIN rows THEN rows[k] ELSE t[k]]
  BY <1>2 DEF Store!Upsert
<1> HIDE DEF new
<1>4. {k \in DOMAIN new : k[1] = n /\ k[2] = s} = D \cup DOMAIN rows BY <1>1
<1>5. Here(new, n, s) = [k \in D \cup DOMAIN rows |-> new[k]] BY <1>4 DEF Here, Elsewhere, Store!Restrict, Store!RowsAt, Store!delete_by_slot
<1>6. Here(new, n, s) = Store!Upsert(Here(t, n, s), rows)
  <2>1. \A k \in D \cup DOMAIN rows : new[k] = IF k \in DOMAIN rows THEN rows[k] ELSE t[k]
    BY <1>1
  <2> HIDE DEF D
  <2>2. QED BY <1>3, <1>5, <2>1
<1> DEFINE R == {k \in DOMAIN t : k[1] # n \/ k[2] # s}
<1>7. {k \in DOMAIN new : k[1] # n \/ k[2] # s} = R /\ \A k \in R : new[k] = t[k] BY <1>1
<1>8. Elsewhere(new, n, s) = [k \in R |-> new[k]] /\ Elsewhere(t, n, s) = [k \in R |-> t[k]]
  BY <1>7 DEF Here, Elsewhere, Store!Restrict, Store!RowsAt, Store!delete_by_slot
<1> HIDE DEF R
<1>9. Elsewhere(new, n, s) = Elsewhere(t, n, s) BY <1>7, <1>8
<1>10. QED BY <1>6, <1>9 DEF new

LEMMA DeletedHere ==
    ASSUME NEW t, NEW n, NEW s
    PROVE  /\ Here(Elsewhere(t, n, s), n, s) = Store!EmptyTable
           /\ Elsewhere(Elsewhere(t, n, s), n, s) = Elsewhere(t, n, s)
<1> DEFINE R == {k \in DOMAIN t : k[1] # n \/ k[2] # s}
           rest == Elsewhere(t, n, s)
<1>1. rest = [k \in R |-> t[k]]
  BY DEF Here, Elsewhere, Store!Restrict, Store!RowsAt, Store!delete_by_slot
<1>2. DOMAIN rest = R /\ \A k \in R : rest[k] = t[k] BY <1>1
<1> HIDE DEF rest
<1>3. {k \in DOMAIN rest : k[1] = n /\ k[2] = s} = {} BY <1>2
<1>4. Here(rest, n, s) = [k \in {} |-> rest[k]] BY <1>3 DEF Here, Elsewhere, Store!Restrict, Store!RowsAt, Store!delete_by_slot
<1>5. Here(rest, n, s) = Store!EmptyTable BY <1>4 DEF Store!EmptyTable
<1>6. {k \in DOMAIN rest : k[1] # n \/ k[2] # s} = R BY <1>2
<1>7. Elsewhere(rest, n, s) = [k \in R |-> rest[k]] BY <1>6 DEF Here, Elsewhere, Store!Restrict, Store!RowsAt, Store!delete_by_slot
<1> HIDE DEF R
<1>8. Elsewhere(rest, n, s) = rest BY <1>1, <1>2, <1>7
<1>9. QED BY <1>5, <1>8 DEF rest

\* Tables that are equal elsewhere than at one place are equal at every other.
LEMMA SameElsewhere ==
    ASSUME NEW t, NEW v, NEW n, NEW s, Elsewhere(t, n, s) = Elsewhere(v, n, s),
           NEW a, NEW b, a # n \/ b # s
    PROVE  /\ Here(t, a, b) = Here(v, a, b)
           /\ \A k \in DOMAIN t : k[1] # n \/ k[2] # s => k \in DOMAIN v /\ v[k] = t[k]
<1> DEFINE R(x) == {k \in DOMAIN x : k[1] # n \/ k[2] # s}
<1>1. [k \in R(t) |-> t[k]] = [k \in R(v) |-> v[k]]
  BY DEF Here, Elsewhere, Store!Restrict, Store!RowsAt, Store!delete_by_slot
<1>2. R(t) = R(v)
  <2>1. DOMAIN [k \in R(t) |-> t[k]] = R(t) /\ DOMAIN [k \in R(v) |-> v[k]] = R(v) OBVIOUS
  <2> HIDE DEF R
  <2>2. QED BY <1>1, <2>1
<1>3. \A k \in R(t) : t[k] = v[k]
  <2>1. /\ \A k \in R(t) : [x \in R(t) |-> t[x]][k] = t[k]
        /\ \A k \in R(v) : [x \in R(v) |-> v[x]][k] = v[k]
    OBVIOUS
  <2> HIDE DEF R
  <2>2. QED BY <1>1, <1>2, <2>1
<1> DEFINE D(x) == {k \in DOMAIN x : k[1] = a /\ k[2] = b}
<1>4. D(t) = D(v) /\ \A k \in D(t) : t[k] = v[k]
  <2>1. \A k : k[1] = a /\ k[2] = b => k[1] # n \/ k[2] # s OBVIOUS
  <2>2. \A k \in D(t) : k \in R(t) BY <2>1
  <2>3. \A k \in D(v) : k \in R(v) BY <2>1
  <2>4. \A k \in R(t) : k \in DOMAIN v BY <1>2
  <2>5. \A k \in R(v) : k \in DOMAIN t BY <1>2
  <2>6. \A k \in D(t) : k \in D(v) /\ t[k] = v[k] BY <1>3, <2>2, <2>4
  <2>7. \A k \in D(v) : k \in D(t) BY <2>3, <2>5
  <2>8. QED BY <2>6, <2>7
<1>5. Here(t, a, b) = [k \in D(t) |-> t[k]] /\ Here(v, a, b) = [k \in D(v) |-> v[k]]
  BY DEF Here, Elsewhere, Store!Restrict, Store!RowsAt, Store!delete_by_slot
<1>6. Here(t, a, b) = Here(v, a, b)
  <2> HIDE DEF D
  <2>1. QED BY <1>4, <1>5
<1>7. \A k \in R(t) : k \in DOMAIN v /\ v[k] = t[k] BY <1>2, <1>3
<1>8. QED BY <1>6, <1>7
-----------------------------------------------------------------------------
(* The invariant of the database and of the uploads under way.             *)

BundleFits(h, i) ==
    /\ Bundles(h)[i].leaf.stake <= I64Max
    /\ \A j \in 1 .. Len(BundleStakes(h, i)) : BundleStakes(h, i)[j].stake <= I64Max

HoldsUpTo(d, h, n, k) ==
    /\ Here(d.votes, n, Files[h].slot) = Built(h, n)[k].votes
    /\ Here(d.stakes, n, Files[h].slot) = Built(h, n)[k].stakes

IsDb(d) == DOMAIN d = {"votes", "stakes", "metas"}

IsMeta(m, k) ==
    /\ m.hash \in DOMAIN Files /\ k = <<k[1], Files[m.hash].slot>>
    /\ DOMAIN m = {"root", "hash", "total"} /\ m.root = Files[m.hash].root
    /\ Store!Validated(Files[m.hash])
    /\ \A i \in 1 .. Len(Bundles(m.hash)) : BundleFits(m.hash, i)

DbInv(d) ==
    /\ IsDb(d)
    /\ \A k \in DOMAIN d.metas :
          IsMeta(d.metas[k], k) /\ HoldsUpTo(d, d.metas[k].hash, k[1], Len(Bundles(d.metas[k].hash)))
    /\ \A k \in DOMAIN d.votes \cup DOMAIN d.stakes : <<k[1], k[2]>> \in DOMAIN d.metas

Accepted(r) == r \in Requests /\ Store!Refusal(r) = None

\* A transaction has changed nothing but the rows of its network and slot, which
\* are those of the bundles it has inserted.
Transacts(x, d) ==
    /\ IsDb(x.tx) /\ x.tx.metas = d.metas
    /\ Elsewhere(x.tx.votes, x.r.network, x.r.slot) = Elsewhere(d.votes, x.r.network, x.r.slot)
    /\ Elsewhere(x.tx.stakes, x.r.network, x.r.slot) = Elsewhere(d.stakes, x.r.network, x.r.slot)
    /\ x.next \in 1 .. (Len(Bundles(x.r.file)) + 1)
    /\ HoldsUpTo(x.tx, x.r.file, x.r.network, x.next - 1)
    /\ \A i \in 1 .. (x.next - 1) : BundleFits(x.r.file, i)

UploadOK(x, d, on) ==
    /\ DOMAIN x = {"pc", "r", "tx", "next", "status"}
    /\ x.pc \in {"waiting", "indexing"} => on /\ Accepted(x.r)
    /\ x.pc = "indexing" => Transacts(x, d)

StoreInv ==
    /\ version \in 0 .. 3 /\ up \in BOOLEAN /\ (up => version = 3)
    /\ DbInv(db)
    /\ upload = [u \in Uploaders |-> upload[u]]
    /\ \A u \in Uploaders : UploadOK(upload[u], db, up)
    /\ \A u, v \in Uploaders : upload[u].pc = "indexing" /\ upload[v].pc = "indexing" => u = v

LEMMA AcceptedFile ==
    ASSUME Store!ServiceAssumption, NEW r, Accepted(r)
    PROVE  /\ r \in Requests /\ r.file \in DOMAIN Files /\ r.file = r.hash
           /\ Files[r.file].slot = r.slot /\ Files[r.file].root = r.root
           /\ Store!Validated(Files[r.file])
           /\ r.signed = [slot |-> r.slot, network |-> r.network, root |-> r.root, hash |-> r.hash]
<1>1. r \in Requests /\ Store!Refusal(r) = None BY DEF Accepted
<1>2. None # 400 /\ None # 401 BY DEF Store!ServiceAssumption
<1>3. Store!verify_signature(r) /\ Store!MatchesRequest(r) /\ Store!Validated(Files[r.file])
  BY <1>1, <1>2 DEF Store!Refusal
<1>4. r.file \in DOMAIN Files
  BY <1>1, <1>3 DEF Store!ServiceAssumption, Store!MatchesRequest
<1>5. QED BY <1>1, <1>3, <1>4 DEF Store!verify_signature, Store!MatchesRequest

LEMMA FittingBundles ==
    ASSUME Store!ServiceAssumption, NEW h \in DOMAIN Files
    PROVE  /\ Store!FitsColumns(Files[h]) => \A i \in 1 .. Len(Bundles(h)) : BundleFits(h, i)
           /\ \A i \in 1 .. Len(Bundles(h)) :
                 /\ Store!FitsColumn(Bundles(h)[i].leaf.stake)
                 /\ \A x \in Store!ToSet(BundleStakes(h, i)) : Store!FitsColumn(x.stake)
                 => BundleFits(h, i)
<1>1. /\ Store!ToSet(Bundles(h)) = {Bundles(h)[i] : i \in 1 .. Len(Bundles(h))}
      /\ \A i \in 1 .. Len(Bundles(h)) :
            Store!ToSet(BundleStakes(h, i)) = {BundleStakes(h, i)[j] : j \in 1 .. Len(BundleStakes(h, i))}
  BY FileShape
<1>2. ASSUME Store!FitsColumns(Files[h]), NEW i \in 1 .. Len(Bundles(h)) PROVE BundleFits(h, i)
  <2>1. Bundles(h)[i] \in Store!ToSet(Files[h].bundles) BY <1>1 DEF Bundles
  <2>2. /\ Bundles(h)[i].leaf.stake <= I64Max
        /\ \A x \in Store!ToSet(BundleStakes(h, i)) : x.stake <= I64Max
    BY <1>2, <2>1 DEF Store!FitsColumns, BundleStakes
  <2>3. QED BY <1>1, <2>2 DEF BundleFits
<1>3. ASSUME NEW i \in 1 .. Len(Bundles(h)), Store!FitsColumn(Bundles(h)[i].leaf.stake),
             \A x \in Store!ToSet(BundleStakes(h, i)) : Store!FitsColumn(x.stake)
      PROVE  BundleFits(h, i)
  BY <1>1, <1>3 DEF BundleFits, Store!FitsColumn
<1>4. QED BY <1>2, <1>3

\* A freshly built database is that of its file alone.
LEMMA BuiltAlone ==
    ASSUME Store!ServiceAssumption, NEW h \in DOMAIN Files, NEW n, NEW total,
           Store!Validated(Files[h]), \A i \in 1 .. Len(Bundles(h)) : BundleFits(h, i),
           NEW d, d = [Store!Indexed(Store!EmptyDb, h, n) EXCEPT !.metas = Store!MetaRow(h, n, total)]
    PROVE  DbInv(d)
<1> DEFINE m == Len(Bundles(h))
           last == Built(h, n)[m]
           s == Files[h].slot
<1>1. m \in Nat /\ m \in 0 .. m BY FileShape
<1>2. /\ Store!Indexed(Store!EmptyDb, h, n) = last
      /\ VotesUpTo(last.votes, h, n, m) /\ StakesUpTo(last.stakes, h, n, m)
      /\ DOMAIN last = {"votes", "stakes", "metas"}
  BY <1>1, BuiltRows DEF Builds
<1> HIDE DEF last
<1>3. d = [last EXCEPT !.metas = Store!MetaRow(h, n, total)] BY <1>2
<1>4. d.votes = last.votes /\ d.stakes = last.stakes /\ d.metas = Store!MetaRow(h, n, total)
  BY <1>2, <1>3
<1>5. IsDb(d) BY <1>2, <1>3, <1>4 DEF IsDb
<1>6. /\ \A k \in DOMAIN last.votes : k[1] = n /\ k[2] = s
      /\ \A k \in DOMAIN last.stakes : k[1] = n /\ k[2] = s
  BY <1>2 DEF VotesUpTo, StakesUpTo, VotePlace, StakePlace
<1>7. ASSUME NEW t, t = [k \in DOMAIN t |-> t[k]], \A k \in DOMAIN t : k[1] = n /\ k[2] = s
      PROVE  Here(t, n, s) = t
  <2>1. {k \in DOMAIN t : k[1] = n /\ k[2] = s} = DOMAIN t BY <1>7
  <2>2. Here(t, n, s) = [k \in DOMAIN t |-> t[k]]
    BY <2>1 DEF Here, Store!Restrict, Store!RowsAt
  <2>3. QED BY <1>7, <2>2
<1>8. HoldsUpTo(d, h, n, m)
  <2>1. Here(last.votes, n, s) = last.votes BY <1>2, <1>6, <1>7 DEF VotesUpTo
  <2>2. Here(last.stakes, n, s) = last.stakes BY <1>2, <1>6, <1>7 DEF StakesUpTo
  <2>3. QED BY <1>4, <2>1, <2>2 DEF HoldsUpTo, last
<1>9. /\ DOMAIN d.metas = {<<n, s>>}
      /\ d.metas[<<n, s>>] = [root |-> Files[h].root, hash |-> h, total |-> total]
  BY <1>4 DEF Store!MetaRow
<1>10. IsMeta(d.metas[<<n, s>>], <<n, s>>) BY <1>9 DEF IsMeta
<1>11. ASSUME NEW k \in DOMAIN d.metas
       PROVE  /\ IsMeta(d.metas[k], k)
              /\ HoldsUpTo(d, d.metas[k].hash, k[1], Len(Bundles(d.metas[k].hash)))
  <2>1. k = <<n, s>> /\ k[1] = n /\ d.metas[k].hash = h BY <1>9
  <2>2. QED BY <1>8, <1>10, <2>1
<1>12. \A k \in DOMAIN d.votes \cup DOMAIN d.stakes : <<k[1], k[2]>> \in DOMAIN d.metas
  BY <1>4, <1>6, <1>9
<1>13. QED BY <1>5, <1>11, <1>12 DEF DbInv

LEMMA StoreStarts ==
    ASSUME Store!ServiceAssumption, Store!Init
    PROVE  StoreInv
<1>1. DbInv(db)
  <2>1. CASE db = Store!EmptyDb
    <3>1. /\ IsDb(db) /\ DOMAIN db.metas = {} /\ DOMAIN db.votes = {} /\ DOMAIN db.stakes = {}
      BY <2>1 DEF Store!EmptyDb, Store!EmptyTable, IsDb
    <3>2. QED BY <3>1 DEF DbInv
  <2>2. ASSUME NEW old \in OldUploads, db = Store!OldDb(old) PROVE DbInv(db)
    <3>1. /\ old.file \in DOMAIN Files /\ Store!Validated(Files[old.file])
          /\ Store!FitsColumns(Files[old.file])
      BY DEF Store!ServiceAssumption
    <3>2. \A i \in 1 .. Len(Bundles(old.file)) : BundleFits(old.file, i) BY <3>1, FittingBundles
    <3>3. db = [Store!Indexed(Store!EmptyDb, old.file, old.network)
                  EXCEPT !.metas = Store!MetaRow(old.file, old.network, None)]
      BY <2>2 DEF Store!OldDb
    <3>4. QED BY <3>1, <3>2, <3>3, BuiltAlone
  <2>3. QED BY <2>1, <2>2 DEF Store!Init
<1>2. version \in 0 .. 3 /\ up = FALSE /\ upload = [u \in Uploaders |-> Store!NoUpload]
  BY DEF Store!Init
<1>3. \A u \in Uploaders : upload[u] = Store!NoUpload BY <1>2
<1>4. UploadOK(Store!NoUpload, db, up) BY DEF UploadOK, Store!NoUpload
<1>5. \A u \in Uploaders : upload[u].pc # "indexing" BY <1>3 DEF Store!NoUpload
<1>6. upload = [u \in Uploaders |-> upload[u]] BY <1>2
<1>7. QED BY <1>1, <1>2, <1>3, <1>4, <1>5, <1>6 DEF StoreInv

-----------------------------------------------------------------------------
(* The steps.                                                              *)

\* An upload that is not indexing takes a step of its own.
LEMMA UploadMoves ==
    ASSUME StoreInv, NEW u \in Uploaders, NEW y,
           upload' = [upload EXCEPT ![u] = y], UNCHANGED <<db, version, up>>,
           UploadOK(y, db, up),
           y.pc = "indexing" => \A v \in Uploaders : upload[v].pc = "indexing" => v = u
    PROVE  StoreInv'
<1>1. /\ upload' = [v \in Uploaders |-> upload'[v]]
      /\ \A v \in Uploaders : upload'[v] = IF v = u THEN y ELSE upload[v]
  BY DEF StoreInv
<1>2. \A v \in Uploaders : UploadOK(upload'[v], db, up) BY <1>1 DEF StoreInv
<1>3. \A v, w \in Uploaders : upload'[v].pc = "indexing" /\ upload'[w].pc = "indexing" => v = w
  BY <1>1 DEF StoreInv
<1>4. \A v \in Uploaders : UploadOK(upload'[v], db', up') BY <1>2
<1>5. version' \in 0 .. 3 /\ up' \in BOOLEAN /\ (up' => version' = 3) /\ DbInv(db')
  BY DEF StoreInv
<1>6. DbInv(db)' BY DEF StoreInv
<1>7. \A v \in Uploaders : UploadOK(upload[v], db, up)' BY <1>4 DEF UploadOK
<1>8. QED BY <1>1, <1>3, <1>5, <1>6, <1>7 DEF StoreInv

LEMMA UploadAnswered ==
    ASSUME StoreInv, NEW u \in Uploaders, NEW status,
           Store!Answer(u, status), UNCHANGED <<db, version, up>>
    PROVE  StoreInv'
<1> DEFINE y == [Store!NoUpload EXCEPT !.pc = "answered", !.status = status]
<1>1. upload' = [upload EXCEPT ![u] = y] BY DEF Store!Answer
<1>2. y.pc = "answered" /\ DOMAIN y = {"pc", "r", "tx", "next", "status"} BY DEF Store!NoUpload
<1> HIDE DEF y
<1>3. UploadOK(y, db, up) BY <1>2 DEF UploadOK
<1>4. QED BY <1>1, <1>2, <1>3, UploadMoves

LEMMA UploadArrives ==
    ASSUME StoreInv, NEW u \in Uploaders, NEW r \in Requests, Store!handle_upload(u, r)
    PROVE  StoreInv'
<1> DEFINE y == [Store!NoUpload EXCEPT
                    !.pc = IF Store!Refusal(r) = None THEN "waiting" ELSE "answered",
                    !.r = r, !.status = Store!Refusal(r)]
<1>1. upload' = [upload EXCEPT ![u] = y] /\ up /\ UNCHANGED <<db, version, up>>
  BY DEF Store!handle_upload
<1>2. /\ DOMAIN y = {"pc", "r", "tx", "next", "status"}
      /\ y.r = r /\ y.pc = IF Store!Refusal(r) = None THEN "waiting" ELSE "answered"
  BY DEF Store!NoUpload
<1> HIDE DEF y
<1>3. UploadOK(y, db, up) /\ y.pc # "indexing" BY <1>1, <1>2 DEF UploadOK, Accepted
<1>4. QED BY <1>1, <1>3, UploadMoves

\* The transaction starts with the rows elsewhere, and none of its own.
LEMMA IndexingStarts ==
    ASSUME Store!ServiceAssumption, StoreInv, NEW u \in Uploaders, Store!index_snapshot_data(u)
    PROVE  StoreInv'
<1> DEFINE x == upload[u]
           r == x.r
<1>1. x.pc = "waiting" /\ ~Store!Writing /\ UNCHANGED <<db, version, up>>
  BY DEF Store!index_snapshot_data
<1>2. UploadOK(x, db, up) BY DEF StoreInv
<1>3. up /\ Accepted(r) BY <1>1, <1>2 DEF UploadOK
<1>4. CASE r.slot <= I64Max
  <2> DEFINE tx == [db EXCEPT !.votes = Store!delete_by_slot(@, r.network, r.slot),
                              !.stakes = Store!delete_by_slot(@, r.network, r.slot)]
             y == [x EXCEPT !.pc = "indexing", !.next = 1, !.tx = tx]
  <2>1. upload' = [upload EXCEPT ![u].pc = "indexing", ![u].next = 1, ![u].tx = tx]
    BY <1>4 DEF Store!index_snapshot_data
  <2>2. upload' = [upload EXCEPT ![u] = y] BY <2>1 DEF StoreInv
  <2>3. DOMAIN x = {"pc", "r", "tx", "next", "status"} BY <1>2 DEF UploadOK
  <2>5. IsDb(db) BY DEF StoreInv, DbInv
  <2>6. /\ tx.votes = Elsewhere(db.votes, r.network, r.slot)
        /\ tx.stakes = Elsewhere(db.stakes, r.network, r.slot) /\ tx.metas = db.metas /\ IsDb(tx)
    BY <2>5 DEF IsDb, Elsewhere
  <2> HIDE DEF tx, x
  <2>7. /\ y.pc = "indexing" /\ y.r = r /\ y.tx = tx /\ y.next = 1
        /\ DOMAIN y = {"pc", "r", "tx", "next", "status"}
    BY <2>3
  <2> HIDE DEF y
  <2>8. r.file \in DOMAIN Files /\ Files[r.file].slot = r.slot BY <1>3, AcceptedFile
  <2>9. Len(Bundles(r.file)) \in Nat BY <2>8, FileShape
  <2>10. /\ Built(r.file, r.network)[0].votes = Store!EmptyTable
         /\ Built(r.file, r.network)[0].stakes = Store!EmptyTable
    BY <2>8, BuiltRows DEF Builds, Store!EmptyDb
  <2>11. HoldsUpTo(tx, r.file, r.network, 0)
    BY <2>6, <2>8, <2>10, DeletedHere DEF HoldsUpTo
  <2>12. Transacts(y, db)
    <3>1. /\ Elsewhere(tx.votes, r.network, r.slot) = Elsewhere(db.votes, r.network, r.slot)
          /\ Elsewhere(tx.stakes, r.network, r.slot) = Elsewhere(db.stakes, r.network, r.slot)
      BY <2>6, DeletedHere
    <3>2. 1 \in 1 .. (Len(Bundles(r.file)) + 1) /\ 1 - 1 = 0 BY <2>9
    <3>3. \A i \in 1 .. (1 - 1) : BundleFits(r.file, i) OBVIOUS
    <3>4. QED BY <2>6, <2>7, <2>11, <3>1, <3>2, <3>3 DEF Transacts
  <2>13. UploadOK(y, db, up) BY <1>3, <2>7, <2>12 DEF UploadOK
  <2>14. \A v \in Uploaders : upload[v].pc # "indexing" BY <1>1 DEF Store!Writing
  <2>15. QED BY <1>1, <2>2, <2>7, <2>13, <2>14, UploadMoves
<1>5. CASE ~(r.slot <= I64Max)
  <2>1. Store!Answer(u, 500) BY <1>5 DEF Store!index_snapshot_data
  <2>2. QED BY <1>1, <2>1, UploadAnswered
<1>6. QED BY <1>4, <1>5

\* Each bundle goes where the transaction may write.
LEMMA BundleIsInserted ==
    ASSUME Store!ServiceAssumption, StoreInv, NEW u \in Uploaders, Store!insert_exec(u)
    PROVE  StoreInv'
<1> DEFINE x == upload[u]
           r == x.r
           i == x.next
           h == r.file
           n == r.network
<1>1. /\ x.pc = "indexing" /\ i \in DOMAIN Files[h].bundles /\ UNCHANGED <<db, version, up>>
  BY DEF Store!insert_exec
<1>2. UploadOK(x, db, up) BY DEF StoreInv
<1>3. up /\ Accepted(r) /\ Transacts(x, db)
      /\ DOMAIN x = {"pc", "r", "tx", "next", "status"}
  BY <1>1, <1>2 DEF UploadOK
<1>4. h \in DOMAIN Files /\ Files[h].slot = r.slot BY <1>3, AcceptedFile
<1>5. DOMAIN Bundles(h) = 1 .. Len(Bundles(h)) /\ Len(Bundles(h)) \in Nat BY <1>4, FileShape
<1>6. i \in 1 .. Len(Bundles(h)) BY <1>1, <1>5 DEF Bundles
<1>7. CASE ~(/\ Store!FitsColumn(Files[h].bundles[i].leaf.stake)
             /\ \A z \in Store!ToSet(Files[h].bundles[i].stakes) : Store!FitsColumn(z.stake))
  <2>1. Store!Answer(u, 500) BY <1>7 DEF Store!insert_exec
  <2>2. QED BY <1>1, <2>1, UploadAnswered
<1>8. CASE /\ Store!FitsColumn(Files[h].bundles[i].leaf.stake)
           /\ \A z \in Store!ToSet(Files[h].bundles[i].stakes) : Store!FitsColumn(z.stake)
  <2> DEFINE tx == Store!InsertBundle(x.tx, Files[h], n, i)
             y == [x EXCEPT !.next = i + 1, !.tx = tx]
  <2>1. upload' = [upload EXCEPT ![u].next = i + 1,
                                 ![u].tx = Store!InsertBundle(@, Files[h], n, i)]
    BY <1>8 DEF Store!insert_exec
  <2>2. upload' = [upload EXCEPT ![u] = y] BY <2>1 DEF StoreInv
  <2>4. /\ IsDb(x.tx) /\ x.tx.metas = db.metas /\ HoldsUpTo(x.tx, h, n, i - 1)
        /\ Elsewhere(x.tx.votes, n, r.slot) = Elsewhere(db.votes, n, r.slot)
        /\ Elsewhere(x.tx.stakes, n, r.slot) = Elsewhere(db.stakes, n, r.slot)
        /\ \A k \in 1 .. (i - 1) : BundleFits(h, k)
    BY <1>3 DEF Transacts
  <2>5. /\ tx.votes = Store!Upsert(x.tx.votes, VotesOfBundle(h, n, i))
        /\ tx.stakes = Store!Upsert(x.tx.stakes, StakesOfBundle(h, n, i))
        /\ tx.metas = db.metas /\ IsDb(tx)
    BY <2>4 DEF IsDb, Store!InsertBundle, VotesOfBundle, StakesOfBundle
  <2> HIDE DEF tx, x
  <2>6. /\ y.pc = "indexing" /\ y.r = r /\ y.tx = tx /\ y.next = i + 1
        /\ DOMAIN y = {"pc", "r", "tx", "next", "status"}
    BY <1>1, <1>3
  <2> HIDE DEF y
  <2>7. /\ \A k \in DOMAIN VotesOfBundle(h, n, i) : k[1] = n /\ k[2] = r.slot
        /\ \A k \in DOMAIN StakesOfBundle(h, n, i) : k[1] = n /\ k[2] = r.slot
    <3>1. BundleHasRows(h, n, i, VotesOfBundle(h, n, i), StakesOfBundle(h, n, i))
      BY <1>4, <1>6, RowsOfBundle
    <3>2. DOMAIN VotesOfBundle(h, n, i) = {VotePlace(h, n, i)} BY <3>1 DEF BundleHasRows
    <3>3. \A k \in DOMAIN StakesOfBundle(h, n, i) : \E j : k = StakePlace(h, n, i, j)
      BY <3>1 DEF BundleHasRows
    <3>4. /\ VotePlace(h, n, i)[1] = n /\ VotePlace(h, n, i)[2] = r.slot
          /\ \A j : StakePlace(h, n, i, j)[1] = n /\ StakePlace(h, n, i, j)[2] = r.slot
      BY <1>4 DEF VotePlace, StakePlace
    <3>5. QED BY <3>2, <3>3, <3>4
  <2>8. /\ Here(tx.votes, n, r.slot) =
              Store!Upsert(Here(x.tx.votes, n, r.slot), VotesOfBundle(h, n, i))
        /\ Here(tx.stakes, n, r.slot) =
              Store!Upsert(Here(x.tx.stakes, n, r.slot), StakesOfBundle(h, n, i))
        /\ Elsewhere(tx.votes, n, r.slot) = Elsewhere(db.votes, n, r.slot)
        /\ Elsewhere(tx.stakes, n, r.slot) = Elsewhere(db.stakes, n, r.slot)
    BY <2>4, <2>5, <2>7, UpsertedHere
  <2>9. HoldsUpTo(tx, h, n, i)
    <3>1. Builds(Built(h, n), h, n) /\ i - 1 \in 0 .. Len(Bundles(h))
          /\ DOMAIN Built(h, n)[i - 1] = {"votes", "stakes", "metas"}
      BY <1>4, <1>5, <1>6, BuiltRows
    <3>2. Built(h, n)[i] = Store!InsertBundle(Built(h, n)[i - 1], Files[h], n, i)
      BY <1>6, <3>1 DEF Builds
    <3>3. /\ Built(h, n)[i].votes = Store!Upsert(Built(h, n)[i - 1].votes, VotesOfBundle(h, n, i))
          /\ Built(h, n)[i].stakes = Store!Upsert(Built(h, n)[i - 1].stakes, StakesOfBundle(h, n, i))
      BY <3>1, <3>2 DEF Store!InsertBundle, VotesOfBundle, StakesOfBundle
    <3>4. QED BY <1>4, <2>4, <2>8, <3>3 DEF HoldsUpTo
  <2>10. BundleFits(h, i)
    <3>1. /\ Store!FitsColumn(Bundles(h)[i].leaf.stake)
          /\ \A z \in Store!ToSet(BundleStakes(h, i)) : Store!FitsColumn(z.stake)
      BY <1>8 DEF Bundles, BundleStakes
    <3>2. QED BY <1>4, <1>6, <3>1, FittingBundles
  <2>11. Transacts(y, db)
    <3>1. i + 1 \in 1 .. (Len(Bundles(h)) + 1) /\ (i + 1) - 1 = i BY <1>5, <1>6
    <3>2. \A k \in 1 .. i : BundleFits(h, k)
      <4>1. \A k \in 1 .. i : k = i \/ k \in 1 .. (i - 1) BY <1>6
      <4>2. QED BY <2>4, <2>10, <4>1
    <3>3. QED BY <2>5, <2>6, <2>8, <2>9, <3>1, <3>2 DEF Transacts
  <2>12. UploadOK(y, db, up) BY <1>3, <2>6, <2>11 DEF UploadOK
  <2>13. \A v \in Uploaders : upload[v].pc = "indexing" => v = u BY <1>1 DEF StoreInv, x
  <2>14. QED BY <1>1, <2>2, <2>12, <2>13, UploadMoves
<1>9. QED BY <1>7, <1>8

\* What a finished transaction leaves is a database whose file at its network
\* and slot is the uploaded one.
LEMMA CommittedDb ==
    ASSUME Store!ServiceAssumption, DbInv(db), NEW x, Transacts(x, db), Accepted(x.r),
           x.next > Len(Bundles(x.r.file)), NEW total, NEW d,
           d = [x.tx EXCEPT !.metas = Store!Upsert(@, Store!MetaRow(x.r.file, x.r.network, total))]
    PROVE  DbInv(d)
<1> DEFINE r == x.r
           h == r.file
           n == r.network
           s == r.slot
           m == Len(Bundles(h))
           old == db.metas
           row == [root |-> Files[h].root, hash |-> h, total |-> total]
<1>1. /\ h \in DOMAIN Files /\ Files[h].slot = s /\ Store!Validated(Files[h])
  BY AcceptedFile
<1>2. m \in Nat BY <1>1, FileShape
<1>3. x.next = m + 1 /\ x.next - 1 = m BY <1>2 DEF Transacts
<1>4. /\ IsDb(x.tx) /\ x.tx.metas = old /\ HoldsUpTo(x.tx, h, n, m)
      /\ Elsewhere(x.tx.votes, n, s) = Elsewhere(db.votes, n, s)
      /\ Elsewhere(x.tx.stakes, n, s) = Elsewhere(db.stakes, n, s)
      /\ \A i \in 1 .. m : BundleFits(h, i)
  BY <1>3 DEF Transacts
<1>5. /\ d.votes = x.tx.votes /\ d.stakes = x.tx.stakes /\ IsDb(d)
      /\ d.metas = Store!Upsert(old, Store!MetaRow(h, n, total))
  BY <1>4 DEF IsDb
<1>6. /\ DOMAIN d.metas = DOMAIN old \cup {<<n, s>>}
      /\ d.metas[<<n, s>>] = row
      /\ \A k \in DOMAIN old : k # <<n, s>> => d.metas[k] = old[k]
  BY <1>1, <1>5 DEF Store!Upsert, Store!MetaRow
<1> HIDE DEF m
<1>7. ASSUME NEW k \in DOMAIN d.metas
      PROVE  /\ IsMeta(d.metas[k], k)
             /\ HoldsUpTo(d, d.metas[k].hash, k[1], Len(Bundles(d.metas[k].hash)))
  <2>1. CASE k = <<n, s>>
    <3>1. row.hash = h /\ row.root = Files[h].root /\ DOMAIN row = {"root", "hash", "total"} OBVIOUS
    <3>2. IsMeta(row, <<n, s>>)
      <4> HIDE DEF row
      <4>1. QED BY <1>1, <1>4, <3>1 DEF IsMeta, m
    <3>3. HoldsUpTo(d, h, n, m) BY <1>4, <1>5 DEF HoldsUpTo
    <3>4. d.metas[k] = row /\ k[1] = n BY <1>6, <2>1
    <3> HIDE DEF row
    <3>5. QED BY <2>1, <3>1, <3>2, <3>3, <3>4 DEF m
  <2>2. CASE k # <<n, s>>
    <3>1. k \in DOMAIN old /\ d.metas[k] = old[k] BY <1>6, <2>2
    <3>2. IsMeta(old[k], k) /\ HoldsUpTo(db, old[k].hash, k[1], Len(Bundles(old[k].hash)))
      BY <3>1 DEF DbInv
    <3>3. k = <<k[1], Files[old[k].hash].slot>> BY <3>2 DEF IsMeta
    <3>4. k[1] # n \/ Files[old[k].hash].slot # s BY <2>2, <3>3
    <3>5. /\ Here(d.votes, k[1], Files[old[k].hash].slot) =
                Here(db.votes, k[1], Files[old[k].hash].slot)
          /\ Here(d.stakes, k[1], Files[old[k].hash].slot) =
                Here(db.stakes, k[1], Files[old[k].hash].slot)
      BY <1>4, <1>5, <3>4, SameElsewhere
    <3>6. HoldsUpTo(d, old[k].hash, k[1], Len(Bundles(old[k].hash)))
      BY <3>2, <3>5 DEF HoldsUpTo
    <3>7. QED BY <3>1, <3>2, <3>6
  <2>3. QED BY <2>1, <2>2
<1>8. ASSUME NEW k \in DOMAIN d.votes \cup DOMAIN d.stakes
      PROVE  <<k[1], k[2]>> \in DOMAIN d.metas
  <2>1. CASE k[1] = n /\ k[2] = s BY <1>6, <2>1
  <2>2. CASE k[1] # n \/ k[2] # s
    <3>1. k \in DOMAIN db.votes \cup DOMAIN db.stakes
      <4>1. CASE k \in DOMAIN d.votes BY <1>4, <1>5, <2>2, <4>1, SameElsewhere
      <4>2. CASE k \in DOMAIN d.stakes BY <1>4, <1>5, <2>2, <4>2, SameElsewhere
      <4>3. QED BY <4>1, <4>2
    <3>2. QED BY <1>6, <3>1 DEF DbInv
  <2>3. QED BY <2>1, <2>2
<1>9. QED BY <1>5, <1>7, <1>8 DEF DbInv

LEMMA UploadIsCommitted ==
    ASSUME Store!ServiceAssumption, StoreInv, NEW u \in Uploaders, Store!Commit(u)
    PROVE  StoreInv'
<1> DEFINE x == upload[u]
           r == x.r
           h == r.file
           total == Store!total_active_stake(Files[h])
           y == [Store!NoUpload EXCEPT !.pc = "answered", !.status = 200]
<1>1. /\ x.pc = "indexing" /\ x.next > Len(Bundles(h)) /\ UNCHANGED <<version, up>>
  BY DEF Store!Commit, Bundles
<1>2. UploadOK(x, db, up) /\ DbInv(db) BY DEF StoreInv
<1>3. up /\ Accepted(r) /\ Transacts(x, db) BY <1>1, <1>2 DEF UploadOK
<1>4. CASE ~(total <= U64Max /\ Store!FitsColumn(total))
  <2>1. Store!Answer(u, 500) /\ UNCHANGED db BY <1>4 DEF Store!Commit
  <2>2. QED BY <1>1, <2>1, UploadAnswered
<1>5. CASE total <= U64Max /\ Store!FitsColumn(total)
  <2>1. /\ Store!Answer(u, 200)
        /\ db' = [x.tx EXCEPT !.metas = Store!Upsert(@, Store!MetaRow(h, r.network, total))]
    BY <1>5 DEF Store!Commit
  <2> HIDE DEF total
  <2>2. PICK d : d = [x.tx EXCEPT !.metas = Store!Upsert(@, Store!MetaRow(h, r.network, total))]
    OBVIOUS
  <2>3. DbInv(d) BY <1>1, <1>2, <1>3, <2>2, CommittedDb
  <2>4. DbInv(db)'
    <3>1. db' = d BY <2>1, <2>2
    <3>2. QED BY <2>3, <3>1 DEF DbInv, IsDb, IsMeta, HoldsUpTo
  <2>5. upload' = [upload EXCEPT ![u] = y] BY <2>1 DEF Store!Answer
  <2>6. y.pc = "answered" /\ DOMAIN y = {"pc", "r", "tx", "next", "status"} BY DEF Store!NoUpload
  <2> HIDE DEF y
  <2>7. /\ upload' = [v \in Uploaders |-> upload'[v]]
        /\ \A v \in Uploaders : upload'[v] = IF v = u THEN y ELSE upload[v]
    BY <2>5 DEF StoreInv
  <2>8. \A v \in Uploaders : upload'[v].pc # "indexing"
    BY <1>1, <2>6, <2>7 DEF StoreInv
  <2>9. ASSUME NEW v \in Uploaders PROVE UploadOK(upload[v], db, up)'
    <3>1. /\ DOMAIN upload'[v] = {"pc", "r", "tx", "next", "status"}
          /\ upload'[v].pc \in {"waiting", "indexing"} => up /\ Accepted(upload'[v].r)
      <4>1. UploadOK(upload[v], db, up) BY DEF StoreInv
      <4>2. QED BY <2>6, <2>7, <4>1 DEF UploadOK
    <3>2. upload'[v].pc # "indexing" BY <2>8
    <3>3. QED BY <1>1, <3>1, <3>2 DEF UploadOK, Accepted
  <2>10. QED BY <1>1, <2>4, <2>7, <2>8, <2>9 DEF StoreInv
<1>6. QED BY <1>4, <1>5

\* The migrations change no row, only totals.
LEMMA DatabaseMigrates ==
    ASSUME StoreInv, Store!run_migrations
    PROVE  StoreInv'
<1>1. ~up /\ version < 3 /\ version' = version + 1 /\ UNCHANGED <<up, upload>>
  BY DEF Store!run_migrations
<1>2. DbInv(db)'
  <2>1. CASE db' = db BY <2>1 DEF StoreInv
  <2>2. CASE db' = [db EXCEPT !.metas = Store!apply_migration_v3]
    <3> DEFINE new == Store!apply_migration_v3
    <3>1. IsDb(db) BY DEF StoreInv, DbInv
    <3>2. db'.votes = db.votes /\ db'.stakes = db.stakes /\ db'.metas = new /\ IsDb(db')
      BY <2>2, <3>1 DEF IsDb
    <3>3. DOMAIN new = DOMAIN db.metas BY DEF Store!apply_migration_v3
    <3>4. ASSUME NEW k \in DOMAIN db.metas
          PROVE  /\ new[k].hash = db.metas[k].hash /\ new[k].root = db.metas[k].root
                 /\ DOMAIN new[k] = {"root", "hash", "total"}
      <4>1. DOMAIN db.metas[k] = {"root", "hash", "total"} BY DEF StoreInv, DbInv, IsMeta
      <4>2. new[k] = db.metas[k] \/ \E t : new[k] = [db.metas[k] EXCEPT !.total = t]
        BY DEF Store!apply_migration_v3
      <4> HIDE DEF new
      <4>3. QED BY <4>1, <4>2
    <3> HIDE DEF new
    <3>5. ASSUME NEW k \in DOMAIN new
          PROVE  /\ IsMeta(new[k], k)
                 /\ HoldsUpTo(db', new[k].hash, k[1], Len(Bundles(new[k].hash)))
      <4>1. /\ IsMeta(db.metas[k], k)
            /\ HoldsUpTo(db, db.metas[k].hash, k[1], Len(Bundles(db.metas[k].hash)))
        BY <3>3 DEF StoreInv, DbInv
      <4>2. IsMeta(new[k], k) BY <3>3, <3>4, <4>1 DEF IsMeta
      <4>3. HoldsUpTo(db', new[k].hash, k[1], Len(Bundles(new[k].hash)))
        BY <3>2, <3>3, <3>4, <4>1 DEF HoldsUpTo
      <4>4. QED BY <4>2, <4>3
    <3>6. \A k \in DOMAIN db.votes \cup DOMAIN db.stakes : <<k[1], k[2]>> \in DOMAIN new
      BY <3>3 DEF StoreInv, DbInv
    <3>7. PICK d : d = db' OBVIOUS
    <3>8. DbInv(d) BY <3>2, <3>5, <3>6, <3>7 DEF DbInv
    <3>9. QED BY <3>7, <3>8 DEF DbInv, IsDb, IsMeta, HoldsUpTo
  <2>3. QED BY <2>1, <2>2 DEF Store!run_migrations
<1>3. version' \in 0 .. 3 BY <1>1 DEF StoreInv
<1>4. ASSUME NEW v \in Uploaders PROVE UploadOK(upload[v], db, up)'
  <2>1. UploadOK(upload[v], db, up) BY DEF StoreInv
  <2>2. upload[v].pc \notin {"waiting", "indexing"} BY <1>1, <2>1 DEF UploadOK
  <2>3. QED BY <1>1, <2>1, <2>2 DEF UploadOK
<1>5. QED BY <1>1, <1>2, <1>3, <1>4 DEF StoreInv

LEMMA StoreSteps ==
    ASSUME Store!ServiceAssumption, StoreInv, [Store!Next]_(Store!vars)
    PROVE  StoreInv'
<1>1. CASE UNCHANGED <<db, version, up, upload>>
  BY <1>1 DEF StoreInv, DbInv, IsDb, IsMeta, HoldsUpTo, UploadOK, Accepted, Transacts
<1>2. CASE Store!Serve
  <2>1. UNCHANGED <<db, version, upload>> /\ up' = TRUE /\ version = 3 BY <1>2 DEF Store!Serve
  <2>2. DbInv(db)' BY <2>1 DEF StoreInv, DbInv, IsDb, IsMeta, HoldsUpTo
  <2>3. ASSUME NEW v \in Uploaders PROVE UploadOK(upload[v], db, up)'
    <3>1. UploadOK(upload[v], db, up) BY DEF StoreInv
    <3>2. QED BY <2>1, <3>1 DEF UploadOK, Accepted, Transacts, IsDb, HoldsUpTo
  <2>4. QED BY <2>1, <2>2, <2>3 DEF StoreInv
<1>3. CASE Store!Crash
  <2>1. UNCHANGED <<db, version>> /\ up' = FALSE /\ upload' = [u \in Uploaders |-> Store!NoUpload]
    BY <1>3 DEF Store!Crash
  <2>2. DbInv(db)' BY <2>1 DEF StoreInv, DbInv, IsDb, IsMeta, HoldsUpTo
  <2>3. \A v \in Uploaders : upload'[v] = Store!NoUpload BY <2>1
  <2>4. \A v \in Uploaders : upload'[v].pc = "idle" /\ UploadOK(upload[v], db, up)'
    BY <2>3 DEF UploadOK, Store!NoUpload
  <2>5. QED BY <2>1, <2>2, <2>4 DEF StoreInv
<1>4. ASSUME NEW u \in Uploaders, Store!IndexingFails(u) PROVE StoreInv'
  BY <1>4, UploadAnswered DEF Store!IndexingFails
<1>5. ASSUME NEW u \in Uploaders, Store!Respond(u) PROVE StoreInv'
  <2>1. upload' = [upload EXCEPT ![u] = Store!NoUpload] /\ UNCHANGED <<db, version, up>>
    BY <1>5 DEF Store!Respond
  <2>2. UploadOK(Store!NoUpload, db, up) /\ Store!NoUpload.pc = "idle" BY DEF UploadOK, Store!NoUpload
  <2>3. QED BY <2>1, <2>2, UploadMoves
<1>6. ASSUME NEW d \in Readers,
             \/ \E n, s, w : Store!get_voter_summary(d, n, s, w)
             \/ Store!SummaryStakes(d) \/ Store!SummaryReceived(d)
      PROVE  UNCHANGED <<db, version, up, upload>>
  BY <1>6 DEF Store!get_voter_summary, Store!SummaryStakes, Store!SummaryReceived
<1>7. QED
  BY <1>1, <1>2, <1>3, <1>4, <1>5, <1>6, DatabaseMigrates, UploadArrives, IndexingStarts,
     BundleIsInserted, UploadIsCommitted DEF Store!Next, Store!vars

\* The invariant of the database and the uploads (VerifierService).
THEOREM StoreInvAlways ==
    ASSUME Store!ServiceAssumption PROVE Store!Spec => []StoreInv
<1>1. Store!Init => StoreInv BY StoreStarts
<1>2. StoreInv /\ [Store!Next]_(Store!vars) => StoreInv' BY StoreSteps
<1>3. QED BY <1>1, <1>2, PTL DEF Store!Spec
-----------------------------------------------------------------------------
(* What the tables hold and what is served from them.                      *)

\* The file indexed at a network and slot.
IndexedAt(d, n, s, h) ==
    /\ <<n, s>> \in DOMAIN d.metas /\ h = d.metas[<<n, s>>].hash
    /\ h \in DOMAIN Files /\ s = Files[h].slot /\ d.metas[<<n, s>>].root = Files[h].root
    /\ Store!Validated(Files[h]) /\ \A i \in 1 .. Len(Bundles(h)) : BundleFits(h, i)
    /\ VotesUpTo(Here(d.votes, n, s), h, n, Len(Bundles(h)))
    /\ StakesUpTo(Here(d.stakes, n, s), h, n, Len(Bundles(h)))

LEMMA FilesAreIndexed ==
    ASSUME Store!ServiceAssumption, NEW d, DbInv(d),
           NEW k \in DOMAIN d.votes \cup DOMAIN d.stakes
    PROVE  IndexedAt(d, k[1], k[2], d.metas[<<k[1], k[2]>>].hash)
<1> DEFINE n == k[1]
           s == k[2]
           q == <<n, s>>
           h == d.metas[q].hash
<1>1. q \in DOMAIN d.metas BY DEF DbInv
<1>2. IsMeta(d.metas[q], q) /\ HoldsUpTo(d, h, q[1], Len(Bundles(h))) BY <1>1 DEF DbInv
<1>3. q[1] = n /\ q[2] = s OBVIOUS
<1>4. /\ h \in DOMAIN Files /\ q = <<q[1], Files[h].slot>> /\ d.metas[q].root = Files[h].root
      /\ Store!Validated(Files[h]) /\ \A i \in 1 .. Len(Bundles(h)) : BundleFits(h, i)
  BY <1>2 DEF IsMeta
<1>5. s = Files[h].slot BY <1>3, <1>4
<1>6. Len(Bundles(h)) \in 0 .. Len(Bundles(h)) BY <1>4, FileShape
<1>7. /\ VotesUpTo(Built(h, n)[Len(Bundles(h))].votes, h, n, Len(Bundles(h)))
      /\ StakesUpTo(Built(h, n)[Len(Bundles(h))].stakes, h, n, Len(Bundles(h)))
  BY <1>4, <1>6, BuiltRows
<1>8. /\ Here(d.votes, n, s) = Built(h, n)[Len(Bundles(h))].votes
      /\ Here(d.stakes, n, s) = Built(h, n)[Len(Bundles(h))].stakes
  BY <1>2, <1>3, <1>5 DEF HoldsUpTo
<1>9. QED BY <1>1, <1>4, <1>5, <1>7, <1>8 DEF IndexedAt

LEMMA RowsHere ==
    ASSUME NEW t, NEW n, NEW s
    PROVE  /\ \A k \in DOMAIN t : k[1] = n /\ k[2] = s => k \in DOMAIN Here(t, n, s)
           /\ \A k \in DOMAIN Here(t, n, s) :
                 k \in DOMAIN t /\ k[1] = n /\ k[2] = s /\ Here(t, n, s)[k] = t[k]
<1> DEFINE D == {k \in DOMAIN t : k[1] = n /\ k[2] = s}
<1>1. Here(t, n, s) = [k \in D |-> t[k]] BY DEF Here, Store!Restrict, Store!RowsAt
<1>2. QED BY <1>1

LEMMA VoteRowsAreOfFiles ==
    ASSUME Store!ServiceAssumption, NEW d, DbInv(d), NEW k \in DOMAIN d.votes
    PROVE  \E h \in DOMAIN Files : \E i \in 1 .. Len(Bundles(h)) :
              /\ IndexedAt(d, k[1], k[2], h)
              /\ k = VotePlace(h, k[1], i) /\ d.votes[k] = VoteOf(h, i)
<1>1. PICK h : h = d.metas[<<k[1], k[2]>>].hash /\ IndexedAt(d, k[1], k[2], h)
  BY FilesAreIndexed
<1>2. k \in DOMAIN Here(d.votes, k[1], k[2]) /\ Here(d.votes, k[1], k[2])[k] = d.votes[k]
  BY RowsHere
<1>3. h \in DOMAIN Files /\ VotesUpTo(Here(d.votes, k[1], k[2]), h, k[1], Len(Bundles(h)))
  BY <1>1 DEF IndexedAt
<1>4. PICK i \in 1 .. Len(Bundles(h)) : k = VotePlace(h, k[1], i) /\ d.votes[k] = VoteOf(h, i)
  BY <1>2, <1>3 DEF VotesUpTo
<1>5. QED BY <1>1, <1>3, <1>4

LEMMA StakeRowsAreOfFiles ==
    ASSUME Store!ServiceAssumption, NEW d, DbInv(d), NEW k \in DOMAIN d.stakes
    PROVE  \E h \in DOMAIN Files : \E i \in 1 .. Len(Bundles(h)) : \E j \in 1 .. Len(BundleStakes(h, i)) :
              /\ IndexedAt(d, k[1], k[2], h)
              /\ k = StakePlace(h, k[1], i, j) /\ d.stakes[k] = StakeOf(h, i, j)
<1>1. PICK h : h = d.metas[<<k[1], k[2]>>].hash /\ IndexedAt(d, k[1], k[2], h)
  BY FilesAreIndexed
<1>2. k \in DOMAIN Here(d.stakes, k[1], k[2]) /\ Here(d.stakes, k[1], k[2])[k] = d.stakes[k]
  BY RowsHere
<1>3. h \in DOMAIN Files /\ StakesUpTo(Here(d.stakes, k[1], k[2]), h, k[1], Len(Bundles(h)))
  BY <1>1 DEF IndexedAt
<1>4. PICK i \in 1 .. Len(Bundles(h)) : \E j \in 1 .. Len(BundleStakes(h, i)) :
         k = StakePlace(h, k[1], i, j) /\ d.stakes[k] = StakeOf(h, i, j)
  BY <1>2, <1>3 DEF StakesUpTo
<1>5. QED BY <1>1, <1>3, <1>4

\* StoreTypeOK of VerifierService: every amount fits its column (upload.rs), and
\* one transaction is open at a time.
THEOREM ServiceIsTyped ==
    ASSUME Store!ServiceAssumption PROVE Store!Spec => []Store!StoreTypeOK
<1>1. ASSUME StoreInv PROVE Store!StoreTypeOK
  <2>1. DbInv(db) BY <1>1 DEF StoreInv
  <2>2. ASSUME NEW k \in DOMAIN db.votes PROVE db.votes[k].leaf.stake <= I64Max
    <3>1. PICK h \in DOMAIN Files : \E i \in 1 .. Len(Bundles(h)) :
             IndexedAt(db, k[1], k[2], h) /\ db.votes[k] = VoteOf(h, i)
      BY <2>1, VoteRowsAreOfFiles
    <3>2. PICK i \in 1 .. Len(Bundles(h)) :
             IndexedAt(db, k[1], k[2], h) /\ db.votes[k] = VoteOf(h, i)
      BY <3>1
    <3>3. BundleFits(h, i) BY <3>2 DEF IndexedAt
    <3>4. db.votes[k].leaf = Bundles(h)[i].leaf BY <3>2 DEF VoteOf
    <3>5. QED BY <3>3, <3>4 DEF BundleFits
  <2>3. ASSUME NEW k \in DOMAIN db.stakes PROVE db.stakes[k].leaf.stake <= I64Max
    <3>1. PICK h \in DOMAIN Files : \E i \in 1 .. Len(Bundles(h)) :
             \E j \in 1 .. Len(BundleStakes(h, i)) :
                IndexedAt(db, k[1], k[2], h) /\ db.stakes[k] = StakeOf(h, i, j)
      BY <2>1, StakeRowsAreOfFiles
    <3>2. PICK i \in 1 .. Len(Bundles(h)) : \E j \in 1 .. Len(BundleStakes(h, i)) :
             IndexedAt(db, k[1], k[2], h) /\ db.stakes[k] = StakeOf(h, i, j)
      BY <3>1
    <3>3. PICK j \in 1 .. Len(BundleStakes(h, i)) : db.stakes[k] = StakeOf(h, i, j) BY <3>2
    <3>4. BundleFits(h, i) BY <3>2 DEF IndexedAt
    <3>5. db.stakes[k].leaf = BundleStakes(h, i)[j] BY <3>3 DEF StakeOf
    <3>6. QED BY <3>4, <3>5 DEF BundleFits
  <2>4. QED BY <1>1, <2>2, <2>3 DEF StoreInv, Store!StoreTypeOK
<1>2. Store!Spec => []StoreInv BY StoreInvAlways
<1>3. QED BY <1>1, <1>2, PTL

\* SnapshotIsWhole of VerifierService (upload.rs:268-274): the tables hold for
\* each network and slot exactly the rows of the file that the meta row names.
THEOREM SnapshotsAreWhole ==
    ASSUME Store!ServiceAssumption PROVE Store!Spec => []Store!SnapshotIsWhole
<1>1. ASSUME StoreInv PROVE Store!SnapshotIsWhole
  <2>1. DbInv(db) BY <1>1 DEF StoreInv
  <2>2. ASSUME NEW k \in DOMAIN db.metas
        PROVE  /\ Store!Restrict(db.votes, Store!RowsAt(db.votes, k[1], k[2])) =
                     Store!Indexed(Store!EmptyDb, db.metas[k].hash, k[1]).votes
               /\ Store!Restrict(db.stakes, Store!RowsAt(db.stakes, k[1], k[2])) =
                     Store!Indexed(Store!EmptyDb, db.metas[k].hash, k[1]).stakes
    <3> DEFINE h == db.metas[k].hash
    <3>1. IsMeta(db.metas[k], k) /\ HoldsUpTo(db, h, k[1], Len(Bundles(h))) BY <2>1 DEF DbInv
    <3>2. h \in DOMAIN Files /\ k = <<k[1], Files[h].slot>> BY <3>1 DEF IsMeta
    <3>3. k[2] = Files[h].slot BY <3>2
    <3>4. Built(h, k[1])[Len(Bundles(h))] = Store!Indexed(Store!EmptyDb, h, k[1])
      BY <3>2, BuiltRows DEF Builds
    <3>5. QED BY <3>1, <3>3, <3>4 DEF HoldsUpTo, Here
  <2>3. QED BY <2>1, <2>2 DEF DbInv, Store!SnapshotIsWhole
<1>2. Store!Spec => []StoreInv BY StoreInvAlways
<1>3. QED BY <1>1, <1>2, PTL

\* Two vote accounts of a file are never at one place.
LEMMA VotePlacesDiffer ==
    ASSUME Store!ServiceAssumption, NEW h \in DOMAIN Files, Store!Validated(Files[h]), NEW n,
           NEW a \in 1 .. Len(Bundles(h)), NEW b \in 1 .. Len(Bundles(h)),
           VotePlace(h, n, a) = VotePlace(h, n, b)
    PROVE  a = b
<1>1. Bundles(h)[a].leaf.vote = Bundles(h)[b].leaf.vote BY DEF VotePlace
<1>2. DOMAIN Bundles(h) = 1 .. Len(Bundles(h)) BY FileShape
<1> DEFINE f == [i \in DOMAIN Bundles(h) |-> Bundles(h)[i].leaf.vote]
<1>3. Store!IsInjective(f) BY DEF Store!Validated, Store!validate_snapshot, Bundles
<1>4. \A x, y \in DOMAIN f : f[x] = f[y] => x = y BY <1>3 DEF Store!IsInjective
<1>5. QED BY <1>1, <1>2, <1>4

\* ServedProofsVerify of VerifierService (upload.rs:232-253): every proof in the
\* tables verifies, a vote account's against the meta root of its slot and a
\* stake account's against the stake root of its vote account.
THEOREM ServedProofs ==
    ASSUME Store!ServiceAssumption PROVE Store!Spec => []Store!ServedProofsVerify
<1>1. ASSUME StoreInv PROVE Store!ServedProofsVerify
  <2>1. DbInv(db) BY <1>1 DEF StoreInv
  <2>2. ASSUME NEW k \in DOMAIN db.votes
        PROVE  Store!Verifies(db.metas[<<k[1], k[2]>>].root, db.votes[k].leaf, db.votes[k].proof)
    <3>1. PICK h \in DOMAIN Files : \E i \in 1 .. Len(Bundles(h)) :
             IndexedAt(db, k[1], k[2], h) /\ db.votes[k] = VoteOf(h, i)
      BY <2>1, VoteRowsAreOfFiles
    <3>2. PICK i \in 1 .. Len(Bundles(h)) :
             IndexedAt(db, k[1], k[2], h) /\ db.votes[k] = VoteOf(h, i)
      BY <3>1
    <3> DEFINE leaves == Store!Leaves(Bundles(h))
    <3>3. DOMAIN Bundles(h) = 1 .. Len(Bundles(h)) BY FileShape
    <3>4. i \in DOMAIN leaves /\ leaves[i] = Bundles(h)[i].leaf BY <3>3 DEF Store!Leaves
    <3>5. Store!get_root(leaves) = Files[h].root
      BY <3>2 DEF IndexedAt, Store!Validated, Store!reconstruct_meta_merkle_tree, Bundles
    <3>6. db.metas[<<k[1], k[2]>>].root = Files[h].root BY <3>2 DEF IndexedAt
    <3> HIDE DEF leaves
    <3>7. leaves # <<>> BY <3>4
    <3>8. db.metas[<<k[1], k[2]>>].root = leaves BY <3>5, <3>6, <3>7 DEF Store!get_root
    <3>9. /\ db.votes[k].leaf = leaves[i] /\ db.votes[k].proof.tree = leaves
          /\ db.votes[k].proof.index = i
      BY <3>2, <3>4 DEF VoteOf, Store!get_proof, leaves
    <3>10. QED BY <3>8, <3>9 DEF Store!Verifies
  <2>3. ASSUME NEW k \in DOMAIN db.stakes
        PROVE  LET vote == <<k[1], k[2], db.stakes[k].vote>> IN
               /\ vote \in DOMAIN db.votes
               /\ Store!Verifies(db.votes[vote].leaf.stakeRoot, db.stakes[k].leaf, db.stakes[k].proof)
    <3>1. PICK h \in DOMAIN Files : \E i \in 1 .. Len(Bundles(h)) :
             \E j \in 1 .. Len(BundleStakes(h, i)) :
                IndexedAt(db, k[1], k[2], h) /\ db.stakes[k] = StakeOf(h, i, j)
      BY <2>1, StakeRowsAreOfFiles
    <3>2. PICK i \in 1 .. Len(Bundles(h)) : \E j \in 1 .. Len(BundleStakes(h, i)) :
                IndexedAt(db, k[1], k[2], h) /\ db.stakes[k] = StakeOf(h, i, j)
      BY <3>1
    <3>3. PICK j \in 1 .. Len(BundleStakes(h, i)) :
                IndexedAt(db, k[1], k[2], h) /\ db.stakes[k] = StakeOf(h, i, j)
      BY <3>2
    <3> DEFINE vote == <<k[1], k[2], db.stakes[k].vote>>
               t == Here(db.votes, k[1], k[2])
    <3>4. /\ db.stakes[k].vote = Bundles(h)[i].leaf.vote /\ db.stakes[k].leaf = BundleStakes(h, i)[j]
          /\ db.stakes[k].proof.tree = BundleStakes(h, i) /\ db.stakes[k].proof.index = j
      BY <3>3 DEF StakeOf, Store!get_proof
    <3>5. vote = VotePlace(h, k[1], i) BY <3>3, <3>4 DEF VotePlace, IndexedAt
    <3>6. VotesUpTo(t, h, k[1], Len(Bundles(h))) BY <3>3 DEF IndexedAt
    <3> HIDE DEF vote, t
    <3>7. vote \in DOMAIN t BY <3>5, <3>6 DEF VotesUpTo
    <3>8. vote \in DOMAIN db.votes /\ t[vote] = db.votes[vote] BY <3>7, RowsHere DEF t
    <3>9. PICK a \in 1 .. Len(Bundles(h)) : vote = VotePlace(h, k[1], a) /\ t[vote] = VoteOf(h, a)
      BY <3>6, <3>7 DEF VotesUpTo
    <3>10. a = i BY <3>3, <3>5, <3>9, VotePlacesDiffer DEF IndexedAt
    <3>11. db.votes[vote].leaf.stakeRoot = Bundles(h)[i].leaf.stakeRoot
      BY <3>8, <3>9, <3>10 DEF VoteOf
    <3>12. /\ Store!get_root(BundleStakes(h, i)) # None
           /\ Store!get_root(BundleStakes(h, i)) = Bundles(h)[i].leaf.stakeRoot
      <4>1. Bundles(h)[i] \in Store!ToSet(Bundles(h)) BY FileShape
      <4>2. QED
        BY <3>3, <4>1 DEF IndexedAt, Store!Validated, Store!validate_stake_merkle_roots,
           Bundles, BundleStakes
    <3>13. db.votes[vote].leaf.stakeRoot = BundleStakes(h, i) BY <3>11, <3>12 DEF Store!get_root
    <3>14. Store!Verifies(db.votes[vote].leaf.stakeRoot, db.stakes[k].leaf, db.stakes[k].proof)
      BY <3>4, <3>13 DEF Store!Verifies
    <3>15. QED BY <3>8, <3>14 DEF vote
  <2>4. QED BY <2>2, <2>3 DEF Store!ServedProofsVerify
<1>2. Store!Spec => []StoreInv BY StoreInvAlways
<1>3. QED BY <1>1, <1>2, PTL

\* OnlySignedUploads of VerifierService (upload.rs:43-57): what replaces a
\* snapshot carries the operator's signature over its network, slot, root and hash.
THEOREM OnlySigned ==
    ASSUME Store!ServiceAssumption
    PROVE  Store!Spec => [][Store!OnlySignedUploads]_(Store!vars)
<1>1. ASSUME StoreInv, [Store!Next]_(Store!vars)
      PROVE  [Store!OnlySignedUploads]_(Store!vars)
  <2>1. CASE UNCHANGED db BY <2>1 DEF Store!OnlySignedUploads
  <2>2. ASSUME NEW u \in Uploaders, Store!Commit(u), db' # db PROVE Store!OnlySignedUploads
    <3> DEFINE x == upload[u]
               r == x.r
               h == r.file
               total == Store!total_active_stake(Files[h])
               q == <<r.network, r.slot>>
    <3>1. x.pc = "indexing" /\ UploadOK(x, db, up) BY <1>1, <2>2 DEF Store!Commit, StoreInv
    <3>2. Accepted(r) /\ x.tx.metas = db.metas /\ IsDb(x.tx) BY <3>1 DEF UploadOK, Transacts
    <3>3. db' = [x.tx EXCEPT !.metas = Store!Upsert(@, Store!MetaRow(h, r.network, total))]
      BY <2>2 DEF Store!Commit
    <3>4. /\ r \in Requests /\ h = r.hash /\ Files[h].slot = r.slot /\ Files[h].root = r.root
          /\ r.signed = [slot |-> r.slot, network |-> r.network, root |-> r.root, hash |-> r.hash]
      BY <3>2, AcceptedFile
    <3> HIDE DEF total, x
    <3>5. db'.metas = Store!Upsert(db.metas, Store!MetaRow(h, r.network, total))
      BY <3>2, <3>3 DEF IsDb
    <3>6. /\ DOMAIN db'.metas = DOMAIN db.metas \cup {q}
          /\ db'.metas[q].root = r.root /\ db'.metas[q].hash = r.hash
          /\ \A k \in DOMAIN db.metas : k # q => db'.metas[k] = db.metas[k]
      BY <3>4, <3>5 DEF Store!Upsert, Store!MetaRow
    <3>7. ASSUME NEW k \in DOMAIN db'.metas,
                 k \notin DOMAIN db.metas \/ db'.metas[k].hash # db.metas[k].hash
          PROVE  \E z \in Requests : z.signed = [network |-> k[1], slot |-> k[2],
                    root |-> db'.metas[k].root, hash |-> db'.metas[k].hash]
      <4>1. k = q BY <3>6, <3>7
      <4>2. k[1] = r.network /\ k[2] = r.slot BY <4>1
      <4>3. r.signed = [network |-> k[1], slot |-> k[2],
                        root |-> db'.metas[k].root, hash |-> db'.metas[k].hash]
        BY <3>4, <3>6, <4>1, <4>2
      <4>4. QED BY <3>4, <4>3
    <3>8. QED BY <3>7 DEF Store!OnlySignedUploads
  <2>3. ASSUME Store!run_migrations PROVE Store!OnlySignedUploads
    <3>1. CASE db' = db BY <3>1 DEF Store!OnlySignedUploads
    <3>2. CASE db' = [db EXCEPT !.metas = Store!apply_migration_v3]
      <4> DEFINE new == Store!apply_migration_v3
      <4>1. IsDb(db) BY <1>1 DEF StoreInv, DbInv
      <4>2. db'.metas = new BY <3>2, <4>1 DEF IsDb
      <4>3. DOMAIN new = DOMAIN db.metas BY DEF Store!apply_migration_v3
      <4>4. ASSUME NEW k \in DOMAIN db.metas PROVE new[k].hash = db.metas[k].hash
        <5>1. DOMAIN db.metas[k] = {"root", "hash", "total"} BY <1>1 DEF StoreInv, DbInv, IsMeta
        <5>2. new[k] = db.metas[k] \/ \E t : new[k] = [db.metas[k] EXCEPT !.total = t]
          BY DEF Store!apply_migration_v3
        <5> HIDE DEF new
        <5>3. QED BY <5>1, <5>2
      <4> HIDE DEF new
      <4>5. QED BY <4>2, <4>3, <4>4 DEF Store!OnlySignedUploads
    <3>3. QED BY <2>3, <3>1, <3>2 DEF Store!run_migrations
  <2>4. UNCHANGED db \/ Store!run_migrations \/ \E u \in Uploaders : Store!Commit(u)
    BY <1>1 DEF Store!Next, Store!vars, Store!Serve, Store!Crash, Store!handle_upload,
       Store!index_snapshot_data, Store!IndexingFails, Store!insert_exec, Store!Respond,
       Store!get_voter_summary, Store!SummaryStakes, Store!SummaryReceived
  <2>5. QED BY <2>1, <2>2, <2>3, <2>4
<1>2. Store!Spec => []StoreInv BY StoreInvAlways
<1>3. QED BY <1>1, <1>2, PTL DEF Store!Spec
-----------------------------------------------------------------------------
(* What the queries see.                                                   *)

LEMMA AppendedMembers ==
    ASSUME NEW S, NEW parts \in Seq(Seq(S)), NEW f, Appended(Seq(S), parts, f)
    PROVE  \A p \in DOMAIN f[Len(parts)] : \E k \in 1 .. Len(parts) : \E j \in DOMAIN parts[k] :
              f[Len(parts)][p] = parts[k][j]
<1> DEFINE n == Len(parts)
           Good(m) == \A p \in DOMAIN f[m] : \E k \in 1 .. m : \E j \in DOMAIN parts[k] :
                         f[m][p] = parts[k][j]
           T == {m \in 0 .. n : Good(m)}
<1>1. n \in Nat /\ \A k \in 1 .. n : parts[k] \in Seq(S) OBVIOUS
<1>2. \A k \in 0 .. n : f[k] \in Seq(S) BY DEF Appended
<1>3. \A k \in 1 .. n : k - 1 \in 0 .. n /\ k \in 0 .. n BY <1>1
<1>4. \A k \in 1 .. n : f[k] = f[k - 1] \o parts[k] BY DEF Appended
<1>5. f[0] = <<>> BY DEF Appended
<1> HIDE DEF n
<1>6. 0 \in T
  <2>1. 0 \in 0 .. n /\ DOMAIN f[0] = {} BY <1>1, <1>5
  <2>2. QED BY <2>1
<1>7. ASSUME NEW m \in 1 .. n, m - 1 \in T PROVE m \in T
  <2>1. Good(m - 1) BY <1>7
  <2>2. ASSUME NEW p \in DOMAIN f[m]
        PROVE  \E k \in 1 .. m : \E j \in DOMAIN parts[k] : f[m][p] = parts[k][j]
    <3>1. PICK a \in Seq(S) : a = f[m - 1] BY <1>2, <1>3
    <3>2. PICK b \in Seq(S) : b = parts[m] BY <1>1
    <3>3. f[m] = a \o b BY <1>4, <3>1, <3>2
    <3>4. \A i \in DOMAIN (a \o b) : \/ i \in DOMAIN a /\ (a \o b)[i] = a[i]
                                     \/ i - Len(a) \in DOMAIN b /\ (a \o b)[i] = b[i - Len(a)]
      OBVIOUS
    <3>5. CASE p \in DOMAIN a /\ f[m][p] = a[p]
      <4>1. PICK k \in 1 .. (m - 1) : \E j \in DOMAIN parts[k] : f[m - 1][p] = parts[k][j]
        BY <2>1, <3>1, <3>5
      <4>2. k \in 1 .. m BY <1>1
      <4>3. QED BY <3>1, <3>5, <4>1, <4>2
    <3>6. CASE p - Len(a) \in DOMAIN b /\ f[m][p] = b[p - Len(a)]
      <4>1. m \in 1 .. m BY <1>1
      <4>2. QED BY <3>2, <3>6, <4>1
    <3>7. QED BY <3>3, <3>4, <3>5, <3>6
  <2>3. Good(m) BY <2>2
  <2> HIDE DEF Good
  <2>4. QED BY <1>3, <2>3
<1> HIDE DEF T
<1>8. n \in T BY <1>1, <1>6, <1>7, UpTo
<1>9. QED BY <1>8 DEF T, n

\* AllStakes holds the stake accounts of all bundles, each bundle's after a number
\* of others, and nothing else.
Offsets(h, off) ==
    /\ \A i \in 1 .. Len(Bundles(h)) :
          /\ off[i - 1] \in Nat
          /\ \A j \in 1 .. Len(BundleStakes(h, i)) :
                /\ off[i - 1] + j \in DOMAIN Store!AllStakes(Bundles(h))
                /\ Store!AllStakes(Bundles(h))[off[i - 1] + j] = BundleStakes(h, i)[j]
    /\ \A a, b \in 1 .. Len(Bundles(h)) :
          a < b => off[a - 1] + Len(BundleStakes(h, a)) <= off[b - 1]

LEMMA AllStakesOfFile ==
    ASSUME Store!ServiceAssumption, NEW h \in DOMAIN Files, Bundles(h) # <<>>
    PROVE  /\ \E off : Offsets(h, off)
           /\ \A p \in DOMAIN Store!AllStakes(Bundles(h)) :
                 \E i \in 1 .. Len(Bundles(h)) : \E j \in 1 .. Len(BundleStakes(h, i)) :
                    Store!AllStakes(Bundles(h))[p] = BundleStakes(h, i)[j]
<1> DEFINE n == Len(Bundles(h))
           S == UNION {Store!ToSet(BundleStakes(h, i)) : i \in 1 .. n}
           parts == [i \in DOMAIN Bundles(h) |-> Bundles(h)[i].stakes]
           all == Store!AllStakes(Bundles(h))
<1>1. /\ n \in Nat /\ DOMAIN Bundles(h) = 1 .. n
      /\ \A i \in 1 .. n : Len(BundleStakes(h, i)) \in Nat /\ DOMAIN BundleStakes(h, i) = 1 .. Len(BundleStakes(h, i))
  BY FileShape
<1>2. n # 0
  <2>1. Bundles(h) \in Seq(Store!ToSet(Bundles(h)))
    BY DEF Store!ServiceAssumption, Store!WellFormed, Bundles
  <2>2. QED BY <2>1
<1>3. ASSUME NEW i \in 1 .. n PROVE BundleStakes(h, i) \in Seq(S)
  <2>1. Bundles(h)[i] \in Store!ToSet(Bundles(h)) BY FileShape
  <2>2. BundleStakes(h, i) \in Seq(Store!ToSet(BundleStakes(h, i)))
    BY <2>1 DEF Store!ServiceAssumption, Store!WellFormed, Bundles, BundleStakes
  <2>3. Store!ToSet(BundleStakes(h, i)) \subseteq S OBVIOUS
  <2> HIDE DEF S
  <2>4. QED BY <2>2, <2>3
<1> HIDE DEF S
<1>4. /\ parts \in Seq(Seq(S)) /\ Len(parts) = n
      /\ \A i \in 1 .. n : parts[i] = BundleStakes(h, i)
  <2>1. parts = [i \in 1 .. n |-> BundleStakes(h, i)] BY <1>1 DEF BundleStakes
  <2> HIDE DEF parts, n
  <2>2. QED BY <1>1, <1>3, <2>1
<1>5. all = Store!FlattenSeq(parts) BY DEF Store!AllStakes
<1> HIDE DEF parts, all, n
<1>6. PICK f : Appended(Seq(S), parts, f) /\ all = f[n]
  BY <1>2, <1>4, <1>5, FlattenedIsAppended
<1>7. /\ \A k \in 0 .. n : f[k] \in Seq(S) /\ Len(f[k]) \in Nat
      /\ \A k \in 1 .. n : Len(f[k]) = Len(f[k - 1]) + Len(parts[k])
      /\ \A m \in 0 .. n : \A k \in 0 .. m : Len(f[k]) <= Len(f[m])
      /\ \A m \in 0 .. n : \A k \in 1 .. m : \A j \in DOMAIN parts[k] :
            f[m][Len(f[k - 1]) + j] = parts[k][j]
  <2>1. parts \in Seq(Seq(S)) /\ Len(parts) = n /\ Appended(Seq(S), parts, f) BY <1>4, <1>6
  <2>2. InPlace(S, parts, f) BY ONLY <2>1, AppendedPlaces
  <2>3. QED BY <2>1, <2>2 DEF InPlace
<1>8. ASSUME NEW i \in 1 .. n, NEW j \in 1 .. Len(BundleStakes(h, i))
      PROVE  Len(f[i - 1]) + j \in DOMAIN all /\ all[Len(f[i - 1]) + j] = BundleStakes(h, i)[j]
  <2> DEFINE p == Len(f[i - 1]) + j
  <2>1. i - 1 \in 0 .. n /\ i \in 0 .. n /\ n \in 0 .. n /\ i \in 0 .. n BY <1>1
  <2>2. j \in DOMAIN parts[i] /\ Len(parts[i]) = Len(BundleStakes(h, i)) BY <1>1, <1>4
  <2>3. /\ Len(f[i - 1]) \in Nat /\ Len(f[i]) \in Nat /\ Len(f[n]) \in Nat /\ f[n] \in Seq(S)
        /\ Len(f[i]) = Len(f[i - 1]) + Len(parts[i])
        /\ Len(f[i]) <= Len(f[n])
        /\ f[n][p] = parts[i][j]
    BY <1>7, <2>1, <2>2
  <2>4. DOMAIN all = 1 .. Len(f[n]) BY <1>6, <2>3
  <2>5. p \in 1 .. Len(f[n])
    <3>1. \A a, b, c, d \in Nat : \A k \in 1 .. b : c = a + b /\ c <= d => a + k \in 1 .. d
      OBVIOUS
    <3>2. Len(parts[i]) \in Nat /\ j \in 1 .. Len(parts[i]) BY <1>1, <2>2
    <3>3. QED BY <2>3, <3>1, <3>2, Zenon
  <2>6. all[p] = BundleStakes(h, i)[j] BY <1>4, <1>6, <2>3
  <2>7. QED BY <2>4, <2>5, <2>6
<1>9. ASSUME NEW p \in DOMAIN all
      PROVE  \E i \in 1 .. n : \E j \in 1 .. Len(BundleStakes(h, i)) : all[p] = BundleStakes(h, i)[j]
  <2>1. PICK i \in 1 .. n : \E j \in DOMAIN parts[i] : f[n][p] = parts[i][j]
    BY <1>4, <1>6, AppendedMembers
  <2>2. QED BY <1>1, <1>4, <1>6, <2>1
<1> DEFINE off == [k \in 0 .. n |-> Len(f[k])]
<1>10. \A i \in 1 .. n : i - 1 \in 0 .. n /\ off[i - 1] = Len(f[i - 1]) BY <1>1
<1> HIDE DEF off
<1>11. ASSUME NEW a \in 1 .. n, NEW b \in 1 .. n, a < b
       PROVE  off[a - 1] + Len(BundleStakes(h, a)) <= off[b - 1]
  <2>1. a \in 0 .. (b - 1) /\ b - 1 \in 0 .. n BY <1>1, <1>11
  <2>2. Len(f[a]) <= Len(f[b - 1]) BY <1>7, <2>1
  <2>3. Len(f[a]) = Len(f[a - 1]) + Len(parts[a]) BY <1>7
  <2>4. parts[a] = BundleStakes(h, a) BY <1>4, Zenon
  <2>5. off[a - 1] = Len(f[a - 1]) /\ off[b - 1] = Len(f[b - 1]) BY <1>10
  <2>6. QED BY <2>2, <2>3, <2>4, <2>5, Zenon
<1>12. ASSUME NEW i \in 1 .. n
       PROVE  /\ off[i - 1] \in Nat
              /\ \A j \in 1 .. Len(BundleStakes(h, i)) :
                    off[i - 1] + j \in DOMAIN all /\ all[off[i - 1] + j] = BundleStakes(h, i)[j]
  BY <1>7, <1>8, <1>10
<1>13. Offsets(h, off) BY <1>11, <1>12 DEF Offsets, all, n
<1>14. QED BY <1>9, <1>13 DEF all, n

\* Two stake accounts of a file are never at one place.
LEMMA StakePlacesDiffer ==
    ASSUME Store!ServiceAssumption, NEW h \in DOMAIN Files, Store!Validated(Files[h]), NEW n,
           NEW a \in 1 .. Len(Bundles(h)), NEW b \in 1 .. Len(Bundles(h)),
           NEW i \in 1 .. Len(BundleStakes(h, a)), NEW j \in 1 .. Len(BundleStakes(h, b)),
           StakePlace(h, n, a, i) = StakePlace(h, n, b, j)
    PROVE  a = b /\ i = j
<1> DEFINE all == Store!AllStakes(Bundles(h))
           f == [p \in DOMAIN all |-> all[p].account]
<1>1. BundleStakes(h, a)[i].account = BundleStakes(h, b)[j].account BY DEF StakePlace
<1>2. Store!IsInjective(f) BY DEF Store!Validated, Store!validate_snapshot, Bundles
<1>3. \A x, y \in DOMAIN f : f[x] = f[y] => x = y BY <1>2 DEF Store!IsInjective
<1>4. Bundles(h) # <<>> BY DEF Store!Validated, Store!reconstruct_meta_merkle_tree, Bundles
<1>5. PICK off : Offsets(h, off) BY <1>4, AllStakesOfFile
<1> HIDE DEF all
<1>6. /\ off[a - 1] + i \in DOMAIN all /\ all[off[a - 1] + i] = BundleStakes(h, a)[i]
      /\ off[b - 1] + j \in DOMAIN all /\ all[off[b - 1] + j] = BundleStakes(h, b)[j]
      /\ off[a - 1] \in Nat /\ off[b - 1] \in Nat
  BY <1>5 DEF Offsets, all
<1>7. off[a - 1] + i = off[b - 1] + j BY <1>1, <1>3, <1>6
<1>8. /\ a < b => off[a - 1] + Len(BundleStakes(h, a)) <= off[b - 1]
      /\ b < a => off[b - 1] + Len(BundleStakes(h, b)) <= off[a - 1]
  BY <1>5 DEF Offsets
<1>9. /\ a \in Nat /\ b \in Nat /\ Len(BundleStakes(h, a)) \in Nat /\ Len(BundleStakes(h, b)) \in Nat
  BY FileShape
<1>10. \A x, y, m : \A k \in 1 .. m : x \in Nat /\ y \in Nat /\ m \in Nat
          => (x + m <= y => \A l \in Nat \ {0} : x + k # y + l)
  OBVIOUS
<1>11. i \in Nat \ {0} /\ j \in Nat \ {0} BY <1>9
<1>12. ~(a < b) /\ ~(b < a) BY <1>6, <1>7, <1>8, <1>9, <1>10, <1>11, Zenon
<1>13. a = b BY <1>9, <1>12
<1>14. QED BY <1>6, <1>7, <1>11, <1>13

\* A query of the tables returns what one file has, or nothing.
LEMMA VotesOfOneFile ==
    ASSUME Store!ServiceAssumption, DbInv(db), NEW n, NEW s, NEW w, Store!VotesOf(n, s, w) # {}
    PROVE  \E h \in DOMAIN Files : Store!VotesOf(n, s, w) = Store!FileVotes(h, w)
<1>1. PICK q \in DOMAIN db.votes : q[1] = n /\ q[2] = s BY DEF Store!VotesOf
<1>2. PICK h \in DOMAIN Files : IndexedAt(db, n, s, h) BY <1>1, VoteRowsAreOfFiles
<1> DEFINE t == Here(db.votes, n, s)
<1>3. VotesUpTo(t, h, n, Len(Bundles(h))) /\ Store!Validated(Files[h]) BY <1>2 DEF IndexedAt
<1> HIDE DEF t
<1>4. ASSUME NEW x \in Store!VotesOf(n, s, w) PROVE x \in Store!FileVotes(h, w)
  <2>1. PICK k \in DOMAIN db.votes :
           k[1] = n /\ k[2] = s /\ db.votes[k].leaf.wallet = w /\ x = db.votes[k].leaf
    BY <1>4 DEF Store!VotesOf
  <2>2. k \in DOMAIN t /\ t[k] = db.votes[k] BY <2>1, RowsHere DEF t
  <2>3. PICK i \in 1 .. Len(Bundles(h)) : t[k] = VoteOf(h, i) BY <1>3, <2>2 DEF VotesUpTo
  <2>4. x = Bundles(h)[i].leaf /\ x.wallet = w BY <2>1, <2>2, <2>3 DEF VoteOf
  <2>5. Bundles(h)[i] \in Store!ToSet(Files[h].bundles) BY FileShape DEF Bundles
  <2>6. QED BY <2>4, <2>5 DEF Store!FileVotes
<1>5. ASSUME NEW x \in Store!FileVotes(h, w) PROVE x \in Store!VotesOf(n, s, w)
  <2>1. PICK b \in Store!ToSet(Bundles(h)) : x = b.leaf /\ b.leaf.wallet = w
    BY <1>5 DEF Store!FileVotes, Bundles
  <2>2. PICK i \in 1 .. Len(Bundles(h)) : b = Bundles(h)[i] BY FileShape
  <2>3. PICK k \in DOMAIN t : k = VotePlace(h, n, i) BY <1>3 DEF VotesUpTo
  <2>4. PICK a \in 1 .. Len(Bundles(h)) : k = VotePlace(h, n, a) /\ t[k] = VoteOf(h, a)
    BY <1>3 DEF VotesUpTo
  <2>5. a = i BY <1>3, <2>3, <2>4, VotePlacesDiffer
  <2>6. k \in DOMAIN db.votes /\ k[1] = n /\ k[2] = s /\ t[k] = db.votes[k]
    BY RowsHere DEF t
  <2>7. db.votes[k].leaf = x BY <2>1, <2>2, <2>4, <2>5, <2>6 DEF VoteOf
  <2>8. QED BY <2>1, <2>6, <2>7 DEF Store!VotesOf
<1>6. QED BY <1>4, <1>5

LEMMA StakesOfOneFile ==
    ASSUME Store!ServiceAssumption, DbInv(db), NEW n, NEW s, NEW w,
           Store!StakesOfWallet(n, s, w) # {}
    PROVE  \E h \in DOMAIN Files : Store!StakesOfWallet(n, s, w) = Store!FileStakes(h, w)
<1>1. PICK q \in DOMAIN db.stakes : q[1] = n /\ q[2] = s BY DEF Store!StakesOfWallet
<1>2. PICK h \in DOMAIN Files : IndexedAt(db, n, s, h) BY <1>1, StakeRowsAreOfFiles
<1> DEFINE t == Here(db.stakes, n, s)
           all == Store!AllStakes(Bundles(h))
<1>3. StakesUpTo(t, h, n, Len(Bundles(h))) /\ Store!Validated(Files[h]) BY <1>2 DEF IndexedAt
<1>4. Bundles(h) # <<>>
  BY <1>3 DEF Store!Validated, Store!reconstruct_meta_merkle_tree, Bundles
<1>5. Store!ToSet(all) = {all[p] : p \in DOMAIN all} BY DEF Store!ToSet
<1> HIDE DEF t, all
<1>6. ASSUME NEW x \in Store!StakesOfWallet(n, s, w) PROVE x \in Store!FileStakes(h, w)
  <2>1. PICK k \in DOMAIN db.stakes :
           k[1] = n /\ k[2] = s /\ db.stakes[k].leaf.wallet = w /\ x = db.stakes[k].leaf
    BY <1>6 DEF Store!StakesOfWallet
  <2>2. k \in DOMAIN t /\ t[k] = db.stakes[k] BY <2>1, RowsHere DEF t
  <2>3. PICK i \in 1 .. Len(Bundles(h)) : \E j \in 1 .. Len(BundleStakes(h, i)) : t[k] = StakeOf(h, i, j)
    BY <1>3, <2>2 DEF StakesUpTo
  <2>4. PICK j \in 1 .. Len(BundleStakes(h, i)) : t[k] = StakeOf(h, i, j) BY <2>3
  <2>5. x = BundleStakes(h, i)[j] /\ x.wallet = w BY <2>1, <2>2, <2>4 DEF StakeOf
  <2>6. \E p \in DOMAIN all : all[p] = BundleStakes(h, i)[j]
    <3>1. PICK off : Offsets(h, off) BY <1>4, AllStakesOfFile
    <3>2. QED BY <3>1 DEF Offsets, all
  <2>7. x \in Store!ToSet(all) BY <1>5, <2>5, <2>6
  <2>8. QED BY <2>5, <2>7 DEF Store!FileStakes, all, Bundles
<1>7. ASSUME NEW x \in Store!FileStakes(h, w) PROVE x \in Store!StakesOfWallet(n, s, w)
  <2>1. x \in Store!ToSet(all) /\ x.wallet = w BY <1>7 DEF Store!FileStakes, all, Bundles
  <2>2. PICK p \in DOMAIN all : x = all[p] BY <1>5, <2>1
  <2>3. \E i \in 1 .. Len(Bundles(h)) : \E j \in 1 .. Len(BundleStakes(h, i)) : all[p] = BundleStakes(h, i)[j]
    BY <1>4, AllStakesOfFile DEF all
  <2>4. PICK i \in 1 .. Len(Bundles(h)) : \E j \in 1 .. Len(BundleStakes(h, i)) : all[p] = BundleStakes(h, i)[j]
    BY <2>3
  <2>5. PICK j \in 1 .. Len(BundleStakes(h, i)) : x = BundleStakes(h, i)[j] BY <2>2, <2>4
  <2>6. PICK k \in DOMAIN t : k = StakePlace(h, n, i, j) BY <1>3 DEF StakesUpTo
  <2>7. PICK a \in 1 .. Len(Bundles(h)) : \E b \in 1 .. Len(BundleStakes(h, a)) :
           k = StakePlace(h, n, a, b) /\ t[k] = StakeOf(h, a, b)
    BY <1>3 DEF StakesUpTo
  <2>8. PICK b \in 1 .. Len(BundleStakes(h, a)) :
           k = StakePlace(h, n, a, b) /\ t[k] = StakeOf(h, a, b)
    BY <2>7
  <2>9. BundleStakes(h, a)[b] = x
    <3>1. StakePlace(h, n, a, b) = StakePlace(h, n, i, j) BY <2>6, <2>8
    <3>2. a = i /\ b = j BY <1>3, <3>1, StakePlacesDiffer
    <3>3. QED BY <2>5, <3>2
  <2>10. k \in DOMAIN db.stakes /\ k[1] = n /\ k[2] = s /\ t[k] = db.stakes[k]
    BY RowsHere DEF t
  <2>11. db.stakes[k].leaf = x BY <2>8, <2>9, <2>10 DEF StakeOf
  <2>12. QED BY <2>1, <2>10, <2>11 DEF Store!StakesOfWallet
<1>8. QED BY <1>6, <1>7

SummaryOK(x) ==
    /\ DOMAIN x = {"pc", "network", "slot", "wallet", "votes", "stakes"}
    /\ x.votes # {} => \E h \in DOMAIN Files : x.votes = Store!FileVotes(h, x.wallet)
    /\ x.stakes # {} => \E h \in DOMAIN Files : x.stakes = Store!FileStakes(h, x.wallet)

QueryInv ==
    /\ summary = [d \in Readers |-> summary[d]]
    /\ \A d \in Readers : SummaryOK(summary[d])

LEMMA SummaryMoves ==
    ASSUME QueryInv, NEW d \in Readers, NEW y, SummaryOK(y), summary' = [summary EXCEPT ![d] = y]
    PROVE  QueryInv'
<1>1. /\ summary' = [r \in Readers |-> summary'[r]]
      /\ \A r \in Readers : summary'[r] = IF r = d THEN y ELSE summary[r]
  BY DEF QueryInv
<1>2. \A r \in Readers : SummaryOK(summary[r])'
  <2>1. \A r \in Readers : SummaryOK(summary[r]) BY DEF QueryInv
  <2>2. ASSUME NEW r \in Readers PROVE SummaryOK(summary[r])'
    <3>1. CASE r = d BY <1>1, <3>1 DEF SummaryOK
    <3>2. CASE r # d BY <1>1, <2>1, <3>2 DEF SummaryOK
    <3>3. QED BY <3>1, <3>2
  <2>3. QED BY <2>2
<1>3. QED BY <1>1, <1>2 DEF QueryInv

LEMMA QuerySteps ==
    ASSUME Store!ServiceAssumption, StoreInv, QueryInv, [Store!Next]_(Store!vars)
    PROVE  QueryInv'
<1>1. DbInv(db) BY DEF StoreInv
<1>2. SummaryOK(Store!NoSummary) BY DEF SummaryOK, Store!NoSummary
<1>3. CASE UNCHANGED summary BY <1>3 DEF QueryInv, SummaryOK
<1>4. CASE Store!Crash
  <2>1. summary' = [d \in Readers |-> Store!NoSummary] BY <1>4 DEF Store!Crash
  <2>2. \A d \in Readers : summary'[d] = Store!NoSummary BY <2>1
  <2>3. QED BY <1>2, <2>1, <2>2 DEF QueryInv, SummaryOK
<1>5. ASSUME NEW d \in Readers, NEW n, NEW s, NEW w, Store!get_voter_summary(d, n, s, w)
      PROVE  QueryInv'
  <2> DEFINE y == [Store!NoSummary EXCEPT !.pc = "votes", !.network = n, !.slot = s, !.wallet = w,
                                          !.votes = Store!VotesOf(n, s, w)]
  <2>1. summary' = [summary EXCEPT ![d] = y] BY <1>5 DEF Store!get_voter_summary
  <2>2. /\ y.votes = Store!VotesOf(n, s, w) /\ y.stakes = {} /\ y.wallet = w
        /\ DOMAIN y = {"pc", "network", "slot", "wallet", "votes", "stakes"}
    BY DEF Store!NoSummary
  <2> HIDE DEF y
  <2>3. SummaryOK(y) BY <1>1, <2>2, VotesOfOneFile DEF SummaryOK
  <2>4. QED BY <2>1, <2>3, SummaryMoves
<1>6. ASSUME NEW d \in Readers, Store!SummaryStakes(d) PROVE QueryInv'
  <2> DEFINE x == summary[d]
             stakes == Store!StakesOfWallet(x.network, x.slot, x.wallet)
             y == [x EXCEPT !.pc = "answered", !.stakes = stakes]
  <2>1. summary' = [summary EXCEPT ![d].pc = "answered", ![d].stakes = stakes]
    BY <1>6 DEF Store!SummaryStakes
  <2> HIDE DEF stakes
  <2>2. summary' = [summary EXCEPT ![d] = y] BY <2>1 DEF QueryInv
  <2>3. SummaryOK(x) BY DEF QueryInv
  <2> HIDE DEF x
  <2>4. /\ y.votes = x.votes /\ y.stakes = stakes /\ y.wallet = x.wallet
        /\ DOMAIN y = {"pc", "network", "slot", "wallet", "votes", "stakes"}
    BY <2>3 DEF SummaryOK
  <2> HIDE DEF y
  <2>5. stakes # {} => \E h \in DOMAIN Files : stakes = Store!FileStakes(h, x.wallet)
    BY <1>1, StakesOfOneFile DEF stakes
  <2>6. SummaryOK(y) BY <2>3, <2>4, <2>5 DEF SummaryOK
  <2>7. QED BY <2>2, <2>6, SummaryMoves
<1>7. ASSUME NEW d \in Readers, Store!SummaryReceived(d) PROVE QueryInv'
  BY <1>2, <1>7, SummaryMoves DEF Store!SummaryReceived
<1>8. \/ UNCHANGED summary \/ Store!Crash
      \/ \E d \in Readers : \/ \E n, s, w : Store!get_voter_summary(d, n, s, w)
                            \/ Store!SummaryStakes(d) \/ Store!SummaryReceived(d)
  BY DEF Store!Next, Store!vars, Store!run_migrations, Store!Serve, Store!handle_upload,
     Store!index_snapshot_data, Store!IndexingFails, Store!insert_exec, Store!Commit, Store!Respond
<1>9. QED BY <1>3, <1>4, <1>5, <1>6, <1>7, <1>8

\* QueriesSeeOneSnapshot of VerifierService (upload.rs:265-274): what a voter
\* summary lists is what one file has for the wallet, never an upload half way.
THEOREM QueriesAreWhole ==
    ASSUME Store!ServiceAssumption PROVE Store!Spec => []Store!QueriesSeeOneSnapshot
<1>1. Store!Init => QueryInv
  <2>1. SUFFICES ASSUME Store!Init PROVE QueryInv OBVIOUS
  <2>2. summary = [d \in Readers |-> Store!NoSummary] BY <2>1 DEF Store!Init
  <2>3. QED BY <2>2 DEF QueryInv, SummaryOK, Store!NoSummary
<1>2. StoreInv /\ QueryInv /\ [Store!Next]_(Store!vars) => QueryInv' BY QuerySteps
<1>3. QueryInv => Store!QueriesSeeOneSnapshot
  BY DEF QueryInv, SummaryOK, Store!QueriesSeeOneSnapshot
<1>4. Store!Spec => []StoreInv BY StoreInvAlways
<1>5. QED BY <1>1, <1>2, <1>3, <1>4, PTL DEF Store!Spec
-----------------------------------------------------------------------------
(***************************************************************************)
(* Sums.  An amount is a number of units, and a sum the number of units of *)
(* all its terms, in whatever order they are added.                        *)
(***************************************************************************)
Units(F, S) == {u \in S \X Nat : u[2] \in 1 .. F[u[1]]}
Total(F, S) == Cardinality(Units(F, S))

LEMMA UnitsOfOne ==
    ASSUME NEW F, NEW x, F[x] \in Nat
    PROVE  IsFiniteSet(Units(F, {x})) /\ Total(F, {x}) = F[x]
<1> DEFINE f == [v \in 1 .. F[x] |-> <<x, v>>]
<1>1. Units(F, {x}) = {<<x, v>> : v \in 1 .. F[x]}
  <2>1. \A v \in 1 .. F[x] : <<x, v>> \in {x} \X Nat /\ <<x, v>>[1] = x /\ <<x, v>>[2] = v
    OBVIOUS
  <2>2. \A u \in {x} \X Nat : u = <<x, u[2]>> /\ u[1] = x OBVIOUS
  <2>3. QED BY <2>1, <2>2 DEF Units
<1>2. f \in Bijection(1 .. F[x], Units(F, {x}))
  <2>1. f \in [1 .. F[x] -> Units(F, {x})] BY <1>1
  <2>2. \A v, w \in 1 .. F[x] : f[v] = f[w] => v = w OBVIOUS
  <2>3. \A u \in Units(F, {x}) : \E v \in 1 .. F[x] : f[v] = u BY <1>1
  <2>4. QED BY <2>1, <2>2, <2>3 DEF Bijection, Injection, Surjection, IsInjective
<1>3. IsFiniteSet(1 .. F[x]) /\ Cardinality(1 .. F[x]) = F[x] BY FS_Interval
<1>4. ExistsBijection(1 .. F[x], Units(F, {x})) BY <1>2 DEF ExistsBijection
<1>5. QED BY <1>3, <1>4, FS_Bijection DEF Total

LEMMA TotalOfBoth ==
    ASSUME NEW F, NEW S, NEW T, S \cap T = {},
           IsFiniteSet(Units(F, S)), IsFiniteSet(Units(F, T))
    PROVE  /\ IsFiniteSet(Units(F, S \cup T))
           /\ Total(F, S \cup T) = Total(F, S) + Total(F, T)
<1>1. Units(F, S \cup T) = Units(F, S) \cup Units(F, T) BY DEF Units
<1>2. Units(F, S) \cap Units(F, T) = {} BY DEF Units
<1>3. Cardinality({}) = 0 BY FS_EmptySet
<1>4. Cardinality(Units(F, S)) \in Nat /\ Cardinality(Units(F, T)) \in Nat BY FS_CardinalityType
<1>5. /\ IsFiniteSet(Units(F, S) \cup Units(F, T))
      /\ Cardinality(Units(F, S) \cup Units(F, T)) =
            Cardinality(Units(F, S)) + Cardinality(Units(F, T))
               - Cardinality(Units(F, S) \cap Units(F, T))
  BY FS_Union
<1>6. \A a, b \in Nat : a + b - 0 = a + b OBVIOUS
<1>7. QED BY <1>1, <1>2, <1>3, <1>4, <1>5, <1>6, Zenon DEF Total

LEMMA UnitsOfNone ==
    ASSUME NEW F PROVE IsFiniteSet(Units(F, {})) /\ Total(F, {}) = 0
<1>1. Units(F, {}) = {} BY DEF Units
<1>2. QED BY <1>1, FS_EmptySet DEF Total

LEMMA FiniteUnits ==
    ASSUME NEW S, IsFiniteSet(S), NEW F, \A x \in S : F[x] \in Nat
    PROVE  \A s \in SUBSET S : IsFiniteSet(Units(F, s)) /\ Total(F, s) \in Nat
<1> DEFINE T == {k \in 0 .. Cardinality(S) :
                    \A s \in SUBSET S : Cardinality(s) = k => IsFiniteSet(Units(F, s))}
<1>1. Cardinality(S) \in Nat BY FS_CardinalityType
<1>2. \A s \in SUBSET S : IsFiniteSet(s) /\ Cardinality(s) \in 0 .. Cardinality(S)
  <2>1. \A s \in SUBSET S : IsFiniteSet(s) /\ Cardinality(s) <= Cardinality(S) BY FS_Subset
  <2>2. \A s \in SUBSET S : Cardinality(s) \in Nat BY <2>1, FS_CardinalityType
  <2>3. QED BY <1>1, <2>1, <2>2
<1>3. 0 \in T
  <2>1. \A s \in SUBSET S : Cardinality(s) = 0 => s = {} BY <1>2, FS_EmptySet
  <2>2. 0 \in 0 .. Cardinality(S) BY <1>1
  <2>3. QED BY <2>1, <2>2, UnitsOfNone
<1>4. ASSUME NEW k \in 1 .. Cardinality(S), k - 1 \in T PROVE k \in T
  <2>1. ASSUME NEW s \in SUBSET S, Cardinality(s) = k PROVE IsFiniteSet(Units(F, s))
    <3>1. s # {} BY <1>1, <2>1, FS_EmptySet
    <3>2. PICK x \in s : TRUE BY <3>1
    <3>3. Cardinality(s \ {x}) = k - 1 BY <1>2, <2>1, <3>2, FS_RemoveElement
    <3>4. s \ {x} \in SUBSET S OBVIOUS
    <3>5. IsFiniteSet(Units(F, s \ {x})) BY <1>4, <3>3, <3>4
    <3>6. IsFiniteSet(Units(F, {x})) BY UnitsOfOne
    <3>7. (s \ {x}) \cup {x} = s /\ (s \ {x}) \cap {x} = {} BY <3>2
    <3>8. IsFiniteSet(Units(F, (s \ {x}) \cup {x})) BY <3>5, <3>6, <3>7, TotalOfBoth
    <3>9. QED BY <3>7, <3>8
  <2>2. k \in 0 .. Cardinality(S) BY <1>1
  <2>3. QED BY <2>1, <2>2
<1> HIDE DEF T
<1>5. 0 .. Cardinality(S) \subseteq T BY <1>1, <1>3, <1>4, UpTo
<1>6. \A s \in SUBSET S : IsFiniteSet(Units(F, s)) BY <1>2, <1>5 DEF T
<1>7. QED BY <1>6, FS_CardinalityType DEF Total

\* One term more is as many units more.
LEMMA TotalGrows ==
    ASSUME NEW S, IsFiniteSet(S), NEW F, \A x \in S : F[x] \in Nat, NEW x \in S
    PROVE  Total(F, S) = F[x] + Total(F, S \ {x}) /\ Total(F, S \ {x}) \in Nat
<1>1. S \ {x} \in SUBSET S /\ {x} \in SUBSET S /\ S \in SUBSET S OBVIOUS
<1>2. /\ IsFiniteSet(Units(F, S \ {x})) /\ IsFiniteSet(Units(F, {x}))
      /\ Total(F, S \ {x}) \in Nat
  BY <1>1, FiniteUnits
<1>3. (S \ {x}) \cup {x} = S /\ (S \ {x}) \cap {x} = {} OBVIOUS
<1>4. Total(F, (S \ {x}) \cup {x}) = Total(F, S \ {x}) + Total(F, {x})
  BY <1>2, <1>3, TotalOfBoth
<1>5. Total(F, {x}) = F[x] BY UnitsOfOne
<1>6. \A a, b \in Nat : a + b = b + a OBVIOUS
<1>7. QED BY <1>2, <1>3, <1>4, <1>5, <1>6, Zenon

\* A sum that takes the terms away one by one.
Sums(g, F, S) ==
    /\ g[{}] = 0
    /\ \A s \in SUBSET S :
          s # {} => \E x \in s : g[s \ {x}] \in Nat => g[s] = F[x] + g[s \ {x}]

LEMMA SumIsTotal ==
    ASSUME NEW S, IsFiniteSet(S), NEW F, \A x \in S : F[x] \in Nat, NEW g, Sums(g, F, S)
    PROVE  g[S] = Total(F, S)
<1> DEFINE T == {k \in 0 .. Cardinality(S) :
                    \A s \in SUBSET S : Cardinality(s) = k => g[s] = Total(F, s)}
<1>1. Cardinality(S) \in Nat BY FS_CardinalityType
<1>2. \A s \in SUBSET S : IsFiniteSet(s) BY FS_Subset
<1>3. 0 \in T
  <2>1. \A s \in SUBSET S : Cardinality(s) = 0 => s = {} BY <1>2, FS_EmptySet
  <2>2. 0 \in 0 .. Cardinality(S) BY <1>1
  <2>3. QED BY <2>1, <2>2, UnitsOfNone DEF Sums
<1>4. ASSUME NEW k \in 1 .. Cardinality(S), k - 1 \in T PROVE k \in T
  <2>1. ASSUME NEW s \in SUBSET S, Cardinality(s) = k PROVE g[s] = Total(F, s)
    <3>1. s # {} BY <1>1, <2>1, FS_EmptySet
    <3>2. PICK x \in s : g[s \ {x}] \in Nat => g[s] = F[x] + g[s \ {x}] BY <3>1 DEF Sums
    <3>3. Cardinality(s \ {x}) = k - 1 BY <1>2, <2>1, <3>2, FS_RemoveElement
    <3>4. s \ {x} \in SUBSET S OBVIOUS
    <3>5. g[s \ {x}] = Total(F, s \ {x}) BY <1>4, <3>3, <3>4
    <3>6. \A y \in s : F[y] \in Nat OBVIOUS
    <3>7. Total(F, s) = F[x] + Total(F, s \ {x}) /\ Total(F, s \ {x}) \in Nat
      BY <1>2, <3>6, TotalGrows
    <3>8. QED BY <3>2, <3>5, <3>7
  <2>2. k \in 0 .. Cardinality(S) BY <1>1
  <2>3. QED BY <2>1, <2>2
<1> HIDE DEF T
<1>5. 0 .. Cardinality(S) \subseteq T BY <1>1, <1>3, <1>4, UpTo
<1>6. Cardinality(S) \in 0 .. Cardinality(S) /\ S \in SUBSET S BY <1>1
<1>7. QED BY <1>5, <1>6 DEF T

\* The same amounts under other names.
LEMMA RenamedTotal ==
    ASSUME NEW S, NEW T, NEW p \in Bijection(S, T), NEW F, NEW G,
           \A x \in S : G[p[x]] = F[x], IsFiniteSet(Units(F, S))
    PROVE  IsFiniteSet(Units(G, T)) /\ Total(G, T) = Total(F, S)
<1> DEFINE f == [u \in Units(F, S) |-> <<p[u[1]], u[2]>>]
<1>1. /\ p \in [S -> T] /\ \A x, y \in S : p[x] = p[y] => x = y
      /\ \A y \in T : \E x \in S : p[x] = y
  BY DEF Bijection, Injection, Surjection, IsInjective
<1>2. f \in [Units(F, S) -> Units(G, T)]
  <2>1. ASSUME NEW u \in Units(F, S) PROVE <<p[u[1]], u[2]>> \in Units(G, T)
    <3>1. u[1] \in S /\ u[2] \in Nat /\ u[2] \in 1 .. F[u[1]] BY DEF Units
    <3>2. p[u[1]] \in T /\ G[p[u[1]]] = F[u[1]] BY <1>1, <3>1
    <3>3. QED BY <3>1, <3>2 DEF Units
  <2>2. QED BY <2>1
<1>3. \A u, v \in Units(F, S) : f[u] = f[v] => u = v
  <2>1. SUFFICES ASSUME NEW u \in Units(F, S), NEW v \in Units(F, S), f[u] = f[v] PROVE u = v
    OBVIOUS
  <2>2. p[u[1]] = p[v[1]] /\ u[2] = v[2] BY <2>1
  <2>3. u \in S \X Nat /\ v \in S \X Nat BY DEF Units
  <2>4. u[1] = v[1] BY <1>1, <2>2, <2>3
  <2>5. QED BY <2>2, <2>3, <2>4
<1>4. \A w \in Units(G, T) : \E u \in Units(F, S) : f[u] = w
  <2>1. SUFFICES ASSUME NEW w \in Units(G, T) PROVE \E u \in Units(F, S) : f[u] = w OBVIOUS
  <2>2. w \in T \X Nat /\ w[2] \in 1 .. G[w[1]] BY DEF Units
  <2>3. PICK x \in S : p[x] = w[1] BY <1>1, <2>2
  <2>4. <<x, w[2]>> \in Units(F, S) BY <2>2, <2>3 DEF Units
  <2>5. f[<<x, w[2]>>] = w BY <2>2, <2>3, <2>4
  <2>6. QED BY <2>4, <2>5
<1> HIDE DEF f
<1>5. f \in Bijection(Units(F, S), Units(G, T))
  BY <1>2, <1>3, <1>4 DEF Bijection, Injection, Surjection, IsInjective
<1>6. ExistsBijection(Units(F, S), Units(G, T)) BY <1>5 DEF ExistsBijection
<1>7. QED BY <1>6, FS_Bijection DEF Total

\* What SumOf and MapThenSumSet compute.
LEMMA SumOfList ==
    ASSUME NEW q, NEW n \in Nat, DOMAIN q = 1 .. n, \A i \in 1 .. n : q[i] \in Nat
    PROVE  Store!SumOf(q) = Total(q, 1 .. n) /\ Total(q, 1 .. n) \in Nat
<1> DEFINE S == 1 .. n
           Body(g) == [s \in SUBSET (DOMAIN q) |->
                          IF s = {} THEN 0 ELSE g[s \ {Store!Max(s)}] + q[Store!Max(s)]]
           g == CHOOSE g : g = Body(g)
           sums == [s \in SUBSET (DOMAIN q) |-> Total(q, s)]
<1>1. IsFiniteSet(S) BY FS_Interval
<1>2. Store!SumOf(q) = g[DOMAIN q] BY DEF Store!SumOf, Store!FoldLeft, Store!MapThenFoldSet
<1>3. \A s : Store!Max(s) = Max(s) BY DEF Store!Max, Max
<1>4. \A s \in SUBSET S : s # {} => Store!Max(s) \in s BY <1>3, MaxOfSome
<1>5. \A s \in SUBSET S : IsFiniteSet(s) /\ \A x \in s : q[x] \in Nat BY <1>1, FS_Subset
<1>6. sums = Body(sums)
  <2>1. ASSUME NEW s \in SUBSET S, s # {}
        PROVE  Total(q, s) = sums[s \ {Store!Max(s)}] + q[Store!Max(s)]
    <3>1. PICK x \in s : x = Store!Max(s) BY <1>4, <2>1
    <3>2. Total(q, s) = q[x] + Total(q, s \ {x}) /\ Total(q, s \ {x}) \in Nat /\ q[x] \in Nat
      BY <1>5, TotalGrows
    <3>3. sums[s \ {x}] = Total(q, s \ {x}) OBVIOUS
    <3> HIDE DEF sums
    <3>4. QED BY <3>1, <3>2, <3>3
  <2>2. Total(q, {}) = 0 BY UnitsOfNone
  <2>3. \A s \in SUBSET S :
           sums[s] = IF s = {} THEN 0 ELSE sums[s \ {Store!Max(s)}] + q[Store!Max(s)]
    BY <2>1, <2>2
  <2>4. sums = [s \in SUBSET S |-> sums[s]] OBVIOUS
  <2> HIDE DEF sums
  <2>5. QED BY <2>3, <2>4
<1> HIDE DEF sums
<1>7. g = Body(g) BY <1>6
<1> HIDE DEF g
<1>8. Sums(g, q, S)
  <2>1. ASSUME NEW s \in SUBSET S, s # {}
        PROVE  \E x \in s : g[s \ {x}] \in Nat => g[s] = q[x] + g[s \ {x}]
    <3>1. PICK x \in s : x = Store!Max(s) BY <1>4, <2>1
    <3>2. g[s] = g[s \ {x}] + q[x] /\ q[x] \in Nat BY <1>5, <1>7, <2>1, <3>1
    <3>3. \A a, b \in Nat : a + b = b + a OBVIOUS
    <3>4. QED BY <3>2, <3>3, Zenon
  <2>2. g[{}] = 0 BY <1>7
  <2>3. QED BY <2>1, <2>2 DEF Sums
<1>9. Total(q, 1 .. n) \in Nat
  <2>1. S \in SUBSET S OBVIOUS
  <2>2. QED BY <1>1, <2>1, FiniteUnits
<1>10. QED BY <1>1, <1>2, <1>8, <1>9, SumIsTotal

SumOfRows(t, R) == Store!MapThenSumSet(LAMBDA x : t[x].leaf.stake, R)

LEMMA SumOfTable ==
    ASSUME NEW t, NEW R \in SUBSET DOMAIN t, IsFiniteSet(R),
           \A x \in R : t[x].leaf.stake \in Nat
    PROVE  SumOfRows(t, R) = Total([x \in R |-> t[x].leaf.stake], R)
<1> DEFINE F == [x \in R |-> t[x].leaf.stake]
           Body(g) == [s \in SUBSET R |->
                          IF s = {} THEN 0
                          ELSE t[CHOOSE x \in s : TRUE].leaf.stake + g[s \ {CHOOSE x \in s : TRUE}]]
           g == CHOOSE g : g = Body(g)
           sums == [s \in SUBSET R |-> Total(F, s)]
<1>1. SumOfRows(t, R) = g[R]
  BY DEF SumOfRows, Store!MapThenSumSet, Store!MapThenFoldSet
<1>2. \A x \in R : F[x] = t[x].leaf.stake OBVIOUS
<1> HIDE DEF F
<1>3. \A s \in SUBSET R : IsFiniteSet(s) /\ \A x \in s : F[x] \in Nat BY <1>2, FS_Subset
<1>4. sums = Body(sums)
  <2>1. ASSUME NEW s \in SUBSET R, s # {}
        PROVE  Total(F, s) = t[CHOOSE x \in s : TRUE].leaf.stake + sums[s \ {CHOOSE x \in s : TRUE}]
    <3>1. PICK x \in s : x = CHOOSE y \in s : TRUE BY <2>1
    <3>2. Total(F, s) = F[x] + Total(F, s \ {x}) BY <1>3, TotalGrows
    <3>3. sums[s \ {x}] = Total(F, s \ {x}) /\ F[x] = t[x].leaf.stake BY <1>2
    <3> HIDE DEF sums
    <3>4. QED BY <3>1, <3>2, <3>3
  <2>2. Total(F, {}) = 0 BY UnitsOfNone
  <2>3. \A s \in SUBSET R :
           sums[s] = IF s = {} THEN 0
                     ELSE t[CHOOSE x \in s : TRUE].leaf.stake + sums[s \ {CHOOSE x \in s : TRUE}]
    BY <2>1, <2>2
  <2>4. sums = [s \in SUBSET R |-> sums[s]] OBVIOUS
  <2> HIDE DEF sums
  <2>5. QED BY <2>3, <2>4
<1> HIDE DEF sums
<1>5. g = Body(g) BY <1>4
<1> HIDE DEF g
<1>6. Sums(g, F, R)
  <2>1. ASSUME NEW s \in SUBSET R, s # {}
        PROVE  \E x \in s : g[s \ {x}] \in Nat => g[s] = F[x] + g[s \ {x}]
    <3>1. PICK x \in s : x = CHOOSE y \in s : TRUE BY <2>1
    <3>2. g[s] = t[x].leaf.stake + g[s \ {x}] BY <1>5, <2>1, <3>1
    <3>3. QED BY <1>2, <3>2
  <2>2. g[{}] = 0 BY <1>5
  <2>3. QED BY <2>1, <2>2 DEF Sums
<1>7. g[R] = Total(F, R) BY <1>3, <1>6, SumIsTotal
<1>8. QED BY <1>1, <1>7 DEF F
-----------------------------------------------------------------------------
(* The totals of the snapshots.                                            *)

VoteStakes(h) == [i \in 1 .. Len(Bundles(h)) |-> Bundles(h)[i].leaf.stake]

LEMMA SumsOfFile ==
    ASSUME Store!ServiceAssumption, NEW h \in DOMAIN Files, Store!Validated(Files[h])
    PROVE  /\ Store!total_active_stake(Files[h]) = Total(VoteStakes(h), 1 .. Len(Bundles(h)))
           /\ Store!total_active_stake(Files[h]) \in Nat
           /\ \A i \in 1 .. Len(Bundles(h)) :
                 Total(Store!StakesOf(Bundles(h)[i]), 1 .. Len(BundleStakes(h, i))) = VoteStakes(h)[i]
<1> DEFINE m == Len(Bundles(h))
<1>1. /\ m \in Nat /\ DOMAIN Bundles(h) = 1 .. m
      /\ \A i \in 1 .. m :
            /\ Bundles(h)[i].leaf.stake \in Nat
            /\ Len(BundleStakes(h, i)) \in Nat /\ DOMAIN BundleStakes(h, i) = 1 .. Len(BundleStakes(h, i))
            /\ \A j \in 1 .. Len(BundleStakes(h, i)) : BundleStakes(h, i)[j].stake \in Nat
  BY FileShape
<1>2. Store!total_active_stake(Files[h]) = Store!SumOf(VoteStakes(h))
  BY <1>1 DEF Store!total_active_stake, VoteStakes, Bundles
<1>3. DOMAIN VoteStakes(h) = 1 .. m /\ \A i \in 1 .. m : VoteStakes(h)[i] \in Nat
  BY <1>1 DEF VoteStakes
<1>4. /\ Store!SumOf(VoteStakes(h)) = Total(VoteStakes(h), 1 .. m)
      /\ Total(VoteStakes(h), 1 .. m) \in Nat
  BY <1>1, <1>3, SumOfList
<1>5. ASSUME NEW i \in 1 .. m
      PROVE  Total(Store!StakesOf(Bundles(h)[i]), 1 .. Len(BundleStakes(h, i))) = VoteStakes(h)[i]
  <2> DEFINE q == Store!StakesOf(Bundles(h)[i])
  <2>1. /\ DOMAIN q = 1 .. Len(BundleStakes(h, i)) /\ Len(BundleStakes(h, i)) \in Nat
        /\ \A j \in 1 .. Len(BundleStakes(h, i)) : q[j] \in Nat
    BY <1>1 DEF Store!StakesOf, BundleStakes
  <2> HIDE DEF q
  <2>2. Store!SumOf(q) = Total(q, 1 .. Len(BundleStakes(h, i))) BY <2>1, SumOfList
  <2>3. Bundles(h)[i] \in Store!ToSet(Bundles(h)) BY FileShape
  <2>4. Store!SumOf(q) = Bundles(h)[i].leaf.stake
    BY <2>3 DEF Store!Validated, Store!validate_snapshot, Bundles, q
  <2>5. QED BY <2>2, <2>4 DEF VoteStakes, q
<1>6. QED BY <1>2, <1>4, <1>5

\* What a table of a whole file sums up to.
LEMMA TotalOfVotes ==
    ASSUME Store!ServiceAssumption, NEW d, NEW n, NEW s, NEW h, IndexedAt(d, n, s, h)
    PROVE  SumOfRows(d.votes, Store!RowsAt(d.votes, n, s)) = Store!total_active_stake(Files[h])
<1> DEFINE m == Len(Bundles(h))
           R == Store!RowsAt(d.votes, n, s)
           t == Here(d.votes, n, s)
           F == [x \in R |-> d.votes[x].leaf.stake]
           p == [i \in 1 .. m |-> VotePlace(h, n, i)]
<1>1. /\ h \in DOMAIN Files /\ Store!Validated(Files[h]) /\ VotesUpTo(t, h, n, m)
  BY DEF IndexedAt
<1>2. m \in Nat /\ \A i \in 1 .. m : Bundles(h)[i].leaf.stake \in Nat BY <1>1, FileShape
<1>3. DOMAIN t = R /\ R \in SUBSET DOMAIN d.votes /\ \A x \in R : t[x] = d.votes[x]
  BY DEF Here, Store!Restrict, Store!RowsAt
<1> HIDE DEF t, m, R
<1>4. \A i \in 1 .. m : VotePlace(h, n, i) \in R /\ t[VotePlace(h, n, i)] = VoteOf(h, i)
  <2>1. ASSUME NEW i \in 1 .. m
        PROVE  VotePlace(h, n, i) \in R /\ t[VotePlace(h, n, i)] = VoteOf(h, i)
    <3>1. PICK x \in DOMAIN t : x = VotePlace(h, n, i) BY <1>1 DEF VotesUpTo
    <3>2. PICK a \in 1 .. m : x = VotePlace(h, n, a) /\ t[x] = VoteOf(h, a)
      BY <1>1 DEF VotesUpTo
    <3>3. a = i BY <1>1, <3>1, <3>2, VotePlacesDiffer DEF m
    <3>4. QED BY <1>3, <3>1, <3>2, <3>3
  <2>2. QED BY <2>1
<1>5. p \in Bijection(1 .. m, R)
  <2>1. p \in [1 .. m -> R] BY <1>4
  <2>2. \A i, j \in 1 .. m : p[i] = p[j] => i = j BY <1>1, VotePlacesDiffer DEF m
  <2>3. \A x \in R : \E i \in 1 .. m : p[i] = x BY <1>1, <1>3 DEF VotesUpTo
  <2>4. QED BY <2>1, <2>2, <2>3 DEF Bijection, Injection, Surjection, IsInjective
<1>6. \A i \in 1 .. m : F[p[i]] = VoteStakes(h)[i] /\ VoteStakes(h)[i] \in Nat
  <2>1. ASSUME NEW i \in 1 .. m PROVE F[p[i]] = VoteStakes(h)[i] /\ VoteStakes(h)[i] \in Nat
    <3>1. p[i] \in R /\ d.votes[p[i]] = VoteOf(h, i) BY <1>3, <1>4
    <3>2. F[p[i]] = d.votes[p[i]].leaf.stake BY <3>1
    <3> HIDE DEF F
    <3>3. F[p[i]] = Bundles(h)[i].leaf.stake BY <3>1, <3>2 DEF VoteOf
    <3>4. VoteStakes(h)[i] = Bundles(h)[i].leaf.stake BY DEF VoteStakes, m
    <3>5. QED BY <1>2, <3>3, <3>4
  <2>2. QED BY <2>1
<1>7. IsFiniteSet(1 .. m) /\ IsFiniteSet(R)
  <2>1. IsFiniteSet(1 .. m) BY <1>2, FS_Interval
  <2>2. QED BY <1>5, <2>1, FS_Bijection DEF ExistsBijection
<1>8. \A x \in R : d.votes[x].leaf.stake \in Nat
  <2>1. ASSUME NEW x \in R PROVE d.votes[x].leaf.stake \in Nat
    <3>1. PICK i \in 1 .. m : t[x] = VoteOf(h, i) BY <1>1, <1>3 DEF VotesUpTo
    <3>2. QED BY <1>2, <1>3, <3>1 DEF VoteOf
  <2>2. QED BY <2>1
<1>9. SumOfRows(d.votes, R) = Total(F, R) BY <1>3, <1>7, <1>8, SumOfTable
<1> HIDE DEF F, p
<1>10. IsFiniteSet(Units(VoteStakes(h), 1 .. m))
  <2>1. 1 .. m \in SUBSET (1 .. m) OBVIOUS
  <2>2. QED BY <1>6, <1>7, <2>1, FiniteUnits
<1>11. Total(F, R) = Total(VoteStakes(h), 1 .. m)
  <2>1. PICK D : D = 1 .. m OBVIOUS
  <2>2. /\ p \in Bijection(D, R) /\ IsFiniteSet(Units(VoteStakes(h), D))
        /\ \A i \in D : F[p[i]] = VoteStakes(h)[i]
    BY <1>5, <1>6, <1>10, <2>1
  <2>3. Total(F, R) = Total(VoteStakes(h), D) BY ONLY <2>2, RenamedTotal
  <2>4. QED BY <2>1, <2>3
<1>12. QED BY <1>1, <1>9, <1>11, SumsOfFile DEF m, R

LEMMA TotalOfStakes ==
    ASSUME Store!ServiceAssumption, NEW d, NEW n, NEW s, NEW h, IndexedAt(d, n, s, h)
    PROVE  SumOfRows(d.stakes, Store!RowsAt(d.stakes, n, s)) = Store!total_active_stake(Files[h])
<1> DEFINE m == Len(Bundles(h))
           R == Store!RowsAt(d.stakes, n, s)
           t == Here(d.stakes, n, s)
           F == [x \in R |-> d.stakes[x].leaf.stake]
           Of(i) == {x \in R : \E j \in 1 .. Len(BundleStakes(h, i)) : x = StakePlace(h, n, i, j)}
           Up(k) == {x \in R : \E i \in 1 .. k : x \in Of(i)}
<1>1. /\ h \in DOMAIN Files /\ Store!Validated(Files[h]) /\ StakesUpTo(t, h, n, m)
  BY DEF IndexedAt
<1>2. /\ m \in Nat
      /\ \A i \in 1 .. m : Bundles(h)[i].leaf.stake \in Nat /\ Len(BundleStakes(h, i)) \in Nat
      /\ \A i \in 1 .. m : \A j \in 1 .. Len(BundleStakes(h, i)) : BundleStakes(h, i)[j].stake \in Nat
      /\ \A i \in 1 .. m : DOMAIN BundleStakes(h, i) = 1 .. Len(BundleStakes(h, i))
  BY <1>1, FileShape
<1>3. DOMAIN t = R /\ R \in SUBSET DOMAIN d.stakes /\ \A x \in R : t[x] = d.stakes[x]
  BY DEF Here, Store!Restrict, Store!RowsAt
<1> HIDE DEF t, m, R
<1>4. ASSUME NEW i \in 1 .. m, NEW j \in 1 .. Len(BundleStakes(h, i))
      PROVE  StakePlace(h, n, i, j) \in R /\ t[StakePlace(h, n, i, j)] = StakeOf(h, i, j)
  <2>1. PICK x \in DOMAIN t : x = StakePlace(h, n, i, j) BY <1>1 DEF StakesUpTo
  <2>2. PICK a \in 1 .. m : \E b \in 1 .. Len(BundleStakes(h, a)) :
           x = StakePlace(h, n, a, b) /\ t[x] = StakeOf(h, a, b)
    BY <1>1 DEF StakesUpTo
  <2>3. PICK b \in 1 .. Len(BundleStakes(h, a)) :
           x = StakePlace(h, n, a, b) /\ t[x] = StakeOf(h, a, b)
    BY <2>2
  <2>4. a = i /\ b = j
    <3>1. StakePlace(h, n, a, b) = StakePlace(h, n, i, j) BY <2>1, <2>3
    <3>2. QED BY <1>1, <3>1, StakePlacesDiffer DEF m
  <2>5. QED BY <1>3, <2>1, <2>3, <2>4
<1>5. \A x \in R : d.stakes[x].leaf.stake \in Nat
  <2>1. ASSUME NEW x \in R PROVE d.stakes[x].leaf.stake \in Nat
    <3>1. PICK i \in 1 .. m : \E j \in 1 .. Len(BundleStakes(h, i)) : t[x] = StakeOf(h, i, j)
      BY <1>1, <1>3 DEF StakesUpTo
    <3>2. PICK j \in 1 .. Len(BundleStakes(h, i)) : t[x] = StakeOf(h, i, j) BY <3>1
    <3>3. QED BY <1>2, <1>3, <3>2 DEF StakeOf
  <2>2. QED BY <2>1
<1>6. \A x \in R : F[x] = d.stakes[x].leaf.stake OBVIOUS
<1> HIDE DEF F
<1>7. ASSUME NEW i \in 1 .. m
      PROVE  /\ IsFiniteSet(Of(i)) /\ IsFiniteSet(Units(F, Of(i)))
             /\ Total(F, Of(i)) = VoteStakes(h)[i]
  <2> DEFINE l == Len(BundleStakes(h, i))
             p == [j \in 1 .. l |-> StakePlace(h, n, i, j)]
             q == Store!StakesOf(Bundles(h)[i])
  <2>1. p \in Bijection(1 .. l, Of(i))
    <3>1. p \in [1 .. l -> Of(i)] BY <1>4
    <3>2. \A j, k \in 1 .. l : p[j] = p[k] => j = k BY <1>1, StakePlacesDiffer DEF m
    <3>3. \A x \in Of(i) : \E j \in 1 .. l : p[j] = x OBVIOUS
    <3>4. QED BY <3>1, <3>2, <3>3 DEF Bijection, Injection, Surjection, IsInjective
  <2>2. \A j \in 1 .. l : q[j] = BundleStakes(h, i)[j].stake /\ q[j] \in Nat
    BY <1>2 DEF Store!StakesOf, BundleStakes
  <2>3. \A j \in 1 .. l : F[p[j]] = q[j]
    <3>1. ASSUME NEW j \in 1 .. l PROVE F[p[j]] = q[j]
      <4>1. p[j] \in R /\ d.stakes[p[j]] = StakeOf(h, i, j) BY <1>3, <1>4
      <4>2. F[p[j]] = d.stakes[p[j]].leaf.stake BY <1>6, <4>1
      <4>3. F[p[j]] = BundleStakes(h, i)[j].stake BY <4>1, <4>2 DEF StakeOf
      <4>4. QED BY <2>2, <4>3
    <3>2. QED BY <3>1
  <2> HIDE DEF p, q
  <2>4. IsFiniteSet(1 .. l)
    <3>1. l \in Nat BY <1>2
    <3>2. 1 \in Int /\ l \in Int BY <3>1
    <3>3. QED BY <3>2, FS_Interval
  <2>5. IsFiniteSet(Of(i)) BY <2>1, <2>4, FS_Bijection DEF ExistsBijection
  <2>6. IsFiniteSet(Units(q, 1 .. l))
    <3>1. 1 .. l \in SUBSET (1 .. l) OBVIOUS
    <3>2. QED BY <2>2, <2>4, <3>1, FiniteUnits
  <2>7. IsFiniteSet(Units(F, Of(i))) /\ Total(F, Of(i)) = Total(q, 1 .. l)
    <3> HIDE DEF Of
    <3>1. PICK D : D = 1 .. l OBVIOUS
    <3>2. PICK S : S = Of(i) OBVIOUS
    <3>3. /\ p \in Bijection(D, S) /\ IsFiniteSet(Units(q, D)) /\ \A j \in D : F[p[j]] = q[j]
      BY <2>1, <2>3, <2>6, <3>1, <3>2
    <3>4. IsFiniteSet(Units(F, S)) /\ Total(F, S) = Total(q, D) BY ONLY <3>3, RenamedTotal
    <3>5. QED BY <3>1, <3>2, <3>4
  <2>8. Total(q, 1 .. l) = VoteStakes(h)[i] BY <1>1, SumsOfFile DEF m, q
  <2>9. QED BY <2>5, <2>7, <2>8
<1> DEFINE Good(k) == /\ IsFiniteSet(Up(k)) /\ IsFiniteSet(Units(F, Up(k)))
                      /\ Total(F, Up(k)) = Total(VoteStakes(h), 1 .. k)
           T == {k \in 0 .. m : Good(k)}
<1>8. 0 \in T
  <2>1. Up(0) = {} /\ 1 .. 0 = {} /\ 0 \in 0 .. m BY <1>2
  <2> HIDE DEF Up
  <2>2. IsFiniteSet({}) BY FS_EmptySet
  <2>3. /\ IsFiniteSet(Units(F, {})) /\ Total(F, {}) = 0
        /\ Total(VoteStakes(h), {}) = 0
    BY UnitsOfNone
  <2>4. QED BY <2>1, <2>2, <2>3
<1>9. ASSUME NEW k \in 1 .. m, k - 1 \in T PROVE k \in T
  <2>1. Good(k - 1) /\ k \in 0 .. m /\ k \in 1 .. k BY <1>2, <1>9
  <2>2. \A i \in 1 .. k : i = k \/ i \in 1 .. (k - 1) BY <1>2
  <2>3. \A i \in 1 .. (k - 1) : i \in 1 .. k /\ i \in 1 .. m /\ i # k BY <1>2
  <2>4. Up(k) = Up(k - 1) \cup Of(k)
    <3> HIDE DEF Of
    <3>1. \A x \in Up(k) : x \in Up(k - 1) \/ x \in Of(k) BY <2>2
    <3>2. \A x \in Up(k - 1) : x \in Up(k) BY <2>3
    <3>3. Of(k) \subseteq R BY DEF Of
    <3>4. \A x \in Of(k) : x \in Up(k) BY <2>1, <3>3
    <3> HIDE DEF Up
    <3>5. QED BY <3>1, <3>2, <3>4
  <2>5. Up(k - 1) \cap Of(k) = {}
    <3>1. ASSUME NEW x \in Up(k - 1), x \in Of(k) PROVE FALSE
      <4>1. PICK i \in 1 .. (k - 1) : \E j \in 1 .. Len(BundleStakes(h, i)) : x = StakePlace(h, n, i, j)
        OBVIOUS
      <4>2. PICK j \in 1 .. Len(BundleStakes(h, i)) : x = StakePlace(h, n, i, j) BY <4>1
      <4>3. PICK l \in 1 .. Len(BundleStakes(h, k)) : x = StakePlace(h, n, k, l) BY <3>1
      <4>4. i = k BY <1>1, <2>3, <4>2, <4>3, StakePlacesDiffer DEF m
      <4>5. QED BY <2>3, <4>4
    <3>2. QED BY <3>1
  <2>6. /\ IsFiniteSet(Of(k)) /\ IsFiniteSet(Units(F, Of(k)))
        /\ Total(F, Of(k)) = VoteStakes(h)[k]
    BY <1>7
  <2> HIDE DEF Of, Up
  <2>7. IsFiniteSet(Up(k)) BY <2>1, <2>4, <2>6, FS_Union
  <2>8. /\ IsFiniteSet(Units(F, Up(k)))
        /\ Total(F, Up(k)) = Total(F, Up(k - 1)) + Total(F, Of(k))
    BY <2>1, <2>4, <2>5, <2>6, TotalOfBoth
  <2>9. /\ Total(VoteStakes(h), 1 .. k) =
              VoteStakes(h)[k] + Total(VoteStakes(h), 1 .. (k - 1))
        /\ Total(VoteStakes(h), 1 .. (k - 1)) \in Nat /\ VoteStakes(h)[k] \in Nat
    <3>1. IsFiniteSet(1 .. k) BY <1>2, FS_Interval
    <3>2. \A i \in 1 .. k : VoteStakes(h)[i] \in Nat
      <4>1. \A i \in 1 .. m : VoteStakes(h)[i] \in Nat BY <1>2 DEF VoteStakes, m
      <4>2. \A i \in 1 .. k : i \in 1 .. m BY <1>2
      <4>3. QED BY <4>1, <4>2
    <3>3. (1 .. k) \ {k} = 1 .. (k - 1) BY <1>2
    <3>4. /\ Total(VoteStakes(h), 1 .. k) =
                VoteStakes(h)[k] + Total(VoteStakes(h), (1 .. k) \ {k})
          /\ Total(VoteStakes(h), (1 .. k) \ {k}) \in Nat
      BY <2>1, <3>1, <3>2, TotalGrows
    <3>5. QED BY <2>1, <3>2, <3>3, <3>4
  <2>10. \A a, b \in Nat : a + b = b + a OBVIOUS
  <2>11. Total(F, Up(k)) = Total(VoteStakes(h), 1 .. k)
    BY <2>1, <2>6, <2>8, <2>9, <2>10, Zenon
  <2>12. Good(k) BY <2>7, <2>8, <2>11
  <2> HIDE DEF Good
  <2>13. QED BY <2>1, <2>12
<1> HIDE DEF T
<1>10. m \in T BY <1>2, <1>8, <1>9, UpTo
<1>11. Good(m) BY <1>10 DEF T
<1>12. Up(m) = R
  <2>1. ASSUME NEW x \in R PROVE x \in Up(m)
    <3>1. PICK i \in 1 .. m : \E j \in 1 .. Len(BundleStakes(h, i)) : x = StakePlace(h, n, i, j)
      BY <1>1, <1>3 DEF StakesUpTo
    <3>2. QED BY <3>1
  <2>2. Up(m) \subseteq R OBVIOUS
  <2> HIDE DEF Up
  <2>3. QED BY <2>1, <2>2
<1> HIDE DEF Up
<1>13. IsFiniteSet(R) /\ Total(F, R) = Total(VoteStakes(h), 1 .. m) BY <1>11, <1>12
<1>14. SumOfRows(d.stakes, R) = Total(F, R) BY <1>3, <1>5, <1>13, SumOfTable DEF F
<1>15. QED BY <1>1, <1>13, <1>14, SumsOfFile DEF m, R

\* Every total is that of its file, or is still to be computed.
TotalOK(m, ready) ==
    \/ m.total = None /\ ~ready
    \/ m.total = Store!total_active_stake(Files[m.hash])

TotalsInv == \A k \in DOMAIN db.metas : TotalOK(db.metas[k], version = 3)

LEMMA SnapshotAt ==
    ASSUME Store!ServiceAssumption, NEW d, DbInv(d), NEW k \in DOMAIN d.metas
    PROVE  IndexedAt(d, k[1], k[2], d.metas[k].hash)
<1> DEFINE h == d.metas[k].hash
<1>1. IsMeta(d.metas[k], k) /\ HoldsUpTo(d, h, k[1], Len(Bundles(h))) BY DEF DbInv
<1>2. /\ h \in DOMAIN Files /\ k = <<k[1], Files[h].slot>> /\ d.metas[k].root = Files[h].root
      /\ Store!Validated(Files[h]) /\ \A i \in 1 .. Len(Bundles(h)) : BundleFits(h, i)
  BY <1>1 DEF IsMeta
<1>3. k[2] = Files[h].slot /\ k = <<k[1], k[2]>> BY <1>2
<1>4. Len(Bundles(h)) \in 0 .. Len(Bundles(h)) BY <1>2, FileShape
<1>5. /\ VotesUpTo(Built(h, k[1])[Len(Bundles(h))].votes, h, k[1], Len(Bundles(h)))
      /\ StakesUpTo(Built(h, k[1])[Len(Bundles(h))].stakes, h, k[1], Len(Bundles(h)))
  BY <1>2, <1>4, BuiltRows
<1>6. /\ Here(d.votes, k[1], k[2]) = Built(h, k[1])[Len(Bundles(h))].votes
      /\ Here(d.stakes, k[1], k[2]) = Built(h, k[1])[Len(Bundles(h))].stakes
  BY <1>1, <1>3 DEF HoldsUpTo
<1>7. QED BY <1>2, <1>3, <1>5, <1>6 DEF IndexedAt

\* The last migration computes every total that is missing.
LEMMA MigratedTotals ==
    ASSUME Store!ServiceAssumption, StoreInv, TotalsInv, NEW k \in DOMAIN db.metas
    PROVE  LET new == Store!apply_migration_v3[k] IN
           /\ new.hash = db.metas[k].hash
           /\ new.total = Store!total_active_stake(Files[db.metas[k].hash])
<1> DEFINE h == db.metas[k].hash
           n == k[1]
           s == k[2]
           new == Store!apply_migration_v3[k]
<1>1. DbInv(db) BY DEF StoreInv
<1>2. DOMAIN db.metas[k] = {"root", "hash", "total"} BY <1>1 DEF DbInv, IsMeta
<1>3. IndexedAt(db, n, s, h) BY <1>1, SnapshotAt
<1>4. h \in DOMAIN Files /\ Store!Validated(Files[h]) BY <1>3 DEF IndexedAt
<1>5. 1 \in 1 .. Len(Bundles(h))
  <2>1. Bundles(h) # <<>>
    BY <1>4 DEF Store!Validated, Store!reconstruct_meta_merkle_tree, Bundles
  <2>2. Bundles(h) \in Seq(Store!ToSet(Bundles(h)))
    BY <1>4 DEF Store!ServiceAssumption, Store!WellFormed, Bundles
  <2>3. QED BY <2>1, <2>2
<1>6. VotePlace(h, n, 1) \in DOMAIN Here(db.votes, n, s) BY <1>3, <1>5 DEF IndexedAt, VotesUpTo
<1>7. \E v \in DOMAIN db.votes : v[1] = n /\ v[2] = s BY <1>6, RowsHere
<1>8. Store!VoteStake(n, s) = Store!total_active_stake(Files[h])
  <2>1. Store!VoteStake(n, s) = SumOfRows(db.votes, Store!RowsAt(db.votes, n, s))
    BY DEF Store!VoteStake, SumOfRows, Store!RowsAt, Store!MapThenSumSet, Store!MapThenFoldSet
  <2>2. QED BY <1>3, <2>1, TotalOfVotes
<1>9. new = IF db.metas[k].total = None
            THEN [db.metas[k] EXCEPT !.total = Store!VoteStake(n, s)] ELSE db.metas[k]
  BY <1>7 DEF Store!apply_migration_v3
<1>10. TotalOK(db.metas[k], version = 3) BY DEF TotalsInv
<1> HIDE DEF new
<1>11. CASE db.metas[k].total = None
  <2>1. new.hash = h /\ new.total = Store!VoteStake(n, s) BY <1>2, <1>9, <1>11
  <2>2. QED BY <1>8, <2>1 DEF new
<1>12. CASE db.metas[k].total # None BY <1>9, <1>10, <1>12 DEF TotalOK, new
<1>13. QED BY <1>11, <1>12

LEMMA TotalsStart ==
    ASSUME Store!ServiceAssumption, Store!Init
    PROVE  TotalsInv
<1>1. CASE db = Store!EmptyDb
  <2>1. DOMAIN db.metas = {} BY <1>1 DEF Store!EmptyDb, Store!EmptyTable
  <2>2. QED BY <2>1 DEF TotalsInv
<1>2. ASSUME NEW old \in OldUploads, version \in {1, 2}, db = Store!OldDb(old) PROVE TotalsInv
  <2> DEFINE h == old.file
             n == old.network
  <2>1. h \in DOMAIN Files BY DEF Store!ServiceAssumption
  <2>2. DOMAIN Store!Indexed(Store!EmptyDb, h, n) = {"votes", "stakes", "metas"}
    <3>1. Len(Bundles(h)) \in 0 .. Len(Bundles(h)) BY <2>1, FileShape
    <3>2. DOMAIN Built(h, n)[Len(Bundles(h))] = {"votes", "stakes", "metas"}
      BY <2>1, <3>1, BuiltRows
    <3>3. Built(h, n)[Len(Bundles(h))] = Store!Indexed(Store!EmptyDb, h, n)
      BY <2>1, BuiltRows DEF Builds
    <3>4. QED BY <3>2, <3>3
  <2>3. db.metas = Store!MetaRow(h, n, None) BY <1>2, <2>2 DEF Store!OldDb
  <2>4. \A k \in DOMAIN db.metas : db.metas[k].total = None BY <2>3 DEF Store!MetaRow
  <2>5. version # 3 BY <1>2
  <2>6. QED BY <2>4, <2>5 DEF TotalsInv, TotalOK
<1>3. QED BY <1>1, <1>2 DEF Store!Init

LEMMA TotalsSteps ==
    ASSUME Store!ServiceAssumption, StoreInv, TotalsInv, [Store!Next]_(Store!vars)
    PROVE  TotalsInv'
<1>1. CASE UNCHANGED <<db, version>> BY <1>1 DEF TotalsInv, TotalOK
<1>2. ASSUME NEW u \in Uploaders, Store!Commit(u), db' # db PROVE TotalsInv'
  <2> DEFINE x == upload[u]
             r == x.r
             h == r.file
             total == Store!total_active_stake(Files[h])
             q == <<r.network, r.slot>>
  <2>1. x.pc = "indexing" /\ UploadOK(x, db, up) BY <1>2 DEF Store!Commit, StoreInv
  <2>2. Accepted(r) /\ x.tx.metas = db.metas /\ IsDb(x.tx) BY <2>1 DEF UploadOK, Transacts
  <2>3. /\ db' = [x.tx EXCEPT !.metas = Store!Upsert(@, Store!MetaRow(h, r.network, total))]
        /\ version' = version
    BY <1>2 DEF Store!Commit
  <2>4. Files[h].slot = r.slot BY <2>2, AcceptedFile
  <2> HIDE DEF total, x
  <2>5. db'.metas = Store!Upsert(db.metas, Store!MetaRow(h, r.network, total))
    BY <2>2, <2>3 DEF IsDb
  <2>6. /\ DOMAIN db'.metas = DOMAIN db.metas \cup {q}
        /\ db'.metas[q].hash = h /\ db'.metas[q].total = total
        /\ \A k \in DOMAIN db.metas : k # q => db'.metas[k] = db.metas[k]
    BY <2>4, <2>5 DEF Store!Upsert, Store!MetaRow
  <2>7. ASSUME NEW k \in DOMAIN db'.metas PROVE TotalOK(db'.metas[k], version' = 3)
    <3>1. CASE k = q BY <2>6, <3>1 DEF TotalOK, total
    <3>2. CASE k # q BY <2>3, <2>6, <3>2 DEF TotalsInv, TotalOK
    <3>3. QED BY <3>1, <3>2
  <2>8. QED BY <2>7 DEF TotalsInv, TotalOK
<1>3. ASSUME Store!run_migrations PROVE TotalsInv'
  <2>1. CASE version # 2
    <3>1. db' = db /\ version < 3 /\ version' = version + 1 BY <1>3, <2>1 DEF Store!run_migrations
    <3>2. version \in 0 .. 3 BY DEF StoreInv
    <3>3. version' # 3 /\ version # 3 BY <2>1, <3>1, <3>2
    <3>4. QED BY <3>1, <3>3 DEF TotalsInv, TotalOK
  <2>2. CASE version = 2
    <3> DEFINE new == Store!apply_migration_v3
    <3>1. db' = [db EXCEPT !.metas = new] BY <1>3, <2>2 DEF Store!run_migrations
    <3>2. IsDb(db) BY DEF StoreInv, DbInv
    <3>3. DOMAIN new = DOMAIN db.metas BY DEF Store!apply_migration_v3
    <3>4. \A k \in DOMAIN db.metas :
             new[k].total = Store!total_active_stake(Files[new[k].hash])
      BY MigratedTotals
    <3> HIDE DEF new
    <3>5. db'.metas = new BY <3>1, <3>2 DEF IsDb
    <3>6. QED BY <3>3, <3>4, <3>5 DEF TotalsInv, TotalOK
  <2>3. QED BY <2>1, <2>2
<1>4. UNCHANGED <<db, version>> \/ Store!run_migrations \/ \E u \in Uploaders : Store!Commit(u)
  BY DEF Store!Next, Store!vars, Store!Serve, Store!Crash, Store!handle_upload,
     Store!index_snapshot_data, Store!IndexingFails, Store!insert_exec, Store!Respond,
     Store!get_voter_summary, Store!SummaryStakes, Store!SummaryReceived
<1>5. ASSUME NEW u \in Uploaders, Store!Commit(u) PROVE version' = version
  BY <1>5 DEF Store!Commit
<1>6. QED BY <1>1, <1>2, <1>3, <1>4, <1>5

\* QuorumIsOfTheSnapshot of VerifierService (upload.rs:194-209, migrator.rs:134-141):
\* once the service is up, every total is known and is the sum of all the stake
\* accounts in the tables, whether the upload or the migration has computed it.
THEOREM QuorumsAreOfTheSnapshot ==
    ASSUME Store!ServiceAssumption PROVE Store!Spec => []Store!QuorumIsOfTheSnapshot
<1>1. Store!Init => TotalsInv BY TotalsStart
<1>2. StoreInv /\ TotalsInv /\ [Store!Next]_(Store!vars) => TotalsInv' BY TotalsSteps
<1>3. ASSUME StoreInv, TotalsInv PROVE Store!QuorumIsOfTheSnapshot
  <2>1. ASSUME up, NEW k \in DOMAIN db.metas
        PROVE  /\ db.metas[k].total # None
               /\ db.metas[k].total = SumOfRows(db.stakes, Store!RowsAt(db.stakes, k[1], k[2]))
    <3> DEFINE h == db.metas[k].hash
    <3>1. IndexedAt(db, k[1], k[2], h) BY <1>3, SnapshotAt DEF StoreInv
    <3>2. h \in DOMAIN Files /\ Store!Validated(Files[h]) BY <3>1 DEF IndexedAt
    <3>3. version = 3 BY <1>3, <2>1 DEF StoreInv
    <3>4. db.metas[k].total = Store!total_active_stake(Files[h])
      BY <1>3, <3>3 DEF TotalsInv, TotalOK
    <3>5. db.metas[k].total # None BY <3>2, <3>4, SumsOfFile DEF Store!ServiceAssumption
    <3>6. SumOfRows(db.stakes, Store!RowsAt(db.stakes, k[1], k[2])) =
             Store!total_active_stake(Files[h])
      BY <3>1, TotalOfStakes
    <3>7. QED BY <3>4, <3>5, <3>6
  <2>2. QED BY <2>1 DEF Store!QuorumIsOfTheSnapshot, SumOfRows
<1>4. Store!Spec => []StoreInv BY StoreInvAlways
<1>5. QED BY <1>1, <1>2, <1>3, <1>4, PTL DEF Store!Spec

-----------------------------------------------------------------------------
(***************************************************************************)
(* The figures that pages show of the snapshots (ProposalFigures): the     *)
(* same sums, of any validators and stakes, and any age of each answer.    *)
(***************************************************************************)
CONSTANTS Validators, Stakes, FirstStake, Thresholds, Asked, Loading, Missing, MaxMoves,
          MaxSnapshots, MaxRefetches
VARIABLES bps, stake, moves, proposal, supporters, voters, snapshots, page, refetches

Figures == INSTANCE ProposalFigures

Dists == [Validators -> Stakes]
Published == [dist : Dists, recorded : BOOLEAN]
Proposals ==
    [support : Nat, voting : BOOLEAN, finalized : BOOLEAN, snapshotSlot : Nat,
     for : Nat, against : Nat, abstain : Nat]
IsConsistent(p) ==
    /\ p \in Proposals
    /\ p.voting <=> p.snapshotSlot > 0
    /\ p.finalized => p.voting

ProposalInv ==
    /\ IsConsistent(proposal)
    /\ voters # {} => proposal.voting /\ proposal.snapshotSlot \in DOMAIN snapshots
    /\ Figures!CastOf(proposal) =
          IF voters = {} THEN 0 ELSE Total(snapshots[proposal.snapshotSlot].dist, voters)

ChainInv ==
    /\ bps \in Thresholds /\ stake \in Dists /\ moves \in 0 .. MaxMoves
    /\ supporters \subseteq Validators /\ voters \subseteq Validators
    /\ snapshots \in Seq(Published) /\ Len(snapshots) <= MaxSnapshots
    /\ ProposalInv

\* A proposal as it was: once in its vote, of the same snapshot, and with no more
\* votes than by now.
Earlier(p) ==
    /\ IsConsistent(p)
    /\ p.voting => /\ proposal.voting /\ p.snapshotSlot = proposal.snapshotSlot
                   /\ Figures!CastOf(p) <= Figures!CastOf(proposal)

PageInv ==
    /\ DOMAIN page = Figures!Queries
    /\ Figures!HasData("proposal") => Earlier(page.proposal)
    /\ Figures!HasData("validators") => page.validators \in Dists
    /\ Figures!HasData("supporters") => page.supporters \in 0 .. Cardinality(Validators)
    /\ Figures!HasData("config") => page.config \in Thresholds
    /\ Figures!HasData("meta") =>
          /\ page.meta.slot \in DOMAIN snapshots
          /\ page.meta.total \in {None, Figures!TotalOf(snapshots[page.meta.slot].dist)}

FiguresInv == ChainInv /\ PageInv

LEMMA CastIsNat ==
    ASSUME NEW p, IsConsistent(p)
    PROVE  Figures!CastOf(p) \in Nat
<1>1. p \in Proposals BY DEF IsConsistent
<1>2. {p.for, p.against, p.abstain} \subseteq Nat BY <1>1 DEF Proposals
<1>3. QED BY <1>2 DEF Figures!CastOf

LEMMA ValidatorsAreFinite ==
    ASSUME Figures!FiguresAssumption
    PROVE  IsFiniteSet(Validators)
<1>1. Figures!IsFiniteSet(Validators) <=> IsFiniteSet(Validators)
  BY DEF Figures!IsFiniteSet, IsFiniteSet
<1>2. QED BY <1>1 DEF Figures!FiguresAssumption

LEMMA SumOnSet ==
    ASSUME NEW F, NEW R \in SUBSET DOMAIN F, IsFiniteSet(R), \A x \in R : F[x] \in Nat
    PROVE  Figures!SumFunctionOnSet(F, R) = Total(F, R)
<1> DEFINE Body(g) == [s \in SUBSET R |->
                          IF s = {} THEN 0
                          ELSE F[CHOOSE x \in s : TRUE] + g[s \ {CHOOSE x \in s : TRUE}]]
           g == CHOOSE g : g = Body(g)
           sums == [s \in SUBSET R |-> Total(F, s)]
<1>1. Figures!SumFunctionOnSet(F, R) = g[R]
  BY DEF Figures!SumFunctionOnSet, Figures!FoldFunctionOnSet, Figures!MapThenFoldSet
<1>2. \A s \in SUBSET R : IsFiniteSet(s) /\ \A x \in s : F[x] \in Nat BY FS_Subset
<1>3. sums = Body(sums)
  <2>1. ASSUME NEW s \in SUBSET R, s # {}
        PROVE  Total(F, s) = F[CHOOSE x \in s : TRUE] + sums[s \ {CHOOSE x \in s : TRUE}]
    <3>1. PICK x \in s : x = CHOOSE y \in s : TRUE BY <2>1
    <3>2. Total(F, s) = F[x] + Total(F, s \ {x}) BY <1>2, TotalGrows
    <3>3. sums[s \ {x}] = Total(F, s \ {x}) OBVIOUS
    <3> HIDE DEF sums
    <3>4. QED BY <3>1, <3>2, <3>3
  <2>2. Total(F, {}) = 0 BY UnitsOfNone
  <2>3. \A s \in SUBSET R :
           sums[s] = IF s = {} THEN 0
                     ELSE F[CHOOSE x \in s : TRUE] + sums[s \ {CHOOSE x \in s : TRUE}]
    BY <2>1, <2>2
  <2>4. sums = [s \in SUBSET R |-> sums[s]] OBVIOUS
  <2> HIDE DEF sums
  <2>5. QED BY <2>3, <2>4
<1> HIDE DEF sums
<1>4. g = Body(g) BY <1>3
<1> HIDE DEF g
<1>5. Sums(g, F, R)
  <2>1. ASSUME NEW s \in SUBSET R, s # {}
        PROVE  \E x \in s : g[s \ {x}] \in Nat => g[s] = F[x] + g[s \ {x}]
    <3>1. PICK x \in s : x = CHOOSE y \in s : TRUE BY <2>1
    <3>2. g[s] = F[x] + g[s \ {x}] BY <1>4, <2>1, <3>1
    <3>3. QED BY <3>2
  <2>2. g[{}] = 0 BY <1>4
  <2>3. QED BY <2>1, <2>2 DEF Sums
<1>6. QED BY <1>1, <1>2, <1>5, SumIsTotal

\* Fewer terms are no more.
LEMMA TotalOfSome ==
    ASSUME NEW S, IsFiniteSet(S), NEW F, \A x \in S : F[x] \in Nat, NEW s \in SUBSET S
    PROVE  Total(F, s) \in Nat /\ Total(F, S) \in Nat /\ Total(F, s) <= Total(F, S)
<1>1. S \in SUBSET S OBVIOUS
<1>2. /\ IsFiniteSet(Units(F, S)) /\ Total(F, S) \in Nat /\ Total(F, s) \in Nat
  BY <1>1, FiniteUnits
<1>3. Units(F, s) \subseteq Units(F, S) BY DEF Units
<1>4. Cardinality(Units(F, s)) <= Cardinality(Units(F, S)) BY <1>2, <1>3, FS_Subset
<1>5. QED BY <1>2, <1>4 DEF Total

\* The stake of a distribution, and of some of its validators.
LEMMA StakeSums ==
    ASSUME Figures!FiguresAssumption, NEW d \in Dists, NEW S \in SUBSET Validators
    PROVE  /\ Figures!TotalOf(d) = Total(d, Validators) /\ Figures!TotalOf(d) \in Nat \ {0}
           /\ Figures!SumFunctionOnSet(d, S) = Total(d, S) /\ Total(d, S) \in Nat
           /\ Total(d, S) <= Figures!TotalOf(d)
<1>1. /\ IsFiniteSet(Validators) /\ Validators # {} /\ DOMAIN d = Validators
      /\ \A v \in Validators : d[v] \in Nat \ {0}
  <2>1. IsFiniteSet(Validators) BY ValidatorsAreFinite
  <2>2. Validators # {} /\ Stakes \subseteq Nat \ {0} BY DEF Figures!FiguresAssumption
  <2>3. QED BY <2>1, <2>2 DEF Dists
<1>2. IsFiniteSet(S) /\ \A v \in S : d[v] \in Nat BY <1>1, FS_Subset
<1>3. Figures!SumFunctionOnSet(d, S) = Total(d, S) BY <1>1, <1>2, SumOnSet
<1>4. Figures!TotalOf(d) = Total(d, Validators)
  <2>1. Figures!SumFunctionOnSet(d, Validators) = Total(d, Validators) BY <1>1, SumOnSet
  <2>2. QED BY <1>1, <2>1 DEF Figures!TotalOf, Figures!SumFunction
<1>5. Total(d, S) \in Nat /\ Total(d, Validators) \in Nat /\ Total(d, S) <= Total(d, Validators)
  BY <1>1, TotalOfSome
<1>6. Total(d, Validators) # 0
  <2>1. PICK v \in Validators : TRUE BY <1>1
  <2>2. Total(d, Validators) = d[v] + Total(d, Validators \ {v})
        /\ Total(d, Validators \ {v}) \in Nat
    BY <1>1, TotalGrows
  <2>3. QED BY <1>1, <2>2
<1>7. QED BY <1>3, <1>4, <1>5, <1>6

\* Votes that were cast are votes of the snapshot's stake.
LEMMA CastIsBounded ==
    ASSUME Figures!FiguresAssumption, ChainInv, NEW p, Earlier(p),
           p.snapshotSlot \in DOMAIN snapshots
    PROVE  /\ Figures!CastOf(p) \in Nat
           /\ Figures!TotalOf(snapshots[p.snapshotSlot].dist) \in Nat \ {0}
           /\ Figures!CastOf(p) <= Figures!TotalOf(snapshots[p.snapshotSlot].dist)
<1> DEFINE d == snapshots[p.snapshotSlot].dist
<1>1. /\ p.voting /\ p.snapshotSlot = proposal.snapshotSlot
      /\ Figures!CastOf(p) <= Figures!CastOf(proposal)
  <2>1. DOMAIN snapshots = 1 .. Len(snapshots) BY DEF ChainInv
  <2>2. p.snapshotSlot > 0 BY <2>1
  <2>3. QED BY <2>2 DEF Earlier, IsConsistent
<1>2. d \in Dists
  <2>1. snapshots[p.snapshotSlot] \in Published BY DEF ChainInv
  <2>2. QED BY <2>1 DEF Published
<1>3. Figures!CastOf(p) \in Nat /\ Figures!CastOf(proposal) \in Nat
  BY CastIsNat DEF Earlier, ChainInv, ProposalInv
<1>4. Figures!CastOf(proposal) = IF voters = {} THEN 0 ELSE Total(d, voters)
  BY <1>1 DEF ChainInv, ProposalInv
<1>5. /\ Figures!TotalOf(d) \in Nat \ {0} /\ Total(d, voters) \in Nat
      /\ Total(d, voters) <= Figures!TotalOf(d)
  BY <1>2, StakeSums DEF ChainInv
<1> HIDE DEF d
<1>6. Figures!CastOf(p) <= Figures!TotalOf(d) BY <1>1, <1>3, <1>4, <1>5
<1>7. QED BY <1>3, <1>5, <1>6 DEF d

\* Once in its vote a proposal stays there, with the snapshot and the votes it has.
Onward ==
    proposal.voting => /\ proposal'.voting /\ proposal'.snapshotSlot = proposal.snapshotSlot
                       /\ Figures!CastOf(proposal) <= Figures!CastOf(proposal')

\* What the queries hold is of the past, whatever happens on chain.
LEMMA PageStays ==
    ASSUME FiguresInv, page' = page, IsConsistent(proposal'), Onward,
           DOMAIN snapshots \subseteq DOMAIN snapshots',
           \A i \in DOMAIN snapshots : snapshots'[i] = snapshots[i]
    PROVE  PageInv'
<1>1. ASSUME NEW p, Earlier(p)
      PROVE  p.voting => /\ proposal'.voting /\ p.snapshotSlot = proposal'.snapshotSlot
                         /\ Figures!CastOf(p) <= Figures!CastOf(proposal')
  <2>1. SUFFICES ASSUME p.voting
                 PROVE  /\ proposal'.voting /\ p.snapshotSlot = proposal'.snapshotSlot
                        /\ Figures!CastOf(p) <= Figures!CastOf(proposal')
    OBVIOUS
  <2>2. /\ proposal.voting /\ p.snapshotSlot = proposal.snapshotSlot
        /\ Figures!CastOf(p) <= Figures!CastOf(proposal)
    BY <1>1, <2>1 DEF Earlier
  <2>3. /\ Figures!CastOf(p) \in Nat /\ Figures!CastOf(proposal) \in Nat
        /\ Figures!CastOf(proposal') \in Nat
    <3>1. IsConsistent(p) /\ IsConsistent(proposal) /\ IsConsistent(proposal')
      BY <1>1 DEF Earlier, FiguresInv, ChainInv, ProposalInv
    <3>2. QED BY <3>1, CastIsNat
  <2>4. QED BY <2>2, <2>3 DEF Onward
<1>2. Figures!HasData("proposal")' => Earlier(page.proposal)'
  <2>1. Figures!HasData("proposal")' => Earlier(page.proposal)
    BY DEF FiguresInv, PageInv, Figures!HasData
  <2>2. QED BY <1>1, <2>1 DEF Earlier
<1>3. Figures!HasData("meta")' =>
          /\ page'.meta.slot \in DOMAIN snapshots'
          /\ page'.meta.total \in {None, Figures!TotalOf(snapshots'[page'.meta.slot].dist)}
  BY DEF FiguresInv, PageInv, Figures!HasData
<1>4. /\ DOMAIN page' = Figures!Queries
      /\ Figures!HasData("validators")' => page'.validators \in Dists
      /\ Figures!HasData("supporters")' => page'.supporters \in 0 .. Cardinality(Validators)
      /\ Figures!HasData("config")' => page'.config \in Thresholds
  BY DEF FiguresInv, PageInv, Figures!HasData
<1>5. QED BY <1>2, <1>3, <1>4 DEF PageInv

\* Supporters are counted (support_proposal, retally_support).
LEMMA TallyIsConsistent ==
    ASSUME Figures!FiguresAssumption, FiguresInv, ~proposal.voting,
           supporters' \subseteq Validators, proposal' = Figures!Tally(supporters'),
           UNCHANGED <<bps, stake, moves, voters, snapshots, page>>
    PROVE  FiguresInv'
<1> DEFINE support == Figures!SumFunctionOnSet(stake, supporters')
           reached == support >= Figures!min_stake_threshold
           slot == IF reached THEN Len(snapshots) + 1 ELSE 0
<1>1. /\ proposal \in Proposals /\ proposal.finalized = FALSE /\ voters = {}
      /\ Figures!CastOf(proposal) = 0 /\ stake \in Dists /\ Len(snapshots) \in Nat
  BY DEF FiguresInv, ChainInv, ProposalInv, IsConsistent, Proposals
<1>2. support \in Nat BY <1>1, StakeSums
<1>3. proposal' = [proposal EXCEPT !.support = support, !.voting = reached,
                                   !.snapshotSlot = slot]
  BY DEF Figures!Tally
<1>4. reached \in BOOLEAN /\ slot \in Nat /\ (reached <=> slot > 0) BY <1>1
<1> HIDE DEF support, reached, slot
<1>5. /\ proposal' \in Proposals /\ proposal'.voting = reached /\ proposal'.finalized = FALSE
      /\ proposal'.snapshotSlot = slot /\ proposal'.for = proposal.for
      /\ proposal'.against = proposal.against /\ proposal'.abstain = proposal.abstain
  BY <1>1, <1>2, <1>3, <1>4 DEF Proposals
<1>6. IsConsistent(proposal') BY <1>1, <1>4, <1>5 DEF IsConsistent
<1>7. Figures!CastOf(proposal') = 0 BY <1>1, <1>5 DEF Figures!CastOf
<1>8. ProposalInv' BY <1>1, <1>6, <1>7 DEF ProposalInv
<1>9. ChainInv' BY <1>8 DEF FiguresInv, ChainInv
<1>10. PageInv' BY <1>6, PageStays DEF Onward
<1>11. QED BY <1>9, <1>10 DEF FiguresInv

LEMMA VoteIsCounted ==
    ASSUME Figures!FiguresAssumption, FiguresInv, NEW v \in Validators, NEW o \in Figures!Options,
           Figures!CastVote(v, o)
    PROVE  FiguresInv'
<1> DEFINE d == snapshots[proposal.snapshotSlot].dist
<1>1. /\ proposal.voting /\ proposal.snapshotSlot \in DOMAIN snapshots /\ v \notin voters
      /\ voters' = voters \cup {v} /\ proposal' = [proposal EXCEPT ![o] = @ + d[v]]
      /\ UNCHANGED <<bps, stake, moves, supporters, snapshots, page>>
  BY DEF Figures!CastVote
<1>2. d \in Dists /\ IsConsistent(proposal) /\ voters \subseteq Validators
  <2>1. snapshots[proposal.snapshotSlot] \in Published BY <1>1 DEF FiguresInv, ChainInv
  <2>2. d \in Dists BY <2>1 DEF Published
  <2>3. QED BY <2>2 DEF FiguresInv, ChainInv, ProposalInv
<1>3. d[v] \in Nat /\ IsFiniteSet(voters') /\ \A w \in voters' : d[w] \in Nat
  <2>1. IsFiniteSet(Validators) BY ValidatorsAreFinite
  <2>2. Stakes \subseteq Nat BY DEF Figures!FiguresAssumption
  <2>3. voters' \subseteq Validators BY <1>1, <1>2
  <2>4. QED BY <1>2, <2>1, <2>2, <2>3, FS_Subset DEF Dists
<1>4. Total(d, voters') = d[v] + Total(d, voters) /\ Total(d, voters) \in Nat
  <2>1. v \in voters' /\ voters' \ {v} = voters BY <1>1
  <2>2. QED BY <1>3, <2>1, TotalGrows
<1>5. Figures!CastOf(proposal) = Total(d, voters)
  <2>1. Total(d, {}) = 0 BY UnitsOfNone
  <2>2. QED BY <2>1 DEF FiguresInv, ChainInv, ProposalInv
<1> HIDE DEF d
<1>6. /\ IsConsistent(proposal') /\ Figures!CastOf(proposal') = Figures!CastOf(proposal) + d[v]
      /\ proposal'.voting /\ proposal'.snapshotSlot = proposal.snapshotSlot
      /\ Figures!CastOf(proposal) \in Nat
  BY <1>1, <1>2, <1>3 DEF IsConsistent, Proposals, Figures!Options, Figures!CastOf
<1>7. snapshots'[proposal'.snapshotSlot].dist = d BY <1>1, <1>6 DEF d
<1>8. ProposalInv'
  <2>1. voters' # {} /\ proposal'.snapshotSlot \in DOMAIN snapshots' BY <1>1, <1>6
  <2>2. Figures!CastOf(proposal') = Total(d, voters') BY <1>3, <1>4, <1>5, <1>6
  <2>3. QED BY <1>6, <1>7, <2>1, <2>2 DEF ProposalInv
<1>9. ChainInv' BY <1>1, <1>2, <1>8 DEF FiguresInv, ChainInv
<1>10. Onward BY <1>3, <1>6 DEF Onward
<1>11. PageInv' BY <1>1, <1>6, <1>10, PageStays
<1>12. QED BY <1>9, <1>11 DEF FiguresInv

LEMMA SnapshotIsPublished ==
    ASSUME Figures!FiguresAssumption, FiguresInv, NEW recorded \in BOOLEAN,
           Figures!PublishSnapshot(recorded)
    PROVE  FiguresInv'
<1> DEFINE s == [dist |-> stake, recorded |-> recorded]
<1>1. /\ Len(snapshots) < MaxSnapshots /\ snapshots' = Append(snapshots, s)
      /\ UNCHANGED <<bps, stake, moves, proposal, supporters, voters, page>>
  BY DEF Figures!PublishSnapshot
<1>2. s \in Published BY DEF FiguresInv, ChainInv, Published
<1>3. snapshots \in Seq(Published) /\ MaxSnapshots \in Nat
  BY DEF FiguresInv, ChainInv, Figures!FiguresAssumption
<1> HIDE DEF s
<1>4. /\ snapshots' \in Seq(Published) /\ Len(snapshots') <= MaxSnapshots
      /\ DOMAIN snapshots \subseteq DOMAIN snapshots'
      /\ \A i \in DOMAIN snapshots : snapshots'[i] = snapshots[i]
  BY <1>1, <1>2, <1>3
<1>5. IsConsistent(proposal') /\ Onward
  BY <1>1 DEF FiguresInv, ChainInv, ProposalInv, Onward, IsConsistent, Proposals, Figures!CastOf
<1>6. ProposalInv'
  <2>1. voters # {} => snapshots'[proposal.snapshotSlot] = snapshots[proposal.snapshotSlot]
                       /\ proposal.snapshotSlot \in DOMAIN snapshots'
    BY <1>4 DEF FiguresInv, ChainInv, ProposalInv
  <2>2. QED BY <1>1, <2>1 DEF FiguresInv, ChainInv, ProposalInv, IsConsistent, Figures!CastOf
<1>7. ChainInv' BY <1>1, <1>4, <1>6 DEF FiguresInv, ChainInv
<1>8. PageInv' BY <1>1, <1>4, <1>5, PageStays
<1>9. QED BY <1>7, <1>8 DEF FiguresInv

\* The stake moves, or a vote is over.
LEMMA StakeMoves ==
    ASSUME Figures!FiguresAssumption, FiguresInv,
           \/ \E v \in Validators, s \in Stakes : Figures!MoveStake(v, s)
           \/ Figures!Finalize
    PROVE  FiguresInv'
<1>1. /\ stake' \in Dists /\ moves' \in 0 .. MaxMoves
      /\ UNCHANGED <<bps, supporters, voters, snapshots, page>>
      /\ \/ proposal' = proposal
         \/ proposal.voting /\ proposal' = [proposal EXCEPT !.finalized = TRUE]
  <2>1. CASE Figures!Finalize
    BY <2>1 DEF Figures!Finalize, FiguresInv, ChainInv
  <2>2. ASSUME NEW v \in Validators, NEW s \in Stakes, Figures!MoveStake(v, s)
        PROVE  /\ stake' \in Dists /\ moves' \in 0 .. MaxMoves
               /\ UNCHANGED <<bps, proposal, supporters, voters, snapshots, page>>
    <3>1. /\ stake' = [stake EXCEPT ![v] = s] /\ moves < MaxMoves /\ moves' = moves + 1
          /\ UNCHANGED <<bps, proposal, supporters, voters, snapshots, page>>
      BY <2>2 DEF Figures!MoveStake
    <3>2. stake \in Dists /\ moves \in 0 .. MaxMoves /\ MaxMoves \in Nat
      BY DEF FiguresInv, ChainInv, Figures!FiguresAssumption
    <3>3. stake' \in Dists BY <3>1, <3>2 DEF Dists
    <3>4. moves' \in 0 .. MaxMoves BY <3>1, <3>2
    <3>5. QED BY <3>1, <3>3, <3>4
  <2>3. QED BY <2>1, <2>2
<1>2. /\ IsConsistent(proposal') /\ Onward /\ proposal'.voting = proposal.voting
      /\ proposal'.snapshotSlot = proposal.snapshotSlot
      /\ Figures!CastOf(proposal') = Figures!CastOf(proposal)
  <2>1. IsConsistent(proposal) BY DEF FiguresInv, ChainInv, ProposalInv
  <2>2. Figures!CastOf(proposal) \in Nat BY <2>1, CastIsNat
  <2>3. CASE proposal' = proposal BY <2>1, <2>2, <2>3 DEF Onward
  <2>4. CASE proposal.voting /\ proposal' = [proposal EXCEPT !.finalized = TRUE]
    <3>1. /\ proposal' \in Proposals /\ proposal'.voting = proposal.voting
          /\ proposal'.snapshotSlot = proposal.snapshotSlot /\ proposal'.for = proposal.for
          /\ proposal'.against = proposal.against /\ proposal'.abstain = proposal.abstain
      BY <2>1, <2>4 DEF IsConsistent, Proposals
    <3>2. IsConsistent(proposal') BY <2>1, <2>4, <3>1 DEF IsConsistent
    <3>3. Figures!CastOf(proposal') = Figures!CastOf(proposal) BY <3>1 DEF Figures!CastOf
    <3>4. QED BY <2>2, <3>1, <3>2, <3>3 DEF Onward
  <2>5. QED BY <1>1, <2>3, <2>4
<1>3. ProposalInv' BY <1>1, <1>2 DEF FiguresInv, ChainInv, ProposalInv
<1>4. ChainInv' BY <1>1, <1>3 DEF FiguresInv, ChainInv
<1>5. PageInv' BY <1>1, <1>2, PageStays
<1>6. QED BY <1>4, <1>5 DEF FiguresInv

\* A query is answered, or fails.
LEMMA QueryIsAnswered ==
    ASSUME Figures!FiguresAssumption, FiguresInv, NEW q, Figures!Fetch(q) \/ Figures!Fail(q)
    PROVE  FiguresInv'
<1>1. /\ UNCHANGED <<bps, stake, moves, proposal, supporters, voters, snapshots>>
      /\ q = "meta" /\ Figures!Fetch(q) => snapshots # <<>>
      /\ \/ page' = [page EXCEPT ![q] = Missing]
         \/ \E wiz : page' = [page EXCEPT ![q] = Figures!Answer(q, wiz)] /\ Figures!Fetch(q)
  BY DEF Figures!Fetch, Figures!Fail
<1>2. ChainInv' BY <1>1 DEF FiguresInv, ChainInv, ProposalInv, IsConsistent, Proposals,
                            Figures!CastOf
<1>3. PICK a : /\ page' = [page EXCEPT ![q] = a]
               /\ a = Missing \/ \E wiz : a = Figures!Answer(q, wiz)
               /\ q = "meta" => a = Missing \/ snapshots # <<>>
  BY <1>1
<1>4. /\ proposal \in Proposals /\ IsConsistent(proposal) /\ stake \in Dists /\ bps \in Thresholds
      /\ supporters \subseteq Validators /\ snapshots \in Seq(Published)
      /\ DOMAIN page = Figures!Queries
  BY DEF FiguresInv, ChainInv, PageInv, ProposalInv, IsConsistent
<1>5. Earlier(proposal)
  BY <1>4 DEF Earlier, IsConsistent, Proposals, Figures!CastOf
<1>6. /\ q = "proposal" /\ a # Missing => Earlier(a)
      /\ q = "validators" /\ a # Missing => a \in Dists
      /\ q = "supporters" /\ a # Missing => a \in 0 .. Cardinality(Validators)
      /\ q = "config" /\ a # Missing => a \in Thresholds
      /\ q = "meta" /\ a # Missing =>
            a.slot \in DOMAIN snapshots
            /\ a.total \in {None, Figures!TotalOf(snapshots[a.slot].dist)}
  <2>1. CASE a = Missing BY <2>1
  <2>2. ASSUME NEW wiz, a = Figures!Answer(q, wiz), a # Missing
        PROVE  /\ q = "proposal" => Earlier(a)
               /\ q = "validators" => a \in Dists
               /\ q = "supporters" => a \in 0 .. Cardinality(Validators)
               /\ q = "config" => a \in Thresholds
               /\ q = "meta" => /\ a.slot \in DOMAIN snapshots
                                /\ a.total \in {None, Figures!TotalOf(snapshots[a.slot].dist)}
    <3>1. CASE q = "proposal" BY <1>5, <2>2, <3>1 DEF Figures!Answer
    <3>2. CASE q = "validators"
      <4>1. a = [v \in DOMAIN stake |-> stake[v]]
        BY <2>2, <3>2 DEF Figures!Answer, Figures!getValidators
      <4>2. QED BY <1>4, <3>2, <4>1 DEF Dists
    <3>3. CASE q = "supporters"
      <4>1. a = Cardinality(supporters)
        <5>1. Figures!Cardinality(supporters) = Cardinality(supporters)
          BY DEF Figures!Cardinality, Cardinality
        <5>2. QED BY <2>2, <3>3, <5>1 DEF Figures!Answer
      <4>2. IsFiniteSet(Validators) BY ValidatorsAreFinite
      <4>3. /\ Cardinality(supporters) \in Nat /\ Cardinality(Validators) \in Nat
            /\ Cardinality(supporters) <= Cardinality(Validators)
        BY <1>4, <4>2, FS_Subset, FS_CardinalityType
      <4>4. QED BY <3>3, <4>1, <4>3
    <3>4. CASE q = "config" BY <1>4, <2>2, <3>4 DEF Figures!Answer
    <3>5. CASE q = "meta"
      <4> DEFINE n == Len(snapshots)
      <4>1. a = [slot |-> n, total |-> IF snapshots[n].recorded
                                       THEN Figures!TotalOf(snapshots[n].dist) ELSE None]
        BY <2>2, <3>5 DEF Figures!Answer
      <4>2. snapshots # <<>> BY <1>3, <2>2, <3>5
      <4>3. n \in DOMAIN snapshots BY <1>4, <4>2
      <4> HIDE DEF n
      <4>4. QED BY <3>5, <4>1, <4>3
    <3>6. QED BY <3>1, <3>2, <3>3, <3>4, <3>5
  <2>3. QED BY <1>3, <2>1, <2>2
<1>7. /\ DOMAIN page' = Figures!Queries
      /\ \A k \in Figures!Queries : page'[k] = IF k = q THEN a ELSE page[k]
  BY <1>3, <1>4
<1>8. {"proposal", "validators", "supporters", "config", "meta"} \subseteq Figures!Queries
  BY DEF Figures!Queries
<1>9. \A p : Earlier(p) => /\ IsConsistent(p)
                           /\ p.voting => /\ proposal'.voting
                                          /\ p.snapshotSlot = proposal'.snapshotSlot
                                          /\ Figures!CastOf(p) <= Figures!CastOf(proposal')
  BY <1>1 DEF Earlier
<1>10. Figures!HasData("proposal")' => Earlier(page.proposal)'
  <2>1. Figures!HasData("proposal")' => Earlier(page'.proposal)
    BY <1>6, <1>7, <1>8 DEF FiguresInv, PageInv, Figures!HasData
  <2>2. QED BY <1>9, <2>1 DEF Earlier
<1>11. Figures!HasData("meta")' =>
           /\ page'.meta.slot \in DOMAIN snapshots'
           /\ page'.meta.total \in {None, Figures!TotalOf(snapshots'[page'.meta.slot].dist)}
  BY <1>1, <1>6, <1>7, <1>8 DEF FiguresInv, PageInv, Figures!HasData
<1>12. /\ Figures!HasData("validators")' => page'.validators \in Dists
       /\ Figures!HasData("supporters")' => page'.supporters \in 0 .. Cardinality(Validators)
       /\ Figures!HasData("config")' => page'.config \in Thresholds
  BY <1>6, <1>7, <1>8 DEF FiguresInv, PageInv, Figures!HasData
<1>13. PageInv' BY <1>7, <1>10, <1>11, <1>12 DEF PageInv
<1>14. QED BY <1>2, <1>13 DEF FiguresInv

LEMMA FiguresInit ==
    ASSUME Figures!FiguresAssumption, Figures!Init
    PROVE  FiguresInv
<1>1. /\ FirstStake \in Dists /\ MaxMoves \in Nat /\ MaxSnapshots \in Nat
  BY DEF Figures!FiguresAssumption, Dists
<1>2. /\ bps \in Thresholds /\ stake = FirstStake /\ moves = 0 /\ supporters = {} /\ voters = {}
      /\ snapshots = <<>> /\ proposal \in Proposals /\ proposal.voting = FALSE
      /\ proposal.finalized = FALSE /\ proposal.snapshotSlot = 0
      /\ proposal.for = 0 /\ proposal.against = 0 /\ proposal.abstain = 0
  BY DEF Figures!Init, Proposals
<1>3. ChainInv
  <2>1. snapshots \in Seq(Published) /\ Len(snapshots) <= MaxSnapshots /\ moves \in 0 .. MaxMoves
    BY <1>1, <1>2
  <2>2. Figures!CastOf(proposal) = 0 BY <1>2 DEF Figures!CastOf
  <2>3. QED BY <1>1, <1>2, <2>1, <2>2 DEF ChainInv, ProposalInv, IsConsistent
<1>4. /\ DOMAIN page = Figures!Queries
      /\ \A q \in Figures!Queries : page[q] \in {Loading, Missing}
  BY DEF Figures!Init
<1>5. PageInv BY <1>4 DEF PageInv, Figures!HasData, Figures!Queries
<1>6. QED BY <1>3, <1>5 DEF FiguresInv

LEMMA FiguresStep ==
    ASSUME Figures!FiguresAssumption, FiguresInv, [Figures!Next]_(Figures!vars)
    PROVE  FiguresInv'
<1>1. ASSUME NEW v \in Validators, Figures!Support(v) PROVE FiguresInv'
  <2>1. supporters \subseteq Validators BY DEF FiguresInv, ChainInv
  <2>2. QED BY <1>1, <2>1, TallyIsConsistent DEF Figures!Support
<1>2. CASE Figures!RetallySupport
  <2>1. supporters \subseteq Validators BY DEF FiguresInv, ChainInv
  <2>2. proposal' = Figures!Tally(supporters') /\ supporters' = supporters
    BY <1>2 DEF Figures!RetallySupport
  <2>3. QED BY <1>2, <2>1, <2>2, TallyIsConsistent DEF Figures!RetallySupport
<1>3. ASSUME NEW v \in Validators, NEW s \in Stakes, Figures!MoveStake(v, s) PROVE FiguresInv'
  BY <1>3, StakeMoves
<1>4. ASSUME NEW recorded \in BOOLEAN, Figures!PublishSnapshot(recorded) PROVE FiguresInv'
  BY <1>4, SnapshotIsPublished
<1>5. ASSUME NEW v \in Validators, NEW o \in Figures!Options, Figures!CastVote(v, o)
      PROVE  FiguresInv'
  BY <1>5, VoteIsCounted
<1>6. CASE Figures!Finalize BY <1>6, StakeMoves
<1>7. ASSUME NEW q \in Asked, Figures!Fetch(q) \/ Figures!Fail(q) PROVE FiguresInv'
  BY <1>7, QueryIsAnswered
<1>8. CASE UNCHANGED Figures!vars
  BY <1>8 DEF Figures!vars, FiguresInv, ChainInv, ProposalInv, IsConsistent, PageInv, Earlier,
              Figures!CastOf, Figures!HasData
<1>9. QED BY <1>1, <1>2, <1>3, <1>4, <1>5, <1>6, <1>7, <1>8 DEF Figures!Next

\* What computeSupportStats says of support s, stake t and a threshold of b.
SupportReads(stats, s, t, b, crossed) ==
    /\ stats.met <=> crossed \/ (t > 0 /\ s * 10000 >= t * b)
    /\ stats.remaining = IF crossed \/ s * 10000 >= t * b THEN 0 ELSE t * b - s * 10000
    /\ crossed \/ (t > 0 /\ b > 0) => (Figures!AtLeast(stats.progress, 100) <=> stats.met)
    /\ t = 0 => stats.ofTotal = Figures!ZeroRatio
    /\ t = 0 /\ ~crossed => stats.progress = Figures!ZeroRatio

LEMMA StatsRead ==
    ASSUME NEW s \in Nat, NEW t \in Nat, NEW b \in Nat, NEW c, NEW n, NEW crossed \in BOOLEAN
    PROVE  SupportReads(Figures!computeSupportStats(s, t, b, c, n, crossed), s, t, b, crossed)
<1> DEFINE required == t * b
           support == s * 10000
           stats == Figures!computeSupportStats(s, t, b, c, n, crossed)
           live == IF required > 0 THEN Figures!Ratio(s * 1000000, required)
                                   ELSE Figures!ZeroRatio
<1>1. s * 1000000 = 100 * support OBVIOUS
<1>2. /\ required \in Nat /\ support \in Nat
      /\ (t = 0 => required = 0) /\ (t > 0 /\ b > 0 => required > 0)
  OBVIOUS
<1>3. /\ stats.met = (crossed \/ (t > 0 /\ support >= required))
      /\ stats.remaining = IF crossed THEN 0 ELSE Figures!Max({0, required - support})
      /\ stats.progress = IF crossed /\ ~Figures!AtLeast(live, 100) THEN Figures!Ratio(100, 1)
                                                                  ELSE live
      /\ stats.ofTotal = Figures!Percent(s, t)
  BY DEF Figures!computeSupportStats
<1> HIDE DEF required, support
<1>4. live = IF required > 0 THEN Figures!Ratio(100 * support, required) ELSE Figures!ZeroRatio
  BY <1>1
<1> HIDE DEF stats, live
<1>5. stats.met <=> crossed \/ (t > 0 /\ support >= required) BY <1>3
<1>6. Figures!Max({0, required - support}) = IF support >= required THEN 0 ELSE required - support
  <2>1. \E m \in {0, required - support} : \A y \in {0, required - support} : m >= y
    BY <1>2
  <2> DEFINE m == Figures!Max({0, required - support})
  <2>2. m \in {0, required - support} /\ \A y \in {0, required - support} : m >= y
    BY <2>1 DEF Figures!Max
  <2> HIDE DEF m
  <2>3. m = IF support >= required THEN 0 ELSE required - support BY <1>2, <2>2
  <2>4. QED BY <2>3 DEF m
<1>7. required > 0 => (Figures!AtLeast(live, 100) <=> support >= required)
  BY <1>2, <1>4 DEF Figures!AtLeast, Figures!Ratio
<1>8. Figures!AtLeast(Figures!Ratio(100, 1), 100) BY DEF Figures!AtLeast, Figures!Ratio
<1>9. /\ stats.remaining = IF crossed \/ support >= required THEN 0 ELSE required - support
      /\ t = 0 => stats.ofTotal = Figures!ZeroRatio
      /\ t = 0 /\ ~crossed => stats.progress = Figures!ZeroRatio
  <2>1. t = 0 => ~(t > 0) /\ ~(required > 0) BY <1>2
  <2>2. t = 0 => stats.ofTotal = Figures!ZeroRatio BY <1>3, <2>1 DEF Figures!Percent
  <2>3. t = 0 /\ ~crossed => stats.progress = Figures!ZeroRatio BY <1>3, <1>4, <2>1
  <2>4. stats.remaining = IF crossed \/ support >= required THEN 0 ELSE required - support
    BY <1>3, <1>6
  <2>5. QED BY <2>2, <2>3, <2>4
<1>10. crossed \/ (t > 0 /\ b > 0) => (Figures!AtLeast(stats.progress, 100) <=> stats.met)
  <2>1. CASE crossed BY <1>3, <1>5, <1>8, <2>1
  <2>2. CASE ~crossed /\ t > 0 /\ b > 0
    <3>1. stats.progress = live /\ required > 0 BY <1>2, <1>3, <2>2
    <3>2. stats.met <=> support >= required BY <1>5, <2>2
    <3>3. QED BY <1>7, <3>1, <3>2
  <2>3. QED BY <2>1, <2>2
<1>11. QED BY <1>5, <1>9, <1>10 DEF SupportReads, stats, required, support

\* What a page that has the proposal reads of its support.
LEMMA PageReads ==
    ASSUME Figures!FiguresAssumption, FiguresInv, Figures!HasPage
    PROVE  /\ IsConsistent(page.proposal) /\ page.proposal.support \in Nat
           /\ Figures!supportThresholdBps \in Nat /\ Figures!validatorsStake \in Nat
           /\ Figures!HasData("validators") <=> Figures!validatorsStake > 0
           /\ SupportReads(Figures!SupportStats, page.proposal.support, Figures!validatorsStake,
                           Figures!supportThresholdBps, page.proposal.voting)
<1>1. IsConsistent(page.proposal) BY DEF FiguresInv, PageInv, Figures!HasPage, Earlier
<1>2. /\ page.proposal.support \in Nat /\ page.proposal.voting \in BOOLEAN
      /\ (page.proposal.voting \/ page.proposal.finalized) = page.proposal.voting
  BY <1>1 DEF IsConsistent, Proposals
<1>3. Figures!supportThresholdBps \in Nat
  <2>1. Thresholds \subseteq Nat BY DEF Figures!FiguresAssumption
  <2>2. Figures!HasData("config") => page["config"] \in Nat BY <2>1 DEF FiguresInv, PageInv
  <2>3. QED BY <2>2 DEF Figures!supportThresholdBps, Figures!DataOr
<1>4. /\ Figures!validatorsStake \in Nat
      /\ Figures!HasData("validators") <=> Figures!validatorsStake > 0
  <2>1. CASE ~Figures!HasData("validators") BY <2>1 DEF Figures!validatorsStake
  <2>2. CASE Figures!HasData("validators")
    <3>1. page.validators \in Dists BY <2>2 DEF FiguresInv, PageInv
    <3>2. Figures!TotalOf(page.validators) \in Nat \ {0} BY <3>1, StakeSums
    <3>3. QED BY <2>2, <3>2 DEF Figures!validatorsStake
  <2>3. QED BY <2>1, <2>2
<1>5. Figures!SupportStats =
         Figures!computeSupportStats(
            page.proposal.support, Figures!validatorsStake, Figures!supportThresholdBps,
            Figures!DataOr("supporters", 0), Figures!numOfValidators, page.proposal.voting)
  BY <1>2 DEF Figures!SupportStats
<1>6. QED BY <1>1, <1>2, <1>3, <1>4, <1>5, StatsRead

LEMMA SupportIsShown ==
    ASSUME Figures!FiguresAssumption, FiguresInv
    PROVE  /\ Figures!MissingStakeIsNotProgress
           /\ Figures!CrossedStaysCrossed
           /\ Figures!DonutAgreesWithVerdict
<1> SUFFICES ASSUME Figures!HasPage
             PROVE  /\ Figures!MissingStakeIsNotProgress
                    /\ Figures!CrossedStaysCrossed
                    /\ Figures!DonutAgreesWithVerdict
  BY DEF Figures!MissingStakeIsNotProgress, Figures!CrossedStaysCrossed,
         Figures!DonutAgreesWithVerdict
<1> DEFINE stats == Figures!SupportStats
           donut == Figures!SupportDonut(stats)
           s == page.proposal.support
           t == Figures!validatorsStake
           b == Figures!supportThresholdBps
           crossed == page.proposal.voting
<1>1. /\ s \in Nat /\ t \in Nat /\ b \in Nat /\ (Figures!HasData("validators") <=> t > 0)
      /\ SupportReads(stats, s, t, b, crossed)
      /\ crossed \in BOOLEAN /\ (page.proposal.finalized => crossed)
  BY PageReads DEF IsConsistent, Proposals
<1>2. /\ donut.reached = stats.met
      /\ donut.arc = IF Figures!AtLeast(stats.progress, 100) THEN Figures!Ratio(100, 1)
                                                            ELSE stats.progress
      /\ donut.needed = IF stats.met THEN None ELSE stats.remaining
  BY DEF Figures!SupportDonut
<1>3. /\ Figures!Notification.visible = (Figures!AtLeast(stats.progress, 80) \/ stats.met)
      /\ Figures!Notification.reached = stats.met
      /\ Figures!Notification = [visible |-> Figures!Notification.visible,
                                 reached |-> Figures!Notification.reached]
  BY DEF Figures!Notification
<1>4. /\ ~Figures!AtLeast(Figures!ZeroRatio, 100) /\ ~Figures!AtLeast(Figures!ZeroRatio, 80)
      /\ Figures!AtLeast(Figures!Ratio(100, 1), 100)
  BY DEF Figures!AtLeast, Figures!ZeroRatio, Figures!Ratio
<1>5. stats.met \in BOOLEAN BY DEF Figures!SupportStats, Figures!computeSupportStats
<1>6. Figures!SupportBar(stats) =
         IF Figures!AtLeast(stats.ofTotal, 100) THEN Figures!Ratio(100, 1) ELSE stats.ofTotal
  BY DEF Figures!SupportBar
<1>7. Figures!SupportCards # Loading =>
         Figures!SupportCards.required = t * b /\ Figures!SupportCards.support = s
  BY DEF Figures!SupportCards
<1>8. t * b \in Nat BY <1>1
<1> HIDE DEF stats, donut, s, t, b, crossed
<1>9. Figures!MissingStakeIsNotProgress
  BY <1>1, <1>2, <1>3, <1>4, <1>6
     DEF Figures!MissingStakeIsNotProgress, SupportReads, stats, donut, crossed
<1>10. Figures!CrossedStaysCrossed
  BY <1>1, <1>2, <1>3, <1>4, <1>5
     DEF Figures!CrossedStaysCrossed, SupportReads, stats, donut, crossed
<1>11. Figures!DonutAgreesWithVerdict
  <2>1. ASSUME t > 0
        PROVE  /\ stats.met <=> stats.remaining = 0
               /\ stats.remaining # 0 => t * b > s * 10000
               /\ b > 0 => (stats.met <=> Figures!AtLeast(donut.arc, 100))
               /\ stats.met => Figures!Notification.visible
    BY <1>1, <1>2, <1>3, <1>4, <1>5, <1>8, <2>1 DEF SupportReads
  <2>2. QED BY <1>1, <1>2, <1>7, <2>1
               DEF Figures!DonutAgreesWithVerdict, stats, donut, s, t, b
<1>12. QED BY <1>9, <1>10, <1>11

\* Support that reaches the whole part of a quotient lacks less than one.
LEMMA WholeLamports ==
    ASSUME NEW n \in Nat, NEW s \in Nat
    PROVE  s >= n \div 10000 <=> n - s * 10000 < 10000
<1> DEFINE q == n \div 10000
<1>1. q \in Int /\ 10000 * q <= n /\ n < 10000 * q + 10000
  OBVIOUS
<1> HIDE DEF q
<1>2. s >= q <=> n - s * 10000 < 10000
  BY <1>1
<1>3. QED
  BY <1>2 DEF q

LEMMA VerdictIsTheProgramS ==
    ASSUME Figures!FiguresAssumption, FiguresInv
    PROVE  Figures!FreshVerdictIsTheProgramS
<1> DEFINE s == proposal.support
           n == Figures!TotalOf(stake) * bps
           stats == Figures!SupportStats
           activates == Figures!Tally(supporters).voting
<1> SUFFICES ASSUME Figures!HasPage, page.proposal = proposal, ~proposal.voting,
                    page.validators = stake, page.config = bps,
                    proposal.support = Figures!SumFunctionOnSet(stake, supporters)
             PROVE  (activates <=> stats.remaining < 10000) /\ (stats.met => activates)
  BY DEF Figures!FreshVerdictIsTheProgramS
<1>1. /\ stake \in Dists /\ stake \in [Validators -> Stakes] /\ bps \in Nat
      /\ proposal \in Proposals
  <2>1. Thresholds \subseteq Nat BY DEF Figures!FiguresAssumption
  <2>2. bps \in Thresholds /\ stake \in Dists /\ proposal \in Proposals
    BY DEF FiguresInv, ChainInv, ProposalInv, IsConsistent
  <2>3. QED BY <2>1, <2>2 DEF Dists
<1>2. /\ Loading \notin Nat /\ Loading \notin [Validators -> Stakes]
      /\ Missing \notin Nat /\ Missing \notin [Validators -> Stakes]
  <2>1. Loading \in {Loading, Missing, None} /\ Missing \in {Loading, Missing, None} OBVIOUS
  <2>2. QED BY <2>1 DEF Figures!FiguresAssumption, Figures!ValuesDiffer
<1>3. /\ Figures!validatorsStake = Figures!TotalOf(stake) /\ Figures!validatorsStake > 0
      /\ Figures!supportThresholdBps = bps
  <2>1. Figures!HasData("validators") /\ Figures!HasData("config")
    BY <1>1, <1>2 DEF Figures!HasData
  <2>2. Figures!validatorsStake > 0 BY <2>1, PageReads
  <2>3. QED BY <2>1, <2>2 DEF Figures!validatorsStake, Figures!supportThresholdBps, Figures!DataOr
<1>4. s \in Nat /\ n \in Nat
  <2>1. Figures!validatorsStake \in Nat BY PageReads
  <2>2. QED BY <1>1, <1>3, <2>1 DEF Proposals
<1>5. /\ stats.met <=> s * 10000 >= n
      /\ stats.remaining = IF s * 10000 >= n THEN 0 ELSE n - s * 10000
  BY <1>3, PageReads DEF SupportReads
<1>6. activates <=> s >= n \div 10000
  <2> DEFINE support == Figures!SumFunctionOnSet(stake, supporters)
             reached == support >= Figures!min_stake_threshold
             slot == IF reached THEN Len(snapshots) + 1 ELSE 0
  <2>1. Figures!Tally(supporters) = [proposal EXCEPT !.support = support, !.voting = reached,
                                                     !.snapshotSlot = slot]
    BY DEF Figures!Tally
  <2> HIDE DEF support, reached, slot
  <2>2. Figures!Tally(supporters).voting = reached BY <1>1, <2>1 DEF Proposals
  <2>3. Figures!Tally(supporters).voting <=> reached BY <2>2
  <2>4. QED BY <2>3 DEF reached, support, Figures!min_stake_threshold
<1> HIDE DEF s, n, stats, activates
<1>7. s >= n \div 10000 <=> n - s * 10000 < 10000
  BY <1>4, WholeLamports
<1>8. QED BY <1>4, <1>5, <1>6, <1>7

\* The total the vote is measured by, when it is known.
LEMMA DenominatorIsOfTheVote ==
    ASSUME Figures!FiguresAssumption, FiguresInv, Figures!HasPage, Figures!Denominator # None
    PROVE  LET p == page.proposal
               total == Figures!TotalOf(snapshots[p.snapshotSlot].dist)
           IN /\ Figures!HasData("meta") /\ p.snapshotSlot \in DOMAIN snapshots
              /\ Figures!Denominator = total /\ total \in Nat \ {0}
              /\ Figures!CastOf(p) \in Nat /\ Figures!CastOf(p) <= total
              /\ p.voting
<1> DEFINE p == page.proposal
           meta == Figures!DataOr("meta", Missing)
<1>1. /\ meta # Missing /\ p.snapshotSlot # 0 /\ meta.slot = p.snapshotSlot
      /\ Figures!Denominator = meta.total
  BY DEF Figures!Denominator, Figures!resolveQuorumDenominator
<1>2. Figures!HasData("meta") /\ meta = page.meta BY <1>1 DEF Figures!DataOr
<1>3. /\ page.meta.slot \in DOMAIN snapshots
      /\ page.meta.total \in {None, Figures!TotalOf(snapshots[page.meta.slot].dist)}
  BY <1>2 DEF FiguresInv, PageInv
<1>4. Earlier(p) BY DEF FiguresInv, PageInv, Figures!HasPage
<1>5. p.voting
  <2>1. p.snapshotSlot \in Nat BY <1>4 DEF Earlier, IsConsistent, Proposals
  <2>2. QED BY <1>1, <1>4, <2>1 DEF Earlier, IsConsistent
<1>6. p.snapshotSlot \in DOMAIN snapshots BY <1>1, <1>2, <1>3
<1>7. Figures!Denominator = Figures!TotalOf(snapshots[p.snapshotSlot].dist)
  BY <1>1, <1>2, <1>3
<1> HIDE DEF p, meta
<1>8. /\ Figures!CastOf(p) \in Nat
      /\ Figures!TotalOf(snapshots[p.snapshotSlot].dist) \in Nat \ {0}
      /\ Figures!CastOf(p) <= Figures!TotalOf(snapshots[p.snapshotSlot].dist)
  BY <1>4, <1>6, CastIsBounded DEF FiguresInv
<1>9. QED BY <1>2, <1>5, <1>6, <1>7, <1>8 DEF p

\* The card of the vote: unknown, or that of the votes in the snapshot's stake.
LEMMA VoteReads ==
    ASSUME Figures!FiguresAssumption, FiguresInv, Figures!VoteCardShown
    PROVE  LET card == Figures!VoteBreakdown
               total == Figures!Denominator
           IN IF total = None
              THEN /\ card.participation = None /\ card.quorumMet = FALSE
                   /\ \A o \in Figures!Options : card.items[o].ofStake = None
                   /\ card.donut = Figures!QuorumDonut(page.proposal, None)
              ELSE /\ card.participation =
                         Figures!Ratio(Figures!CastOf(page.proposal) * 100, total)
                   /\ card.participation # None
                   /\ card.quorumMet <=> Figures!CastOf(page.proposal) * 3 >= total
                   /\ card.donut = Figures!QuorumDonut(page.proposal, total)
<1> DEFINE card == Figures!VoteBreakdown
           total == Figures!Denominator
           stats == Figures!VoteStats
           cast == Figures!CastOf(page.proposal)
<1>1. Figures!HasPage /\ ~Figures!VoteCardLoading BY DEF Figures!VoteCardShown
<1>2. /\ stats.known = (total # None)
      /\ stats.participation = IF total = None THEN Figures!ZeroRatio
                                               ELSE Figures!Percent(cast, total)
      /\ stats.met = (total # None /\ cast * 3 >= total)
      /\ total = None => stats.stakeShare = None
  BY DEF Figures!VoteStats, Figures!computeProposalVoteStats
<1>3. /\ card.participation = IF stats.known THEN stats.participation ELSE None
      /\ card.quorumMet = (stats.known /\ stats.met)
      /\ card.donut = Figures!QuorumDonut(page.proposal, IF stats.known THEN total ELSE None)
      /\ card.items = [o \in Figures!Options |-> Figures!VoteItem(stats, o)]
  BY <1>1 DEF Figures!VoteBreakdown
<1> HIDE DEF card, total, stats, cast
<1>4. CASE total = None
  <2>1. ASSUME NEW o \in Figures!Options PROVE card.items[o].ofStake = None
    BY <1>2, <1>3, <1>4 DEF Figures!VoteItem
  <2>2. QED BY <1>2, <1>3, <1>4, <2>1 DEF card, total
<1>5. CASE total # None
  <2>1. total \in Nat \ {0} /\ cast \in Nat
    BY <1>1, <1>5, DenominatorIsOfTheVote DEF total, cast
  <2>2. card.participation = Figures!Ratio(cast * 100, total)
    <3>1. stats.known = TRUE BY <1>2, <1>5
    <3>2. card.participation = Figures!Percent(cast, total) BY <1>2, <1>3, <1>5, <3>1
    <3>3. QED BY <2>1, <3>2 DEF Figures!Percent
  <2>3. Figures!Ratio(cast * 100, total) \in [num : Nat, den : Nat] BY <2>1 DEF Figures!Ratio
  <2>4. None \notin [num : Nat, den : Nat]
    <3>1. None \in {Loading, Missing, None} OBVIOUS
    <3>2. QED BY <3>1 DEF Figures!FiguresAssumption, Figures!ValuesDiffer
  <2>5. card.quorumMet <=> cast * 3 >= total BY <1>2, <1>3, <1>5
  <2>6. card.donut = Figures!QuorumDonut(page.proposal, total) BY <1>2, <1>3, <1>5
  <2>7. QED BY <1>5, <2>2, <2>3, <2>4, <2>5, <2>6 DEF card, total, cast
<1>6. QED BY <1>4, <1>5

LEMMA VoteIsShown ==
    ASSUME Figures!FiguresAssumption, FiguresInv
    PROVE  /\ Figures!QuorumIsOfTheVotesSnapshot
           /\ Figures!MarkerMeansQuorum
           /\ Figures!UnknownIsShownAsUnknown
<1> DEFINE card == Figures!VoteBreakdown
           total == Figures!Denominator
           p == page.proposal
           cast == Figures!CastOf(p)
<1>1. ASSUME Figures!VoteCardShown
      PROVE  /\ total = None => /\ card.participation = None /\ card.quorumMet = FALSE
                                /\ \A o \in Figures!Options : card.items[o].ofStake = None
                                /\ card.donut = Figures!QuorumDonut(p, None)
             /\ total # None => /\ card.participation = Figures!Ratio(cast * 100, total)
                                /\ card.participation # None
                                /\ card.quorumMet <=> cast * 3 >= total
                                /\ card.donut = Figures!QuorumDonut(p, total)
  BY <1>1, VoteReads
<1>2. ASSUME Figures!HasPage, total # None
      PROVE  /\ Figures!HasData("meta") /\ p.snapshotSlot \in DOMAIN snapshots
             /\ total = Figures!TotalOf(snapshots[p.snapshotSlot].dist)
             /\ total \in Nat \ {0} /\ cast \in Nat /\ cast <= total
  BY <1>2, DenominatorIsOfTheVote
<1>3. Figures!HasPage => p \in Proposals
  BY DEF FiguresInv, PageInv, Figures!HasPage, Earlier, IsConsistent
<1>4. Figures!VoteCardShown => Figures!HasPage BY DEF Figures!VoteCardShown
<1> HIDE DEF card, total
<1>5. Figures!QuorumIsOfTheVotesSnapshot
  <2> SUFFICES ASSUME Figures!VoteCardShown, total # None
               PROVE  LET shown == card.participation
                          of == Figures!TotalOf(snapshots[p.snapshotSlot].dist)
                      IN /\ p.snapshotSlot \in DOMAIN snapshots
                         /\ Figures!SameRatio(shown, Figures!Percent(cast, of))
                         /\ shown.num <= 100 * shown.den
                         /\ card.quorumMet <=> cast * 3 >= of
    BY <1>1 DEF Figures!QuorumIsOfTheVotesSnapshot, card
  <2>1. card.participation = Figures!Percent(cast, total)
    BY <1>1, <1>2, <1>4 DEF Figures!Percent
  <2>2. Figures!SameRatio(card.participation, Figures!Percent(cast, total))
    BY <2>1 DEF Figures!SameRatio
  <2>3. card.participation.num = cast * 100 /\ card.participation.den = total
    BY <1>1 DEF Figures!Ratio
  <2>4. QED BY <1>1, <1>2, <1>4, <2>2, <2>3
<1>6. Figures!MarkerMeansQuorum
  <2> SUFFICES ASSUME Figures!VoteCardShown
               PROVE  /\ Figures!ReachesMarker(card.donut) <=> card.quorumMet
                      /\ card.donut.centre = None <=> card.participation = None
                      /\ Figures!SameRatio(card.donut.offset.against, card.donut.length.for)
    BY DEF Figures!MarkerMeansQuorum, card
  <2>1. /\ p.for \in Nat /\ p.against \in Nat /\ p.abstain \in Nat
        /\ cast = p.for + p.against + p.abstain
    BY <1>3, <1>4 DEF Proposals, Figures!CastOf
  <2>2. ASSUME NEW t
        PROVE  LET donut == Figures!QuorumDonut(p, t)
               IN /\ donut.centre = t
                  /\ donut.end = IF t = None THEN Figures!ZeroRatio
                                 ELSE Figures!Percent(p.for + p.against + p.abstain, t)
                  /\ donut.offset.against = IF t = None THEN Figures!ZeroRatio
                                            ELSE Figures!Percent(p.for + 0, t)
                  /\ donut.length.for = IF t = None THEN Figures!ZeroRatio
                                        ELSE Figures!Percent(p.for, t)
    BY DEF Figures!QuorumDonut, Figures!Options
  <2>3. CASE total = None
    <3>1. card.donut.end = Figures!ZeroRatio /\ card.donut.centre = None
          /\ card.donut.offset.against = Figures!ZeroRatio
          /\ card.donut.length.for = Figures!ZeroRatio
      BY <1>1, <2>2, <2>3
    <3>2. ~Figures!ReachesMarker(card.donut)
      BY <3>1 DEF Figures!ReachesMarker, Figures!ZeroRatio, Figures!Ratio
    <3>3. QED BY <1>1, <2>3, <3>1, <3>2 DEF Figures!SameRatio
  <2>4. CASE total # None
    <3>1. /\ card.donut.end = Figures!Percent(cast, total) /\ card.donut.centre = total
          /\ card.donut.offset.against = Figures!Percent(p.for + 0, total)
          /\ card.donut.length.for = Figures!Percent(p.for, total)
      BY <1>1, <2>1, <2>2, <2>4
    <3>2. total \in Nat \ {0} /\ cast \in Nat BY <1>2, <1>4, <2>4
    <3>3. card.donut.end.num = cast * 100 /\ card.donut.end.den = total
      BY <3>1, <3>2 DEF Figures!Percent, Figures!Ratio
    <3>4. Figures!ReachesMarker(card.donut) <=> cast * 3 >= total
      BY <3>2, <3>3 DEF Figures!ReachesMarker
    <3>5. p.for + 0 = p.for BY <2>1
    <3>6. Figures!SameRatio(card.donut.offset.against, card.donut.length.for)
      BY <3>1, <3>5 DEF Figures!SameRatio
    <3>7. QED BY <1>1, <2>4, <3>1, <3>4, <3>6
  <2>5. QED BY <2>3, <2>4
<1>7. Figures!UnknownIsShownAsUnknown
  <2> SUFFICES ASSUME Figures!HasPage, ~Figures!HasData("meta") \/ total = None
               PROVE  /\ Figures!ParticipationCell \in {Loading, None}
                      /\ Figures!VoteCardShown =>
                            /\ card.participation = None
                            /\ \A o \in Figures!Options : card.items[o].ofStake = None
                      /\ cast > 0 => Figures!VoteBreakdownCell # None
    BY DEF Figures!UnknownIsShownAsUnknown, card, total
  <2>1. total = None BY <1>2
  <2>2. Figures!ParticipationCell \in {Loading, None}
    <3>1. Figures!VoteStats.known = FALSE
      BY <2>1 DEF Figures!VoteStats, Figures!computeProposalVoteStats, total
    <3>2. QED BY <3>1 DEF Figures!ParticipationCell
  <2>3. ASSUME cast > 0 PROVE Figures!VoteBreakdownCell # None
    <3>1. /\ p.for \in Nat /\ p.against \in Nat /\ p.abstain \in Nat /\ cast \in Nat
      BY <1>3 DEF Proposals, Figures!CastOf
    <3>2. Figures!VoteBreakdownCell =
             [o \in Figures!Options |-> Figures!Percent(p[o], cast)]
      BY <2>3 DEF Figures!VoteBreakdownCell, Figures!VoteStats, Figures!computeProposalVoteStats
    <3>3. ASSUME NEW o \in Figures!Options
          PROVE  Figures!Percent(p[o], cast) \in [num : Nat, den : Nat]
      <4>1. p[o] \in Nat BY <3>1 DEF Figures!Options
      <4>2. QED BY <2>3, <3>1, <4>1 DEF Figures!Percent, Figures!Ratio
    <3>4. Figures!VoteBreakdownCell \in [Figures!Options -> [num : Nat, den : Nat]]
      BY <3>2, <3>3
    <3>5. None \in {Loading, Missing, None} OBVIOUS
    <3>6. QED BY <3>4, <3>5 DEF Figures!FiguresAssumption, Figures!ValuesDiffer
  <2>4. QED BY <1>1, <2>1, <2>2, <2>3
<1>8. QED BY <1>5, <1>6, <1>7

LEMMA FiguresHaveTypes ==
    ASSUME FiguresInv
    PROVE  Figures!FiguresTypeOK
<1>1. Figures!Cardinality(Validators) = Cardinality(Validators)
  BY DEF Figures!Cardinality, Cardinality
<1>2. QED BY <1>1 DEF FiguresInv, ChainInv, ProposalInv, PageInv, IsConsistent, Dists,
                      Figures!FiguresTypeOK

\* When a card shows that quorum is met.
QuorumReads ==
    Figures!VoteCardShown =>
       LET card == Figures!VoteBreakdown
           p == page.proposal
       IN card.quorumMet <=>
             /\ card.participation # None
             /\ Figures!CastOf(p) * 3 >= Figures!TotalOf(snapshots[p.snapshotSlot].dist)

LEMMA QuorumIsRead ==
    ASSUME Figures!FiguresAssumption, FiguresInv
    PROVE  QuorumReads
<1> SUFFICES ASSUME Figures!VoteCardShown PROVE QuorumReads BY DEF QuorumReads
<1>1. Figures!HasPage BY DEF Figures!VoteCardShown
<1>2. CASE Figures!Denominator = None BY <1>2, VoteReads DEF QuorumReads
<1>3. CASE Figures!Denominator # None
  BY <1>1, <1>3, VoteReads, DenominatorIsOfTheVote DEF QuorumReads
<1>4. QED BY <1>2, <1>3

LEMMA QuorumStays ==
    ASSUME Figures!FiguresAssumption, FiguresInv, FiguresInv', QuorumReads, QuorumReads',
           [Figures!Next]_(Figures!vars)
    PROVE  [Figures!QuorumIsNotUnmet]_(Figures!vars)
<1> DEFINE card == Figures!VoteBreakdown
           p == page.proposal
           total == Figures!TotalOf(snapshots[p.snapshotSlot].dist)
<1> SUFFICES ASSUME Figures!VoteCardShown, Figures!VoteCardShown', page' # page,
                    card.quorumMet, card'.participation # None
             PROVE  card'.quorumMet
  BY DEF Figures!QuorumIsNotUnmet
<1>1. PICK q : Figures!Fetch(q) \/ Figures!Fail(q)
  BY DEF Figures!Next, Figures!vars, Figures!Support, Figures!RetallySupport, Figures!MoveStake,
         Figures!PublishSnapshot, Figures!CastVote, Figures!Finalize
<1>2. /\ UNCHANGED <<proposal, snapshots>> /\ DOMAIN page = Figures!Queries
      /\ \E a : page' = [page EXCEPT ![q] = a] /\ (q = "proposal" => a \in {proposal, Missing})
  BY <1>1 DEF Figures!Fetch, Figures!Fail, Figures!Answer, FiguresInv, PageInv
<1>3. page'["proposal"] # Missing
  BY DEF Figures!VoteCardShown, Figures!HasPage, Figures!HasData
<1>4. p' = p \/ p' = proposal BY <1>2, <1>3 DEF Figures!Queries
<1>5. Earlier(p) /\ p.voting /\ card.participation # None
      /\ Figures!CastOf(p) * 3 >= total /\ total \in Nat \ {0}
  <2>1. Figures!HasPage BY DEF Figures!VoteCardShown
  <2>2. card.participation # None /\ Figures!CastOf(p) * 3 >= total BY DEF QuorumReads
  <2>3. Figures!Denominator # None BY <2>2, VoteReads
  <2>4. QED BY <2>1, <2>2, <2>3, DenominatorIsOfTheVote
            DEF FiguresInv, PageInv, Figures!HasPage
<1>6. /\ p'.snapshotSlot = p.snapshotSlot /\ Figures!CastOf(p) <= Figures!CastOf(p')
      /\ Figures!CastOf(p) \in Nat /\ Figures!CastOf(p') \in Nat
  <2>1. IsConsistent(p) /\ IsConsistent(proposal)
    BY <1>5 DEF Earlier, FiguresInv, ChainInv, ProposalInv
  <2>2. Figures!CastOf(p) \in Nat /\ Figures!CastOf(proposal) \in Nat BY <2>1, CastIsNat
  <2>3. p.snapshotSlot = proposal.snapshotSlot /\ Figures!CastOf(p) <= Figures!CastOf(proposal)
    BY <1>5 DEF Earlier
  <2>4. CASE p' = p
    <3>1. Figures!CastOf(p') = Figures!CastOf(p) BY <2>4 DEF Figures!CastOf
    <3>2. QED BY <2>2, <2>4, <3>1
  <2>5. CASE p' = proposal
    <3>1. Figures!CastOf(p') = Figures!CastOf(proposal) BY <2>5 DEF Figures!CastOf
    <3>2. QED BY <2>2, <2>3, <2>5, <3>1
  <2>6. QED BY <1>4, <2>4, <2>5
<1>7. total' = total BY <1>2, <1>6
<1>8. Figures!CastOf(p') * 3 >= total BY <1>5, <1>6
<1>9. card'.quorumMet <=> card'.participation # None /\ Figures!CastOf(p') * 3 >= total'
  BY DEF QuorumReads
<1>10. QED BY <1>7, <1>8, <1>9

\* What pages and tables show of a proposal's support and vote, whatever the age
\* of each answer: no progress without a known stake, a crossed threshold stays
\* crossed, ring, verdict and missing amount agree; the program activates exactly
\* when less than a lamport is shown as missing, and always when nothing is; the vote
\* is measured by its own snapshot, bounded by it, agrees with the marker, is unknown
\* without a total, and a quorum that was met stays met
\* (computeSupportStats, computeProposalVoteStats, resolveQuorumDenominator).
THEOREM FiguresAreSound ==
    ASSUME Figures!FiguresAssumption
    PROVE  Figures!Spec => /\ []Figures!FiguresTypeOK
                           /\ []Figures!MissingStakeIsNotProgress
                           /\ []Figures!CrossedStaysCrossed
                           /\ []Figures!DonutAgreesWithVerdict
                           /\ []Figures!FreshVerdictIsTheProgramS
                           /\ []Figures!QuorumIsOfTheVotesSnapshot
                           /\ []Figures!MarkerMeansQuorum
                           /\ []Figures!UnknownIsShownAsUnknown
                           /\ [][Figures!QuorumIsNotUnmet]_(Figures!vars)
<1>1. Figures!Init => FiguresInv BY FiguresInit
<1>2. FiguresInv /\ [Figures!Next]_(Figures!vars) => FiguresInv' BY FiguresStep
<1>3. FiguresInv => /\ Figures!FiguresTypeOK /\ Figures!MissingStakeIsNotProgress
                    /\ Figures!CrossedStaysCrossed /\ Figures!DonutAgreesWithVerdict
                    /\ Figures!FreshVerdictIsTheProgramS /\ Figures!QuorumIsOfTheVotesSnapshot
                    /\ Figures!MarkerMeansQuorum /\ Figures!UnknownIsShownAsUnknown
                    /\ QuorumReads
  BY FiguresHaveTypes, SupportIsShown, VerdictIsTheProgramS, VoteIsShown, QuorumIsRead
<1>4. /\ FiguresInv /\ FiguresInv' /\ QuorumReads /\ QuorumReads'
      /\ [Figures!Next]_(Figures!vars)
      => [Figures!QuorumIsNotUnmet]_(Figures!vars)
  BY QuorumStays
<1>5. QED BY <1>1, <1>2, <1>3, <1>4, PTL DEF Figures!Spec

-----------------------------------------------------------------------------
(***************************************************************************)
(* The link to a proposal's document (ProposalLinks), for any paths,       *)
(* segments a user adds, numbers of edits and limit on segments.           *)
(***************************************************************************)
CONSTANTS Bases, Insertions, MaxSegments, MaxEdits
VARIABLES field, edits, sent, stored

Linking == INSTANCE ProposalLinks

\* The strings: the provers do not know that a literal is one.
Names == STRING \cup {"org", "repo"}
Segments == Seq(Names)
IsEmpty(t) == t = ""

LEMMA SegmentsFacts ==
    ASSUME NEW s \in Segments
    PROVE  /\ Len(s) \in Nat /\ DOMAIN s = 1 .. Len(s)
           /\ \A i \in 1 .. Len(s) : s[i] \in Names
BY DEF Segments

LEMMA NoSegments ==
    <<>> \in Segments /\ Len(<<>>) = 0
BY DEF Segments

LEMMA AppendFacts ==
    ASSUME NEW s \in Segments, NEW t \in Names
    PROVE  /\ Append(s, t) \in Segments
           /\ Len(Append(s, t)) = Len(s) + 1
           /\ \A i \in 1 .. Len(s) : Append(s, t)[i] = s[i]
           /\ Append(s, t)[Len(s) + 1] = t
BY AppendProperties DEF Segments

LEMMA NamedUnlessEmpty ==
    ASSUME NEW names, NEW t
    PROVE  Linking!Named(names, t) = IF IsEmpty(t) THEN names ELSE Append(names, t)
BY DEF Linking!Named, IsEmpty

\* A path into the approved repository.
Opens(s) == Len(s) >= 2 /\ s[1] = "org" /\ s[2] = "repo"

\* Its segments are names.
LEMMA OrgAndRepo ==
    /\ "org" \in Names /\ "repo" \in Names
    /\ ~IsEmpty("org") /\ ~IsEmpty("repo")
<1>1. "org" # "" /\ "repo" # "" OBVIOUS
<1>2. "org" \in Names /\ "repo" \in Names BY DEF Names
<1>3. QED BY <1>1, <1>2, Zenon DEF IsEmpty

LEMMA PrefixFacts ==
    ASSUME NEW s \in Segments, NEW m \in 0 .. Len(s)
    PROVE  /\ SubSeq(s, 1, m) \in Segments
           /\ Len(SubSeq(s, 1, m)) = m
           /\ \A i \in 1 .. m : SubSeq(s, 1, m)[i] = s[i]
           /\ m = 0 => SubSeq(s, 1, m) = <<>>
           /\ m = Len(s) => SubSeq(s, 1, m) = s
<1>1. /\ Len(s) \in Nat /\ DOMAIN s = 1 .. Len(s)
      /\ \A i \in 1 .. Len(s) : s[i] \in Names
  BY SegmentsFacts
<1>2. 1 \in Int /\ m \in Int /\ \A i \in 1 .. m : s[i] \in Names BY <1>1
<1>3. /\ SubSeq(s, 1, m) \in Segments
      /\ Len(SubSeq(s, 1, m)) = IF 1 <= m THEN m - 1 + 1 ELSE 0
      /\ \A i \in 1 .. m - 1 + 1 : SubSeq(s, 1, m)[i] = s[1 + i - 1]
  BY <1>2, SubSeqProperties DEF Segments
<1>4. m = 0 => SubSeq(s, 1, m) = <<>> BY SubSeqEmpty
<1>5. m = Len(s) => SubSeq(s, 1, m) = s BY SubSeqFull DEF Segments
<1>6. m - 1 + 1 = m /\ \A i \in 1 .. m : 1 + i - 1 = i BY <1>1
<1>7. m \in Nat /\ (~(1 <= m) => m = 0) BY <1>1
<1>8. QED BY <1>3, <1>4, <1>5, <1>6, <1>7

LEMMA ResolvedType ==
    ASSUME NEW names \in Segments, NEW t \in Names
    PROVE  Linking!Resolved(names, t) \in Segments
<1>1. Append(names, t) \in Segments BY AppendFacts
<1>2. names # <<>> => SubSeq(names, 1, Len(names) - 1) \in Segments
  <2>1. names # <<>> => Len(names) # 0 BY EmptySeq DEF Segments
  <2>2. Len(names) \in Nat BY SegmentsFacts
  <2>3. names # <<>> => Len(names) - 1 \in 0 .. Len(names) BY <2>1, <2>2
  <2>4. QED BY <2>3, PrefixFacts
<1> HIDE DEF Segments
<1>3. QED BY <1>1, <1>2 DEF Linking!Resolved, Linking!DropLast

LEMMA NamedType ==
    ASSUME NEW names \in Segments, NEW t \in Names
    PROVE  Linking!Named(names, t) \in Segments
BY AppendFacts, NamedUnlessEmpty

\* The URL parser of the browser goes through the segments one by one.
LEMMA UrlPathSteps ==
    ASSUME NEW segs \in Segments
    PROVE  \E acc \in [0 .. Len(segs) -> Segments] :
              /\ acc[0] = <<>>
              /\ \A k \in 1 .. Len(segs) : acc[k] = Linking!Resolved(acc[k - 1], segs[k])
              /\ Linking!UrlPath(segs) = acc[Len(segs)]
<1> DEFINE n == Len(segs)
           Body(D, g) == [s \in SUBSET D |->
                             IF s = {} THEN <<>>
                             ELSE Linking!Resolved(g[s \ {Linking!Max(s)}], segs[Linking!Max(s)])]
           next == [x \in Segments \X (1 .. n) |-> Linking!Resolved(x[1], segs[x[2]])]
<1>0. \A s : Linking!Max(s) = Max(s) BY DEF Linking!Max, Max
<1>1. n \in Nat /\ DOMAIN segs = 1 .. n /\ \A i \in 1 .. n : segs[i] \in Names BY SegmentsFacts
<1>2. Linking!UrlPath(segs) = (CHOOSE g : g = Body(DOMAIN segs, g))[DOMAIN segs]
  BY DEF Linking!UrlPath, Linking!FoldLeft, Linking!MapThenFoldSet
<1>3. next \in [Segments \X (1 .. n) -> Segments] BY <1>1, ResolvedType
<1>4. \A names \in Segments, i \in 1 .. n : next[<<names, i>>] = Linking!Resolved(names, segs[i])
  OBVIOUS
<1>20. <<>> \in Segments BY NoSegments
<1> HIDE DEF n, next
<1>5. PICK f \in [SUBSET (1 .. n) -> Segments] : Iterates(f, <<>>, next, n)
  BY <1>1, <1>3, <1>20, IterationExists
<1>6. f = Body(1 .. n, f)
  <2>1. ASSUME NEW s \in SUBSET (1 .. n), s # {}
        PROVE  f[s] = Linking!Resolved(f[s \ {Linking!Max(s)}], segs[Linking!Max(s)])
    <3>1. Max(s) \in 1 .. n BY <1>1, <2>1, MaxOfSome
    <3>2. f[s \ {Max(s)}] \in Segments OBVIOUS
    <3>3. QED BY <1>0, <1>4, <1>5, <2>1, <3>1, <3>2 DEF Iterates
  <2>2. f[{}] = <<>> BY <1>5 DEF Iterates
  <2>3. QED BY <2>1, <2>2
<1> DEFINE g == CHOOSE g : g = Body(1 .. n, g)
<1>7. g = Body(1 .. n, g) BY <1>6
<1>8. Linking!UrlPath(segs) = g[1 .. n] BY <1>1, <1>2
<1> HIDE DEF g
<1>9. g[{}] = <<>> BY <1>7
<1>10. IteratesIn(Segments, g, <<>>, next, n)
  <2>1. ASSUME NEW s \in SUBSET (1 .. n), s # {}, g[s \ {Max(s)}] \in Segments
        PROVE  g[s] = next[<<g[s \ {Max(s)}], Max(s)>>]
    <3>1. Max(s) \in 1 .. n BY <1>1, <2>1, MaxOfSome
    <3>2. QED BY <1>0, <1>4, <1>7, <2>1, <3>1
  <2>2. QED BY <1>9, <2>1 DEF IteratesIn
<1>11. PICK acc : Accumulates(Segments, acc, <<>>, next, n) /\ acc[n] = g[1 .. n]
  <2>1. Reaches(Segments, g[1 .. n], <<>>, next, n)
    BY <1>1, <1>3, <1>10, <1>20, IterationIsInOrder
  <2>2. QED BY <2>1 DEF Reaches
<1>12. \A k \in 1 .. n : acc[k] = Linking!Resolved(acc[k - 1], segs[k])
  <2>1. \A k \in 1 .. n : k - 1 \in 0 .. n BY <1>1
  <2>2. QED BY <1>4, <1>11, <2>1 DEF Accumulates
<1>13. QED BY <1>8, <1>11, <1>12 DEF n, Accumulates

\* So does dropping the empty segments.
LEMMA NonEmptySteps ==
    ASSUME NEW segs \in Segments
    PROVE  \E acc \in [0 .. Len(segs) -> Segments] :
              /\ acc[0] = <<>>
              /\ \A k \in 1 .. Len(segs) : acc[k] = Linking!Named(acc[k - 1], segs[k])
              /\ Linking!NonEmpty(segs) = acc[Len(segs)]
<1> DEFINE n == Len(segs)
           Body(D, g) == [s \in SUBSET D |->
                             IF s = {} THEN <<>>
                             ELSE Linking!Named(g[s \ {Linking!Max(s)}], segs[Linking!Max(s)])]
           next == [x \in Segments \X (1 .. n) |-> Linking!Named(x[1], segs[x[2]])]
<1>0. \A s : Linking!Max(s) = Max(s) BY DEF Linking!Max, Max
<1>1. n \in Nat /\ DOMAIN segs = 1 .. n /\ \A i \in 1 .. n : segs[i] \in Names BY SegmentsFacts
<1>2. Linking!NonEmpty(segs) = (CHOOSE g : g = Body(DOMAIN segs, g))[DOMAIN segs]
  BY DEF Linking!NonEmpty, Linking!FoldLeft, Linking!MapThenFoldSet
<1>3. next \in [Segments \X (1 .. n) -> Segments] BY <1>1, NamedType
<1>4. \A names \in Segments, i \in 1 .. n : next[<<names, i>>] = Linking!Named(names, segs[i])
  OBVIOUS
<1>20. <<>> \in Segments BY NoSegments
<1> HIDE DEF n, next
<1>5. PICK f \in [SUBSET (1 .. n) -> Segments] : Iterates(f, <<>>, next, n)
  BY <1>1, <1>3, <1>20, IterationExists
<1>6. f = Body(1 .. n, f)
  <2>1. ASSUME NEW s \in SUBSET (1 .. n), s # {}
        PROVE  f[s] = Linking!Named(f[s \ {Linking!Max(s)}], segs[Linking!Max(s)])
    <3>1. Max(s) \in 1 .. n BY <1>1, <2>1, MaxOfSome
    <3>2. f[s \ {Max(s)}] \in Segments OBVIOUS
    <3>3. QED BY <1>0, <1>4, <1>5, <2>1, <3>1, <3>2 DEF Iterates
  <2>2. f[{}] = <<>> BY <1>5 DEF Iterates
  <2>3. QED BY <2>1, <2>2
<1> DEFINE g == CHOOSE g : g = Body(1 .. n, g)
<1>7. g = Body(1 .. n, g) BY <1>6
<1>8. Linking!NonEmpty(segs) = g[1 .. n] BY <1>1, <1>2
<1> HIDE DEF g
<1>9. g[{}] = <<>> BY <1>7
<1>10. IteratesIn(Segments, g, <<>>, next, n)
  <2>1. ASSUME NEW s \in SUBSET (1 .. n), s # {}, g[s \ {Max(s)}] \in Segments
        PROVE  g[s] = next[<<g[s \ {Max(s)}], Max(s)>>]
    <3>1. Max(s) \in 1 .. n BY <1>1, <2>1, MaxOfSome
    <3>2. QED BY <1>0, <1>4, <1>7, <2>1, <3>1
  <2>2. QED BY <1>9, <2>1 DEF IteratesIn
<1>11. PICK acc : Accumulates(Segments, acc, <<>>, next, n) /\ acc[n] = g[1 .. n]
  <2>1. Reaches(Segments, g[1 .. n], <<>>, next, n)
    BY <1>1, <1>3, <1>10, <1>20, IterationIsInOrder
  <2>2. QED BY <2>1 DEF Reaches
<1>12. \A k \in 1 .. n : acc[k] = Linking!Named(acc[k - 1], segs[k])
  <2>1. \A k \in 1 .. n : k - 1 \in 0 .. n BY <1>1
  <2>2. QED BY <1>4, <1>11, <2>1 DEF Accumulates
<1>13. QED BY <1>8, <1>11, <1>12 DEF n, Accumulates

LEMMA OpensFurther ==
    ASSUME NEW s \in Segments, NEW t \in Names, Opens(s)
    PROVE  Opens(Append(s, t))
<1>1. 1 \in 1 .. Len(s) /\ 2 \in 1 .. Len(s) /\ Len(s) + 1 >= 2 BY SegmentsFacts DEF Opens
<1>2. QED BY <1>1, AppendFacts DEF Opens

\* A path into the repository stays one as long as no segment goes up.
LEMMA UrlPathOpens ==
    ASSUME NEW segs \in Segments, Opens(segs),
           \A i \in 1 .. Len(segs) : segs[i] \notin {"..", "%2e%2e"}
    PROVE  Linking!UrlPath(segs) \in Segments /\ Opens(Linking!UrlPath(segs))
<1> DEFINE n == Len(segs)
<1>1. PICK acc \in [0 .. n -> Segments] :
         /\ acc[0] = <<>>
         /\ \A k \in 1 .. n : acc[k] = Linking!Resolved(acc[k - 1], segs[k])
         /\ Linking!UrlPath(segs) = acc[n]
  BY UrlPathSteps
<1>2. n \in Nat /\ n >= 2 /\ \A i \in 1 .. n : segs[i] \in Names BY SegmentsFacts DEF Opens
<1>3. Opens(acc[2])
  <2>1. 1 \in 1 .. n /\ 2 \in 1 .. n /\ 1 - 1 = 0 /\ 2 - 1 = 1 BY <1>2
  <2>2. acc[1] = Linking!Resolved(<<>>, "org") BY <1>1, <2>1 DEF Opens
  <2>3. acc[1] = Append(<<>>, "org") BY <2>2 DEF Linking!Resolved
  <2>4. acc[1] \in Segments /\ Len(acc[1]) = 1 /\ acc[1][1] = "org"
    <3>1. /\ Append(<<>>, "org") \in Segments
          /\ Len(Append(<<>>, "org")) = Len(<<>>) + 1
          /\ Append(<<>>, "org")[Len(<<>>) + 1] = "org"
      BY NoSegments, OrgAndRepo, AppendFacts
    <3>2. Len(<<>>) + 1 = 1 OBVIOUS
    <3>3. QED BY <2>3, <3>1, <3>2
  <2>5. acc[2] = Linking!Resolved(acc[1], "repo") BY <1>1, <2>1 DEF Opens
  <2>6. acc[2] = Append(acc[1], "repo") BY <2>5 DEF Linking!Resolved
  <2>7. Len(acc[2]) = 2 /\ acc[2][1] = "org" /\ acc[2][2] = "repo"
    <3>1. /\ Len(Append(acc[1], "repo")) = Len(acc[1]) + 1
          /\ \A i \in 1 .. Len(acc[1]) : Append(acc[1], "repo")[i] = acc[1][i]
          /\ Append(acc[1], "repo")[Len(acc[1]) + 1] = "repo"
      BY <2>4, OrgAndRepo, AppendFacts
    <3>2. Len(acc[1]) + 1 = 2 /\ 1 \in 1 .. Len(acc[1]) BY <2>4
    <3>3. QED BY <2>4, <2>6, <3>1, <3>2
  <2>8. QED BY <2>7 DEF Opens
<1> DEFINE T == {k \in 0 .. n : k >= 2 => Opens(acc[k])}
<1>4. 0 \in T BY <1>2
<1>5. ASSUME NEW k \in 1 .. n, k - 1 \in T PROVE k \in T
  <2>1. CASE k < 2 BY <2>1, <1>2
  <2>2. CASE k = 2 BY <1>2, <1>3, <2>2 DEF Opens
  <2>3. CASE k > 2
    <3>1. Opens(acc[k - 1]) /\ acc[k - 1] \in Segments BY <1>5, <2>3, <1>2
    <3>2. acc[k] = acc[k - 1] \/ acc[k] = Append(acc[k - 1], segs[k])
      BY <1>1 DEF Linking!Resolved
    <3>3. Opens(Append(acc[k - 1], segs[k])) BY <1>2, <3>1, OpensFurther
    <3>4. Opens(acc[k]) BY <3>1, <3>2, <3>3
    <3>5. QED BY <3>4
  <2>4. QED BY <2>1, <2>2, <2>3
<1> HIDE DEF T
<1>6. n \in T BY <1>2, <1>4, <1>5, UpTo
<1>7. QED BY <1>1, <1>2, <1>6 DEF T

LEMMA NonEmptyOpens ==
    ASSUME NEW segs \in Segments, Opens(segs)
    PROVE  Linking!NonEmpty(segs) \in Segments /\ Opens(Linking!NonEmpty(segs))
<1> DEFINE n == Len(segs)
<1>1. PICK acc \in [0 .. n -> Segments] :
         /\ acc[0] = <<>>
         /\ \A k \in 1 .. n : acc[k] = Linking!Named(acc[k - 1], segs[k])
         /\ Linking!NonEmpty(segs) = acc[n]
  BY NonEmptySteps
<1>2. n \in Nat /\ n >= 2 /\ \A i \in 1 .. n : segs[i] \in Names BY SegmentsFacts DEF Opens
<1>3. Opens(acc[2])
  <2>1. 1 \in 1 .. n /\ 2 \in 1 .. n /\ 1 - 1 = 0 /\ 2 - 1 = 1 BY <1>2
  <2>2. acc[1] = Linking!Named(<<>>, "org") BY <1>1, <2>1 DEF Opens
  <2>3. acc[1] = Append(<<>>, "org") BY <2>2, NamedUnlessEmpty, OrgAndRepo
  <2>4. acc[1] \in Segments /\ Len(acc[1]) = 1 /\ acc[1][1] = "org"
    <3>1. /\ Append(<<>>, "org") \in Segments
          /\ Len(Append(<<>>, "org")) = Len(<<>>) + 1
          /\ Append(<<>>, "org")[Len(<<>>) + 1] = "org"
      BY NoSegments, OrgAndRepo, AppendFacts
    <3>2. Len(<<>>) + 1 = 1 OBVIOUS
    <3>3. QED BY <2>3, <3>1, <3>2
  <2>5. acc[2] = Linking!Named(acc[1], "repo") BY <1>1, <2>1 DEF Opens
  <2>6. acc[2] = Append(acc[1], "repo") BY <2>5, NamedUnlessEmpty, OrgAndRepo
  <2>7. Len(acc[2]) = 2 /\ acc[2][1] = "org" /\ acc[2][2] = "repo"
    <3>1. /\ Len(Append(acc[1], "repo")) = Len(acc[1]) + 1
          /\ \A i \in 1 .. Len(acc[1]) : Append(acc[1], "repo")[i] = acc[1][i]
          /\ Append(acc[1], "repo")[Len(acc[1]) + 1] = "repo"
      BY <2>4, OrgAndRepo, AppendFacts
    <3>2. Len(acc[1]) + 1 = 2 /\ 1 \in 1 .. Len(acc[1]) BY <2>4
    <3>3. QED BY <2>4, <2>6, <3>1, <3>2
  <2>8. QED BY <2>7 DEF Opens
<1> DEFINE T == {k \in 0 .. n : k >= 2 => Opens(acc[k])}
<1>4. 0 \in T BY <1>2
<1>5. ASSUME NEW k \in 1 .. n, k - 1 \in T PROVE k \in T
  <2>1. CASE k < 2 BY <2>1, <1>2
  <2>2. CASE k = 2 BY <1>2, <1>3, <2>2 DEF Opens
  <2>3. CASE k > 2
    <3>1. Opens(acc[k - 1]) /\ acc[k - 1] \in Segments BY <1>5, <2>3, <1>2
    <3>2. acc[k] = acc[k - 1] \/ acc[k] = Append(acc[k - 1], segs[k])
      BY <1>1, NamedUnlessEmpty
    <3>3. Opens(Append(acc[k - 1], segs[k])) BY <1>2, <3>1, OpensFurther
    <3>4. Opens(acc[k]) BY <3>1, <3>2, <3>3
    <3>5. QED BY <3>4
  <2>4. QED BY <2>1, <2>2, <2>3
<1> HIDE DEF T
<1>6. n \in T BY <1>2, <1>4, <1>5, UpTo
<1>7. QED BY <1>1, <1>2, <1>6 DEF T

LEMMA LongerPrefix ==
    ASSUME NEW segs \in Segments, NEW k \in 1 .. Len(segs)
    PROVE  Append(SubSeq(segs, 1, k - 1), segs[k]) = SubSeq(segs, 1, k)
<1>1. SubSeq(segs, 1, k) = SubSeq(segs, 1, k - 1) \o <<segs[k]>>
  <2>1. 1 \in 1 .. Len(segs) BY DEF Segments
  <2>2. QED BY <2>1, SubSeqRecursiveSecond DEF Segments
<1>2. SubSeq(segs, 1, k - 1) \in Segments /\ segs[k] \in Names BY DEF Segments
<1>3. QED BY <1>1, <1>2, AppendIsConcat DEF Segments

\* Without dots, the parsed path is the raw one.
LEMMA PlainUrlPath ==
    ASSUME NEW segs \in Segments,
           \A i \in 1 .. Len(segs) : segs[i] \notin {".", "..", "%2e%2e"}
    PROVE  Linking!UrlPath(segs) = segs
<1> DEFINE n == Len(segs)
<1>1. PICK acc \in [0 .. n -> Segments] :
         /\ acc[0] = <<>>
         /\ \A k \in 1 .. n : acc[k] = Linking!Resolved(acc[k - 1], segs[k])
         /\ Linking!UrlPath(segs) = acc[n]
  BY UrlPathSteps
<1>2. n \in Nat BY SegmentsFacts
<1> DEFINE T == {k \in 0 .. n : acc[k] = SubSeq(segs, 1, k)}
<1>3. 0 \in T
  <2>1. 0 \in 0 .. n BY <1>2
  <2>2. acc[0] = SubSeq(segs, 1, 0) BY <1>1, <2>1, PrefixFacts
  <2>3. QED BY <2>1, <2>2
<1>4. ASSUME NEW k \in 1 .. n, k - 1 \in T PROVE k \in T
  <2>1. acc[k] = Append(SubSeq(segs, 1, k - 1), segs[k]) BY <1>1, <1>4 DEF Linking!Resolved
  <2>2. acc[k] = SubSeq(segs, 1, k) BY <2>1, LongerPrefix
  <2>3. QED BY <2>2
<1> HIDE DEF T
<1>5. n \in T BY <1>2, <1>3, <1>4, UpTo
<1>6. QED BY <1>1, <1>2, <1>5, PrefixFacts DEF T

\* If only segments at the end are empty, the others are left.
LEMMA NonEmptyPrefix ==
    ASSUME NEW segs \in Segments, NEW m \in 0 .. Len(segs),
           \A i \in 1 .. Len(segs) : ~IsEmpty(segs[i]) <=> i <= m
    PROVE  Linking!NonEmpty(segs) = SubSeq(segs, 1, m)
<1> DEFINE n == Len(segs)
           last(k) == IF k <= m THEN k ELSE m
<1>1. PICK acc \in [0 .. n -> Segments] :
         /\ acc[0] = <<>>
         /\ \A k \in 1 .. n : acc[k] = Linking!Named(acc[k - 1], segs[k])
         /\ Linking!NonEmpty(segs) = acc[n]
  BY NonEmptySteps
<1>2. n \in Nat BY SegmentsFacts
<1> DEFINE T == {k \in 0 .. n : acc[k] = SubSeq(segs, 1, last(k))}
<1>3. 0 \in T
  <2>1. 0 \in 0 .. n BY <1>2
  <2>2. acc[0] = SubSeq(segs, 1, 0) BY <1>1, <2>1, PrefixFacts
  <2>3. QED BY <2>1, <2>2
<1>4. ASSUME NEW k \in 1 .. n, k - 1 \in T PROVE k \in T
  <2>1. CASE k <= m
    <3>1. acc[k - 1] = SubSeq(segs, 1, k - 1) BY <1>4, <2>1
    <3>2. acc[k] = Append(SubSeq(segs, 1, k - 1), segs[k]) BY <1>1, <2>1, <3>1, NamedUnlessEmpty
    <3>3. acc[k] = SubSeq(segs, 1, k) BY <3>2, LongerPrefix
    <3>4. QED BY <2>1, <3>3
  <2>2. CASE k > m
    <3>1. acc[k - 1] = SubSeq(segs, 1, m) BY <1>4, <2>2
    <3>2. acc[k] = acc[k - 1] BY <1>1, <2>2, NamedUnlessEmpty
    <3>3. QED BY <2>2, <3>1, <3>2
  <2>3. QED BY <2>1, <2>2
<1> HIDE DEF T
<1>5. n \in T BY <1>2, <1>3, <1>4, UpTo
<1>6. last(n) = m BY <1>2
<1>7. QED BY <1>1, <1>5, <1>6 DEF T

-----------------------------------------------------------------------------
\* Segments that lead up; an empty one does not.
Ups == {"..", "%2e%2e"}
Dots == {".", "..", "%2e%2e"}

LEMMA EmptyIsNoDot ==
    ASSUME NEW t, IsEmpty(t)
    PROVE  t \notin Dots
<1>1. "" # "." /\ "" # ".." /\ "" # "%2e%2e" OBVIOUS
<1>2. QED BY <1>1, Zenon DEF IsEmpty, Dots

Link == [origin : Linking!Origins, segs : Segments, query : BOOLEAN, padded : BOOLEAN]

\* A slash at the end is one empty segment.
LEMMA WithoutSlashFacts ==
    ASSUME NEW segs \in Segments
    PROVE  \E m \in 0 .. Len(segs) :
              /\ Linking!WithoutSlash(segs) = SubSeq(segs, 1, m)
              /\ \/ m = Len(segs) /\ (Len(segs) # 0 => ~IsEmpty(segs[Len(segs)]))
                 \/ m = Len(segs) - 1 /\ IsEmpty(segs[Len(segs)])
<1>1. Len(segs) \in Nat BY SegmentsFacts
<1>2. Linking!WithoutSlash(segs) = IF segs # <<>> /\ IsEmpty(segs[Len(segs)])
                                   THEN SubSeq(segs, 1, Len(segs) - 1) ELSE segs
  BY Zenon DEF Linking!WithoutSlash, Linking!Last, Linking!DropLast, IsEmpty
<1>3. segs = <<>> <=> Len(segs) = 0 BY EmptySeq DEF Segments
<1>4. CASE segs # <<>> /\ IsEmpty(segs[Len(segs)])
  <2>1. Len(segs) - 1 \in 0 .. Len(segs) BY <1>1, <1>3, <1>4
  <2>2. QED BY <1>2, <1>4, <2>1
<1>5. CASE ~(segs # <<>> /\ IsEmpty(segs[Len(segs)]))
  <2>1. Len(segs) \in 0 .. Len(segs) /\ SubSeq(segs, 1, Len(segs)) = segs
    <3>1. Len(segs) \in 0 .. Len(segs) BY <1>1
    <3>2. QED BY <3>1, PrefixFacts
  <2>2. QED BY <1>2, <1>3, <1>5, <2>1
<1>6. QED BY <1>4, <1>5

\* What the program asks of a link.
LEMMA ProgramAsks ==
    ASSUME NEW link, NEW s, s = Linking!WithoutSlash(link.segs),
           NEW inner, inner = IF s = <<>> THEN s ELSE SubSeq(s, 1, Len(s) - 1)
    PROVE  Linking!is_valid_github_link(link) <=>
              /\ link.origin = "github" /\ ~link.padded /\ ~link.query
              /\ Len(s) >= 3 /\ s[1] = "org" /\ s[2] = "repo"
              /\ ".." \notin Linking!Range(s)
              /\ \A t \in Linking!Range(inner) : ~IsEmpty(t)
              /\ \A t \in Linking!Range(s) : ~Linking!IsOdd(t)
              /\ Len(Linking!NonEmpty(s)) >= 2 /\ Len(Linking!NonEmpty(s)) <= MaxSegments
<1>1. "" \notin Linking!Range(inner) <=> \A t \in Linking!Range(inner) : ~IsEmpty(t)
  BY Zenon DEF IsEmpty
<1>2. QED BY <1>1, Zenon DEF Linking!is_valid_github_link, Linking!DropLast

LEMMA InRange ==
    ASSUME NEW s \in Segments, NEW i \in 1 .. Len(s)
    PROVE  s[i] \in Linking!Range(s)
BY SegmentsFacts DEF Linking!Range

LEMMA RangeFacts ==
    ASSUME NEW s \in Segments, NEW t \in Linking!Range(s)
    PROVE  \E i \in 1 .. Len(s) : t = s[i]
BY SegmentsFacts DEF Linking!Range

\* Such a link begins with the repository, and never leads up.
LEMMA AcceptedOpens ==
    ASSUME NEW link \in Link, Linking!is_valid_github_link(link)
    PROVE  /\ link.origin = "github" /\ ~link.padded
           /\ Opens(link.segs)
           /\ \A i \in 1 .. Len(link.segs) : link.segs[i] \notin Ups
<1> DEFINE segs == link.segs
           s == Linking!WithoutSlash(segs)
<1>1. segs \in Segments BY DEF Link
<1>2. PICK m \in 0 .. Len(segs) :
         /\ s = SubSeq(segs, 1, m)
         /\ m = Len(segs) \/ (m = Len(segs) - 1 /\ IsEmpty(segs[Len(segs)]))
  BY <1>1, WithoutSlashFacts
<1>3. /\ link.origin = "github" /\ ~link.padded
      /\ Len(s) >= 3 /\ s[1] = "org" /\ s[2] = "repo"
      /\ ".." \notin Linking!Range(s) /\ \A t \in Linking!Range(s) : ~Linking!IsOdd(t)
  BY ProgramAsks
<1> HIDE DEF s, segs
<1>4. Len(segs) \in Nat /\ m \in Nat BY <1>1, SegmentsFacts
<1>5. s \in Segments /\ Len(s) = m /\ \A i \in 1 .. m : s[i] = segs[i]
  BY <1>1, <1>2, PrefixFacts
<1>6. Opens(segs)
  <2>1. 1 \in 1 .. m /\ 2 \in 1 .. m /\ Len(segs) >= 2 BY <1>2, <1>3, <1>4, <1>5
  <2>2. QED BY <1>3, <1>5, <2>1 DEF Opens
<1>7. ASSUME NEW i \in 1 .. Len(segs) PROVE segs[i] \notin Ups
  <2>1. CASE i <= m
    <3>1. i \in 1 .. m BY <1>4, <2>1
    <3>2. segs[i] \in Linking!Range(s) BY <1>5, <3>1, InRange
    <3>3. QED BY <1>3, <3>2 DEF Linking!IsOdd, Ups
  <2>2. CASE ~(i <= m)
    <3>1. i = Len(segs) BY <1>2, <1>4, <2>2
    <3>2. IsEmpty(segs[i]) BY <1>2, <1>4, <2>2, <3>1
    <3>3. QED BY <3>2, EmptyIsNoDot DEF Ups, Dots
  <2>3. QED BY <2>1, <2>2
<1>8. QED BY <1>3, <1>6, <1>7 DEF segs

\* What a client makes of a link to github.com: nothing, or a file or a pull
\* request of the repository in its first two segments.
LEMMA ParsedGithub ==
    ASSUME NEW link, link.origin = "github",
           NEW s, s = Linking!NonEmpty(Linking!UrlPath(link.segs)), Len(s) \in Nat
    PROVE  LET parsed == Linking!parseProposalUrl(link)
           IN \/ parsed.kind = "unsupported"
              \/ /\ parsed.kind \in {"blob", "pull"}
                 /\ parsed.owner = s[1] /\ parsed.repo = s[2]
                 /\ parsed.kind = "blob" => Len(s) >= 5
BY DEF Linking!parseProposalUrl, Linking!Unsupported, Linking!blobResult

LEMMA ParsedIsInRepository ==
    ASSUME NEW link \in Link, link.origin = "github", Opens(link.segs),
           \A i \in 1 .. Len(link.segs) : link.segs[i] \notin Ups
    PROVE  LET parsed == Linking!parseProposalUrl(link)
           IN parsed.kind # "unsupported" => Linking!InRepository(parsed)
<1> DEFINE s == Linking!NonEmpty(Linking!UrlPath(link.segs))
<1>1. link.segs \in Segments BY DEF Link
<1>2. Linking!UrlPath(link.segs) \in Segments /\ Opens(Linking!UrlPath(link.segs))
  BY <1>1, UrlPathOpens DEF Ups
<1>3. Opens(s) /\ Len(s) \in Nat BY <1>2, NonEmptyOpens, SegmentsFacts
<1> HIDE DEF s
<1>4. LET parsed == Linking!parseProposalUrl(link)
      IN \/ parsed.kind = "unsupported"
         \/ parsed.owner = s[1] /\ parsed.repo = s[2]
  BY ParsedGithub DEF s
<1>5. QED BY <1>3, <1>4 DEF Opens, Linking!InRepository

\* What the form asks of a link, and the command line.
FormAsks(link) ==
    LET parsed == Linking!parseProposalUrl(link)
    IN /\ parsed.kind = "blob" /\ Linking!IsMarkdown(parsed.fileName)
       /\ Linking!InRepository(parsed)
       /\ link.origin = "github" /\ ~link.query
       /\ ~Linking!describeOnChainViolation(link)

CliAsks(link) ==
    /\ link.origin = "github" /\ ~link.query
    /\ Linking!classify_github_link(link).kind = "blob"
    /\ Linking!assert_on_chain_compatible(link)

LEMMA ViolationMeans ==
    ASSUME NEW link, NEW s, s = Linking!WithoutSlash(link.segs),
           ~Linking!describeOnChainViolation(link)
    PROVE  /\ \A t \in Linking!Range(s) : ~IsEmpty(t) /\ ~Linking!IsOdd(t)
           /\ ".." \notin Linking!Range(s)
           /\ ~(Len(s) < 2) /\ ~(Len(s) > MaxSegments)
<1>1. "" \notin Linking!Range(s) <=> \A t \in Linking!Range(s) : ~IsEmpty(t)
  BY Zenon DEF IsEmpty
<1>2. QED BY <1>1, Zenon DEF Linking!describeOnChainViolation

\* Without empty segments before the last, names are all that is counted.
LEMMA AllNamed ==
    ASSUME NEW s \in Segments, \A t \in Linking!Range(s) : ~IsEmpty(t)
    PROVE  Linking!NonEmpty(s) = s
<1>1. Len(s) \in Nat BY SegmentsFacts
<1>2. \A i \in 1 .. Len(s) : ~IsEmpty(s[i]) <=> i <= Len(s)
  <2>1. \A i \in 1 .. Len(s) : ~IsEmpty(s[i]) BY InRange
  <2>2. QED BY <1>1, <2>1
<1>3. Len(s) \in 0 .. Len(s) BY <1>1
<1>4. Linking!NonEmpty(s) = SubSeq(s, 1, Len(s)) BY <1>2, <1>3, NonEmptyPrefix
<1>5. QED BY <1>3, <1>4, PrefixFacts

LEMMA PrefixRange ==
    ASSUME NEW s \in Segments, NEW m \in 0 .. Len(s),
           NEW t \in Linking!Range(SubSeq(s, 1, m))
    PROVE  t \in Linking!Range(s)
<1>1. SubSeq(s, 1, m) \in Segments /\ Len(SubSeq(s, 1, m)) = m
      /\ \A i \in 1 .. m : SubSeq(s, 1, m)[i] = s[i]
  BY PrefixFacts
<1>2. PICK i \in 1 .. m : t = SubSeq(s, 1, m)[i] BY <1>1, RangeFacts
<1>3. i \in 1 .. Len(s) /\ t = s[i] BY <1>1, <1>2, SegmentsFacts
<1>4. QED BY <1>3, InRange

\* The program stores what the form accepts, unless a "." segment is in it.
LEMMA FormLinksAreStored ==
    ASSUME Linking!LinksAssumption,
           NEW link \in Link, ~link.padded, FormAsks(link),
           "." \notin Linking!Range(link.segs)
    PROVE  Linking!is_valid_github_link(link)
<1> DEFINE segs == link.segs
           s == Linking!WithoutSlash(segs)
           inner == IF s = <<>> THEN s ELSE SubSeq(s, 1, Len(s) - 1)
           parsed == Linking!parseProposalUrl(link)
<1>1. segs \in Segments /\ link.query \in BOOLEAN BY DEF Link
<1>2. PICK m \in 0 .. Len(segs) :
         /\ s = SubSeq(segs, 1, m)
         /\ m = Len(segs) \/ (m = Len(segs) - 1 /\ IsEmpty(segs[Len(segs)]))
  BY <1>1, WithoutSlashFacts
<1>3. /\ \A t \in Linking!Range(s) : ~IsEmpty(t) /\ ~Linking!IsOdd(t)
      /\ ".." \notin Linking!Range(s)
      /\ ~(Len(s) < 2) /\ ~(Len(s) > MaxSegments)
  BY ViolationMeans DEF FormAsks
<1>4. /\ link.origin = "github" /\ ~link.query
      /\ parsed.kind = "blob" /\ parsed.owner = "org" /\ parsed.repo = "repo"
  BY DEF FormAsks, Linking!InRepository
<1> HIDE DEF s, segs, parsed, inner
<1>6. Len(segs) \in Nat /\ m \in Nat BY <1>1, SegmentsFacts
<1>7. s \in Segments /\ Len(s) = m /\ \A i \in 1 .. m : s[i] = segs[i] /\ s[i] \in Linking!Range(s)
  BY <1>1, <1>2, PrefixFacts, InRange
<1>8. \A i \in 1 .. Len(segs) : ~IsEmpty(segs[i]) <=> i <= m
  <2>1. ASSUME NEW i \in 1 .. Len(segs), i <= m PROVE ~IsEmpty(segs[i])
    <3>1. i \in 1 .. m BY <1>6, <2>1
    <3>2. QED BY <1>3, <1>7, <3>1
  <2>2. ASSUME NEW i \in 1 .. Len(segs), ~(i <= m) PROVE IsEmpty(segs[i])
    <3>1. i = Len(segs) /\ m # Len(segs) BY <1>2, <1>6, <2>2
    <3>2. QED BY <1>2, <3>1
  <2>3. QED BY <2>1, <2>2
<1>9. \A i \in 1 .. Len(segs) : segs[i] \notin Dots
  <2>1. ASSUME NEW i \in 1 .. Len(segs), i <= m PROVE segs[i] \notin Dots
    <3>1. i \in 1 .. m BY <1>6, <2>1
    <3>2. segs[i] \in Linking!Range(s) /\ segs[i] \in Linking!Range(segs)
      BY <1>1, <1>7, <3>1, InRange
    <3>3. segs[i] # "." BY <3>2 DEF segs
    <3>4. QED BY <1>3, <3>2, <3>3 DEF Dots, Linking!IsOdd
  <2>2. ASSUME NEW i \in 1 .. Len(segs), ~(i <= m) PROVE segs[i] \notin Dots
    BY <1>8, <2>2, EmptyIsNoDot
  <2>3. QED BY <2>1, <2>2
<1>10. Linking!UrlPath(segs) = segs BY <1>1, <1>9, PlainUrlPath DEF Dots
<1>11. Linking!NonEmpty(segs) = s BY <1>1, <1>2, <1>8, NonEmptyPrefix
<1>12. s[1] = "org" /\ s[2] = "repo" /\ Len(s) >= 5
  <2>1. s = Linking!NonEmpty(Linking!UrlPath(link.segs)) /\ Len(s) \in Nat
    BY <1>6, <1>7, <1>10, <1>11 DEF segs
  <2>2. \/ parsed.kind = "unsupported"
        \/ /\ parsed.owner = s[1] /\ parsed.repo = s[2]
           /\ parsed.kind = "blob" => Len(s) >= 5
    BY <1>4, <2>1, ParsedGithub DEF parsed
  <2>3. QED BY <1>4, <2>2
<1>13. Linking!NonEmpty(s) = s BY <1>3, <1>7, AllNamed
<1>14. \A t \in Linking!Range(inner) : ~IsEmpty(t)
  <2>1. CASE s = <<>> BY <1>3, <2>1 DEF inner
  <2>2. CASE s # <<>>
    <3>1. Len(s) - 1 \in 0 .. Len(s) BY <1>6, <1>7, <1>12
    <3>2. inner = SubSeq(s, 1, Len(s) - 1) BY <2>2 DEF inner
    <3>3. QED BY <1>3, <1>7, <3>1, <3>2, PrefixRange
  <2>3. QED BY <2>1, <2>2
<1>15. Len(s) >= 3 /\ Len(s) >= 2 /\ Len(s) <= MaxSegments
  BY <1>3, <1>6, <1>7, <1>12 DEF Linking!LinksAssumption
<1>16. QED BY <1>3, <1>4, <1>12, <1>13, <1>14, <1>15, ProgramAsks DEF s, segs, inner

LEMMA TrimmedFacts ==
    ASSUME NEW segs \in Segments, Linking!TrimSlashes(segs) # <<>>
    PROVE  \E m \in 1 .. Len(segs) :
              /\ Linking!TrimSlashes(segs) = SubSeq(segs, 1, m)
              /\ ~IsEmpty(segs[m])
              /\ \A i \in 1 .. Len(segs) : i > m => IsEmpty(segs[i])
<1> DEFINE keep == {i \in DOMAIN segs : ~IsEmpty(segs[i])}
<1>1. Len(segs) \in Nat /\ DOMAIN segs = 1 .. Len(segs) BY SegmentsFacts
<1>2. keep = {i \in DOMAIN segs : segs[i] # ""} BY Zenon DEF IsEmpty
<1>3. Linking!TrimSlashes(segs) = IF keep = {} THEN <<>> ELSE SubSeq(segs, 1, Linking!Max(keep))
  BY <1>2, Zenon DEF Linking!TrimSlashes
<1>4. \A i \in DOMAIN segs : i \in keep <=> ~IsEmpty(segs[i]) OBVIOUS
<1>5. keep \in SUBSET (1 .. Len(segs)) BY <1>1
<1> HIDE DEF keep
<1>6. keep # {} BY <1>3
<1>7. Linking!Max(keep) = Max(keep) BY DEF Linking!Max, Max
<1>8. Max(keep) \in keep /\ \A i \in keep : i <= Max(keep) BY <1>1, <1>5, <1>6, MaxOfSome
<1> DEFINE m == Max(keep)
<1>9. m \in 1 .. Len(segs) /\ ~IsEmpty(segs[m]) BY <1>1, <1>4, <1>5, <1>8
<1>10. ASSUME NEW i \in 1 .. Len(segs), i > m PROVE IsEmpty(segs[i])
  <2>1. i \in keep => FALSE BY <1>8, <1>9, <1>10
  <2>2. QED BY <1>1, <1>4, <2>1
<1>11. Linking!TrimSlashes(segs) = SubSeq(segs, 1, m) BY <1>3, <1>6, <1>7
<1> HIDE DEF m
<1>12. QED BY <1>9, <1>10, <1>11

LEMMA CompatibleMeans ==
    ASSUME NEW link, NEW s, s = Linking!TrimSlashes(link.segs),
           Linking!assert_on_chain_compatible(link)
    PROVE  /\ Len(s) >= 2 /\ s[1] = "org" /\ s[2] = "repo"
           /\ \A t \in Linking!Range(s) : ~IsEmpty(t) /\ ~Linking!IsOdd(t)
           /\ ".." \notin Linking!Range(s)
           /\ Len(s) <= MaxSegments
<1>1. "" \notin Linking!Range(s) <=> \A t \in Linking!Range(s) : ~IsEmpty(t)
  BY Zenon DEF IsEmpty
<1>2. QED BY <1>1, Zenon DEF Linking!assert_on_chain_compatible

LEMMA ClassifiedBlob ==
    ASSUME NEW link, NEW s, s = Linking!NonEmpty(link.segs),
           Linking!classify_github_link(link).kind = "blob"
    PROVE  Len(s) >= 5
BY DEF Linking!classify_github_link

\* And what the command line accepts, unless it ends in more than two slashes.
LEMMA CliLinksAreStored ==
    ASSUME Linking!LinksAssumption,
           NEW link \in Link, ~link.padded, CliAsks(link),
           Len(link.segs) - Len(Linking!TrimSlashes(link.segs)) <= 2
    PROVE  Linking!is_valid_github_link(link)
<1> DEFINE segs == link.segs
           names == Linking!TrimSlashes(segs)
           s == Linking!WithoutSlash(segs)
           inner == IF s = <<>> THEN s ELSE SubSeq(s, 1, Len(s) - 1)
<1>1. segs \in Segments /\ link.query \in BOOLEAN BY DEF Link
<1>2. /\ Len(names) >= 2 /\ names[1] = "org" /\ names[2] = "repo"
      /\ \A t \in Linking!Range(names) : ~IsEmpty(t) /\ ~Linking!IsOdd(t)
      /\ ".." \notin Linking!Range(names)
      /\ Len(names) <= MaxSegments
  BY CompatibleMeans DEF CliAsks
<1>3. PICK m \in 1 .. Len(segs) :
         /\ names = SubSeq(segs, 1, m)
         /\ ~IsEmpty(segs[m])
         /\ \A i \in 1 .. Len(segs) : i > m => IsEmpty(segs[i])
  <2>1. names # <<>> BY <1>2
  <2>2. QED BY <1>1, <2>1, TrimmedFacts
<1>4. link.origin = "github" /\ ~link.query /\ Linking!classify_github_link(link).kind = "blob"
  BY DEF CliAsks
<1>5. PICK w \in 0 .. Len(segs) :
         /\ s = SubSeq(segs, 1, w)
         /\ \/ w = Len(segs)
            \/ w = Len(segs) - 1 /\ IsEmpty(segs[Len(segs)])
         /\ w = Len(segs) /\ Len(segs) # 0 => ~IsEmpty(segs[Len(segs)])
  <2>1. Len(segs) \in Nat BY <1>1, SegmentsFacts
  <2>2. PICK w \in 0 .. Len(segs) :
           /\ s = SubSeq(segs, 1, w)
           /\ \/ w = Len(segs) /\ (Len(segs) # 0 => ~IsEmpty(segs[Len(segs)]))
              \/ w = Len(segs) - 1 /\ IsEmpty(segs[Len(segs)])
    BY <1>1, WithoutSlashFacts
  <2>3. w = Len(segs) /\ Len(segs) # 0 => ~IsEmpty(segs[Len(segs)]) BY <2>1, <2>2
  <2>4. QED BY <2>2, <2>3
<1>6. Len(segs) - Len(names) <= 2 OBVIOUS
<1> HIDE DEF s, segs, names, inner
<1>7. Len(segs) \in Nat /\ m \in Nat /\ w \in Nat BY <1>1, SegmentsFacts
<1>8. names \in Segments /\ Len(names) = m
      /\ \A i \in 1 .. m : names[i] = segs[i] /\ names[i] \in Linking!Range(names)
  <2>1. m \in 0 .. Len(segs) BY <1>7
  <2>2. QED BY <1>1, <1>3, <2>1, PrefixFacts, InRange
<1>9. \A i \in 1 .. Len(segs) : ~IsEmpty(segs[i]) <=> i <= m
  <2>1. ASSUME NEW i \in 1 .. Len(segs), i <= m PROVE ~IsEmpty(segs[i])
    <3>1. i \in 1 .. m BY <1>7, <2>1
    <3>2. QED BY <1>2, <1>8, <3>1
  <2>2. ASSUME NEW i \in 1 .. Len(segs), ~(i <= m) PROVE IsEmpty(segs[i])
    BY <1>3, <1>7, <2>2
  <2>3. QED BY <2>1, <2>2
<1>10. m >= 5
  <2>1. m \in 0 .. Len(segs) BY <1>7
  <2>2. Linking!NonEmpty(segs) = names BY <1>1, <1>3, <1>9, <2>1, NonEmptyPrefix
  <2>3. QED BY <1>4, <1>8, <2>2, ClassifiedBlob DEF segs
<1>11. w \in m .. m + 1
  <2>1. Len(segs) - m <= 2 /\ m <= Len(segs) BY <1>6, <1>7, <1>8
  <2>2. w = Len(segs) => m = Len(segs)
    <3>1. ASSUME w = Len(segs) PROVE m = Len(segs)
      <4>1. Len(segs) \in 1 .. Len(segs) /\ Len(segs) # 0 BY <1>7, <1>10, <2>1
      <4>2. ~IsEmpty(segs[Len(segs)]) BY <1>5, <3>1, <4>1
      <4>3. Len(segs) <= m BY <1>9, <4>1, <4>2
      <4>4. QED BY <1>7, <2>1, <4>3
    <3>2. QED BY <3>1
  <2>3. w = Len(segs) - 1 /\ w # Len(segs) => m # Len(segs)
    <3>1. ASSUME w # Len(segs) PROVE m # Len(segs) BY <1>3, <1>5, <3>1
    <3>2. QED BY <3>1
  <2>4. QED BY <1>5, <1>7, <2>1, <2>2, <2>3
<1>12. s \in Segments /\ Len(s) = w /\ \A i \in 1 .. w : s[i] = segs[i]
  BY <1>1, <1>5, PrefixFacts
<1>13. \A i \in 1 .. m : s[i] = names[i]
  <2>1. \A i \in 1 .. m : i \in 1 .. w BY <1>7, <1>11
  <2>2. QED BY <1>8, <1>12, <2>1
<1>14. \A t \in Linking!Range(s) : t \in Linking!Range(names) \/ IsEmpty(t)
  <2>1. SUFFICES ASSUME NEW i \in 1 .. w PROVE s[i] \in Linking!Range(names) \/ IsEmpty(s[i])
    BY <1>12, RangeFacts
  <2>2. CASE i \in 1 .. m BY <1>8, <1>13, <2>2
  <2>3. CASE i \notin 1 .. m
    <3>1. i \in 1 .. Len(segs) /\ ~(i <= m) BY <1>7, <2>3
    <3>2. QED BY <1>9, <1>12, <3>1
  <2>4. QED BY <2>2, <2>3
<1>15. ".." \notin Linking!Range(s) /\ \A t \in Linking!Range(s) : ~Linking!IsOdd(t)
  <2>1. \A t : IsEmpty(t) => t # ".." /\ ~Linking!IsOdd(t)
    <3>1. "" # "odd" /\ "" # "%2e%2e" /\ "" # ".." OBVIOUS
    <3>2. QED BY <3>1, Zenon DEF IsEmpty, Linking!IsOdd
  <2>2. QED BY <1>2, <1>14, <2>1
<1>16. Linking!NonEmpty(s) = SubSeq(s, 1, m) /\ Len(SubSeq(s, 1, m)) = m
  <2>1. m \in 0 .. Len(s) BY <1>7, <1>11, <1>12
  <2>2. \A i \in 1 .. Len(s) : ~IsEmpty(s[i]) <=> i <= m
    <3>1. \A i \in 1 .. Len(s) : i \in 1 .. w /\ i \in 1 .. Len(segs) BY <1>7, <1>12
    <3>2. QED BY <1>9, <1>12, <3>1
  <2>3. QED BY <1>12, <2>1, <2>2, NonEmptyPrefix, PrefixFacts
<1>17. \A t \in Linking!Range(inner) : ~IsEmpty(t)
  <2>1. s # <<>> BY <1>7, <1>10, <1>11, <1>12
  <2>2. inner = SubSeq(s, 1, w - 1) BY <1>12, <2>1 DEF inner
  <2>3. w - 1 \in 0 .. Len(s) /\ w - 1 <= m BY <1>7, <1>10, <1>11, <1>12
  <2>4. inner \in Segments /\ Len(inner) = w - 1 /\ \A i \in 1 .. w - 1 : inner[i] = s[i]
    BY <1>12, <2>2, <2>3, PrefixFacts
  <2>5. SUFFICES ASSUME NEW i \in 1 .. w - 1 PROVE ~IsEmpty(inner[i]) BY <2>4, RangeFacts
  <2>6. i \in 1 .. m /\ i \in 1 .. w - 1 BY <1>7, <2>3
  <2>7. inner[i] = names[i] /\ names[i] \in Linking!Range(names) BY <1>8, <1>13, <2>4, <2>6
  <2>8. QED BY <1>2, <2>7
<1>18. /\ Len(s) >= 3 /\ s[1] = "org" /\ s[2] = "repo"
       /\ Len(Linking!NonEmpty(s)) >= 2 /\ Len(Linking!NonEmpty(s)) <= MaxSegments
  <2>1. 1 \in 1 .. m /\ 2 \in 1 .. m /\ w >= 3 BY <1>7, <1>10, <1>11
  <2>2. QED BY <1>2, <1>7, <1>8, <1>10, <1>12, <1>13, <1>16, <2>1
<1>19. QED BY <1>4, <1>15, <1>17, <1>18, ProgramAsks DEF s, segs, inner

-----------------------------------------------------------------------------
SentOK(r) ==
    /\ r.by \in {"form", "cli", "anyone"} /\ r.link \in Link
    /\ r.by = "form" => ~r.link.padded /\ FormAsks(r.link)
    /\ r.by = "cli" => ~r.link.padded /\ CliAsks(r.link)

LinksInv ==
    /\ field \in Link /\ edits \in 0 .. MaxEdits /\ stored \in BOOLEAN
    /\ sent # None => SentOK(sent) /\ (stored <=> Linking!is_valid_github_link(sent.link))
    /\ stored => SentOK(sent) /\ Linking!is_valid_github_link(sent.link)

LEMMA TrimmedLink ==
    ASSUME NEW raw \in Link
    PROVE  LET link == Linking!trim(raw)
           IN /\ link \in Link /\ ~link.padded
              /\ Linking!validateProposalUrl(raw).normalized = link
              /\ Linking!validateProposalUrl(raw).ok => FormAsks(link)
              /\ Linking!validate_description(raw).normalized = link
              /\ Linking!validate_description(raw).ok => CliAsks(link)
<1> DEFINE link == Linking!trim(raw)
<1>1. link \in Link /\ ~link.padded BY DEF Linking!trim, Link
<1>2. /\ Linking!validateProposalUrl(raw).normalized = link
      /\ Linking!validateProposalUrl(raw).ok => FormAsks(link)
  BY DEF Linking!validateProposalUrl, FormAsks
<1>3. /\ Linking!validate_description(raw).normalized = link
      /\ Linking!validate_description(raw).ok => CliAsks(link)
  BY DEF Linking!validate_description, CliAsks
<1>4. QED BY <1>1, <1>2, <1>3

LEMMA InsertedLink ==
    ASSUME NEW segs \in Segments, NEW i \in 1 .. Len(segs) + 1, NEW t \in Names
    PROVE  Linking!InsertAt(segs, i, t) \in Segments
<1>1. Len(segs) \in Nat /\ \A j \in 1 .. Len(segs) : segs[j] \in Names BY SegmentsFacts
<1>2. SubSeq(segs, 1, i - 1) \in Segments
  <2>1. i - 1 \in 0 .. Len(segs) BY <1>1
  <2>2. QED BY <2>1, PrefixFacts
<1>3. SubSeq(segs, i, Len(segs)) \in Segments
  <2>1. i \in Int /\ Len(segs) \in Int /\ \A j \in i .. Len(segs) : segs[j] \in Names BY <1>1
  <2>2. QED BY <2>1, SubSeqProperties DEF Segments
<1>4. <<t>> \in Segments BY DEF Segments
<1>5. \A a, b \in Segments : a \o b \in Segments BY ConcatProperties DEF Segments
<1>6. QED BY <1>2, <1>3, <1>4, <1>5 DEF Linking!InsertAt

LEMMA LinksInit ==
    ASSUME Linking!LinksAssumption
    PROVE  Linking!Init => LinksInv
<1>1. SUFFICES ASSUME Linking!Init PROVE LinksInv OBVIOUS
<1>2. Bases \subseteq Segments
  <2>1. Seq(STRING) \subseteq Segments
    <3>1. ASSUME NEW q \in Seq(STRING) PROVE q \in Seq(Names)
      <4>1. STRING \subseteq Names BY DEF Names
      <4>2. PICK n \in Nat : q \in [1 .. n -> STRING] BY SeqDef
      <4>3. q \in [1 .. n -> Names] BY <4>1, <4>2
      <4>4. QED BY <4>3, SeqDef
    <3>2. QED BY <3>1 DEF Segments
  <2>2. QED BY <2>1 DEF Linking!LinksAssumption
<1>3. field \in Link BY <1>1, <1>2 DEF Linking!Init, Linking!Link, Link
<1>4. edits \in 0 .. MaxEdits BY <1>1 DEF Linking!Init, Linking!LinksAssumption
<1>5. sent = None /\ stored = FALSE BY <1>1 DEF Linking!Init
<1>6. QED BY <1>3, <1>4, <1>5 DEF LinksInv

LEMMA EditKeepsInv ==
    ASSUME Linking!LinksAssumption, LinksInv, NEW link \in Link, Linking!Edit(link)
    PROVE  LinksInv'
<1>1. edits' \in 0 .. MaxEdits BY DEF Linking!LinksAssumption, LinksInv, Linking!Edit
<1>2. field' \in Link /\ sent' = None /\ stored' = FALSE BY DEF Linking!Edit
<1>3. QED BY <1>1, <1>2 DEF LinksInv

LEMMA SendKeepsInv ==
    ASSUME LinksInv, NEW by \in {"form", "cli", "anyone"}, NEW link \in Link,
           by = "form" => ~link.padded /\ FormAsks(link),
           by = "cli" => ~link.padded /\ CliAsks(link),
           Linking!Send(by, link)
    PROVE  LinksInv'
<1> DEFINE r == [by |-> by, link |-> link]
<1>1. SentOK(r) BY DEF SentOK
<1>2. r.link = link OBVIOUS
<1>3. /\ sent' = r /\ stored' = Linking!is_valid_github_link(link)
      /\ field' = field /\ edits' = edits
  BY DEF Linking!Send
<1> HIDE DEF r
<1>4. Linking!is_valid_github_link(link) \in BOOLEAN BY DEF Linking!is_valid_github_link
<1>5. stored' \in BOOLEAN BY <1>3, <1>4
<1>6. SentOK(sent') /\ (stored' <=> Linking!is_valid_github_link(sent'.link))
  BY <1>1, <1>2, <1>3
<1>7. QED BY <1>3, <1>5, <1>6 DEF LinksInv

LEMMA LinksStep ==
    ASSUME Linking!LinksAssumption
    PROVE  LinksInv /\ [Linking!Next]_(Linking!vars) => LinksInv'
<1>1. SUFFICES ASSUME LinksInv, [Linking!Next]_(Linking!vars) PROVE LinksInv' OBVIOUS
<1>2. field \in Link BY <1>1 DEF LinksInv
<1>3. CASE Linking!EditSegment
  <2>1. PICK i \in 1 .. Len(field.segs) + 1, t \in Insertions :
           Linking!Edit([field EXCEPT !.segs = Linking!InsertAt(field.segs, i, t)])
    BY <1>3 DEF Linking!EditSegment
  <2>2. field.segs \in Segments BY <1>2 DEF Link
  <2>3. t \in Names BY DEF Linking!LinksAssumption, Names
  <2>4. Linking!InsertAt(field.segs, i, t) \in Segments BY <2>2, <2>3, InsertedLink
  <2>5. [field EXCEPT !.segs = Linking!InsertAt(field.segs, i, t)] \in Link
    BY <1>2, <2>4 DEF Link
  <2>6. QED BY <1>1, <2>1, <2>5, EditKeepsInv
<1>4. CASE Linking!AddQuery
  <2>1. [field EXCEPT !.query = TRUE] \in Link BY <1>2 DEF Link
  <2>2. QED BY <1>1, <1>4, <2>1, EditKeepsInv DEF Linking!AddQuery
<1>5. CASE Linking!AddSpace
  <2>1. [field EXCEPT !.padded = TRUE] \in Link BY <1>2 DEF Link
  <2>2. QED BY <1>1, <1>5, <2>1, EditKeepsInv DEF Linking!AddSpace
<1>6. CASE Linking!createProposal
  <2>1. Linking!validateProposalUrl(field).ok
        /\ Linking!Send("form", Linking!validateProposalUrl(field).normalized)
    BY <1>6 DEF Linking!createProposal
  <2>2. LET link == Linking!trim(field)
        IN link \in Link /\ ~link.padded /\ FormAsks(link) /\ Linking!Send("form", link)
    BY <1>2, <2>1, TrimmedLink
  <2>3. QED BY <1>1, <2>2, SendKeepsInv
<1>7. CASE Linking!create_proposal_cli
  <2>1. Linking!validate_description(field).ok
        /\ Linking!Send("cli", Linking!validate_description(field).normalized)
    BY <1>7 DEF Linking!create_proposal_cli
  <2>2. LET link == Linking!trim(field)
        IN link \in Link /\ ~link.padded /\ CliAsks(link) /\ Linking!Send("cli", link)
    BY <1>2, <2>1, TrimmedLink
  <2>3. QED BY <1>1, <2>2, SendKeepsInv
<1>8. CASE Linking!SendDirectly
  BY <1>1, <1>2, <1>8, SendKeepsInv DEF Linking!SendDirectly
<1>9. CASE UNCHANGED Linking!vars
  BY <1>1, <1>9 DEF Linking!vars, LinksInv
<1>10. QED BY <1>1, <1>3, <1>4, <1>5, <1>6, <1>7, <1>8, <1>9 DEF Linking!Next

LEMMA LinksHold ==
    ASSUME Linking!LinksAssumption, LinksInv
    PROVE  /\ Linking!LinksTypeOK /\ Linking!OneRepository
           /\ Linking!FormLinksNameADocument /\ Linking!CheckedLinksAreStored
<1>1. Linking!LinksTypeOK
  <2>1. \A l \in Link : Linking!LinkType(l) BY DEF Link, Linking!LinkType
  <2>2. stored => ~sent.link.padded BY AcceptedOpens DEF LinksInv, SentOK
  <2>3. QED BY <2>1, <2>2 DEF LinksInv, SentOK, Linking!LinksTypeOK
<1>2. Linking!OneRepository
  <2>1. SUFFICES ASSUME stored
                 PROVE  LET parsed == Linking!parseProposalUrl(sent.link)
                        IN parsed.kind # "unsupported" => Linking!InRepository(parsed)
    BY DEF Linking!OneRepository
  <2>2. sent.link \in Link /\ Linking!is_valid_github_link(sent.link)
    BY <2>1 DEF LinksInv, SentOK
  <2>3. /\ sent.link.origin = "github" /\ Opens(sent.link.segs)
        /\ \A i \in 1 .. Len(sent.link.segs) : sent.link.segs[i] \notin Ups
    BY <2>2, AcceptedOpens
  <2>4. QED BY <2>2, <2>3, ParsedIsInRepository
<1>3. Linking!FormLinksNameADocument
  BY DEF LinksInv, SentOK, FormAsks, Linking!FormLinksNameADocument, Linking!SentBy
<1>4. Linking!CheckedLinksAreStored
  <2>1. ASSUME Linking!SentBy("form"), "." \notin Linking!Range(sent.link.segs) PROVE stored
    BY <2>1, FormLinksAreStored DEF LinksInv, SentOK, Linking!SentBy
  <2>2. ASSUME Linking!SentBy("cli"),
               Len(sent.link.segs) - Len(Linking!TrimSlashes(sent.link.segs)) <= 2
        PROVE  stored
    BY <2>2, CliLinksAreStored DEF LinksInv, SentOK, Linking!SentBy
  <2>3. QED BY <2>1, <2>2 DEF Linking!CheckedLinksAreStored
<1>5. QED BY <1>1, <1>2, <1>3, <1>4

\* What the program stores, clients resolve in the approved repository, whatever
\* segments are in it; what the form lets a user create leads to a document there;
\* and the program takes what the form and the command line accepted, but for "."
\* segments and trailing slashes (is_valid_github_link, validateProposalUrl,
\* validate_description, parseProposalUrl).
THEOREM LinksAreSound ==
    ASSUME Linking!LinksAssumption
    PROVE  Linking!Spec => /\ []Linking!LinksTypeOK
                           /\ []Linking!OneRepository
                           /\ []Linking!FormLinksNameADocument
                           /\ []Linking!CheckedLinksAreStored
<1>1. Linking!Init => LinksInv BY LinksInit
<1>2. LinksInv /\ [Linking!Next]_(Linking!vars) => LinksInv' BY LinksStep
<1>3. LinksInv => /\ Linking!LinksTypeOK /\ Linking!OneRepository
                  /\ Linking!FormLinksNameADocument /\ Linking!CheckedLinksAreStored
  BY LinksHold
<1>4. QED BY <1>1, <1>2, <1>3, PTL DEF Linking!Spec
=============================================================================
