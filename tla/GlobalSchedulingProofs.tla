------------------------ MODULE GlobalSchedulingProofs ------------------------
(***************************************************************************)
(* Proofs about GlobalScheduling: no snapshot of a removed instance, P/D   *)
(* roles kept, dispatch by health before affinity, and migration pairs     *)
(* that are matchings, for any number of instances and any reports.        *)
(***************************************************************************)
EXTENDS GlobalScheduling, FiniteSetTheorems, WellFoundedInduction, TLAPS

-------------------------------------------------------------------------------
(* Loads                                                                       *)

\* The infinite loads are numbers larger than the others.
LEMMA Infinities == NegInf \in Int /\ PosInf \in Int
BY SMT DEF NegInf, PosInf

\* Division as the load metrics use it gives an integer.
LEMMA RatioInt == \A a \in Int : \A n \in Int \ {0} : Ratio(a, n) \in Int
BY DEF Ratio, Unit

\* An instance reports numbers.
LEMMA ReportNumbers == \A x \in Reports : Numbers(x) /\ VirtualUsage(x) \in Int
BY ReportsAssumption DEF Reports

\* The dispatch load of any instance is a number.
LEMMA DispatchLoadInt ==
  ASSUME NEW x \in Reports \cup {Empty}
  PROVE  DispatchLoad(x) \in Int
<1>1. CASE x = Empty
  BY <1>1, Infinities DEF DispatchLoad
<1>2. CASE x # Empty
  <2>1. Numbers(x) /\ VirtualUsage(x) \in Int
    BY <1>2, ReportNumbers
  <2>. QED
    BY SMTT(30), <1>2, <2>1, RatioInt, Infinities DEF DispatchLoad, Numbers
<1>. QED
  BY <1>1, <1>2

\* The migration load of any instance is a number, before and after a migration.
LEMMA MigrationLoadInt ==
  ASSUME NEW x \in Reports \cup {Empty}, NEW d \in -1 .. 1
  PROVE  MigrationLoadAfter(x, d) \in Int
<1>1. CASE x = Empty
  BY <1>1, Infinities DEF MigrationLoadAfter
<1>2. CASE x # Empty
  <2>1. Numbers(x)
    BY <1>2, ReportNumbers
  <2>2. PICK free \in Int : free = x.avail - d * x.lastRun
    <3>1. d * x.lastRun \in Int
      <4>1. x.lastRun \in Nat
        BY <2>1 DEF Numbers
      <4>. QED
        BY <4>1
    <3>. QED
      BY <2>1, <3>1 DEF Numbers
  <2>3. PICK n \in Int : n = x.run + d + (IF Defrag /\ x.wait # 0 THEN 1 ELSE 0)
    BY <2>1 DEF Numbers
  <2>4. \A a \in Int : n # 0 => -Ratio(a, n) \in Int
    BY RatioInt
  <2>5. x.total > 0 => Ratio(x.used + x.firstWait, x.total) \in Int
    BY <2>1, RatioInt DEF Numbers
  <2>6. (IF Defrag THEN free - x.firstWait ELSE free) \in Int
    BY <2>1 DEF Numbers
  <2>7. free * Unit \in Int
    BY <2>2 DEF Unit
  <2>. QED
    BY <1>2, <2>2, <2>3, <2>4, <2>5, <2>6, <2>7, Infinities DEF MigrationLoadAfter
<1>. QED
  BY <1>1, <1>2

-------------------------------------------------------------------------------
(* Pairs                                                                       *)

\* A way to sort a set of instances names each of them once.
LEMMA SortedOnce ==
  ASSUME NEW S \in SUBSET Inst, NEW key, NEW s \in SortedBy(S, key)
  PROVE  /\ Len(s) \in Nat
         /\ \A k \in 1 .. Len(s) : s[k] \in S
         /\ \A j, k \in 1 .. Len(s) : j # k => s[j] # s[k]
<1>1. IsFiniteSet(S)
  <2>1. IsFiniteSet(1 .. N)
    BY SchedulingAssumption, FS_Interval
  <2>. QED
    BY <2>1, FS_Subset DEF Inst
<1>2. PICK c \in Nat : c = Cardinality(S)
  BY <1>1, FS_CardinalityType
<1>3. s \in [1 .. c -> S] /\ \A j, k \in 1 .. c : j # k => s[j] # s[k]
  BY <1>2 DEF SortedBy, SetToSeqs
<1>4. Len(s) = c
  BY <1>3
<1>. QED
  BY <1>3, <1>4

\* The filters never make an instance both a source and a target.
LEMMA FiltersApart ==
  ASSUME info \in [Inst -> Reports \cup {Empty}],
         NEW S \in SUBSET Inst, NEW t \in Constraints
  PROVE  /\ Sources(S, t) \subseteq S /\ Targets(S, t) \subseteq S
         /\ Sources(S, t) \cap Targets(S, t) = {}
<1>1. \A i \in S : ~(LoadSrc(i) /\ LoadDst(i))
  <2>1. \A i \in S : MigrationLoad(i) \in Int
    BY MigrationLoadInt DEF MigrationLoad
  <2>. QED
    BY <2>1, SchedulingAssumption DEF LoadSrc, LoadDst
<1>2. CASE t = "NO_CONSTRAINTS"
  BY <1>1, <1>2 DEF Sources, Targets
<1>3. CASE t = "DECODING_2_DECODING"
  BY <1>1, <1>3 DEF Sources, Targets
<1>4. CASE t = "PREFILL_2_DECODING"
  <2>1. Sources(S, t) = {i \in S : Reported(i) = "prefill"}
    BY <1>4 DEF Sources
  <2>2. Targets(S, t) = {i \in S : Reported(i) = "decode" /\ ~Killed(i)}
    BY <1>4 DEF Targets
  <2>. QED
    BY <2>1, <2>2
<1>. QED
  BY <1>2, <1>3, <1>4 DEF Constraints

\* What a call of pair_migration returns is a matching between instances of its
\* view.
LEMMA PairsMatch ==
  ASSUME info \in [Inst -> Reports \cup {Empty}],
         NEW S \in SUBSET Inst, NEW t \in Constraints, NEW policy,
         NEW P \in pair_migration(S, t, policy)
  PROVE  Matching(P) /\ \A x \in P : x = <<x[1], x[2]>> /\ x[1] \in S /\ x[2] \in S
<1>1. PICK src \in SortedBy(Sources(S, t), [i \in S |-> -MigrationLoad(i)]),
           dst \in SortedBy(Targets(S, t), [i \in S |-> MigrationLoad(i)]) :
        P = PairUp(src, dst, policy)
  BY DEF pair_migration
<1>2. Sources(S, t) \in SUBSET Inst /\ Targets(S, t) \in SUBSET Inst
  BY FiltersApart
<1>3. /\ Len(src) \in Nat
      /\ \A k \in 1 .. Len(src) : src[k] \in Sources(S, t)
      /\ \A j, k \in 1 .. Len(src) : j # k => src[j] # src[k]
  BY <1>2, SortedOnce
<1>4. /\ Len(dst) \in Nat
      /\ \A k \in 1 .. Len(dst) : dst[k] \in Targets(S, t)
      /\ \A j, k \in 1 .. Len(dst) : j # k => dst[j] # dst[k]
  BY <1>2, SortedOnce
<1>5. ASSUME NEW x \in P
      PROVE  \E k \in 1 .. Len(src) : k \in 1 .. Len(dst) /\ x = <<src[k], dst[k]>>
  BY <1>1, <1>3, <1>4 DEF PairUp
<1>6. ASSUME NEW x \in P, NEW y \in P
      PROVE  x[1] # y[2] /\ (x = y \/ (x[1] # y[1] /\ x[2] # y[2]))
  <2>1. PICK j \in 1 .. Len(src) : j \in 1 .. Len(dst) /\ x = <<src[j], dst[j]>>
    BY <1>5
  <2>2. PICK k \in 1 .. Len(src) : k \in 1 .. Len(dst) /\ y = <<src[k], dst[k]>>
    BY <1>5
  <2>3. x[1] # y[2]
    BY <1>3, <1>4, <2>1, <2>2, FiltersApart
  <2>. QED
    BY <1>3, <1>4, <2>1, <2>2, <2>3
<1>7. \A x \in P : x = <<x[1], x[2]>> /\ x[1] \in S /\ x[2] \in S
  BY <1>3, <1>4, <1>5, FiltersApart
<1>. QED
  BY <1>6, <1>7 DEF Matching

\* The groups of the compatibility keys do not overlap, so their pairs together
\* are a matching within the keys.
LEMMA PairsMatchV1 ==
  ASSUME info \in [Inst -> Reports \cup {Empty}], ids \subseteq Inst,
         NEW t \in Constraints, NEW policy, NEW P \in pair_migration_v1(t, policy)
  PROVE  Matching(P) /\ \A x \in P : Key[x[1]] = Key[x[2]]
<1>1. PICK K : K = {Key[i] : i \in ids}
  OBVIOUS
<1>2. PICK f : /\ P = UNION {f[k] : k \in K}
               /\ \A k \in K : f[k] \in pair_migration(Group(k), t, policy)
  BY <1>1 DEF pair_migration_v1
<1>3. \A k \in K : Group(k) \in SUBSET Inst /\ \A i \in Group(k) : Key[i] = k
  BY DEF Group
<1>4. ASSUME NEW k \in K
      PROVE  Matching(f[k]) /\ \A x \in f[k] : x[1] \in Group(k) /\ x[2] \in Group(k)
  BY <1>2, <1>3, PairsMatch
<1>5. ASSUME NEW x \in P PROVE \E k \in K : x \in f[k] /\ Key[x[1]] = k /\ Key[x[2]] = k
  BY <1>2, <1>3, <1>4
<1>6. ASSUME NEW x \in P, NEW y \in P
      PROVE  x[1] # y[2] /\ (x = y \/ (x[1] # y[1] /\ x[2] # y[2]))
  <2>1. PICK j \in K : x \in f[j] /\ Key[x[1]] = j /\ Key[x[2]] = j
    BY <1>5
  <2>2. PICK k \in K : y \in f[k] /\ Key[y[1]] = k /\ Key[y[2]] = k
    BY <1>5
  <2>3. CASE j = k
    BY <1>4, <2>1, <2>2, <2>3 DEF Matching
  <2>4. CASE j # k
    BY <2>1, <2>2, <2>4
  <2>. QED
    BY <2>3, <2>4
<1>. QED
  BY <1>5, <1>6 DEF Matching

-------------------------------------------------------------------------------
(* Dispatch                                                                    *)

\* Sets of instances are finite.
LEMMA InstFinite == \A S \in SUBSET Inst : IsFiniteSet(S) /\ Cardinality(S) \in Nat
<1>1. IsFiniteSet(1 .. N)
  BY SchedulingAssumption, FS_Interval
<1>. QED
  BY <1>1, FS_Subset, FS_CardinalityType DEF Inst

\* Induction on the natural numbers, for a set that contains 0 and with each
\* number the next one.
LEMMA SetInduction ==
  ASSUME NEW T \in SUBSET Nat, 0 \in T, \A n \in T : n + 1 \in T
  PROVE  \A n \in Nat : n \in T
<1>. DEFINE R == OpToRel(<, Nat)
            U == Nat \ T
<1>. SUFFICES ASSUME U # {} PROVE FALSE
  OBVIOUS
<1>1. IsWellFoundedOn(R, Nat)
  BY NatLessThanWellFounded
<1>2. \A m, n \in Nat : m < n => <<m, n>> \in R
  BY DEF OpToRel
<1>3. U \subseteq Nat /\ U # {}
  OBVIOUS
<1>4. PICK n \in U : \A m \in U : ~(<<m, n>> \in R)
  <2>. HIDE DEF R, U
  <2>. QED
    BY <1>1, <1>3, WFMin
<1>5. n \in Nat /\ n # 0
  OBVIOUS
<1>6. PICK m \in Nat : n = m + 1 /\ m < n
  BY <1>5
<1>7. m \in T
  BY <1>2, <1>4, <1>5, <1>6
<1>. QED
  BY <1>6, <1>7

\* Some instance of a non-empty set has the least value of a function.
LEMMA LeastValue ==
  ASSUME NEW f \in [Inst -> Int], NEW S \in SUBSET Inst, S # {}
  PROVE  \E i \in S : \A j \in S : f[i] <= f[j]
<1>. DEFINE Least(U) == \E i \in U : \A j \in U : f[i] <= f[j]
            T == {n \in Nat : \A U \in SUBSET Inst : U \subseteq 1 .. n /\ U # {} => Least(U)}
<1>1. 0 \in T
  <2>1. 1 .. 0 = {}
    OBVIOUS
  <2>. QED
    BY <2>1
<1>2. ASSUME NEW n \in T PROVE n + 1 \in T
  <2>1. n \in Nat
    OBVIOUS
  <2>2. ASSUME NEW U \in SUBSET Inst, U \subseteq 1 .. n + 1, U # {} PROVE Least(U)
    <3>1. U \ {n + 1} \subseteq 1 .. n
      BY <2>1, <2>2
    <3>2. CASE n + 1 \notin U
      BY <2>2, <3>1, <3>2
    <3>3. CASE U = {n + 1}
      <4>1. f[n + 1] \in Int
        BY <3>3
      <4>. QED
        BY <3>3, <4>1
    <3>4. CASE n + 1 \in U /\ U \ {n + 1} # {}
      <4>1. PICK i \in U \ {n + 1} : \A j \in U \ {n + 1} : f[i] <= f[j]
        BY <3>1, <3>4
      <4>2. \A j \in U : f[j] \in Int
        OBVIOUS
      <4>3. CASE f[i] <= f[n + 1]
        BY <4>1, <4>3
      <4>4. CASE ~(f[i] <= f[n + 1])
        <5>1. \A j \in U : f[n + 1] <= f[j]
          BY <3>4, <4>1, <4>2, <4>4
        <5>. QED
          BY <3>4, <5>1
      <4>. QED
        BY <4>3, <4>4
    <3>. QED
      BY <2>2, <3>2, <3>3, <3>4
  <2>. QED
    BY <2>1, <2>2
<1>3. N \in T
  <2>1. T \in SUBSET Nat
    OBVIOUS
  <2>. HIDE DEF T
  <2>. QED
    BY <1>1, <1>2, <2>1, SetInduction, SchedulingAssumption
<1>. QED
  BY <1>3 DEF Inst

\* Some instance of a non-empty set has the least load for dispatch.
LEMMA LeastLoad ==
  ASSUME info \in [Inst -> Reports \cup {Empty}], NEW S \in SUBSET Inst, S # {}
  PROVE  \E i \in S : \A j \in S : Load(i) <= Load(j)
<1>1. [i \in Inst |-> Load(i)] \in [Inst -> Int]
  BY DispatchLoadInt DEF Load
<1>. QED
  BY <1>1, LeastValue

\* The least load of a set of instances is a number that bounds the others.
LEMMA MinLoadBounds ==
  ASSUME info \in [Inst -> Reports \cup {Empty}], NEW S \in SUBSET Inst, S # {}
  PROVE  MinLoad(S) \in Int /\ \A i \in S : MinLoad(S) <= Load(i)
<1>1. \A i \in S : Load(i) \in Int
  BY DispatchLoadInt DEF Load
<1>2. \E l \in {Load(i) : i \in S} : \A i \in S : l <= Load(i)
  BY LeastLoad
<1>3. MinLoad(S) \in {Load(i) : i \in S} /\ \A i \in S : MinLoad(S) <= Load(i)
  BY <1>2 DEF MinLoad
<1>. QED
  BY <1>1, <1>3

\* Whatever the policy, dispatch_candidates counts one more request for the
\* instance it chooses, which is of its pool or was counted before, and moves
\* the round-robin index only under that policy.
LEMMA CandidateCounted ==
  ASSUME NEW S, NEW h, NEW c, NEW prev, NEW x \in dispatch_candidates(S, h, c, prev)
  PROVE  /\ x.id \in S \cup DOMAIN c
         /\ x.counter = Count(c, x.id)
         /\ x.rr \in {prev, RoundRobin(c, prev)}
<1>1. NearBest(S) \subseteq S /\ Hits(S, h) \subseteq S
  BY DEF NearBest, Hits
<1>2. \A T : PolicyChoice(T, c, prev) \subseteq T \cup DOMAIN c
  BY SchedulingAssumption DEF PolicyChoice, TopChoices
<1>. QED
  BY <1>1, <1>2 DEF dispatch_candidates

\* The policies that sort the instances of the pool choose one of them; the
\* others look at the counters of all instances.
LEMMA CandidateOfPool ==
  ASSUME Policy \in {"load", "queue"}, NEW S, NEW h, NEW c, NEW prev,
         NEW x \in dispatch_candidates(S, h, c, prev)
  PROVE  x.id \in S
<1>1. NearBest(S) \subseteq S /\ Hits(S, h) \subseteq S
  BY DEF NearBest, Hits
<1>2. \A T : PolicyChoice(T, c, prev) \subseteq T
  BY DEF PolicyChoice, TopChoices
<1>. QED
  BY <1>1, <1>2 DEF dispatch_candidates

\* Dispatch by load chooses an instance within the tolerance of every other of
\* its pool, cache hit or not.
LEMMA CandidateHealthy ==
  ASSUME info \in [Inst -> Reports \cup {Empty}], Policy = "load", TopK = 1,
         NEW S \in SUBSET Inst, NEW h, NEW c, NEW prev,
         NEW x \in dispatch_candidates(S, h, c, prev), NEW j \in S
  PROVE  10 * Load(x.id) <= 10 * Load(j) + Unit
<1>1. \A i \in S : Load(i) \in Int
  BY DispatchLoadInt DEF Load
<1>2. MinLoad(S) \in Int /\ MinLoad(S) <= Load(j)
  BY MinLoadBounds
<1>3. ASSUME NEW i \in NearBest(S) PROVE 10 * Load(i) <= 10 * Load(j) + Unit
  BY <1>1, <1>2 DEF NearBest, Unit
<1>4. ASSUME NEW T \in SUBSET Inst, NEW i \in PolicyChoice(T, c, prev), NEW k \in T
      PROVE  i \in T /\ ~(Load(k) < Load(i))
  <2>1. i \in TopChoices(T, [m \in T |-> Load(m)])
    BY <1>4 DEF PolicyChoice
  <2>2. i \in T
    BY <2>1 DEF TopChoices
  <2>3. PICK U : U = {m \in T : [n \in T |-> Load(n)][m] < [n \in T |-> Load(n)][i]}
    OBVIOUS
  <2>4. Cardinality(U) < 1
    BY <2>1, <2>3 DEF TopChoices
  <2>5. IsFiniteSet(U) /\ Cardinality(U) \in Nat
    BY <2>3, InstFinite
  <2>6. U = {}
    BY <2>4, <2>5, FS_EmptySet
  <2>. QED
    BY <2>2, <2>3, <2>6
<1>5. CASE x.id \in Hits(S, h)
  BY <1>3, <1>5 DEF Hits
<1>6. CASE x.id \in PolicyChoice(S, c, prev)
  <2>1. x.id \in S /\ ~(Load(j) < Load(x.id))
    BY <1>4, <1>6
  <2>. QED
    BY <1>1, <2>1 DEF Unit
<1>7. CASE x.id \in PolicyChoice(NearBest(S), c, prev)
  <2>1. x.id \in NearBest(S)
    BY <1>7 DEF PolicyChoice, TopChoices
  <2>. QED
    BY <1>3, <2>1
<1>. QED
  BY <1>5, <1>6, <1>7 DEF dispatch_candidates

-------------------------------------------------------------------------------
(* The inductive invariant                                                     *)

\* Exactly the registered instances with a dispatchable role are in the dispatch
\* set, and snapshots are kept of registered instances only.
MembersInv ==
  /\ \A i \in ids : i \in avail <=> Dispatchable(i)
  /\ snaps \subseteq ids

\* Every instance of the dispatch set has a counter, and no counter exceeds the
\* requests dispatched; counters of decode instances outlive them.
CountersInv ==
  /\ avail \subseteq DOMAIN counter
  /\ \A i \in DOMAIN counter : counter[i] \in 0 .. total

IInv == TypeOK /\ MembersInv /\ CountersInv

\* Counting a request for an instance raises no counter by more than one.
LEMMA CountBounds ==
  ASSUME NEW c, NEW n \in Nat, DOMAIN c \subseteq Inst, NEW i \in Inst,
         \A j \in DOMAIN c : c[j] \in 0 .. n
  PROVE  /\ DOMAIN Count(c, i) = DOMAIN c \cup {i}
         /\ \A j \in DOMAIN Count(c, i) : Count(c, i)[j] \in 0 .. n + 1
BY DEF Count

\* The round-robin index is a position among the counted instances.
LEMMA RoundRobinBounds ==
  ASSUME NEW c, DOMAIN c \subseteq Inst, DOMAIN c # {}, NEW prev \in -1 .. N - 1
  PROVE  RoundRobin(c, prev) \in -1 .. N - 1
<1>1. IsFiniteSet(Inst) /\ Cardinality(Inst) = N
  BY SchedulingAssumption, FS_Interval DEF Inst
<1>2. Cardinality(DOMAIN c) <= N
  BY <1>1, FS_Subset
<1>3. Cardinality(DOMAIN c) \in Nat /\ Cardinality(DOMAIN c) # 0
  BY InstFinite, FS_EmptySet
<1>4. PICK m \in Nat \ {0} : m = Cardinality(DOMAIN c) /\ m <= N
  BY <1>2, <1>3
<1>5. (prev + 1) % m \in 0 .. m - 1
  BY <1>4
<1>. QED
  BY <1>4, <1>5, SchedulingAssumption DEF RoundRobin

\* A choice of dispatch_candidates from registered instances keeps the counters
\* and the index in their bounds.
LEMMA CandidateBounds ==
  ASSUME NEW S \in SUBSET Inst, NEW h, NEW c, NEW n \in Nat, NEW prev \in -1 .. N - 1,
         DOMAIN c \subseteq Inst, DOMAIN c # {}, \A j \in DOMAIN c : c[j] \in 0 .. n,
         NEW x \in dispatch_candidates(S, h, c, prev)
  PROVE  /\ x.id \in Inst /\ x.rr \in -1 .. N - 1
         /\ DOMAIN x.counter = DOMAIN c \cup {x.id}
         /\ \A j \in DOMAIN x.counter : x.counter[j] \in 0 .. n + 1
<1>1. x.id \in Inst
  BY CandidateCounted
<1>2. x.rr \in -1 .. N - 1
  BY CandidateCounted, RoundRobinBounds
<1>3. x.counter = Count(c, x.id)
  BY CandidateCounted
<1>. QED
  BY <1>1, <1>2, <1>3, CountBounds

\* The invariant holds initially.
LEMMA InitInv == Init => IInv
<1>. SUFFICES ASSUME Init PROVE IInv
  OBVIOUS
<1>1. DOMAIN counter = {}
  BY DEF Init
<1>2. TypeOK
  BY <1>1, SchedulingAssumption DEF Init, TypeOK, Inst
<1>. QED
  BY <1>1, <1>2 DEF Init, IInv, MembersInv, CountersInv

\* Registering an instance preserves the invariant.
LEMMA ScaleUpInv ==
  ASSUME IInv, NEW i \in Inst, scale_up(i)
  PROVE  IInv'
<1>1. CASE Dispatchable(i)
  <2>1. DOMAIN counter' = DOMAIN counter \cup {i}
        /\ \A j \in DOMAIN counter' : counter'[j] = IF j = i THEN 0 ELSE counter[j]
    BY <1>1 DEF scale_up
  <2>2. TypeOK'
    BY <1>1, <2>1, SchedulingAssumption DEF IInv, TypeOK, scale_up, Reports
  <2>3. MembersInv'
    BY <1>1 DEF IInv, TypeOK, MembersInv, scale_up, Dispatchable
  <2>4. CountersInv'
    BY <1>1, <2>1 DEF IInv, TypeOK, CountersInv, scale_up
  <2>. QED
    BY <2>2, <2>3, <2>4 DEF IInv
<1>2. CASE ~Dispatchable(i)
  <2>1. TypeOK'
    BY <1>2 DEF IInv, TypeOK, scale_up, Reports
  <2>2. MembersInv'
    BY <1>2 DEF IInv, TypeOK, MembersInv, scale_up, Dispatchable
  <2>3. CountersInv'
    BY <1>2 DEF IInv, CountersInv, scale_up
  <2>. QED
    BY <2>1, <2>2, <2>3 DEF IInv
<1>. QED
  BY <1>1, <1>2

\* Removing an instance preserves the invariant.
LEMMA ScaleDownInv ==
  ASSUME IInv, NEW i \in Inst, scale_down(i)
  PROVE  IInv'
<1>1. DOMAIN counter' = DOMAIN counter \ (IF i \in avail THEN {i} ELSE {})
      /\ \A j \in DOMAIN counter' : counter'[j] = counter[j]
  BY DEF scale_down, remove_instance
<1>2. TypeOK'
  BY <1>1 DEF IInv, TypeOK, scale_down, remove_instance, Reports
<1>3. MembersInv'
  BY DEF IInv, TypeOK, MembersInv, scale_down, remove_instance, Dispatchable
<1>4. CountersInv'
  BY <1>1 DEF IInv, CountersInv, scale_down, remove_instance
<1>. QED
  BY <1>2, <1>3, <1>4 DEF IInv

\* Applying a report preserves the invariant.
LEMMA ReportInv ==
  ASSUME IInv, NEW i \in Inst, NEW x \in Reports, update_instance_infos(i, x)
  PROVE  IInv'
<1>1. TypeOK'
  BY DEF IInv, TypeOK, update_instance_infos, Reports
<1>. QED
  BY <1>1 DEF IInv, MembersInv, CountersInv, update_instance_infos, Dispatchable

\* Dispatching a request preserves the invariant.
LEMMA DispatchInv ==
  ASSUME IInv, NEW h, dispatch(h)
  PROVE  IInv'
<1>1. PICK x \in dispatch_candidates(avail, h, counter, rr) : counter' = x.counter /\ rr' = x.rr
  BY DEF dispatch
<1>2. /\ avail \in SUBSET Inst /\ total \in Nat /\ rr \in -1 .. N - 1
      /\ DOMAIN counter \subseteq Inst /\ DOMAIN counter # {}
      /\ \A j \in DOMAIN counter : counter[j] \in 0 .. total
  BY DEF IInv, TypeOK, CountersInv, dispatch
<1>3. /\ x.id \in Inst /\ rr' \in -1 .. N - 1
      /\ DOMAIN counter' = DOMAIN counter \cup {x.id}
      /\ \A j \in DOMAIN counter' : counter'[j] \in 0 .. total + 1
  <2>1. /\ x.id \in Inst /\ x.rr \in -1 .. N - 1
        /\ DOMAIN x.counter = DOMAIN counter \cup {x.id}
        /\ \A j \in DOMAIN x.counter : x.counter[j] \in 0 .. total + 1
    BY <1>2, CandidateBounds
  <2>. QED
    BY <1>1, <2>1
<1>4. /\ total' = total + 1 /\ total < MaxRequests /\ snaps' = snaps \cup avail
      /\ UNCHANGED <<v1, ids, info, avail>>
  BY DEF dispatch
<1>5. TypeOK'
  BY <1>2, <1>3, <1>4, SchedulingAssumption DEF IInv, TypeOK, MembersInv, Reports
<1>6. CountersInv'
  BY <1>3, <1>4 DEF IInv, CountersInv
<1>7. MembersInv'
  BY <1>4 DEF IInv, TypeOK, MembersInv, Dispatchable
<1>. QED
  BY <1>5, <1>6, <1>7 DEF IInv

\* Choosing the two instances of a P/D request preserves the invariant: a
\* registered prefill instance is in the dispatch set, so one is counted.
LEMMA SelectPdInv ==
  ASSUME IInv, NEW h, SelectPd(h)
  PROVE  IInv'
<1>0. PICK x \in dispatch_candidates(Role("prefill"), h, counter, rr) :
        \E y \in dispatch_candidates(Role("decode"), h, x.counter, x.rr) :
          counter' = y.counter /\ rr' = y.rr
  BY DEF SelectPd
<1>1. PICK y \in dispatch_candidates(Role("decode"), h, x.counter, x.rr) :
        counter' = y.counter /\ rr' = y.rr
  BY <1>0
<1>2. /\ Role("prefill") \in SUBSET Inst /\ Role("decode") \in SUBSET Inst
      /\ total \in Nat /\ rr \in -1 .. N - 1 /\ DOMAIN counter \subseteq Inst
      /\ \A j \in DOMAIN counter : counter[j] \in 0 .. total
  BY DEF IInv, TypeOK, CountersInv, Role
<1>3. DOMAIN counter # {}
  BY DEF SelectPd, Role, IInv, MembersInv, CountersInv, Dispatchable
<1>4. /\ x.id \in Inst /\ x.rr \in -1 .. N - 1
      /\ DOMAIN x.counter = DOMAIN counter \cup {x.id}
      /\ \A j \in DOMAIN x.counter : x.counter[j] \in 0 .. total + 1
  BY <1>2, <1>3, CandidateBounds
<1>5. /\ y.id \in Inst /\ rr' \in -1 .. N - 1
      /\ DOMAIN counter' = DOMAIN counter \cup {x.id, y.id}
      /\ \A j \in DOMAIN counter' : counter'[j] \in 0 .. total + 2
  <2>1. total + 1 \in Nat /\ DOMAIN x.counter \subseteq Inst /\ DOMAIN x.counter # {}
    BY <1>2, <1>4
  <2>2. /\ y.id \in Inst /\ y.rr \in -1 .. N - 1
        /\ DOMAIN y.counter = DOMAIN x.counter \cup {y.id}
        /\ \A j \in DOMAIN y.counter : y.counter[j] \in 0 .. (total + 1) + 1
    BY <1>2, <1>4, <2>1, CandidateBounds
  <2>. QED
    BY <1>1, <1>2, <1>4, <2>2
<1>6. /\ total' = total + 2 /\ total + 1 < MaxRequests /\ snaps' = snaps \cup ids
      /\ UNCHANGED <<v1, ids, info, avail>>
  BY DEF SelectPd
<1>7. TypeOK'
  BY <1>2, <1>4, <1>5, <1>6, SchedulingAssumption DEF IInv, TypeOK, MembersInv, Reports
<1>8. CountersInv'
  BY <1>5, <1>6 DEF IInv, CountersInv
<1>9. MembersInv'
  BY <1>6 DEF IInv, TypeOK, MembersInv, Dispatchable
<1>. QED
  BY <1>7, <1>8, <1>9 DEF IInv

\* Every step preserves the invariant.
LEMMA NextInv == IInv /\ [Next]_vars => IInv'
<1>. SUFFICES ASSUME IInv, [Next]_vars PROVE IInv'
  OBVIOUS
<1>1. ASSUME NEW i \in Inst, scale_up(i) PROVE IInv'
  BY <1>1, ScaleUpInv
<1>2. ASSUME NEW i \in Inst, scale_down(i) PROVE IInv'
  BY <1>2, ScaleDownInv
<1>3. ASSUME NEW i \in Inst, NEW x \in Reports, update_instance_infos(i, x) PROVE IInv'
  BY <1>3, ReportInv
<1>4. ASSUME NEW h, dispatch(h) PROVE IInv'
  BY <1>4, DispatchInv
<1>5. ASSUME NEW h, SelectPd(h) PROVE IInv'
  BY <1>5, SelectPdInv
<1>6. CASE UNCHANGED vars
  BY <1>6 DEF vars, IInv, TypeOK, MembersInv, CountersInv, Dispatchable, Reports
<1>. QED
  BY <1>1, <1>2, <1>3, <1>4, <1>5, <1>6 DEF Next

-------------------------------------------------------------------------------
(* Theorems                                                                    *)

\* The sets, counters and snapshots of the schedulers stay consistent under any
\* order of registrations, removals, reports and dispatches, for every policy.
THEOREM SchedulingInvariant == Spec => []IInv
BY InitInv, NextInv, PTL DEF Spec

\* No snapshot of a removed instance stays with the DispatchScheduler, for any
\* number of instances and requests and every policy.
THEOREM SnapshotsFreshAlways == Spec => []SnapshotsFresh
<1>1. IInv => SnapshotsFresh
  BY DEF IInv, MembersInv, SnapshotsFresh
<1>. QED
  BY <1>1, SchedulingInvariant, PTL

\* Whatever the instances report, one call of pair_migration returns a matching,
\* and one call for true KV migration a matching within the compatibility keys.
THEOREM PairsSoundAlways == Spec => []PairsSound
<1>1. IInv => PairsSound
  <2>. SUFFICES ASSUME IInv PROVE PairsSound
    OBVIOUS
  <2>1. info \in [Inst -> Reports \cup {Empty}] /\ ids \in SUBSET Inst
    BY DEF IInv, TypeOK
  <2>. QED
    BY <2>1, PairsMatch, PairsMatchV1 DEF PairsSound
<1>. QED
  BY <1>1, SchedulingInvariant, PTL

\* A step that is not a dispatch leaves the latest decision or forgets it.
LEMMA OtherSteps ==
  ASSUME [Next]_vars
  PROVE  \/ \E h : dispatch(h) \/ SelectPd(h)
         \/ last' = None
         \/ UNCHANGED vars
BY DEF Next, scale_up, scale_down, update_instance_infos

\* Under the policies that sort the instances of the pool, each half of a P/D
\* request goes to a registered instance of its role and an ordinary request
\* never to a decode-only one.
THEOREM RolesKeptAlways ==
  ASSUME Policy \in {"load", "queue"}
  PROVE  Spec => []RolesKept
<1>1. Init => RolesKept
  BY DEF Init, RolesKept, None
<1>2. IInv /\ RolesKept /\ [Next]_vars => RolesKept'
  <2>. SUFFICES ASSUME IInv, RolesKept, [Next]_vars PROVE RolesKept'
    OBVIOUS
  <2>1. ASSUME NEW h, dispatch(h) PROVE RolesKept'
    <3>1. PICK x \in dispatch_candidates(avail, h, counter, rr) :
            last' = [kind |-> "dispatch", pool |-> avail, hashes |-> h, ids |-> <<x.id>>]
      BY <2>1 DEF dispatch
    <3>2. x.id \in avail
      BY CandidateOfPool
    <3>3. x.id \in ids /\ Type[x.id] # "decode"
      BY <3>2 DEF IInv, TypeOK, MembersInv, Dispatchable
    <3>4. ids' = ids
      BY <2>1 DEF dispatch
    <3>. QED
      BY <3>1, <3>3, <3>4 DEF RolesKept
  <2>2. ASSUME NEW h, SelectPd(h) PROVE RolesKept'
    <3>0. PICK x \in dispatch_candidates(Role("prefill"), h, counter, rr) :
            \E y \in dispatch_candidates(Role("decode"), h, x.counter, x.rr) :
              last' = [kind |-> "pd", pool |-> Role("prefill") \cup Role("decode"),
                       hashes |-> h, ids |-> <<x.id, y.id>>]
      BY <2>2 DEF SelectPd
    <3>1. PICK y \in dispatch_candidates(Role("decode"), h, x.counter, x.rr) :
            last' = [kind |-> "pd", pool |-> Role("prefill") \cup Role("decode"),
                     hashes |-> h, ids |-> <<x.id, y.id>>]
      BY <3>0
    <3>2. x.id \in Role("prefill")
      BY CandidateOfPool
    <3>3. y.id \in Role("decode")
      BY CandidateOfPool
    <3>4. Role("prefill")' = Role("prefill") /\ Role("decode")' = Role("decode")
      BY <2>2 DEF SelectPd, Role, Polled
    <3>. QED
      BY <3>1, <3>2, <3>3, <3>4 DEF RolesKept
  <2>3. CASE last' = None
    BY <2>3 DEF RolesKept, None
  <2>4. CASE UNCHANGED vars
    BY <2>4 DEF vars, RolesKept, Role, Polled
  <2>. QED
    BY <2>1, <2>2, <2>3, <2>4, OtherSteps
<1>. QED
  BY <1>1, <1>2, SchedulingInvariant, PTL DEF Spec

\* Dispatching by load, what is chosen is within the tolerance of the best load
\* of its pool, whatever is cached where and however many instances there are.
THEOREM HealthFirstAlways == Spec => []HealthFirst
<1>1. Init => HealthFirst
  BY DEF Init, HealthFirst, None
<1>2. IInv /\ HealthFirst /\ [Next]_vars => HealthFirst'
  <2>. SUFFICES ASSUME IInv, HealthFirst, [Next]_vars, Policy = "load", TopK = 1
                PROVE  HealthFirst'
    BY DEF HealthFirst
  <2>1. info \in [Inst -> Reports \cup {Empty}] /\ ids \in SUBSET Inst /\ avail \in SUBSET Inst
    BY DEF IInv, TypeOK
  <2>2. ASSUME NEW h, dispatch(h) PROVE HealthFirst'
    <3>1. PICK x \in dispatch_candidates(avail, h, counter, rr) :
            last' = [kind |-> "dispatch", pool |-> avail, hashes |-> h, ids |-> <<x.id>>]
      BY <2>2 DEF dispatch
    <3>2. \A j \in avail : 10 * Load(x.id) <= 10 * Load(j) + Unit
      BY <2>1, CandidateHealthy
    <3>3. \A i : Load(i)' = Load(i)
      BY <2>2 DEF dispatch, Load, DispatchLoad
    <3>4. /\ last'.kind = "dispatch" /\ last'.pool = avail
          /\ Len(last'.ids) = 1 /\ last'.ids[1] = x.id
      BY <3>1
    <3>. QED
      BY <3>2, <3>3, <3>4 DEF HealthFirst
  <2>3. ASSUME NEW h, SelectPd(h) PROVE HealthFirst'
    <3>0. PICK x \in dispatch_candidates(Role("prefill"), h, counter, rr) :
            \E y \in dispatch_candidates(Role("decode"), h, x.counter, x.rr) :
              last' = [kind |-> "pd", pool |-> Role("prefill") \cup Role("decode"),
                       hashes |-> h, ids |-> <<x.id, y.id>>]
      BY <2>3 DEF SelectPd
    <3>1. PICK y \in dispatch_candidates(Role("decode"), h, x.counter, x.rr) :
            last' = [kind |-> "pd", pool |-> Role("prefill") \cup Role("decode"),
                     hashes |-> h, ids |-> <<x.id, y.id>>]
      BY <3>0
    <3>2. Role("prefill") \in SUBSET Inst /\ Role("decode") \in SUBSET Inst
      BY <2>1 DEF Role
    <3>3. /\ x.id \in Role("prefill")
          /\ \A j \in Role("prefill") : 10 * Load(x.id) <= 10 * Load(j) + Unit
      BY <2>1, <3>2, CandidateHealthy, CandidateOfPool
    <3>4. /\ y.id \in Role("decode")
          /\ \A j \in Role("decode") : 10 * Load(y.id) <= 10 * Load(j) + Unit
      BY <2>1, <3>2, CandidateHealthy, CandidateOfPool
    <3>5. \A i : Load(i)' = Load(i)
      BY <2>3 DEF SelectPd, Load, DispatchLoad
    <3>6. /\ last'.kind = "pd" /\ last'.pool = Role("prefill") \cup Role("decode")
          /\ Len(last'.ids) = 2 /\ last'.ids[1] = x.id /\ last'.ids[2] = y.id
      BY <3>1
    <3>7. ASSUME NEW j \in last'.pool, Type[j] = Type[x.id]
          PROVE  10 * Load(x.id) <= 10 * Load(j) + Unit
      BY <3>3, <3>6, <3>7 DEF Role
    <3>8. ASSUME NEW j \in last'.pool, Type[j] = Type[y.id]
          PROVE  10 * Load(y.id) <= 10 * Load(j) + Unit
      BY <3>4, <3>6, <3>8 DEF Role
    <3>9. \A k \in 1 .. Len(last'.ids) : last'.ids[k] \in {x.id, y.id}
      BY <3>6
    <3>. QED
      BY <3>5, <3>6, <3>7, <3>8, <3>9 DEF HealthFirst
  <2>4. CASE last' = None
    BY <2>4 DEF HealthFirst, None
  <2>5. CASE UNCHANGED vars
    BY <2>5 DEF vars, HealthFirst, Load, DispatchLoad
  <2>. QED
    BY <2>2, <2>3, <2>4, <2>5, OtherSteps
<1>. QED
  BY <1>1, <1>2, SchedulingInvariant, PTL DEF Spec
===============================================================================
