--------------------------- MODULE GlobalScheduling ---------------------------
(***************************************************************************)
(* The GlobalScheduler (global_scheduler/*.py) and its four schedulers:    *)
(* registration of instances, polled InstanceInfos and the load metrics    *)
(* computed from them (instance_info.py), ordinary dispatch and the P/D    *)
(* role selection of Manager._select_v1_pd_instances, and the pairing of   *)
(* migrations with its filters and policies.                               *)
(*                                                                         *)
(* The backend is legacy vLLM or V1: they report different counters.  An   *)
(* instance id is a number (the schedulers sort them).  Loads are counted  *)
(* in units of 1/Unit; the formula of the metric virtual_usage, which has  *)
(* an exponential, is a parameter.  The orders the code takes from a dict  *)
(* are left open.                                                          *)
(***************************************************************************)
EXTENDS Integers, FiniteSets, Sequences, SequencesExt

CONSTANTS
  N,                 \* ids are 1 .. N
  Type,              \* [Inst -> "prefill", "decode" or "no_constraints"]
  Capable, Key,      \* true KV migration: capable instances, compatibility keys
  Schedulers,        \* states of a legacy scheduler that an instance may report
  Adapters,          \* states of a V1 adapter that an instance may report
  Hashes,            \* block hash sets a request may come with
  Policy, TopK,      \* dispatch_policy, topk_random_dispatch
  DispatchMetric, MigrationMetric, Defrag,  \* load metrics, enable_defrag
  VirtualUsage(_),   \* virtual_usage of a report with requests, in units of 1/Unit
  MigrateOut,        \* migrate_out_threshold, in units of 1/Unit
  Total, Watermark,  \* GPU blocks of an instance, and its watermark
  MaxRequests        \* bound: requests dispatched

Inst == 1 .. N
NoInst == 0
Unit == 12
PosInf == 1000000
NegInf == -PosInf

ASSUME SchedulingAssumption ==
  /\ N \in Nat \ {0} /\ Total \in Nat \ {0} /\ Watermark \in 0 .. Total /\ MaxRequests \in Nat
  /\ Type \in [Inst -> {"prefill", "decode", "no_constraints"}]
  /\ Capable \subseteq Inst /\ DOMAIN Key = Inst
  /\ Policy \in {"flood", "balanced", "load", "queue", "rr"} /\ TopK \in Nat \ {0}
  /\ DispatchMetric \in {"usage_ratio", "remaining_steps", "virtual_usage"}
  /\ MigrationMetric \in {"usage_ratio", "remaining_steps", "remaining_tokens"}
  /\ Defrag \in BOOLEAN /\ MigrateOut \in Int

VARIABLES
  v1,        \* is_vllm_v1: the backend of the deployment
  ids,       \* instance_id_set
  info,      \* instance_info: reported counters, or Empty; only for ids
  avail,     \* DispatchScheduler.available_dispatch_instance_set
  snaps,     \* DispatchScheduler.instance_info: its keys
  counter,   \* DispatchScheduler.instance_num_requests
  rr,        \* RoundRobin.prev_instance_idx
  total,     \* total_num_requests
  last       \* history: the latest decision and what it chose from

vars == <<v1, ids, info, avail, snaps, counter, rr, total, last>>

Empty == [empty |-> TRUE]
Polled(i) == i \in ids /\ info[i] # Empty
None == [kind |-> "none"]

-------------------------------------------------------------------------------
(* InstanceInfo and its load metrics                                           *)

\* SchedulerLlumnix._get_instance_info with the blocks of the last running
\* request.  s.running has the blocks of every running request, s.waiting the
\* blocks of every waiting one and whether it was preempted before.
_get_instance_info(s) ==
  LET blocks(q) == FoldSeq(LAMBDA x, acc : x.blocks + acc, 0, q) IN
  [run |-> Len(s.running), wait |-> Len(s.waiting), total |-> Total,
   avail |-> Total - blocks(s.running) - Watermark, used |-> blocks(s.running),
   firstWait |-> IF s.waiting = << >> THEN 0 ELSE Head(s.waiting).blocks,
   allWait |-> blocks(s.waiting),
   lastRun |-> IF s.running = << >> THEN 0 ELSE Last(s.running).blocks,
   killed |-> s.swapped + Len(SelectSeq(s.waiting, LAMBDA x : x.preempted)),
   memory |-> 0, hashes |-> {}]

\* V1EngineAdapter.update_instance_info: no block counters, every request is a
\* running one, the free memory of the device and the blocks of the KV events.
update_instance_info(s) ==
  [run |-> s.requests, wait |-> 0, total |-> 0, avail |-> 0, used |-> 0, firstWait |-> 0,
   allWait |-> 0, lastRun |-> 0, killed |-> 0, memory |-> s.memory, hashes |-> s.hashes]

\* Llumlet.get_instance_info: what an instance may report.
Reports ==
  IF v1 THEN {update_instance_info(s) : s \in Adapters}
  ELSE {_get_instance_info(s) : s \in Schedulers}

\* What an instance reports of requests, blocks and memory are numbers.
Numbers(x) ==
  /\ {x.run, x.wait, x.total, x.used, x.firstWait, x.allWait, x.lastRun, x.killed, x.memory}
       \subseteq Nat
  /\ x.avail \in Int

ASSUME ReportsAssumption ==
  \A x \in {_get_instance_info(s) : s \in Schedulers} \cup {update_instance_info(s) : s \in Adapters} :
    Numbers(x) /\ VirtualUsage(x) \in Int

Ratio(a, n) == IF n > 0 THEN (a * Unit) \div n ELSE -((a * Unit) \div (-n))

\* DispatchLoadComputation; an instance that never reported has the default.
\* The free memory stands in for the blocks where there are none.
DispatchLoad(x) ==
  LET n == x.run + x.wait
      room == x.avail - x.allWait
  IN IF x = Empty THEN NegInf
     ELSE IF DispatchMetric = "usage_ratio"
     THEN IF x.total > 0 THEN Ratio(x.used + x.allWait, x.total) ELSE NegInf
     ELSE IF n = 0 THEN NegInf
     ELSE IF DispatchMetric = "virtual_usage" THEN VirtualUsage(x)
     ELSE -Ratio(IF room = 0 /\ v1 THEN x.memory ELSE room, n)

\* MigrationLoadComputation, after d requests of x.lastRun blocks moved in
\* (d = 1), out (d = -1) or not at all (d = 0).
MigrationLoadAfter(x, d) ==
  LET free == x.avail - d * x.lastRun
      n == x.run + d + (IF Defrag /\ x.wait # 0 THEN 1 ELSE 0)
  IN IF x = Empty THEN (IF d = 1 THEN NegInf ELSE PosInf)
     ELSE IF MigrationMetric = "remaining_tokens" THEN free * Unit
     ELSE IF MigrationMetric = "usage_ratio"
     THEN IF x.total > 0 THEN Ratio(x.used + x.firstWait, x.total) ELSE NegInf
     ELSE IF n = 0 THEN NegInf
     ELSE -Ratio(IF Defrag THEN free - x.firstWait ELSE free, n)

Load(i) == DispatchLoad(info[i])
MigrationLoad(i) == MigrationLoadAfter(info[i], 0)

\* a - b on extended numbers; {} where it is not a number.
Diff(a, b) ==
  IF a = b /\ a \in {NegInf, PosInf} THEN {}
  ELSE IF a = PosInf \/ b = NegInf THEN {PosInf}
  ELSE IF a = NegInf \/ b = PosInf THEN {NegInf} ELSE {a - b}

-------------------------------------------------------------------------------
(* Dispatch                                                                    *)

\* The first min(TopK, n) of the instances sorted by key.
TopChoices(S, key) == {i \in S : Cardinality({j \in S : key[j] < key[i]}) < TopK}

Queued(i) == IF info[i] = Empty THEN 0 ELSE info[i].wait

\* The position in the sorted ids that comes after prev.
RoundRobin(c, prev) == (prev + 1) % Cardinality(DOMAIN c)

\* What the policy may return with the counters c: flood, balanced and rr look
\* at nothing else.
PolicyChoice(S, c, prev) ==
  CASE Policy = "load" -> TopChoices(S, [i \in S |-> Load(i)])
    [] Policy = "queue" -> TopChoices(S, [i \in S |-> Queued(i)])
    [] Policy = "flood" -> {i \in DOMAIN c : \A j \in DOMAIN c : c[j] <= c[i]}
    [] Policy = "balanced" -> {i \in DOMAIN c : \A j \in DOMAIN c : c[i] <= c[j]}
    [] Policy = "rr" -> {i \in DOMAIN c : Cardinality({j \in DOMAIN c : j < i}) = RoundRobin(c, prev)}

MinLoad(S) == CHOOSE l \in {Load(i) : i \in S} : \A i \in S : l <= Load(i)

\* Without the tolerance.
NearBestAll(S) == S

\* Instances whose load is within 0.10 of the best.
NearBest(S) == {i \in S : 10 * Load(i) <= 10 * MinLoad(S) + Unit}

Cached(i) == IF info[i] = Empty THEN {} ELSE info[i].hashes
Affinity(i, h) == Cardinality(h \cap Cached(i))

\* The best hit among the near best instances, if any of them is one.
Hits(S, h) ==
  LET near == NearBest(S)
      top == {i \in near : \A j \in near : Affinity(j, h) <= Affinity(i, h)}
  IN {i \in top : Affinity(i, h) > 0
                  /\ \A j \in top : Load(i) < Load(j) \/ (Load(i) = Load(j) /\ j <= i)}

Count(c, i) == [j \in DOMAIN c \cup {i} |-> (IF j \in DOMAIN c THEN c[j] ELSE 0)
                                            + (IF j = i THEN 1 ELSE 0)]

\* dispatch_candidates for a pool S and hashes h: the choice, and the counters
\* and the round-robin index after it.
dispatch_candidates(S, h, c, prev) ==
  LET pool == IF h # {} /\ \E i \in S : Cached(i) # {} THEN NearBest(S) ELSE S
      next == IF Policy = "rr" THEN RoundRobin(c, prev) ELSE prev
  IN IF Hits(S, h) # {}
     THEN {[id |-> i, counter |-> Count(c, i), rr |-> prev] : i \in Hits(S, h)}
     ELSE {[id |-> i, counter |-> Count(c, i), rr |-> next] : i \in PolicyChoice(pool, c, prev)}

\* GlobalScheduler.dispatch.
dispatch(h) ==
  /\ total < MaxRequests /\ avail # {}
  /\ \E x \in dispatch_candidates(avail, h, counter, rr) :
       /\ counter' = x.counter /\ rr' = x.rr
       /\ last' = [kind |-> "dispatch", pool |-> avail, hashes |-> h, ids |-> <<x.id>>]
  /\ snaps' = snaps \cup avail
  /\ total' = total + 1
  /\ UNCHANGED <<v1, ids, info, avail>>

Role(t) == {i \in ids : Polled(i) /\ Type[i] = t}

\* Manager._select_v1_pd_instances: one instance of each role, by the reported
\* types; no role is chosen while one of the pools is empty.
SelectPd(h) ==
  LET P == Role("prefill")  D == Role("decode") IN
  /\ v1 /\ total + 1 < MaxRequests /\ P # {} /\ D # {}
  /\ \E x \in dispatch_candidates(P, h, counter, rr) :
       \E y \in dispatch_candidates(D, h, x.counter, x.rr) :
         /\ counter' = y.counter /\ rr' = y.rr
         /\ last' = [kind |-> "pd", pool |-> P \cup D, hashes |-> h, ids |-> <<x.id, y.id>>]
  /\ snaps' = snaps \cup ids
  /\ total' = total + 2
  /\ UNCHANGED <<v1, ids, info, avail>>

-------------------------------------------------------------------------------
(* Registration and polling                                                    *)

\* Every role joins the dispatch set.
DispatchableAll(i) == TRUE

Dispatchable(i) == Type[i] \in {"no_constraints", "prefill"}

scale_up(i) ==
  /\ i \notin ids
  /\ ids' = ids \cup {i}
  /\ info' = [info EXCEPT ![i] = Empty]
  /\ snaps' = snaps \cup avail
  /\ IF Dispatchable(i)
     THEN /\ avail' = avail \cup {i}
          /\ counter' = [j \in DOMAIN counter \cup {i} |-> IF j = i THEN 0 ELSE counter[j]]
     ELSE UNCHANGED <<avail, counter>>
  /\ last' = None
  /\ UNCHANGED <<v1, rr, total>>

\* Forgetting the snapshot of the instances of the dispatch set only.
remove_dispatched(i) ==
  /\ snaps' = IF i \in avail THEN (snaps \cup avail) \ {i} ELSE snaps \cup avail
  /\ avail' = avail \ {i}
  /\ counter' = IF i \in avail THEN [j \in DOMAIN counter \ {i} |-> counter[j]] ELSE counter

\* DispatchScheduler.remove_instance: the snapshot goes for every role, the
\* counter only with an instance of the dispatch set.
remove_instance(i) ==
  /\ snaps' = (snaps \cup (avail \ {i})) \ {i}
  /\ avail' = avail \ {i}
  /\ counter' = IF i \in avail THEN [j \in DOMAIN counter \ {i} |-> counter[j]] ELSE counter

scale_down(i) ==
  /\ i \in ids
  /\ ids' = ids \ {i}
  /\ info' = [info EXCEPT ![i] = Empty]
  /\ remove_instance(i)
  /\ last' = None
  /\ UNCHANGED <<v1, rr, total>>

\* update_instance_infos: the report of an instance that is gone is dropped.
update_instance_infos(i, x) ==
  /\ info' = IF i \in ids THEN [info EXCEPT ![i] = x] ELSE info
  /\ last' = None
  /\ UNCHANGED <<v1, ids, avail, snaps, counter, rr, total>>

-------------------------------------------------------------------------------
(* Pairing of migrations                                                       *)

Killed(i) == info[i] # Empty /\ info[i].killed > 0
Reported(i) == IF info[i] = Empty THEN "none" ELSE Type[i]

LoadSrc(i) == Killed(i) \/ MigrationLoad(i) > MigrateOut

\* Without the look at killed requests.
LoadDstLoose(i) == MigrationLoad(i) <= MigrateOut

LoadDst(i) == ~Killed(i) /\ MigrationLoad(i) < MigrateOut

\* filter_instances on a view S of the instances.
Sources(S, t) ==
  CASE t = "NO_CONSTRAINTS" -> {i \in S : LoadSrc(i)}
    [] t = "DECODING_2_DECODING" -> {i \in S : Reported(i) = "decode" /\ LoadSrc(i)}
    [] t = "PREFILL_2_DECODING" -> {i \in S : Reported(i) = "prefill"}

Targets(S, t) ==
  CASE t = "NO_CONSTRAINTS" -> {i \in S : LoadDst(i)}
    [] t = "DECODING_2_DECODING" -> {i \in S : Reported(i) = "decode" /\ LoadDst(i)}
    [] t = "PREFILL_2_DECODING" -> {i \in S : Reported(i) = "decode" /\ ~Killed(i)}

\* The ways to sort S by key, ties in any order.
SortedBy(S, key) ==
  {s \in SetToSeqs(S) : \A a, b \in 1 .. Len(s) : a < b => key[s[a]] <= key[s[b]]}

\* Balanced: moving a request leaves the source the busier one, brings the two
\* closer, and does not take the target over the threshold.
Worthwhile(s, d) ==
  LET after == MigrationLoadAfter(info[d], 1) IN
  /\ after <= MigrateOut
  /\ \/ \E x \in Diff(MigrationLoadAfter(info[s], -1), after),
           y \in Diff(MigrationLoad(s), MigrationLoad(d)) : 0 < x /\ x < y
     \/ MigrationLoad(d) = NegInf

\* The first source with the first target, and so on, as the policy allows.
PairUp(src, dst, policy) ==
  {<<src[k], dst[k]>> : k \in {n \in 1 .. Len(src) :
                                /\ n <= Len(dst)
                                /\ policy = "balanced" => Worthwhile(src[n], dst[n])}}

\* The pairs a call may return under a pair_migration_policy: the busiest source
\* with the idlest target, and so on.
pair_migration(S, t, policy) ==
  LET up == [i \in S |-> MigrationLoad(i)]
      down == [i \in S |-> -MigrationLoad(i)] IN
  {PairUp(src, dst, policy) :
     src \in SortedBy(Sources(S, t), down), dst \in SortedBy(Targets(S, t), up)}

Group(k) == {i \in ids : v1 /\ i \in Capable /\ info[i] # Empty /\ Key[i] = k}

\* V1MigrationScheduler: one scheduler per compatibility key, over the
\* instances that report the capabilities.
pair_migration_v1(t, policy) ==
  LET K == {Key[i] : i \in ids}
      parts == [k \in K |-> pair_migration(Group(k), t, policy)]
  IN {UNION {f[k] : k \in K} :
        f \in {g \in [K -> UNION {parts[k] : k \in K}] : \A k \in K : g[k] \in parts[k]}}

-------------------------------------------------------------------------------
Init ==
  /\ v1 \in BOOLEAN /\ ids = {} /\ avail = {} /\ snaps = {}
  /\ info = [i \in Inst |-> Empty]
  /\ counter = << >>
  /\ rr = -1 /\ total = 0
  /\ last = None

Next ==
  \/ \E i \in Inst : scale_up(i) \/ scale_down(i) \/ \E x \in Reports : update_instance_infos(i, x)
  \/ \E h \in IF v1 THEN Hashes ELSE {{}} : dispatch(h) \/ SelectPd(h)

Spec == Init /\ [][Next]_vars

-------------------------------------------------------------------------------
(* Properties                                                                  *)

TypeOK ==
  /\ v1 \in BOOLEAN /\ ids \subseteq Inst /\ avail \subseteq ids
  /\ info \in [Inst -> Reports \cup {Empty}]
  /\ snaps \subseteq Inst /\ DOMAIN counter \subseteq Inst
  /\ \A i \in DOMAIN counter : counter[i] \in 0 .. MaxRequests
  /\ rr \in -1 .. N - 1 /\ total \in 0 .. MaxRequests

\* The DispatchScheduler keeps no snapshot of an instance that was removed, of
\* whatever role: a later selection cannot meet its KV affinity again (the
\* comment in remove_instance).
SnapshotsFresh == TypeOK /\ snaps \subseteq ids

\* Each half of a P/D request goes to a registered instance of its role, and an
\* ordinary request never to a decode-only one ("Decode-only instances remain
\* excluded from ordinary dispatch").
RolesKept ==
  /\ last.kind = "pd" => last.ids[1] \in Role("prefill") /\ last.ids[2] \in Role("decode")
  /\ last.kind = "dispatch" => last.ids[1] \in ids /\ Type[last.ids[1]] # "decode"

\* A cache hit never overrides a materially healthier instance: what is chosen
\* is within the tolerance of the best load of its pool (the comment in
\* dispatch_candidates), for the policy that dispatches by load.
HealthFirst ==
  last.kind # "none" /\ Policy = "load" /\ TopK = 1 =>
    \A k \in 1 .. Len(last.ids) :
      LET i == last.ids[k]
          pool == IF last.kind = "pd" THEN {j \in last.pool : Type[j] = Type[i]} ELSE last.pool
      IN \A j \in pool : 10 * Load(i) <= 10 * Load(j) + Unit

\* A set of pairs in which nobody is twice, neither as source nor as target nor
\* as both ("migration_filter must ensure that the specific instance_info does
\* not appear in both src and dst simultaneously").
Matching(P) ==
  \A x, y \in P : /\ x[1] # y[2]
                  /\ x = y \/ (x[1] # y[1] /\ x[2] # y[2])

Constraints == {"NO_CONSTRAINTS", "DECODING_2_DECODING", "PREFILL_2_DECODING"}

\* What one call of pair_migration returns is a matching; what one call for
\* true KV migration returns pairs only instances of one compatibility key.
PairsSound ==
  \A t \in Constraints, policy \in {"balanced", "defrag"} :
    /\ \A P \in pair_migration(ids, t, policy) : Matching(P)
    /\ \A P \in pair_migration_v1(t, policy) : Matching(P) /\ \A x \in P : Key[x[1]] = Key[x[2]]
===============================================================================
