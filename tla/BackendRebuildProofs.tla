------------------------ MODULE BackendRebuildProofs ------------------------
(***************************************************************************)
(* As long as the manager never finds itself without any instance, the     *)
(* properties of BackendRebuild hold for every number of instances, of     *)
(* coroutines and of scheduled migrations.                                 *)
(*                                                                         *)
(* The actions fall into four groups, with one lemma each: those that      *)
(* leave the membership and the rebuild alone, the changes of membership,  *)
(* the ends of a round, and the two collective calls.                      *)
(***************************************************************************)
EXTENDS BackendRebuild, FiniteSetTheorems, TLAPS

\* Every join and every leave counts: the number of instances that change is
\* positive.
LEMMA ChangeCounts ==
  ASSUME NEW S \in SUBSET Inst
  PROVE  /\ Cardinality(S) \in Nat
         /\ S # {} => Cardinality(S) > 0
         /\ S = {} => Cardinality(S) = 0
<1>1. IsFiniteSet(S)
  BY InstAssumption, FS_Subset
<1>2. Cardinality(S) \in Nat
  BY <1>1, FS_CardinalityType
<1>3. Cardinality(S) = 0 <=> S = {}
  BY <1>1, FS_EmptySet
<1> QED
  BY <1>2, <1>3

\* A manager without instances satisfies the invariant.
LEMMA InitRebuildInv == Init => RebuildInv
<1> SUFFICES ASSUME Init PROVE RebuildInv
  OBVIOUS
<1>1. \A t \in Task : task[t] = NoTask
  BY DEF Init
<1>2. Started = {}
  BY <1>1 DEF Started, NoTask
<1>3. TypeOK
  BY PushAssumption DEF Init, TypeOK, NoTask, TaskState, PCs
<1> QED
  BY <1>1, <1>2, <1>3 DEF Init, RebuildInv, OneRebuild, Converged, NoKeyError,
     Restored, RoundInv, NoTask

\* A crash and the migrations leave the rebuild alone: the invariant speaks of
\* living members, and an instance that died does not come back.
LEMMA RebuildUntouched ==
  ASSUME RebuildInv,
         UNCHANGED <<known, pending, enable, filter, group, task>>,
         TypeOK', \A i \in Inst : alive'[i] => alive[i]
  PROVE  RebuildInv'
<1>1. Started' = Started
  BY DEF Started
<1>2. OneRebuild' /\ NoKeyError' /\ Restored'
  BY <1>1 DEF RebuildInv, OneRebuild, NoKeyError, Restored
<1>3. Converged'
  BY <1>1 DEF RebuildInv, Converged, TypeOK
<1>4. RoundInv'
  <2> SUFFICES ASSUME NEW t \in Started PROVE
        LET k == task[t] IN
        /\ k.pc = "wait" => enable
        /\ k.pc # "wait" => /\ ~enable /\ k.origin
                            /\ 0 < k.count /\ k.count <= pending
                            /\ pending = k.count => known = k.members
        /\ k.pc \in {"rebuilt", "warmup", "warmed"}
             => \A i \in k.members : alive'[i] => group[i] \in {k.members, {}}
    BY <1>1 DEF RoundInv
  <2>1. task[t].members \subseteq Inst
    BY DEF RebuildInv, TypeOK, TaskState, Started
  <2> QED
    BY <2>1 DEF RebuildInv, RoundInv
<1> QED
  BY <1>2, <1>3, <1>4 DEF RebuildInv

\* A change of membership is counted, and started on when it is the first one.
LEMMA MembershipChange ==
  ASSUME RebuildInv, TypeOK', NEW n \in Nat, n > 0,
         pending' = pending + n,
         IF RebuildNeeded THEN StartRebuild ELSE UNCHANGED task,
         UNCHANGED <<enable, group>>,
         \A i \in Inst : alive'[i] => alive[i]
  PROVE  RebuildInv'
<1> USE DEF Started
<1>0. pending \in Int /\ task \in [Task -> TaskState]
  BY DEF RebuildInv, TypeOK
<1>1. CASE Started = {}
  <2>1. enable /\ pending = 0
    BY <1>0, <1>1 DEF RebuildInv, Restored, OneRebuild
  <2>2. PICK t \in Task : task' = [task EXCEPT ![t] = NewTask]
    BY <2>1 DEF RebuildNeeded, StartRebuild
  <2>3. /\ task'[t].pc = "wait"
        /\ \A u \in Task : u # t => task'[u] = task[u] /\ task[u].pc = "none"
    BY <1>0, <1>1, <2>2 DEF NewTask, NoTask
  <2>4. Started' = {t}
    BY <2>3
  <2>5. OneRebuild'
    BY <2>1, <2>4 DEF OneRebuild
  <2>6. NoKeyError'
    BY <2>3 DEF NoKeyError
  <2>7. RoundInv'
    BY <2>1, <2>3, <2>4 DEF RoundInv
  <2> QED
    BY <2>4, <2>5, <2>6, <2>7 DEF RebuildInv, Converged, Restored
<1>2. CASE Started # {}
  <2>1. pending > 0 /\ task' = task /\ Started' = Started
    BY <1>0, <1>2 DEF RebuildInv, OneRebuild, RebuildNeeded
  <2>2. OneRebuild'
    BY <1>0, <1>2, <2>1 DEF RebuildInv, OneRebuild
  <2>3. NoKeyError'
    BY <2>1 DEF RebuildInv, NoKeyError
  <2>4. RoundInv'
    <3> SUFFICES ASSUME NEW t \in Started PROVE
          LET k == task[t] IN
          /\ k.pc = "wait" => enable
          /\ k.pc # "wait" => /\ ~enable /\ k.origin
                              /\ 0 < k.count /\ k.count <= pending'
                              /\ pending' = k.count => known' = k.members
          /\ k.pc \in {"rebuilt", "warmup", "warmed"}
               => \A i \in k.members : alive'[i] => group[i] \in {k.members, {}}
      BY <2>1 DEF RoundInv
    <3>1. task[t].members \subseteq Inst /\ task[t].count \in Int
      BY <1>0 DEF TaskState
    <3> QED
      BY <1>0, <3>1 DEF RebuildInv, RoundInv
  <2> QED
    BY <1>2, <2>1, <2>2, <2>3, <2>4 DEF RebuildInv, Converged, Restored
<1> QED
  BY <1>1, <1>2

\* The head of the loop: another round for the instances of now, or the end,
\* provided that the members have their group when nothing is left to do.
LEMMA RoundStarts ==
  ASSUME RebuildInv, TypeOK', NEW t \in Started, NEW M \in SUBSET Inst,
         NEW n \in Nat, Round(t, M, n, TRUE), known' = M, group' = group,
         \A i \in Inst : alive'[i] => alive[i],
         M # {} /\ n = 0 => \A i \in M : alive[i] => group[i] \in {M, {}}
  PROVE  RebuildInv'
<1> USE DEF Started
<1>0. task \in [Task -> TaskState]
  BY DEF RebuildInv, TypeOK
<1>1. \A u \in Task : u # t => task[u].pc = "none"
  BY DEF RebuildInv, OneRebuild
<1>2. CASE M # {} /\ n > 0
  <2> DEFINE new == [pc |-> "rebuild", members |-> M, count |-> n,
                     origin |-> TRUE, dead |-> {}]
  <2>1. task' = [task EXCEPT ![t] = new] /\ pending' = n /\ enable' = FALSE
    BY <1>2 DEF Round
  <2>2. task'[t] = new /\ \A u \in Task : u # t => task'[u].pc = "none"
    BY <1>0, <1>1, <2>1
  <2>3. Started' = {t}
    BY <2>2
  <2>4. OneRebuild' /\ NoKeyError'
    BY <1>2, <2>1, <2>2, <2>3 DEF OneRebuild, NoKeyError
  <2>5. RoundInv'
    BY <1>2, <2>1, <2>2, <2>3 DEF RoundInv
  <2> QED
    BY <2>3, <2>4, <2>5 DEF RebuildInv, Converged, Restored
<1>3. CASE ~(M # {} /\ n > 0)
  <2>1. /\ task' = [task EXCEPT ![t] = NoTask] /\ filter' = M /\ enable' = TRUE
        /\ pending' = IF M = {} THEN 0 ELSE n
    BY <1>3 DEF Round, EnableAtEnd
  <2>2. \A u \in Task : task'[u].pc = "none"
    BY <1>0, <1>1, <2>1 DEF NoTask
  <2>3. Started' = {}
    BY <2>2
  <2>4. pending' = 0
    BY <1>3, <2>1
  <2>5. Converged'
    BY <1>3, <2>1 DEF Converged
  <2> QED
    BY <2>1, <2>2, <2>3, <2>4, <2>5 DEF RebuildInv, OneRebuild, NoKeyError,
       Restored, RoundInv
<1> QED
  BY <1>2, <1>3

----------------------------------------------------------------------------
(***************************************************************************)
(* The actions.                                                            *)
(***************************************************************************)

\* The state of a coroutine before it is created and when it is created.
LEMMA TaskStates == NoTask \in TaskState /\ NewTask \in TaskState
<1>1. NoTask \in TaskState
  BY DEF NoTask, TaskState, PCs
<1>2. NewTask \in TaskState
  BY <1>1 DEF NewTask, TaskState, PCs
<1> QED
  BY <1>1, <1>2

\* Starting a rebuild keeps the type of the coroutines.
LEMMA StartType ==
  ASSUME TypeOK, IF RebuildNeeded THEN StartRebuild ELSE UNCHANGED task
  PROVE  task' \in [Task -> TaskState]
<1>1. task \in [Task -> TaskState] /\ NewTask \in TaskState
  BY TaskStates DEF TypeOK
<1>2. CASE StartRebuild
  <2>1. PICK t \in Task : task' = [task EXCEPT ![t] = NewTask]
    BY <1>2 DEF StartRebuild
  <2> QED
    BY <1>1, <2>1
<1> QED
  BY <1>1, <1>2

\* scale_up
LEMMA ScaleUpInv ==
  ASSUME RebuildInv, NEW S \in SUBSET Inst, ScaleUp(S)
  PROVE  RebuildInv'
<1>1. Cardinality(S) \in Nat /\ Cardinality(S) > 0
  BY ChangeCounts DEF ScaleUp
<1>2. task' \in [Task -> TaskState]
  BY StartType DEF ScaleUp, RebuildInv
<1>3. TypeOK'
  BY <1>1, <1>2 DEF ScaleUp, RebuildInv, TypeOK, manager
<1>4. /\ pending' = pending + Cardinality(S)
      /\ IF RebuildNeeded THEN StartRebuild ELSE UNCHANGED task
      /\ UNCHANGED <<enable, group>> /\ alive' = alive
  BY DEF ScaleUp
<1> QED
  BY <1>1, <1>3, <1>4, MembershipChange

\* scale_down, when other instances are left
LEMMA ScaleDownInv ==
  ASSUME ~MayEmpty, RebuildInv, NEW S \in SUBSET Inst, ScaleDown(S)
  PROVE  RebuildInv'
<1>1. Cardinality(S) \in Nat /\ Cardinality(S) > 0
  BY ChangeCounts DEF ScaleDown
<1>2. /\ pending' = pending + Cardinality(S)
      /\ IF RebuildNeeded THEN StartRebuild ELSE UNCHANGED task
      /\ UNCHANGED <<enable, group>>
  BY DEF ScaleDown
<1>3. task' \in [Task -> TaskState]
  BY <1>2, StartType DEF RebuildInv
<1>4. TypeOK' /\ \A i \in Inst : alive'[i] => alive[i]
  BY <1>1, <1>2, <1>3 DEF ScaleDown, Remove, RebuildInv, TypeOK, manager
<1> QED
  BY <1>1, <1>2, <1>4, MembershipChange

\* A crash, and the steps of migrations
LEMMA QuietInv ==
  ASSUME RebuildInv,
         (\E i \in Inst : Crash(i)) \/ PushMigrations \/ Migrate \/ MigrateDone
  PROVE  RebuildInv'
<1>1. UNCHANGED <<known, pending, enable, filter, group, task>>
  BY DEF Crash, PushMigrations, Migrate, MigrateDone, manager
<1>2. TypeOK
  BY DEF RebuildInv
<1>3. alive' \in [Inst -> BOOLEAN] /\ \A i \in Inst : alive'[i] => alive[i]
  BY <1>2 DEF TypeOK, Crash, PushMigrations, Migrate, MigrateDone
<1>4. jobs' \subseteq Inst \X Inst /\ busy' \subseteq known
  <2>1. CASE Migrate
    BY <1>2, <2>1 DEF TypeOK, Migrate, Pairs
  <2>2. CASE ~Migrate
    BY <1>2, <2>2 DEF TypeOK, Crash, PushMigrations, MigrateDone
  <2> QED
    BY <2>1, <2>2
<1>5. pushes' \in 0..MaxPushes
  BY <1>2, PushAssumption DEF TypeOK, Crash, PushMigrations, Migrate, MigrateDone, manager
<1>6. fresh' = fresh
  BY DEF Crash, PushMigrations, Migrate, MigrateDone
<1>7. TypeOK'
  BY <1>1, <1>2, <1>3, <1>4, <1>5, <1>6 DEF TypeOK
<1> QED
  BY <1>1, <1>3, <1>7, RebuildUntouched

\* The loop head keeps the types.
LEMMA RoundType ==
  ASSUME TypeOK, NEW t \in Task, NEW M \in SUBSET Inst, NEW n \in Int,
         NEW o \in BOOLEAN, Round(t, M, n, o)
  PROVE  /\ task' \in [Task -> TaskState] /\ pending' \in Int
         /\ filter' \subseteq Inst /\ enable' \in BOOLEAN
<1> DEFINE new == [pc |-> "rebuild", members |-> M, count |-> n, origin |-> o,
                   dead |-> {}]
<1>1. new \in TaskState /\ NoTask \in TaskState
  BY TaskStates DEF TaskState, PCs
<1>2. task' = [task EXCEPT ![t] = new] \/ task' = [task EXCEPT ![t] = NoTask]
  BY DEF Round
<1>3. task' \in [Task -> TaskState]
  <2> HIDE DEF new
  <2> QED
    BY <1>1, <1>2 DEF TypeOK
<1>4. pending' \in Int /\ filter' \subseteq Inst
  BY DEF Round, TypeOK
<1>5. enable' = FALSE \/ enable' = o
  BY DEF Round, EnableAtEnd
<1> QED
  BY <1>3, <1>4, <1>5

\* The first round starts when no migration is under way.
LEMMA BeginRebuildInv ==
  ASSUME RebuildInv, NEW t \in Task, BeginRebuild(t)
  PROVE  RebuildInv'
<1>1. t \in Started
  BY DEF BeginRebuild, At, Started
<1>2. enable = TRUE /\ pending \in Nat /\ pending > 0
  BY <1>1 DEF RebuildInv, RoundInv, OneRebuild, BeginRebuild, At, TypeOK
<1>3. Round(t, known, pending, TRUE) /\ known' = known /\ group' = group
  BY <1>2 DEF BeginRebuild
<1>4. alive' = alive /\ known \in SUBSET Inst
  BY DEF BeginRebuild, RebuildInv, TypeOK
<1>5. TypeOK'
  BY <1>2, <1>3, <1>4, RoundType DEF BeginRebuild, RebuildInv, TypeOK
<1>6. pending # 0 /\ \A i \in Inst : alive'[i] => alive[i]
  BY <1>2, <1>4
<1> QED
  BY <1>1, <1>2, <1>3, <1>4, <1>5, <1>6, RoundStarts

\* A round ends: the instances that are left are those of the next round, or
\* those that are admitted.
LEMMA EndRoundInv ==
  ASSUME RebuildInv, NEW t \in Task, task[t].pc \in {"rebuilt", "warmed"},
         task[t].pc = "rebuilt" => ~WarmsUp(t), EndRound(t)
  PROVE  RebuildInv'
<1> DEFINE dead == task[t].dead \cap known
           n == RoundDone(t) + Cardinality(dead)
           M == known \ task[t].dead
<1>0. TypeOK /\ t \in Started /\ task[t] \in TaskState
  BY DEF RebuildInv, TypeOK, Started
<1>1. Cardinality(dead) \in Nat /\ M \in SUBSET Inst /\ dead \in SUBSET Inst
  BY <1>0, ChangeCounts DEF TypeOK
<1>2. /\ task[t].origin = TRUE /\ ~enable /\ task[t].count \in Int
      /\ 0 < task[t].count /\ task[t].count <= pending
      /\ pending = task[t].count => known = task[t].members
  BY <1>0 DEF RebuildInv, RoundInv, TaskState
<1>3. n \in Nat
  BY <1>0, <1>1, <1>2 DEF RoundDone, TypeOK
<1>4. Round(t, M, n, TRUE) /\ known' = M /\ group' = group
  BY <1>2 DEF EndRound, Remove
<1>5. \A i \in Inst : alive'[i] => alive[i]
  BY <1>0 DEF EndRound, Remove, TypeOK
<1>6. TypeOK'
  <2>1. /\ task' \in [Task -> TaskState] /\ pending' \in Int
        /\ filter' \subseteq Inst /\ enable' \in BOOLEAN
    <3> HIDE DEF M, n
    <3>1. n \in Int
      BY <1>3
    <3> QED
      BY <1>0, <1>1, <1>4, <3>1, RoundType
  <2>2. /\ alive' \in [Inst -> BOOLEAN] /\ known' \subseteq Inst
        /\ busy' \subseteq known'
    BY <1>0 DEF EndRound, Remove, TypeOK
  <2>3. UNCHANGED <<fresh, jobs, pushes, group>>
    BY DEF EndRound
  <2> QED
    BY <1>0, <2>1, <2>2, <2>3 DEF TypeOK
<1>7. ASSUME n = 0 PROVE \A i \in M : alive[i] => group[i] \in {M, {}}
  <2>1. pending \in Int /\ RoundDone(t) \in Nat /\ RoundDone(t) = 0
    <3>1. pending \in Int /\ RoundDone(t) \in Nat
      BY <1>0, <1>2 DEF TypeOK, RoundDone
    <3> HIDE DEF dead
    <3> QED
      BY <1>1, <1>7, <3>1
  <2>2. task[t].dead = {} /\ pending = task[t].count
    BY <1>2, <2>1 DEF RoundDone
  <2>3. task[t].pc = "warmed" /\ M = task[t].members
    BY <1>2, <2>2 DEF WarmsUp
  <2> QED
    BY <1>0, <2>3 DEF RebuildInv, RoundInv
<1> QED
  BY <1>0, <1>1, <1>3, <1>4, <1>5, <1>6, <1>7, RoundStarts

\* A step of a coroutine that stays in its round: what the invariant asks of
\* the new position is a hypothesis.
LEMMA WithinRound ==
  ASSUME RebuildInv, TypeOK', NEW t \in Started, NEW p \in PCs \ {"none", "wait", "failed"},
         NEW D, task' = [task EXCEPT ![t].pc = p, ![t].dead = D],
         task[t].pc # "wait",
         UNCHANGED <<alive, known, pending, enable, filter>>,
         p \in {"rebuilt", "warmup", "warmed"}
           => \A i \in task[t].members : alive[i] => group'[i] \in {task[t].members, {}}
  PROVE  RebuildInv'
<1> USE DEF Started
<1>1. task \in [Task -> TaskState] /\ \A u \in Task : u # t => task[u].pc = "none"
  BY DEF RebuildInv, TypeOK, OneRebuild
<1>2. /\ task'[t].pc = p /\ task'[t].dead = D
      /\ task'[t].members = task[t].members /\ task'[t].count = task[t].count
      /\ task'[t].origin = task[t].origin
      /\ \A u \in Task : u # t => task'[u] = task[u]
  BY <1>1 DEF TaskState
<1>3. Started = {t} /\ Started' = {t}
  BY <1>1, <1>2
<1>4. OneRebuild' /\ NoKeyError'
  BY <1>1, <1>2, <1>3 DEF RebuildInv, OneRebuild, NoKeyError
<1>5. RoundInv'
  <2>1. /\ ~enable /\ task[t].origin
        /\ 0 < task[t].count /\ task[t].count <= pending
        /\ pending = task[t].count => known = task[t].members
    BY DEF RebuildInv, RoundInv
  <2>2. /\ task'[t].pc # "wait" /\ ~enable' /\ task'[t].origin
        /\ 0 < task'[t].count /\ task'[t].count <= pending'
        /\ pending' = task'[t].count => known' = task'[t].members
    BY <1>2, <2>1
  <2>3. task'[t].pc \in {"rebuilt", "warmup", "warmed"}
          => \A i \in task'[t].members : alive'[i] => group'[i] \in {task'[t].members, {}}
    BY <1>2
  <2>4. ASSUME NEW u \in Started' PROVE u = t
    BY <1>3
  <2> QED
    BY <2>2, <2>3, <2>4 DEF RoundInv
<1> QED
  BY <1>3, <1>4, <1>5 DEF RebuildInv, Converged, Restored

\* The collective calls: every living member leaves its old group, whether it
\* joins the new one or not.
LEMMA RunRebuildInv ==
  ASSUME RebuildInv, NEW t \in Task, RunRebuild(t)
  PROVE  RebuildInv'
<1> DEFINE D == {i \in task[t].members : ~alive[i]}
<1>0. TypeOK /\ t \in Started /\ task[t] \in TaskState
  BY DEF RebuildInv, TypeOK, Started, RunRebuild, At
<1>1. task' = [task EXCEPT ![t].pc = "rebuilt", ![t].dead = D]
  BY DEF RunRebuild
<1>2. D \subseteq Inst /\ task[t].members \subseteq Inst
  BY <1>0 DEF TaskState
<1>g. PICK J \in SUBSET {i \in task[t].members : alive[i]} :
        group' = [i \in Inst |-> IF i \in J THEN task[t].members
                                ELSE IF i \in task[t].members /\ alive[i] THEN {}
                                ELSE group[i]]
  BY DEF RunRebuild
<1>3. group' \in [Inst -> SUBSET Inst]
  BY <1>0, <1>2, <1>g DEF TypeOK
<1>4. \A i \in task[t].members : alive[i] => group'[i] \in {task[t].members, {}}
  BY <1>2, <1>g
<1>5. task' \in [Task -> TaskState]
  BY <1>0, <1>1, <1>2 DEF TypeOK, TaskState, PCs
<1>6. UNCHANGED <<alive, fresh, known, busy, jobs, pending, enable, pushes, filter>>
  BY DEF RunRebuild, manager
<1>7. TypeOK'
  BY <1>0, <1>3, <1>5, <1>6 DEF TypeOK
<1>8. task[t].pc = "rebuild" /\ "rebuilt" \in PCs \ {"none", "wait", "failed"}
  BY DEF RunRebuild, At, PCs
<1> QED
  BY <1>0, <1>1, <1>4, <1>6, <1>7, <1>8, WithinRound

LEMMA RunWarmupInv ==
  ASSUME RebuildInv, NEW t \in Task, RunWarmup(t)
  PROVE  RebuildInv'
<1> DEFINE D == {i \in task[t].members : ~alive[i]}
<1>0. TypeOK /\ t \in Started /\ task[t] \in TaskState
  BY DEF RebuildInv, TypeOK, Started, RunWarmup, At
<1>1. task' = [task EXCEPT ![t].pc = "warmed", ![t].dead = D]
  BY DEF RunWarmup
<1>2. task' \in [Task -> TaskState]
  BY <1>0, <1>1 DEF TypeOK, TaskState, PCs
<1>3. /\ UNCHANGED <<alive, fresh, known, busy, jobs, pending, enable, pushes, filter>>
      /\ group' = group
  BY DEF RunWarmup, manager
<1>4. TypeOK'
  BY <1>0, <1>2, <1>3 DEF TypeOK
<1>5. task[t].pc = "warmup" /\ "warmed" \in PCs \ {"none", "wait", "failed"}
  BY DEF RunWarmup, At, PCs
<1>6. \A i \in task[t].members : alive[i] => group'[i] \in {task[t].members, {}}
  BY <1>0, <1>3, <1>5 DEF RebuildInv, RoundInv
<1> QED
  BY <1>0, <1>1, <1>3, <1>4, <1>5, <1>6, WithinRound

\* The answers to the rebuild: the warm-up finds every member, because the
\* comparison of the counts has seen every change of the membership.
LEMMA AfterRebuildInv ==
  ASSUME RebuildInv, NEW t \in Task, AfterRebuild(t)
  PROVE  RebuildInv'
<1>0. TypeOK /\ t \in Started /\ task[t] \in TaskState /\ task[t].pc = "rebuilt"
  BY DEF RebuildInv, TypeOK, Started, AfterRebuild, At
<1>1. CASE WarmsUp(t)
  <2>1. known = task[t].members /\ task[t].dead = {}
    BY <1>0, <1>1 DEF RebuildInv, RoundInv, WarmsUp
  <2>2. task' = [task EXCEPT ![t].pc = "warmup"]
    BY <1>1, <2>1 DEF AfterRebuild
  <2>3. task' = [task EXCEPT ![t].pc = "warmup", ![t].dead = {}]
    BY <1>0, <2>1, <2>2 DEF TypeOK, TaskState
  <2>4. task' \in [Task -> TaskState]
    BY <1>0, <2>2 DEF TypeOK, TaskState, PCs
  <2>5. /\ UNCHANGED <<alive, fresh, known, busy, jobs, pending, enable, pushes, filter>>
        /\ group' = group
    BY <1>1 DEF AfterRebuild, manager
  <2>6. TypeOK'
    BY <1>0, <2>4, <2>5 DEF TypeOK
  <2>7. \A i \in task[t].members : alive[i] => group'[i] \in {task[t].members, {}}
    BY <1>0, <2>1, <2>5 DEF RebuildInv, RoundInv
  <2>8. "warmup" \in PCs \ {"none", "wait", "failed"}
    BY DEF PCs
  <2> QED
    BY <1>0, <2>3, <2>5, <2>6, <2>7, <2>8, WithinRound
<1>2. CASE ~WarmsUp(t)
  <2>1. EndRound(t)
    BY <1>2 DEF AfterRebuild
  <2> QED
    BY <1>0, <1>2, <2>1, EndRoundInv
<1> QED
  BY <1>1, <1>2

LEMMA AfterWarmupInv ==
  ASSUME RebuildInv, NEW t \in Task, AfterWarmup(t)
  PROVE  RebuildInv'
  BY EndRoundInv DEF AfterWarmup, At

----------------------------------------------------------------------------
(***************************************************************************)
(* The theorems.                                                           *)
(***************************************************************************)

\* RebuildInv holds in every reachable state of a manager that always has an
\* instance left, for any number of instances and coroutines.
THEOREM RebuildInvariant ==
  ASSUME ~MayEmpty PROVE Spec => []RebuildInv
<1>1. Init => RebuildInv
  BY InitRebuildInv
<1>2. RebuildInv /\ [Next]_vars => RebuildInv'
  <2> SUFFICES ASSUME RebuildInv, [Next]_vars PROVE RebuildInv'
    OBVIOUS
  <2>1. CASE UNCHANGED vars
    <3>1. TypeOK'
      BY <2>1 DEF vars, RebuildInv, TypeOK
    <3>2. /\ UNCHANGED <<known, pending, enable, filter, group, task>>
          /\ alive' = alive
      BY <2>1 DEF vars
    <3> QED
      BY <3>1, <3>2, RebuildUntouched
  <2>2. ASSUME NEW S \in SUBSET Inst, ScaleUp(S) PROVE RebuildInv'
    BY <2>2, ScaleUpInv
  <2>3. ASSUME NEW S \in SUBSET Inst, ScaleDown(S) PROVE RebuildInv'
    BY <2>3, ScaleDownInv
  <2>4. CASE (\E i \in Inst : Crash(i)) \/ PushMigrations \/ Migrate \/ MigrateDone
    BY <2>4, QuietInv
  <2>5. ASSUME NEW t \in Task, BeginRebuild(t) PROVE RebuildInv'
    BY <2>5, BeginRebuildInv
  <2>6. ASSUME NEW t \in Task, RebuildStep(t) PROVE RebuildInv'
    BY <2>6, RunRebuildInv, AfterRebuildInv, RunWarmupInv, AfterWarmupInv
       DEF RebuildStep
  <2> QED
    BY <2>1, <2>2, <2>3, <2>4, <2>5, <2>6 DEF Next
<1> QED
  BY <1>1, <1>2, PTL DEF Spec

\* At every moment at most one coroutine rebuilds the backend, and one does
\* exactly while a change of the membership is not dealt with.
THEOREM OneRebuildHolds ==
  ASSUME ~MayEmpty PROVE Spec => []OneRebuild
<1>1. RebuildInv => OneRebuild
  BY DEF RebuildInv
<1> QED
  BY <1>1, RebuildInvariant, PTL

\* Whenever no rebuild is under way the instances of the manager are the ones
\* admitted to migration, and none that lives is in another process group than the
\* one of exactly these instances, whatever initialisations timed out.
THEOREM ConvergedHolds ==
  ASSUME ~MayEmpty PROVE Spec => []Converged
<1>1. RebuildInv => Converged
  BY DEF RebuildInv
<1> QED
  BY <1>1, RebuildInvariant, PTL

\* The rebuild never dies of a KeyError, which would leave migration disabled.
THEOREM NoKeyErrorHolds ==
  ASSUME ~MayEmpty PROVE Spec => []NoKeyError
<1>1. RebuildInv => NoKeyError
  BY DEF RebuildInv
<1> QED
  BY <1>1, RebuildInvariant, PTL

\* Outside of rebuilds migration is enabled.
THEOREM RestoredHolds ==
  ASSUME ~MayEmpty PROVE Spec => []Restored
<1>1. RebuildInv => Restored
  BY DEF RebuildInv
<1> QED
  BY <1>1, RebuildInvariant, PTL
=============================================================================
