--------------------------- MODULE BackendRebuild ---------------------------
(***************************************************************************)
(* Membership of the cluster and the process group of the migration        *)
(* backend (gloo or nccl).                                                 *)
(*                                                                         *)
(* Instances join (scale_up) and leave (scale_down) the manager.  Every    *)
(* change counts in pending_rebuild_migration_instances, and the change    *)
(* that finds the count at zero starts _rebuild_migration_backend.  That   *)
(* coroutine waits for the migrations to end, disables migration and       *)
(* rebuilds the group on all instances, round after round, until a round   *)
(* has met no further change; then it admits the instances to migration    *)
(* through migration_backend_init_filter.                                  *)
(*                                                                         *)
(* An action is what the manager's event loop does between two awaits, or  *)
(* one collective call executed by the instances.  A migration is the pair *)
(* that it keeps busy; what it does is the subject of LiveMigration.       *)
(***************************************************************************)
EXTENDS Integers, FiniteSets

CONSTANTS
  Inst,       \* all instances that ever join; an instance id is never reused
  Task,       \* bound: rebuild coroutines under way
  MaxPushes,  \* bound: _migrate coroutines scheduled and not run yet
  MayEmpty    \* the manager may find itself without any instance

ASSUME InstAssumption == IsFiniteSet(Inst)
ASSUME PushAssumption == MaxPushes \in Nat /\ MayEmpty \in BOOLEAN

VARIABLES
  alive,    \* alive[i]: the actor of instance i runs
  fresh,    \* instances that did not join yet
  known,    \* the keys of the manager's instances
  busy,     \* the instances whose instance_migrating is set
  jobs,     \* the pairs that migrate_out works on
  pushes,   \* _migrate coroutines that were scheduled and did not run yet
  pending,  \* pending_rebuild_migration_instances
  enable,   \* enable_migration
  filter,   \* alive_instances of migration_backend_init_filter
  group,    \* group[i]: members of the process group that i has initialised
  task      \* task[t]: a coroutine _rebuild_migration_backend

manager == <<pushes, filter>>
vars == <<alive, fresh, known, busy, jobs, pushes, pending, enable, filter,
          group, task>>

\* Where the coroutine waits: for the migrations to end, for the rebuild (the
\* call, and its answers), for the warm-up; failed: ended by a KeyError.
PCs == {"none", "wait", "rebuild", "rebuilt", "warmup", "warmed", "failed"}
\* members: alive_instances; count: pending_task; origin: origin_config;
\* dead: the members whose call raised RayActorError.
TaskState == [pc : PCs, members : SUBSET Inst, count : Int, origin : BOOLEAN,
              dead : SUBSET Inst]
NoTask == [pc |-> "none", members |-> {}, count |-> 0, origin |-> FALSE, dead |-> {}]
NewTask == [NoTask EXCEPT !.pc = "wait"]

TypeOK ==
  /\ alive \in [Inst -> BOOLEAN]
  /\ fresh \subseteq Inst /\ known \subseteq Inst /\ busy \subseteq known
  /\ jobs \subseteq Inst \X Inst
  /\ pushes \in 0..MaxPushes
  /\ pending \in Int
  /\ enable \in BOOLEAN
  /\ filter \subseteq Inst
  /\ group \in [Inst -> SUBSET Inst]
  /\ task \in [Task -> TaskState]

Init ==
  /\ alive = [i \in Inst |-> TRUE]
  /\ fresh = Inst /\ known = {} /\ busy = {} /\ jobs = {} /\ pushes = 0
  /\ pending = 0 /\ enable = TRUE /\ filter = {}
  /\ group = [i \in Inst |-> {}]
  /\ task = [t \in Task |-> NoTask]

----------------------------------------------------------------------------
(***************************************************************************)
(* Joining and leaving.                                                    *)
(***************************************************************************)
Started == {t \in Task : task[t].pc # "none"}

StartRebuild == \E t \in Task \ Started : task' = [task EXCEPT ![t] = NewTask]

\* "if initially pending_rebuild_migration_instances != 0, a coroutine is
\* already handling the changes": only the first change starts one.
RebuildNeeded == enable /\ pending = 0

\* scale_up: instances whose actors are ready, one or several at a time.
ScaleUp(S) ==
  /\ S # {} /\ S \subseteq fresh
  /\ fresh' = fresh \ S
  /\ known' = known \cup S
  /\ pending' = pending + Cardinality(S)
  /\ IF RebuildNeeded THEN StartRebuild ELSE UNCHANGED task
  /\ UNCHANGED <<alive, busy, jobs, enable, group, manager>>

\* The actors of S are killed and S leaves the manager's maps.
Remove(S) ==
  /\ alive' = [i \in Inst |-> alive[i] /\ i \notin S]
  /\ known' = known \ S
  /\ busy' = busy \ S

\* scale_down, called for instances that are dead or whose deployment is
\* incomplete.  When no instance is left the count starts again from zero.
ScaleDown(S) ==
  /\ S # {} /\ S \subseteq known
  /\ MayEmpty \/ S # known
  /\ Remove(S)
  /\ IF enable /\ S = known
     THEN pending' = 0 /\ UNCHANGED task
     ELSE /\ pending' = pending + Cardinality(S)
          /\ IF RebuildNeeded THEN StartRebuild ELSE UNCHANGED task
  /\ UNCHANGED <<fresh, jobs, enable, group, manager>>

Crash(i) ==
  /\ i \in known /\ alive[i]
  /\ alive' = [alive EXCEPT ![i] = FALSE]
  /\ UNCHANGED <<fresh, known, busy, jobs, pending, enable, group, task, manager>>

----------------------------------------------------------------------------
(***************************************************************************)
(* Migrations, as far as the rebuild sees them.                            *)
(***************************************************************************)

\* _poll_instance_info_loop schedules _push_migrations, which schedules
\* _migrate: enable_migration is looked at here and not again.
PushMigrations ==
  /\ enable /\ pushes < MaxPushes
  /\ pushes' = pushes + 1
  /\ UNCHANGED <<alive, fresh, known, busy, jobs, pending, enable, filter, group, task>>

\* _migrate: pairs of instances that pass the filter and are not busy.
Pairs == {p \in (filter \cap known) \X (filter \cap known) :
            p[1] # p[2] /\ p[1] \notin busy /\ p[2] \notin busy}
Migrate ==
  /\ pushes > 0
  /\ pushes' = pushes - 1
  /\ \/ UNCHANGED <<busy, jobs>>
     \/ \E p \in Pairs : jobs' = jobs \cup {p} /\ busy' = busy \cup {p[1], p[2]}
  /\ UNCHANGED <<alive, fresh, known, pending, enable, filter, group, task>>

\* migrate_done_callback
MigrateDone ==
  /\ \E p \in jobs : jobs' = jobs \ {p} /\ busy' = busy \ {p[1], p[2]}
  /\ UNCHANGED <<alive, fresh, known, pending, enable, group, task, manager>>

----------------------------------------------------------------------------
(***************************************************************************)
(* _rebuild_migration_backend                                              *)
(***************************************************************************)
At(t, p) == task[t].pc = p

\* The head of the loop, with the values of the manager's state after the
\* step: another round, or the end.  Only at the end the instances are
\* admitted, and enable_migration gets the value it had at the start.
EnableAtEnd(origin) == origin

Round(t, members, count, origin) ==
  IF members # {} /\ count > 0
  THEN /\ task' = [task EXCEPT ![t] = [pc |-> "rebuild", members |-> members,
                     count |-> count, origin |-> origin, dead |-> {}]]
       /\ pending' = count
       /\ enable' = FALSE
       /\ UNCHANGED filter
  ELSE /\ task' = [task EXCEPT ![t] = NoTask]
       /\ pending' = IF members = {} THEN 0 ELSE count
       /\ filter' = members
       /\ enable' = EnableAtEnd(origin)

\* "Wait for all instances to finish migration", then disable it.
BeginRebuild(t) ==
  /\ At(t, "wait")
  /\ busy = {}
  /\ Round(t, known, pending, enable)
  /\ UNCHANGED <<alive, fresh, known, busy, jobs, pushes, group>>

\* Every living member destroys its old group and initialises the new one, or
\* has none when init_backend times out: for a dead or a slow peer, on any of its
\* workers.  It answers False then, and run_task only looks for dead members.
RunRebuild(t) ==
  LET members == task[t].members IN
  /\ At(t, "rebuild")
  /\ \E joined \in SUBSET {i \in members : alive[i]} :
       group' = [i \in Inst |-> IF i \in joined THEN members
                               ELSE IF i \in members /\ alive[i] THEN {} ELSE group[i]]
  /\ task' = [task EXCEPT ![t].pc = "rebuilt", ![t].dead = {i \in members : ~alive[i]}]
  /\ UNCHANGED <<alive, fresh, known, busy, jobs, pending, enable, manager>>

\* A warm-up that fails, as it does for a member without a group, answers False
\* too: that changes no group and run_task does not look at it.
RunWarmup(t) ==
  /\ At(t, "warmup")
  /\ task' = [task EXCEPT ![t].pc = "warmed",
                          ![t].dead = {i \in task[t].members : ~alive[i]}]
  /\ UNCHANGED <<alive, fresh, known, busy, jobs, pending, enable, group, manager>>

\* Members found dead are scaled down; the others are warmed up, unless the
\* membership has changed since the start of the round.
\* Mutant: the warm-up does not look at the count.
WarmsUpAlways(t) == task[t].dead = {}
WarmsUp(t) == task[t].dead = {} /\ pending = task[t].count

\* A round without dead members has dealt with the changes that it started
\* with.
\* Mutants: with all changes so far; with none.
RoundDoneClears(t) == IF task[t].dead = {} THEN 0 ELSE pending
RoundDoneKeeps(t) == pending
RoundDone(t) == IF task[t].dead = {} THEN pending - task[t].count ELSE pending

\* The end of a round: run_task scales its dead members down without starting
\* another rebuild.
EndRound(t) ==
  LET dead == task[t].dead \cap known IN
  /\ Remove(dead)
  /\ Round(t, known \ task[t].dead, RoundDone(t) + Cardinality(dead), task[t].origin)
  /\ UNCHANGED <<fresh, jobs, pushes, group>>

\* The warm-up looks every member up in instances.
AfterRebuild(t) ==
  /\ At(t, "rebuilt")
  /\ IF WarmsUp(t)
     THEN /\ task' = [task EXCEPT ![t].pc = IF task[t].members \subseteq known
                                            THEN "warmup" ELSE "failed"]
          /\ UNCHANGED <<alive, fresh, known, busy, jobs, pending, enable, group, manager>>
     ELSE EndRound(t)

AfterWarmup(t) == At(t, "warmed") /\ EndRound(t)

RebuildStep(t) ==
  \/ RunRebuild(t) \/ AfterRebuild(t) \/ RunWarmup(t) \/ AfterWarmup(t)

Next ==
  \/ \E S \in SUBSET Inst : ScaleUp(S) \/ ScaleDown(S)
  \/ \E i \in Inst : Crash(i)
  \/ PushMigrations \/ Migrate \/ MigrateDone
  \/ \E t \in Task : BeginRebuild(t) \/ RebuildStep(t)

Spec == Init /\ [][Next]_vars

\* The calls of a round are answered; nothing is assumed of the wait for the
\* migrations, which new migrations may prolong for ever.
FairSpec == Spec /\ \A t \in Task : WF_vars(RebuildStep(t))

----------------------------------------------------------------------------
(***************************************************************************)
(* Properties                                                              *)
(***************************************************************************)

\* "A coroutine is already handling the changes in the number of instances and
\* it will account for the changes": the count is positive exactly while one
\* rebuild is under way, and there is never a second one.
OneRebuild ==
  /\ pending >= 0
  /\ pending > 0 <=> Started # {}
  /\ \A t, u \in Started : t = u

\* When no rebuild is under way, every instance of the manager is admitted to
\* migration, and none that lives is in an old group: it has initialised the group
\* of exactly these instances, or none because its initialisation timed out.  No
\* join or leave was missed, whenever it came, and two members never disagree
\* about the ranks of a group.
Converged ==
  Started = {} => /\ filter = known
                  /\ \A i \in known : alive[i] => group[i] \in {known, {}}

\* When no rebuild is under way, every living instance of the manager has the
\* group of all of them ("Rebuild migration backend done").
GroupComplete == Started = {} => \A i \in known : alive[i] => group[i] = known

\* The warm-up never looks up an instance that left meanwhile: the comparison
\* of the counts sees every change.
NoKeyError == \A t \in Task : task[t].pc # "failed"

\* "Restore migrate config": outside of rebuilds migration is enabled.
Restored == Started = {} => enable

\* What holds between the steps of a rebuild, and makes the properties above
\* inductive: migration is disabled from its first round on; no change has
\* been counted since the start of the round exactly when the members are the
\* instances of the manager; the members that live have left their old groups.
RoundInv ==
  \A t \in Started :
    LET k == task[t] IN
    /\ k.pc = "wait" => enable
    /\ k.pc # "wait" => /\ ~enable /\ k.origin
                        /\ 0 < k.count /\ k.count <= pending
                        /\ pending = k.count => known = k.members
    /\ k.pc \in {"rebuilt", "warmup", "warmed"}
         => \A i \in k.members : alive[i] => group[i] \in {k.members, {}}
RebuildInv ==
  TypeOK /\ OneRebuild /\ Converged /\ NoKeyError /\ Restored /\ RoundInv

\* A rebuild that has disabled migration ends and enables it again, as long as
\* instances do not join for ever.
MigrationResumes == ~enable ~> enable
=============================================================================
