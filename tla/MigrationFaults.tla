-------------------------- MODULE MigrationFaults --------------------------
(***************************************************************************)
(* LiveMigration with instances that die, and the manager's error          *)
(* handling: migrate_done_callback, _check_instance_error,                 *)
(* clear_migration_states and scale_down.  The callback is a coroutine of  *)
(* the manager with three awaits, so a new migration may start between any *)
(* two of its steps.                                                       *)
(***************************************************************************)
EXTENDS LiveMigrationInv

CONSTANTS
  MaxCrashes,   \* bound: instances that die
  MaxTasks      \* bound: error callbacks under way at the same time

ASSUME FaultsAssumption == MaxCrashes \in Nat /\ MaxTasks \in Nat \ {0}

VARIABLES
  alive,     \* alive[i]: the actor of instance i runs
  known,     \* the keys of the manager's instances
  tasks,     \* the error callbacks of the manager that are under way
  victims,   \* requests whose owner died
  late       \* history: a clean-up took a request from a newer migration

faultVars == <<alive, known, tasks, victims, late>>
allVars == <<vars, faultVars>>

\* An error callback: the pair, where it is, and has_error_pair.
Tasks == [src : Inst, dst : Inst, at : {"check", "clearSrc", "clearDst", "scaleDown"},
          err : SUBSET Inst]

FaultTypeOK ==
  /\ alive \in [Inst -> BOOLEAN] /\ known \subseteq Inst
  /\ tasks \subseteq Tasks /\ victims \subseteq Req /\ late \in BOOLEAN

FaultInit ==
  /\ Init
  /\ alive = [i \in Inst |-> TRUE]
  /\ known = Inst /\ tasks = {} /\ victims = {} /\ late = FALSE

NoJob(i) ==
  /\ cur' = [cur EXCEPT ![i] = NoReq]
  /\ todo' = [todo EXCEPT ![i] = {}]
  /\ stage' = [stage EXCEPT ![i] = 0]
  /\ num' = [num EXCEPT ![i] = 0]
  /\ last' = [last EXCEPT ![i] = FALSE]

\* The actor dies: by itself, or killed by _check_engine_state_loop when its
\* engine crashed.  (meta keeps which requests finished, for the properties.)
Crash(i) ==
  /\ alive[i]
  /\ Cardinality({j \in Inst : ~alive[j]}) < MaxCrashes
  /\ alive' = [alive EXCEPT ![i] = FALSE]
  /\ victims' = victims \cup
       {r \in Req : \/ Runnable(i, r)
                    \/ /\ place[i][r] = "detached"
                       /\ \A j \in Inst \ {i} : place[j][r] = "none"}
  /\ place' = [place EXCEPT ![i] = [r \in Req |-> "none"]]
  /\ stat' = [stat EXCEPT ![i] = [r \in Req |-> "none"]]
  /\ held' = [held EXCEPT ![i] = [r \in Req |-> 0]]
  /\ pre' = [pre EXCEPT ![i] = [r \in Req |-> 0]]
  /\ meta' = [meta EXCEPT ![i] = [r \in Req |->
                [NoMeta EXCEPT !.finished = meta[i][r].finished]]]
  /\ free' = [free EXCEPT ![i] = TotalBlocks]
  /\ lastStage' = [lastStage EXCEPT ![i] = {}]
  /\ pc' = [pc EXCEPT ![i] = IF @ = "idle" THEN "idle" ELSE "raised"]
  /\ NoJob(i)
  /\ UNCHANGED <<arrived, eom, dst, busy, known, tasks, late>>

\* A remote call to a dead destination, or one it died in, raises RayActorError
\* in migrate_out; an answer that was under way may be lost.
CallFails(i) ==
  /\ alive[i] /\ ~alive[dst[i]]
  /\ pc[i] \in {"next", "alloc", "allocated", "refused", "send", "commit",
                "committed", "abort"}
  /\ Raise(i)
  /\ UNCHANGED <<queueVars, blockVars, lastStage, dst, busy, faultVars>>

\* The manager calls migrate_out of an instance that is dead.
CallDead(i) ==
  /\ ~alive[i] /\ pc[i] = "called"
  /\ Raise(i)
  /\ UNCHANGED <<queueVars, blockVars, lastStage, dst, busy, faultVars>>

\* migrate_done_callback with an exception, up to its first await: the pair is
\* not busy any more before anything is cleared.
ErrorCallback(i) ==
  /\ pc[i] = "raised"
  /\ Cardinality(tasks) < MaxTasks
  /\ busy' = [busy EXCEPT ![i] = FALSE, ![dst[i]] = FALSE]
  /\ tasks' = tasks \cup {[src |-> i, dst |-> dst[i], at |-> "check", err |-> {}]}
  /\ pc' = [pc EXCEPT ![i] = "idle"]
  /\ dst' = [dst EXCEPT ![i] = i]
  /\ NoJob(i)
  /\ UNCHANGED <<queueVars, blockVars, lastStage, alive, known, victims, late>>

Goto(t, at) == tasks' = (tasks \ {t}) \cup {[t EXCEPT !.at = at]}

\* _check_instance_error: KeyError when one of the pair was scaled down, and
\* then the callback ends here.
CheckInstanceError(t) ==
  /\ t.at = "check"
  /\ tasks' = (tasks \ {t}) \cup
       {u \in {[t EXCEPT !.at = "clearSrc",
                         !.err = {i \in {t.src, t.dst} : ~alive[i]}]} :
          {t.src, t.dst} \subseteq known}
  /\ UNCHANGED <<vars, alive, known, victims, late>>

\* Every request of the last-stage list goes back to its queue.
RequeueLastStage(i) ==
  /\ place' = [place EXCEPT ![i] = [r \in Req |->
                 IF r \notin lastStage[i] THEN place[i][r]
                 ELSE IF stat[i][r] = "running_migrating" THEN "running"
                 ELSE "waiting"]]
  /\ lastStage' = [lastStage EXCEPT ![i] = {}]

\* The last-stage list holds the request of a migration that goes on: one that
\* was started after the callback had cleared instance_migrating.
TakesNewer(i) == pc[i] \notin {"idle", "raised"} /\ cur[i] \in lastStage[i]

\* clear_migration_states(is_migrate_in=False)
ClearMigrateOut(t) ==
  LET i == t.src IN
  /\ t.at = "clearSrc"
  /\ IF i \notin t.err /\ alive[i] /\ i \in known
     THEN /\ Suspended(i) /\ RequeueLastStage(i)
          /\ late' = (late \/ TakesNewer(i))
     ELSE UNCHANGED <<place, lastStage, late>>
  /\ Goto(t, "clearDst")
  /\ UNCHANGED <<arrived, stat, meta, eom, blockVars, pc, dst, jobVars, busy,
                 alive, known, victims>>

\* free_dst_pre_alloc_cache() without a request frees every pre-allocation.
\* Mutant: the entries are dropped and their blocks are not freed.
FreeAllPreAllocPops(j) ==
  pre' = [pre EXCEPT ![j] = [r \in Req |-> 0]] /\ UNCHANGED free
FreeAllPreAlloc(j) ==
  /\ pre' = [pre EXCEPT ![j] = [r \in Req |-> 0]]
  /\ free' = [free EXCEPT ![j] = @ + SumFunction(pre[j])]

\* clear_migration_states(is_migrate_in=True)
ClearMigrateIn(t) ==
  LET j == t.dst IN
  /\ t.at = "clearDst"
  /\ IF j \notin t.err /\ alive[j] /\ j \in known
     THEN Suspended(j) /\ FreeAllPreAlloc(j)
     ELSE UNCHANGED <<pre, free>>
  /\ Goto(t, "scaleDown")
  /\ UNCHANGED <<queueVars, held, lastStage, pc, dst, jobVars, busy,
                 alive, known, victims, late>>

ScaleDownDead(t) ==
  /\ t.at = "scaleDown"
  /\ known' = known \ t.err
  /\ tasks' = tasks \ {t}
  /\ UNCHANGED <<vars, alive, victims, late>>

\* _poll_instance_info_loop, _get_request_instance or the deployment loops find
\* the instance dead and scale it down.
DetectDead(i) ==
  /\ i \in known /\ ~alive[i]
  /\ known' = known \ {i}
  /\ UNCHANGED <<vars, alive, tasks, victims, late>>

LiveStep(i) ==
  /\ \/ alive[i] /\ (EngineStep(i) \/ SrcStep(i))
     \/ alive[i] /\ i \in known /\ ClientStep(i)
     \/ alive[i] /\ alive[dst[i]] /\ CallStep(i)
     \/ MigrateDone(i)
     \/ \E j \in known : i \in known /\ PushMigration(i, j)
  /\ UNCHANGED faultVars

FaultStep ==
  \/ \E i \in Inst : \/ Crash(i) \/ CallFails(i) \/ CallDead(i)
                     \/ ErrorCallback(i) \/ DetectDead(i)
  \/ \E t \in tasks : \/ CheckInstanceError(t) \/ ClearMigrateOut(t)
                      \/ ClearMigrateIn(t) \/ ScaleDownDead(t)

FaultNext == FaultStep \/ \E i \in Inst : LiveStep(i)

FaultSpec == FaultInit /\ [][FaultNext]_allVars

----------------------------------------------------------------------------
\* The error callback will put the request back into the queue of i.
Recovering(i, r) ==
  /\ r \in lastStage[i]
  /\ \/ pc[i] = "raised"
     \/ \E t \in tasks : t.src = i /\ t.at \in {"check", "clearSrc"}

\* "If migrate in instance dies during migration, migrate out instance should
\* add the migrating out request in last stage back to the running request
\* queue": a request whose owner did not die is runnable, in its last stage, or
\* about to be put back.
SurvivesDst ==
  \A r \in arrived \ victims :
    \/ \E i \in Inst : Runnable(i, r) \/ InLastStage(i, r) \/ Recovering(i, r)
    \/ \E i \in Inst : meta[i][r].finished

\* Types, and neither crashes nor the clean-up lose a block of an instance:
\* free_dst_pre_alloc_cache gives back everything that pre_alloc took, unless a
\* clean-up has taken a request from a newer migration.
LiveBlocksConserved == FaultTypeOK /\ (late \/ BlocksConserved)

\* A crash at any moment of a migration, and its clean-up, never leave a request
\* with two owners, unless a clean-up has taken it from a newer migration.
SingleOwnerUnlessLate == late \/ SingleOwner

\* A dead actor has no request in a queue.
DeadInv == \A i \in Inst, r \in Req : ~alive[i] => place[i][r] = "none"
FaultInv ==
  FaultTypeOK /\ dst \in [Inst -> Inst] /\ (late \/ (CrashInv /\ DeadInv))
=============================================================================
