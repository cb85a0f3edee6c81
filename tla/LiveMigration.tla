--------------------------- MODULE LiveMigration ---------------------------
(***************************************************************************)
(* The live migration of requests between vLLM 0.6 instances.             *)
(*                                                                         *)
(* Every instance is a Ray actor (Llumlet) that runs, on one event loop,   *)
(* the engine step loop and the coroutine Llumlet.migrate_out.  The        *)
(* coroutine copies the KV blocks of a request to a destination instance,  *)
(* stage after stage, while the engine goes on with the request; for the   *)
(* last stage it takes the request out of the running queue.  The manager  *)
(* starts the coroutine for a pair of instances and marks both as busy in  *)
(* instance_migrating until the coroutine returns.                         *)
(*                                                                         *)
(* An action is what happens between two awaits of one coroutine, one      *)
(* remote call executed by its receiver, or what one engine step does to   *)
(* one request.  Block contents and token ids are left out: a block table  *)
(* is its length.  The queues are kept as places, without their order.     *)
(* Crashes are added by MigrationFaults.                                   *)
(***************************************************************************)
EXTENDS Integers, FiniteSets, Functions

CONSTANTS
  Inst,           \* the instances
  Req,            \* the requests
  NoReq,          \* no request is being migrated
  Prefill,        \* the prefill instances; {} without P/D disaggregation
  Policy,         \* request_migration_policy
  TotalBlocks,    \* KV blocks of an instance
  Watermark,      \* blocks an allocation must leave free
  MaxBlocks,      \* bound: a request never needs more blocks
  LastStageMax,   \* migration_last_stage_max_blocks
  MaxStages       \* migration_max_stages

Policies == {"LCR", "LR", "SR", "FCW", "FCWSR"}

ASSUME NoReqAssumption == NoReq \notin Req
ASSUME ReqAssumption == IsFiniteSet(Req)
ASSUME PrefillAssumption == Prefill \subseteq Inst
ASSUME PolicyAssumption == Policy \in Policies
ASSUME BlocksAssumption ==
  /\ TotalBlocks \in Nat /\ Watermark \in Nat /\ MaxBlocks \in Nat \ {0}
  /\ LastStageMax \in Nat \ {0} /\ MaxStages \in Nat \ {0}

VARIABLES
  arrived,    \* the requests that were dispatched to some instance
  place,      \* place[i][r]: the queue of instance i that holds request r;
              \* "detached" when migrate_out holds it and no queue does
  stat,       \* stat[i][r]: LlumnixRequest._status, "none" for None
  held,       \* held[i][r]: length of the block table of r on i
  meta,       \* meta[i][r]: the other attributes of the copy of r on i
  eom,        \* the requests whose eom attribute was set
  pre,        \* pre[i][r]: length of pre_alloc_cache_dict[r], 0 when absent
  free,       \* free[i]: free KV blocks
  lastStage,  \* lastStage[i]: migrating_out_requests_last_stage
  pc,         \* pc[i]: where migrate_out of instance i waits
  dst,        \* dst[i]: its destination, i itself when there is none
  cur, todo,  \* the request it migrates and the ones after it
  stage,      \* stage_count
  num,        \* number of blocks of the current stage
  last,       \* is_last_stage
  busy        \* busy[i]: the manager's instance_migrating[i]

queueVars  == <<arrived, place, stat, meta, eom>>
blockVars  == <<held, pre, free>>
jobVars    == <<cur, todo, stage, num, last>>
vars == <<arrived, place, stat, held, meta, eom, pre, free, lastStage,
          pc, dst, cur, todo, stage, num, last, busy>>

Places == {"none", "waiting", "running", "detached"}
Statuses == {"none", "running_migrating", "waiting_migrating"}
\* size: blocks its tokens fill; sent: sum of stage_num_blocks_list;
\* mig: is_migrating; preempted: last_preemption_time is later than the start
\* of the stage; limited: output_len >= expected_steps once it runs.
Meta == [size : Nat, sent : Nat, mig : BOOLEAN, preempted : BOOLEAN,
         limited : BOOLEAN, finished : BOOLEAN]
NewMeta(b, l) == [size |-> b, sent |-> 0, mig |-> FALSE, preempted |-> FALSE,
                  limited |-> l, finished |-> FALSE]
NoMeta == NewMeta(0, FALSE)

\* The places where migrate_out waits: for the manager's call, in its loop over
\* the requests, at the start of a stage, for the engine loop to remove the
\* request (removeStepped: the engine has done its one step meanwhile), for the
\* output processor, for migrate_in_pre_alloc and its two answers, for the
\* block transfer, for commit_dst_request and its answer, for
\* free_dst_pre_alloc_cache; returned, and ended by an exception.
PCs == {"idle", "called", "next", "stage", "remove", "removeStepped", "removed",
        "alloc", "allocated", "refused", "send", "commit", "committed",
        "abort", "done", "raised"}

TypeOK ==
  /\ arrived \subseteq Req /\ eom \subseteq Req
  /\ place \in [Inst -> [Req -> Places]]
  /\ stat \in [Inst -> [Req -> Statuses]]
  /\ held \in [Inst -> [Req -> Nat]]
  /\ meta \in [Inst -> [Req -> Meta]]
  /\ pre \in [Inst -> [Req -> Nat]]
  /\ free \in [Inst -> Nat]
  /\ lastStage \in [Inst -> SUBSET Req]
  /\ pc \in [Inst -> PCs]
  /\ dst \in [Inst -> Inst]
  /\ cur \in [Inst -> Req \cup {NoReq}]
  /\ todo \in [Inst -> SUBSET Req]
  /\ stage \in [Inst -> Nat]
  /\ num \in [Inst -> Nat]
  /\ last \in [Inst -> BOOLEAN]
  /\ busy \in [Inst -> BOOLEAN]

Init ==
  /\ arrived = {} /\ eom = {}
  /\ place = [i \in Inst |-> [r \in Req |-> "none"]]
  /\ stat = [i \in Inst |-> [r \in Req |-> "none"]]
  /\ held = [i \in Inst |-> [r \in Req |-> 0]]
  /\ meta = [i \in Inst |-> [r \in Req |-> NoMeta]]
  /\ pre = [i \in Inst |-> [r \in Req |-> 0]]
  /\ free = [i \in Inst |-> TotalBlocks]
  /\ lastStage = [i \in Inst |-> {}]
  /\ pc = [i \in Inst |-> "idle"]
  /\ dst = [i \in Inst |-> i]
  /\ cur = [i \in Inst |-> NoReq]
  /\ todo = [i \in Inst |-> {}]
  /\ stage = [i \in Inst |-> 0]
  /\ num = [i \in Inst |-> 0]
  /\ last = [i \in Inst |-> FALSE]
  /\ busy = [i \in Inst |-> FALSE]

----------------------------------------------------------------------------
(***************************************************************************)
(* The engine: vLLM's scheduler with the changes of SchedulerLlumnix.      *)
(***************************************************************************)
Waiting(i) == {r \in Req : place[i][r] = "waiting"}
Running(i) == {r \in Req : place[i][r] = "running"}

\* Between the call of remove_running_request and the removal the engine
\* completes at most one step, which touches the request at most once.
CanStep(i, r) == ~(pc[i] = "removeStepped" /\ cur[i] = r)
StepTaken(i, r) ==
  pc' = [pc EXCEPT ![i] = IF @ = "remove" /\ cur[i] = r
                          THEN "removeStepped" ELSE @]

\* The manager dispatches a request; P/D disaggregation expects one step of it
\* and sends it to a prefill instance.
AddRequest(i, r) ==
  /\ r \notin arrived
  /\ Prefill # {} => i \in Prefill
  /\ arrived' = arrived \cup {r}
  /\ place' = [place EXCEPT ![i][r] = "waiting"]
  /\ \E b \in 1..MaxBlocks :
       meta' = [meta EXCEPT ![i][r] = NewMeta(b, Prefill # {})]
  /\ UNCHANGED <<stat, eom, blockVars, lastStage, pc, dst, jobVars, busy>>

\* _allocate_and_set_running: a request that migrated in while it was waiting
\* keeps the blocks of its pre-allocation, any other one allocates.
Admit(i, r) ==
  /\ place[i][r] = "waiting"
  /\ CanStep(i, r)
  /\ place' = [place EXCEPT ![i][r] = "running"]
  /\ IF stat[i][r] = "waiting_migrating"
     THEN /\ stat' = [stat EXCEPT ![i][r] = "none"]
          /\ UNCHANGED <<held, free>>
     ELSE /\ free[i] >= meta[i][r].size + Watermark
          /\ free' = [free EXCEPT ![i] = @ - meta[i][r].size]
          /\ held' = [held EXCEPT ![i][r] = meta[i][r].size]
          /\ UNCHANGED stat
  /\ UNCHANGED <<arrived, meta, eom, pre, lastStage, pc, dst, jobVars, busy>>

\* A running request fills its last block and gets the blocks that its table
\* lacks; _schedule_running leaves out the requests that have done their
\* expected steps.
Grow(i, r) ==
  /\ place[i][r] = "running" /\ ~meta[i][r].limited
  /\ CanStep(i, r)
  /\ meta[i][r].size < MaxBlocks
  /\ LET size == meta[i][r].size + 1
         need == IF size > held[i][r] THEN size - held[i][r] ELSE 0
     IN /\ free[i] >= need
        /\ meta' = [meta EXCEPT ![i][r].size = size]
        /\ held' = [held EXCEPT ![i][r] = @ + need]
        /\ free' = [free EXCEPT ![i] = @ - need]
  /\ StepTaken(i, r)
  /\ UNCHANGED <<arrived, place, stat, eom, pre, lastStage, dst, jobVars, busy>>

\* _preempt by recomputation, when there is no block for a running request.
Preempt(i, r) ==
  /\ place[i][r] = "running" /\ ~meta[i][r].limited
  /\ CanStep(i, r)
  /\ free[i] = 0
  /\ place' = [place EXCEPT ![i][r] = "waiting"]
  /\ free' = [free EXCEPT ![i] = @ + held[i][r]]
  /\ held' = [held EXCEPT ![i][r] = 0]
  /\ meta' = [meta EXCEPT ![i][r].preempted = TRUE]
  /\ StepTaken(i, r)
  /\ UNCHANGED <<arrived, stat, eom, pre, lastStage, dst, jobVars, busy>>

\* The request leaves the engine and its blocks are freed.
Retire(i, r) ==
  /\ place' = [place EXCEPT ![i][r] = "none"]
  /\ free' = [free EXCEPT ![i] = @ + held[i][r]]
  /\ held' = [held EXCEPT ![i][r] = 0]
  /\ meta' = [meta EXCEPT ![i][r].finished = TRUE]
  /\ UNCHANGED <<arrived, stat, eom, pre, lastStage, pc, dst, jobVars, busy>>

Finish(i, r) == place[i][r] = "running" /\ Retire(i, r)

\* The output processor finishes the request after its removal from running.
FinishRemoved(i, r) ==
  /\ pc[i] = "removed" /\ cur[i] = r
  /\ place[i][r] = "detached"
  /\ Retire(i, r)

\* abort_request searches the queues only; it misses a detached request.
AbortRequest(i, r) == place[i][r] \in {"waiting", "running"} /\ Retire(i, r)

\* In the two places that are no await migrate_out keeps the event loop of its
\* instance to itself.
Suspended(i) == pc[i] \notin {"next", "stage"}

EngineStep(i) ==
  /\ Suspended(i)
  /\ \E r \in Req : \/ Admit(i, r) \/ Grow(i, r) \/ Preempt(i, r)
                    \/ Finish(i, r) \/ FinishRemoved(i, r)

----------------------------------------------------------------------------
(***************************************************************************)
(* The manager starts a migration for a pair of instances, and the         *)
(* destination's side of it.                                               *)
(***************************************************************************)

\* pair_migration: from prefill to decoding instances and between decoding
\* instances, or between any two without P/D disaggregation.
PairOK(i, j) == i # j /\ j \notin Prefill

\* Neither instance takes part in a migration.
\* Mutant: only the source is looked up.
NotMigratingSrcOnly(i, j) == ~busy[i]
NotMigrating(i, j) == ~busy[i] /\ ~busy[j]

PushMigration(i, j) ==
  /\ PairOK(i, j)
  /\ NotMigrating(i, j)
  /\ pc[i] = "idle"
  /\ busy' = [busy EXCEPT ![i] = TRUE, ![j] = TRUE]
  /\ dst' = [dst EXCEPT ![i] = j]
  /\ pc' = [pc EXCEPT ![i] = "called"]
  /\ UNCHANGED <<queueVars, blockVars, lastStage, jobVars>>

\* migrate_done_callback after a migrate_out that returned.
MigrateDone(i) ==
  /\ pc[i] = "done"
  /\ busy' = [busy EXCEPT ![i] = FALSE, ![dst[i]] = FALSE]
  /\ dst' = [dst EXCEPT ![i] = i]
  /\ pc' = [pc EXCEPT ![i] = "idle"]
  /\ UNCHANGED <<queueVars, blockVars, lastStage, jobVars>>

\* Scheduler.pre_alloc: the length of the pre-allocation of r on j afterwards.
\* A first allocation respects the watermark.  A later one only happens when
\* there are enough blocks, and otherwise the table stays as it is.
PreAllocLen(j, r, n) ==
  IF pre[j][r] = 0
  THEN IF free[j] >= n + Watermark THEN n ELSE 0
  ELSE IF free[j] >= n THEN pre[j][r] + n ELSE pre[j][r]

\* A waiting request is refused when one that arrived earlier waits at j.
MayRefuse(i, j) == stat[i][cur[i]] = "waiting_migrating" /\ Waiting(j) # {}

\* migrate_in_pre_alloc: pre_alloc answers with the last n blocks of the table;
\* when there are fewer than n the destination frees them all.
PreAllocOK(i, j, r) ==
  /\ PreAllocLen(j, r, num[i]) >= num[i]
  /\ pre' = [pre EXCEPT ![j][r] = PreAllocLen(j, r, num[i])]
  /\ free' = [free EXCEPT ![j] = (@ + pre[j][r]) - PreAllocLen(j, r, num[i])]
  /\ pc' = [pc EXCEPT ![i] = "allocated"]

PreAllocRefused(i, j, r) ==
  /\ PreAllocLen(j, r, num[i]) < num[i] \/ MayRefuse(i, j)
  /\ pre' = [pre EXCEPT ![j][r] = 0]
  /\ free' = [free EXCEPT ![j] = @ + pre[j][r]]
  /\ pc' = [pc EXCEPT ![i] = "refused"]

MigrateInPreAlloc(i) ==
  /\ pc[i] = "alloc"
  /\ PreAllocOK(i, dst[i], cur[i]) \/ PreAllocRefused(i, dst[i], cur[i])
  /\ UNCHANGED <<queueVars, held, lastStage, dst, jobVars, busy>>

\* free_dst_pre_alloc_cache(r)
\* Mutant: the entry is popped and its blocks are not freed.
FreeDstPreAllocCachePops(j, r) ==
  pre' = [pre EXCEPT ![j][r] = 0] /\ UNCHANGED free
FreeDstPreAllocCache(j, r) ==
  /\ pre' = [pre EXCEPT ![j][r] = 0]
  /\ free' = [free EXCEPT ![j] = @ + pre[j][r]]

\* commit_dst_request: the pre-allocation becomes the block table of the copy
\* of the request that arrives; KeyError when there is none.
CommitDstRequest(i) ==
  LET j == dst[i]  r == cur[i] IN
  /\ pc[i] = "commit"
  /\ IF pre[j][r] = 0
     THEN /\ pc' = [pc EXCEPT ![i] = "raised"]
          /\ UNCHANGED <<place, stat, held, meta, pre>>
     ELSE /\ pc' = [pc EXCEPT ![i] = "committed"]
          /\ held' = [held EXCEPT ![j][r] = pre[j][r]]
          /\ pre' = [pre EXCEPT ![j][r] = 0]
          /\ meta' = [meta EXCEPT ![j][r] = NewMeta(meta[i][r].size, FALSE)]
          /\ IF stat[i][r] = "waiting_migrating"
             THEN /\ place' = [place EXCEPT ![j][r] = "waiting"]
                  /\ stat' = [stat EXCEPT ![j][r] = "waiting_migrating"]
             ELSE /\ place' = [place EXCEPT ![j][r] = "running"]
                  /\ stat' = [stat EXCEPT ![j][r] = "none"]
  /\ UNCHANGED <<arrived, eom, free, lastStage, dst, jobVars, busy>>

DstStep(i) == MigrateInPreAlloc(i) \/ CommitDstRequest(i)

----------------------------------------------------------------------------
(***************************************************************************)
(* The source: Llumlet.migrate_out and the MigrationCoordinator.           *)
(***************************************************************************)

\* get_required_migration_request and the filters of LocalMigrationScheduler.
\* D: the running requests that are past their prefill and the waiting ones
\* that the scheduler has tried; the model leaves open which they are.
Required(i, D) ==
  {r \in Running(i) \cap D : stat[i][r] = "none" /\ meta[i][r].limited}
FilteredRunning(i, D) ==
  {r \in Running(i) \cap D : stat[i][r] = "none" /\ ~meta[i][r].mig}
FilteredWaiting(i, D) ==
  {r \in Waiting(i) \cap D : stat[i][r] = "none" /\ ~meta[i][r].mig}
\* _get_first_waiting_request takes the head of the unfiltered queue.
FirstWaiting(i, D) == IF FilteredWaiting(i, D) # {} THEN Waiting(i) ELSE {}

\* get_migrate_out_requests: the possible choices, as the request that goes
\* first and the set of those that follow.
MigrateOutChoices(i, D) ==
  IF Required(i, D) # {}
    THEN {<<r, Required(i, D) \ {r}>> : r \in Required(i, D)}
  ELSE IF Policy = "FCW" THEN {<<w, {}>> : w \in FirstWaiting(i, D)}
  ELSE IF Policy = "FCWSR" /\ FirstWaiting(i, D) # {}
    THEN IF FilteredRunning(i, D) = {}
         THEN {<<w, {}>> : w \in FirstWaiting(i, D)}
         ELSE {<<w, {r}>> : w \in FirstWaiting(i, D), r \in FilteredRunning(i, D)}
  ELSE {<<r, {}>> : r \in FilteredRunning(i, D)}

MarkMigrating(i, R) ==
  meta' = [meta EXCEPT ![i] =
             [r \in Req |-> IF r \in R THEN [meta[i][r] EXCEPT !.mig = TRUE]
                                       ELSE meta[i][r]]]

MigrateNone(i, D) ==
  /\ MigrateOutChoices(i, D) = {}
  /\ pc' = [pc EXCEPT ![i] = "done"]
  /\ UNCHANGED <<meta, eom, cur, todo>>

MigrateSome(i, D) ==
  \E c \in MigrateOutChoices(i, D) :
    /\ MarkMigrating(i, {c[1]} \cup c[2])
    /\ cur' = [cur EXCEPT ![i] = c[1]]
    /\ todo' = [todo EXCEPT ![i] = c[2]]
    /\ eom' = IF Required(i, D) = {} /\ Policy = "FCWSR" /\ c[1] \in Waiting(i)
              THEN eom \cup {c[1]} ELSE eom
    /\ pc' = [pc EXCEPT ![i] = "next"]

\* Llumlet.migrate_out up to the first request.
MigrateOut(i) ==
  /\ pc[i] = "called"
  /\ \E D \in SUBSET Req : MigrateNone(i, D) \/ MigrateSome(i, D)
  /\ UNCHANGED <<arrived, place, stat, blockVars, lastStage, dst, stage, num,
                 last, busy>>

\* The end of _migrate_out_one_request: the loop goes on with the next request
\* unless there is none or a failed request ends it (eom).
Advance(i, migrated) ==
  /\ stage' = [stage EXCEPT ![i] = 0]
  /\ num' = [num EXCEPT ![i] = 0]
  /\ last' = [last EXCEPT ![i] = FALSE]
  /\ IF todo[i] = {} \/ (~migrated /\ cur[i] \in eom)
     THEN /\ pc' = [pc EXCEPT ![i] = "done"]
          /\ cur' = [cur EXCEPT ![i] = NoReq]
          /\ todo' = [todo EXCEPT ![i] = {}]
     ELSE \E r \in todo[i] :
          /\ pc' = [pc EXCEPT ![i] = "next"]
          /\ cur' = [cur EXCEPT ![i] = r]
          /\ todo' = [todo EXCEPT ![i] = @ \ {r}]

\* The coroutine ends with an exception, which the manager sees.
Raise(i) ==
  /\ pc' = [pc EXCEPT ![i] = "raised"]
  /\ UNCHANGED jobVars

\* reset_migration_args_src and reset_status
\* Mutant: is_migrating stays set.
ResetSrcKeepsMigrating(i, r) ==
  /\ meta' = [meta EXCEPT ![i][r] = [@ EXCEPT !.sent = 0, !.preempted = FALSE]]
  /\ stat' = [stat EXCEPT ![i][r] = "none"]
ResetSrc(i, r) ==
  /\ meta' = [meta EXCEPT ![i][r] = [@ EXCEPT !.sent = 0, !.mig = FALSE,
                                              !.preempted = FALSE]]
  /\ stat' = [stat EXCEPT ![i][r] = "none"]

\* MigrationStatus.ABORTED_SRC
AbortSrc(i, r) ==
  /\ ResetSrc(i, r)
  /\ pc' = [pc EXCEPT ![i] = "abort"]
  /\ UNCHANGED jobVars

\* should_abort_migration
ShouldAbort(i, r) == meta[i][r].finished \/ meta[i][r].preempted

\* begin_time of should_abort_migration is the start of the last stage, and
\* migration_start_time only while no stage was sent.
StartTime(i, r) ==
  meta' = [meta EXCEPT ![i][r].preempted = @ /\ meta[i][r].sent # 0]

BeginRunning(i, r) ==
  /\ place[i][r] = "running" /\ stat[i][r] = "none"
  /\ StartTime(i, r)
  /\ pc' = [pc EXCEPT ![i] = "stage"]
  /\ UNCHANGED <<place, stat, lastStage, jobVars>>

\* add_migrating_out_request_last_stage
AddLastStage(i, r) == lastStage' = [lastStage EXCEPT ![i] = @ \cup {r}]

\* The blocks that a waiting request asks for: those its prompt fills.
\* Mutant: one too few.
WaitingNumBlocksShort(i, r) ==
  IF meta[i][r].size > 1 THEN meta[i][r].size - 1 ELSE 1
WaitingNumBlocks(i, r) == meta[i][r].size

\* migrate_out_waiting_request up to its remote call.
BeginWaiting(i, r) ==
  /\ place[i][r] = "waiting" /\ stat[i][r] = "none"
  /\ place' = [place EXCEPT ![i][r] = "detached"]
  /\ stat' = [stat EXCEPT ![i][r] = "waiting_migrating"]
  /\ StartTime(i, r)
  /\ AddLastStage(i, r)
  /\ num' = [num EXCEPT ![i] = WaitingNumBlocks(i, r)]
  /\ last' = [last EXCEPT ![i] = TRUE]
  /\ pc' = [pc EXCEPT ![i] = "alloc"]
  /\ UNCHANGED <<cur, todo, stage>>

\* remove_waiting_request finds no request within the prompt limit.
BeginOverLimit(i, r) ==
  /\ place[i][r] = "waiting" /\ stat[i][r] = "none"
  /\ AbortSrc(i, r)
  /\ UNCHANGED <<place, lastStage>>

\* Neither RUNNING nor WAITING: the request is skipped as it is.
BeginSkipped(i, r) ==
  /\ place[i][r] \notin {"running", "waiting"} \/ stat[i][r] # "none"
  /\ Advance(i, FALSE)
  /\ UNCHANGED <<place, stat, meta, lastStage>>

MigrateOutOneRequest(i) ==
  /\ pc[i] = "next"
  /\ \/ BeginRunning(i, cur[i]) \/ BeginWaiting(i, cur[i])
     \/ BeginOverLimit(i, cur[i]) \/ BeginSkipped(i, cur[i])
  /\ UNCHANGED <<arrived, eom, blockVars, dst, busy>>

\* A stage sends what is not sent yet, but for the last block that the engine
\* still fills; for the last stage the request stops running and all is sent.
\* Mutants: the last block is never sent; the request goes on running.
StageNumBlocksShort(isLast, incremental) == incremental - 1
StageNumBlocks(isLast, incremental) ==
  IF isLast THEN incremental ELSE incremental - 1
StagePCRunsOn(isLast) == "alloc"
StagePC(isLast) == IF isLast THEN "remove" ELSE "alloc"

\* _migrate_out_multistage and the start of _migrate_out_onestage.
StartStage(i) ==
  LET r == cur[i]
      incremental == held[i][r] - meta[i][r].sent
      isLast == incremental <= LastStageMax \/ meta[i][r].limited
  IN
  /\ pc[i] = "stage"
  /\ IF stage[i] = MaxStages \/ ShouldAbort(i, r)
     THEN AbortSrc(i, r)
     ELSE /\ stage' = [stage EXCEPT ![i] = @ + 1]
          /\ num' = [num EXCEPT ![i] = StageNumBlocks(isLast, incremental)]
          /\ last' = [last EXCEPT ![i] = isLast]
          /\ pc' = [pc EXCEPT ![i] = StagePC(isLast)]
          /\ UNCHANGED <<stat, meta, cur, todo>>
  /\ UNCHANGED <<arrived, place, eom, blockVars, lastStage, dst, busy>>

\* The engine loop serves the removal between two steps.
\* Mutant: a request that is not running any more is not answered for.
RemoveRunningRequestWaits(i) ==
  LET r == cur[i] IN
  /\ pc[i] \in {"remove", "removeStepped"} /\ place[i][r] = "running"
  /\ place' = [place EXCEPT ![i][r] = "detached"]
  /\ stat' = [stat EXCEPT ![i][r] = "running_migrating"]
  /\ pc' = [pc EXCEPT ![i] = "removed"]
  /\ UNCHANGED <<arrived, meta, eom, blockVars, lastStage, dst, jobVars, busy>>

RemoveRunningRequest(i) ==
  LET r == cur[i] IN
  /\ pc[i] \in {"remove", "removeStepped"}
  /\ IF place[i][r] = "running"
     THEN /\ place' = [place EXCEPT ![i][r] = "detached"]
          /\ stat' = [stat EXCEPT ![i][r] = "running_migrating"]
     ELSE UNCHANGED <<place, stat>>
  /\ pc' = [pc EXCEPT ![i] = "removed"]
  /\ UNCHANGED <<arrived, meta, eom, blockVars, lastStage, dst, jobVars, busy>>

\* "Request could be finished by previous or current step."
AfterRemoval(i) ==
  LET r == cur[i] IN
  /\ pc[i] = "removed"
  /\ IF place[i][r] = "detached"
     THEN /\ AddLastStage(i, r)
          /\ pc' = [pc EXCEPT ![i] = "alloc"]
          /\ UNCHANGED <<stat, meta, jobVars>>
     ELSE AbortSrc(i, r) /\ UNCHANGED lastStage
  /\ UNCHANGED <<arrived, place, eom, blockVars, dst, busy>>

\* The destination answered with as many blocks as asked for.  Only a running
\* request is checked again and has blocks to send.
AfterAllocated(i) ==
  LET r == cur[i] IN
  /\ pc[i] = "allocated"
  /\ IF stat[i][r] = "waiting_migrating"
     THEN pc' = [pc EXCEPT ![i] = "commit"] /\ UNCHANGED <<stat, meta, jobVars>>
     ELSE IF ShouldAbort(i, r)
     THEN AbortSrc(i, r)
     ELSE /\ meta' = [meta EXCEPT ![i][r] =
                       [@ EXCEPT !.sent = meta[i][r].sent + num[i],
                                 !.preempted = FALSE]]
          /\ pc' = [pc EXCEPT ![i] = "send"]
          /\ UNCHANGED <<stat, jobVars>>
  /\ UNCHANGED <<arrived, place, eom, blockVars, lastStage, dst, busy>>

\* The queue that a request in its last stage goes back to.
\* Mutant: it goes back to none.
QueueOfNowhere(i, r) == "detached"
QueueOf(i, r) ==
  IF stat[i][r] = "waiting_migrating" THEN "waiting" ELSE "running"

\* ABORTED_DST: a request in its last stage goes back to its queue and leaves
\* the list of the last stage (ValueError when it is not in it).
AfterRefused(i) ==
  LET r == cur[i] IN
  /\ pc[i] = "refused"
  /\ IF last[i]
     THEN /\ place' = [place EXCEPT ![i][r] = QueueOf(i, r)]
          /\ lastStage' = [lastStage EXCEPT ![i] = @ \ {r}]
     ELSE UNCHANGED <<place, lastStage>>
  /\ IF last[i] /\ r \notin lastStage[i]
     THEN Raise(i) /\ UNCHANGED <<stat, meta>>
     ELSE ResetSrc(i, r) /\ Advance(i, FALSE)
  /\ UNCHANGED <<arrived, eom, blockVars, dst, busy>>

\* send_blocks returns.
SendBlocks(i) ==
  LET r == cur[i] IN
  /\ pc[i] = "send"
  /\ IF last[i]
     THEN pc' = [pc EXCEPT ![i] = "commit"] /\ UNCHANGED <<stat, meta, jobVars>>
     ELSE IF ShouldAbort(i, r)
     THEN AbortSrc(i, r)
     ELSE pc' = [pc EXCEPT ![i] = "stage"] /\ UNCHANGED <<stat, meta, jobVars>>
  /\ UNCHANGED <<arrived, place, eom, blockVars, lastStage, dst, busy>>

\* commit_dst_request returned: free_src_request, and the request leaves the
\* list of the last stage (ValueError when it is not in it).
AfterCommit(i) ==
  LET r == cur[i] IN
  /\ pc[i] = "committed"
  /\ free' = [free EXCEPT ![i] = @ + held[i][r]]
  /\ held' = [held EXCEPT ![i][r] = 0]
  /\ IF r \in lastStage[i]
     THEN /\ lastStage' = [lastStage EXCEPT ![i] = @ \ {r}]
          /\ place' = [place EXCEPT ![i][r] = "none"]
          /\ stat' = [stat EXCEPT ![i][r] = "none"]
          /\ meta' = [meta EXCEPT ![i][r] = NoMeta]
          /\ Advance(i, TRUE)
     ELSE Raise(i) /\ UNCHANGED <<place, stat, meta, lastStage>>
  /\ UNCHANGED <<arrived, eom, pre, dst, busy>>

\* ABORTED_SRC: the destination is told to free the pre-allocation.
AfterAbort(i) ==
  /\ pc[i] = "abort"
  /\ FreeDstPreAllocCache(dst[i], cur[i])
  /\ Advance(i, FALSE)
  /\ UNCHANGED <<queueVars, held, lastStage, dst, busy>>

SrcStep(i) ==
  \/ MigrateOut(i) \/ MigrateOutOneRequest(i) \/ StartStage(i)
  \/ RemoveRunningRequest(i) \/ AfterRemoval(i)
  \/ AfterAllocated(i) \/ AfterRefused(i) \/ AfterCommit(i)

\* The steps that end with a call the destination has executed.
CallStep(i) == DstStep(i) \/ SendBlocks(i) \/ AfterAbort(i)

ClientStep(i) ==
  Suspended(i) /\ \E r \in Req : AddRequest(i, r) \/ AbortRequest(i, r)

Next ==
  \E i \in Inst :
    \/ ClientStep(i) \/ EngineStep(i) \/ SrcStep(i) \/ CallStep(i)
    \/ MigrateDone(i) \/ \E j \in Inst : PushMigration(i, j)

Spec == Init /\ [][Next]_vars

\* The event loops, the remote calls and the manager's callback make progress.
Fairness ==
  \A i \in Inst : WF_vars(SrcStep(i)) /\ WF_vars(CallStep(i))
                  /\ WF_vars(MigrateDone(i))

FairSpec == Spec /\ Fairness

----------------------------------------------------------------------------
(***************************************************************************)
(* Properties                                                              *)
(***************************************************************************)
Runnable(i, r) == place[i][r] \in {"waiting", "running"}
InLastStage(i, r) ==
  /\ cur[i] = r /\ place[i][r] = "detached"
  /\ pc[i] \in {"removed", "alloc", "allocated", "refused", "send", "commit",
                "committed"}

\* At most one engine can schedule a request, at every moment of a migration:
\* commit_dst_request adds it to the destination's queue only when it is in no
\* queue of the source.
SingleOwner ==
  \A i, j \in Inst, r \in Req : Runnable(i, r) /\ Runnable(j, r) => i = j

\* No request gets lost: one that arrived and did not finish is in a queue of
\* some engine or held by a migrate_out that will put it into one.  In
\* particular the ABORTED_SRC that follows a pre-allocation in the last stage,
\* and does not put the request back, is never taken.
NotLost ==
  \A r \in arrived : \/ \E i \in Inst : Runnable(i, r) \/ InLastStage(i, r)
                     \/ \E i \in Inst : meta[i][r].finished

\* Without crashes migrate_out raises no exception: neither the pop of the
\* pre-allocation in commit_dst_request nor the removal from
\* migrating_out_requests_last_stage misses its entry.
NoException == \A i \in Inst : pc[i] # "raised"

\* A pre-allocation belongs to a migration that is under way, so none leaks,
\* whichever side ends the migration.
PreAllocOwned ==
  \A j \in Inst, r \in Req :
    pre[j][r] > 0 => \E i \in Inst : dst[i] = j /\ cur[i] = r /\ pc[i] # "idle"

\* The one-to-one restriction that clear_migration_states counts on: an
\* instance takes part in at most one migration, as source or destination.
OneToOne ==
  \A i, k \in Inst :
    /\ pc[i] # "idle" => dst[i] # i /\ busy[i] /\ busy[dst[i]]
    /\ pc[i] # "idle" /\ pc[k] # "idle" /\ i # k
         => dst[i] # dst[k] /\ dst[i] # k

\* What is committed is complete when it cannot change under way: a waiting
\* request finds blocks for all its tokens, a request that has done its
\* expected steps (P/D disaggregation) as many as it holds at the source.
FrozenCommitComplete ==
  \A i \in Inst :
    pc[i] = "commit" =>
      LET r == cur[i] IN
      /\ stat[i][r] = "waiting_migrating" => pre[dst[i]][r] = meta[i][r].size
      /\ stat[i][r] = "running_migrating" /\ meta[i][r].limited
           => pre[dst[i]][r] = held[i][r]

\* "last stage migration, stop inference, transfer all blocks": at the commit
\* of a running request every block it holds at the source was sent.
AllBlocksSent ==
  \A i \in Inst :
    pc[i] = "commit" /\ stat[i][cur[i]] = "running_migrating"
      => meta[i][cur[i]].sent = held[i][cur[i]]

\* "migrate-in instance failed to pre alloc": an answer that the source accepts
\* names one block of the destination for every block of the source.
PreAllocHonest ==
  \A i \in Inst :
    pc[i] = "commit" /\ stat[i][cur[i]] = "running_migrating"
      => pre[dst[i]][cur[i]] = meta[i][cur[i]].sent

\* is_migrating excludes a request from later migrations, so it must end with
\* the migration: a runnable request that carries it is in a migration.
MigratingFlagEnds ==
  \A i \in Inst, r \in Req :
    Runnable(i, r) /\ meta[i][r].mig
      => pc[i] # "idle" /\ pc[i] # "done"

\* No KV block is lost or counted twice: on every instance the free blocks, the
\* block tables and the pre-allocations add up to its KV cache, through every
\* abort, refusal, commit and preemption.
BlocksOf(i) == [r \in Req |-> held[i][r] + pre[i][r]]
BlocksConserved == \A i \in Inst : free[i] + SumFunction(BlocksOf(i)) = TotalBlocks

\* A running request has a block table.
RunningHasBlocks ==
  \A i \in Inst, r \in Req : place[i][r] = "running" => held[i][r] > 0

\* Every migration that the manager starts ends, whatever the requests do.
MigrationEnds == \A i \in Inst : pc[i] = "called" ~> pc[i] = "idle"
=============================================================================
