---------------------------- MODULE V1Migration ----------------------------
(***************************************************************************)
(* True KV migration between vLLM V1 instances, driven by the manager.     *)
(*                                                                         *)
(* A migration task of the manager selects a request of the source, may    *)
(* copy its immutable blocks ahead (incremental pre-copy), freezes it,     *)
(* reserves and fills blocks at the target, commits the target and then    *)
(* the source.  Any call may fail; then the task aborts both sides and     *)
(* tries once more.  The EngineCore is the reference state machine of      *)
(* backends/vllm/v1_migration.py, the contract of the vLLM fork; the       *)
(* adapter and the Llumlet add the streams that forward outputs.           *)
(*                                                                         *)
(* An action is one remote call executed by its receiver, with what the    *)
(* manager does when the answer arrives.  The layers of a transfer are     *)
(* one call, and token contents are left out.                              *)
(*                                                                         *)
(* The requests are the ones that can migrate: those that generate gives   *)
(* to one instance.  The halves of a P/D pair run under ids that           *)
(* request_server_info does not know, so that _migrate_v1_pair returns.    *)
(*                                                                         *)
(* request_instance, request_instances and request_server_info are left    *)
(* out: generate writes them after its calls, abort's callback removes     *)
(* them, and the reconciliation replaces them by answers from different    *)
(* moments.  Nothing is assumed of them here: an abort may reach any       *)
(* instance, and a task may pass over any candidate.                       *)
(***************************************************************************)
EXTENDS Naturals, FiniteSets

CONSTANTS
  Inst, Req,
  Task,         \* migration tasks the manager can have under way
  NoInst, NoReq,
  Prefill,      \* the prefill instances; {} without P/D disaggregation
  Pairs,        \* the pairs <<source, target>> that the scheduler may plan
  Incremental,  \* both sides can do incremental pre-copy
  MaxEpoch,     \* bound: migrations of one request
  MaxFaults     \* bound: calls that fail and instances that die

ASSUME NoneAssumption == NoInst \notin Inst /\ NoReq \notin Req
ASSUME PDAssumption == Prefill \subseteq Inst /\ Incremental \in BOOLEAN
ASSUME PairsAssumption == Pairs \subseteq Inst \X Inst
ASSUME BoundsAssumption == MaxEpoch \in Nat /\ MaxFaults \in Nat

MaxAttempts == 2

VARIABLES
  alive,      \* alive[i]: the actor of instance i runs
  core,       \* core[i][r]: state of request r in the EngineCore of i
  stream,     \* stream[i][r]: i forwards the outputs of r to the API server
  resv,       \* resv[i]: import reservations <<r, epoch>> of i
  session,    \* session[i][r]: pre-copy session of r on i: "none", "open" or "synced"
  snap,       \* snap[i][r]: epoch of the snapshot of r that i keeps, 0 without one
  epoch,      \* v1_migration_epochs
  migrating,  \* v1_migrating_requests
  busy,       \* instance_migrating
  pc, src, dst, req, attempt, pending,   \* the tasks
  skip,       \* skip[t]: the transfer leaves out the blocks of the pre-copy
  born,       \* history: requests that an instance was given
  over,       \* history: requests that finished or were aborted
  victims,    \* history: requests that died with their instance
  unclean,    \* history: <<i, r>> when a clean-up of r at i failed
  faults      \* failed calls and crashes so far

engineVars == <<core, stream, resv, session, snap>>
managerVars == <<epoch, migrating, busy>>
taskVars == <<pc, src, dst, req, attempt, pending, skip>>
ghostVars == <<born, over, victims, unclean, faults>>
vars == <<alive, core, stream, resv, session, snap, epoch, migrating, busy, pc,
          src, dst, req, attempt, pending, skip, born, over, victims, unclean, faults>>

CoreStates == {"none", "running", "frozen", "importing", "import_ready"}
Calls == {"prepareOut", "prepareIn", "transfer", "commitIn", "register",
          "commitOut", "finishOut"}
PrecopyCalls == {"precopyBegin", "precopyReserve", "precopySend", "precopyCommit", "precopyAppend"}
PCs == {"free", "ready", "select", "precopyClean", "cleanup", "retry"}
         \cup Calls \cup PrecopyCalls
CleanupCalls == {"abortIn", "abortReq", "abortOut", "sessions"}

TypeOK ==
  /\ alive \in [Inst -> BOOLEAN]
  /\ core \in [Inst -> [Req -> CoreStates]]
  /\ stream \in [Inst -> [Req -> BOOLEAN]]
  /\ resv \in [Inst -> SUBSET (Req \X (1..MaxEpoch))]
  /\ session \in [Inst -> [Req -> {"none", "open", "synced"}]]
  /\ snap \in [Inst -> [Req -> 0..MaxEpoch]]
  /\ epoch \in [Req -> 0..MaxEpoch]
  /\ migrating \subseteq Req
  /\ busy \in [Inst -> BOOLEAN]
  /\ pc \in [Task -> PCs]
  /\ src \in [Task -> Inst \cup {NoInst}] /\ dst \in [Task -> Inst \cup {NoInst}]
  /\ req \in [Task -> Req \cup {NoReq}]
  /\ attempt \in [Task -> 0..MaxAttempts]
  /\ pending \in [Task -> SUBSET CleanupCalls]
  /\ skip \in [Task -> BOOLEAN]
  /\ born \subseteq Req /\ over \subseteq Req /\ victims \subseteq Req
  /\ unclean \subseteq Inst \X Req
  /\ faults \in 0..MaxFaults

Init ==
  /\ alive = [i \in Inst |-> TRUE]
  /\ core = [i \in Inst |-> [r \in Req |-> "none"]]
  /\ stream = [i \in Inst |-> [r \in Req |-> FALSE]]
  /\ resv = [i \in Inst |-> {}]
  /\ session = [i \in Inst |-> [r \in Req |-> "none"]]
  /\ snap = [i \in Inst |-> [r \in Req |-> 0]]
  /\ epoch = [r \in Req |-> 0]
  /\ migrating = {}
  /\ busy = [i \in Inst |-> FALSE]
  /\ pc = [t \in Task |-> "free"]
  /\ src = [t \in Task |-> NoInst] /\ dst = [t \in Task |-> NoInst]
  /\ req = [t \in Task |-> NoReq]
  /\ attempt = [t \in Task |-> 0]
  /\ pending = [t \in Task |-> {}]
  /\ skip = [t \in Task |-> FALSE]
  /\ born = {} /\ over = {} /\ victims = {} /\ unclean = {} /\ faults = 0

----------------------------------------------------------------------------
(***************************************************************************)
(* The EngineCore of instance i.                                           *)
(***************************************************************************)
SetCore(i, r, s) == core' = [core EXCEPT ![i][r] = s]

\* Frozen at a token boundary, the snapshot exported; nothing ever removes it.
prepare_migration_out(i, r) ==
  /\ SetCore(i, r, "frozen")
  /\ snap' = [snap EXCEPT ![i][r] = epoch[r]]

\* The state that the instance has for the request is overwritten.
reserve_import(i, r) ==
  /\ SetCore(i, r, "importing")
  /\ resv' = [resv EXCEPT ![i] = @ \cup {<<r, epoch[r]>>}]

import_blocks(i, r) == SetCore(i, r, "import_ready")

commit_import(i, r) == SetCore(i, r, "running")

commit_export(i, r) == SetCore(i, r, "none")

\* abort looks at the snapshot first, also when it aborts an import: one of
\* another epoch makes it raise.
EpochMatches(i, r) == snap[i][r] \in {0, epoch[r]}

\* The source stays frozen.
abort_exportNever(i, r) == UNCHANGED core
abort_export(i, r) ==
  core' = [core EXCEPT ![i][r] = IF @ = "frozen" /\ EpochMatches(i, r) THEN "running" ELSE @]

\* The target keeps its reservation.
abort_importNever(i, r) == UNCHANGED <<core, resv>>
abort_import(i, r) ==
  IF core[i][r] \in {"importing", "import_ready"} /\ EpochMatches(i, r)
  THEN SetCore(i, r, "none") /\ resv' = [resv EXCEPT ![i] = @ \ {<<r, epoch[r]>>}]
  ELSE UNCHANGED <<core, resv>>

SetSession(i, r, s) == session' = [session EXCEPT ![i][r] = s]

\* A session for the request, which goes on running.
begin_incremental_migration(i, r) == SetSession(i, r, "open")

\* Blocks of the target, apart from those of a request.
prepare_incremental_migration_in(i, r) == SetSession(i, r, "open")

commit_incremental_migration_in(i, r) == SetSession(i, r, "synced")

append_incremental_migration(i, r) == SetSession(i, r, "synced")

abort_incremental_migration(i, r) == SetSession(i, r, "none")

----------------------------------------------------------------------------
(***************************************************************************)
(* The adapter and the Llumlet of instance i: the front end of a request   *)
(* and the task that forwards its outputs.                                 *)
(***************************************************************************)
add_request(i, r) ==
  /\ SetCore(i, r, "running")
  /\ stream' = [stream EXCEPT ![i][r] = TRUE]

\* The front end of a request that the scheduler already has.
add_migrated_request(i, r) == stream' = [stream EXCEPT ![i][r] = TRUE]

release_request(i, r) == stream' = [stream EXCEPT ![i][r] = FALSE]

abort(i, r) ==
  /\ core' = [core EXCEPT ![i][r] = IF @ \in {"running", "frozen"} THEN "none" ELSE @]
  /\ release_request(i, r)

\* Manager.generate gives a request to a single instance: a prefill instance
\* where there are some.
Generate(i, r) ==
  /\ alive[i] /\ r \notin born
  /\ Prefill # {} => i \in Prefill
  /\ add_request(i, r)
  /\ born' = born \cup {r}
  /\ UNCHANGED <<alive, resv, session, snap, managerVars, taskVars, over, victims,
                 unclean, faults>>

\* The last output: the stream ends and the front end is released.
Finish(i, r) ==
  /\ core[i][r] = "running"
  /\ SetCore(i, r, "none")
  /\ release_request(i, r)
  /\ over' = over \cup {r}
  /\ UNCHANGED <<alive, resv, session, snap, managerVars, taskVars, born, victims,
                 unclean, faults>>

\* An abort call of the manager reaches one of the instances that
\* request_instances named when the client aborted: any one, see above.
Abort(i, r) ==
  /\ alive[i] /\ r \in born
  /\ abort(i, r)
  /\ over' = over \cup {r}
  /\ UNCHANGED <<alive, resv, session, snap, managerVars, taskVars, born, victims,
                 unclean, faults>>

\* A call fails, or an instance dies.
Fault == faults < MaxFaults /\ faults' = faults + 1

Crash(i) ==
  /\ alive[i]
  /\ Fault
  /\ alive' = [alive EXCEPT ![i] = FALSE]
  /\ victims' = victims \cup
       {r \in Req : \/ core[i][r] = "running"
                    \/ /\ core[i][r] = "frozen"
                       /\ \A j \in Inst : core[j][r] # "running"}
  /\ core' = [core EXCEPT ![i] = [r \in Req |-> "none"]]
  /\ stream' = [stream EXCEPT ![i] = [r \in Req |-> FALSE]]
  /\ session' = [session EXCEPT ![i] = [r \in Req |-> "none"]]
  /\ resv' = [resv EXCEPT ![i] = {}]
  /\ snap' = [snap EXCEPT ![i] = [r \in Req |-> 0]]
  /\ UNCHANGED <<managerVars, taskVars, born, over, unclean>>

----------------------------------------------------------------------------
(***************************************************************************)
(* A migration task: _migrate_v1, _migrate_v1_pair.                        *)
(***************************************************************************)
Goto(t, p) == pc' = [pc EXCEPT ![t] = p]

\* The `finally' clauses of _migrate_v1_pair.
End(t) ==
  /\ Goto(t, "free")
  /\ busy' = [busy EXCEPT ![src[t]] = FALSE, ![dst[t]] = FALSE]
  /\ migrating' = migrating \ {req[t]}
  /\ src' = [src EXCEPT ![t] = NoInst] /\ dst' = [dst EXCEPT ![t] = NoInst]
  /\ req' = [req EXCEPT ![t] = NoReq]
  /\ attempt' = [attempt EXCEPT ![t] = 0]
  /\ pending' = [pending EXCEPT ![t] = {}]
  /\ skip' = [skip EXCEPT ![t] = FALSE]

\* _migrate_v1 finds both instances free; the task marks them when it starts.
\* The pairs of one round are disjoint, but the rounds prefill to decoding and
\* decoding to decoding are started together.  Tasks differ by name only: the
\* first free one is taken.  Bound: nothing is started when no task could select
\* a request.
PushMigration(t, i, j) ==
  /\ pc[t] = "free" /\ t = CHOOSE u \in Task : pc[u] = "free"
  /\ \E r \in Req, k \in Inst : core[k][r] = "running" /\ epoch[r] < MaxEpoch
  /\ <<i, j>> \in Pairs /\ i # j /\ j \notin Prefill
  /\ ~busy[i] /\ ~busy[j]
  /\ \A u \in Task : pc[u] = "ready" /\ (src[u] \in Prefill <=> i \in Prefill)
                       => {src[u], dst[u]} \cap {i, j} = {}
  /\ Goto(t, "ready")
  /\ src' = [src EXCEPT ![t] = i] /\ dst' = [dst EXCEPT ![t] = j]
  /\ UNCHANGED <<alive, engineVars, managerVars, req, attempt, pending, skip, ghostVars>>

StartPair(t) ==
  /\ pc[t] = "ready"
  /\ busy' = [busy EXCEPT ![src[t]] = TRUE, ![dst[t]] = TRUE]
  /\ Goto(t, "select")
  /\ UNCHANGED <<alive, engineVars, epoch, migrating, src, dst, req,
                 attempt, pending, skip, ghostVars>>

\* Requests that are being migrated are candidates too.
CandidatesAll(t) ==
  {r \in Req : core[src[t]][r] = "running" /\ epoch[r] < MaxEpoch}
\* _select_v1_migration_request: requests that are not being migrated.
Candidates(t) ==
  {r \in Req : core[src[t]][r] = "running" /\ r \notin migrating
               /\ epoch[r] < MaxEpoch}

FirstCall == IF Incremental THEN "precopyBegin" ELSE "prepareOut"

SelectRequest(t) ==
  /\ pc[t] = "select"
  /\ \E r \in Candidates(t) :
       /\ req' = [req EXCEPT ![t] = r]
       /\ migrating' = migrating \cup {r}
       /\ epoch' = [epoch EXCEPT ![r] = @ + 1]
  /\ attempt' = [attempt EXCEPT ![t] = 1]
  /\ Goto(t, FirstCall)
  /\ UNCHANGED <<alive, engineVars, busy, src, dst, pending, skip, ghostVars>>

\* No free slot or no endpoint at the target, no candidate or one without server
\* information, a dead source.
SelectNothing(t) ==
  /\ pc[t] = "select"
  /\ End(t)
  /\ UNCHANGED <<alive, engineVars, epoch, ghostVars>>

\* incremental_abort on both sides, best effort: either call may fail.
AbortSessions(t) ==
  \E I \in SUBSET {src[t], dst[t]} :
    /\ session' = [i \in Inst |-> [r \in Req |-> IF i \in I /\ r = req[t] THEN "none"
                                                ELSE session[i][r]]]
    /\ IF I = {src[t], dst[t]} THEN UNCHANGED faults ELSE Fault

----------------------------------------------------------------------------
(***************************************************************************)
(* The calls of one attempt: _migrate_v1_request.                          *)
(***************************************************************************)
Side(t) ==
  IF pc[t] \in {"prepareIn", "transfer", "commitIn", "register", "precopyReserve", "precopyCommit"}
  THEN dst[t] ELSE src[t]

\* What the EngineCore checks before it does what the call asks for.
Accepts(t) ==
  LET s == core[src[t]][req[t]]
      d == core[dst[t]][req[t]] IN
  CASE pc[t] = "prepareOut" -> s = "running"
    [] pc[t] = "prepareIn"  -> <<req[t], epoch[req[t]]>> \notin resv[dst[t]]
    [] pc[t] = "transfer"   -> s = "frozen" /\ d = "importing" /\ alive[src[t]]
    [] pc[t] = "commitIn"   -> d = "import_ready"
    [] pc[t] = "commitOut"  -> s = "frozen"
    [] pc[t] = "precopyBegin" -> s = "running"
    [] pc[t] = "precopySend"  -> alive[dst[t]]
    [] pc[t] = "precopyCommit" -> session[dst[t]][req[t]] = "open"
    [] pc[t] = "precopyAppend" -> session[src[t]][req[t]] = "open"
    [] OTHER                -> TRUE

\* The call of task t is executed.
Executed(t, p) == pc[t] = p /\ alive[Side(t)] /\ Accepts(t)

PrepareOut(t) ==
  /\ Executed(t, "prepareOut")
  /\ prepare_migration_out(src[t], req[t])
  /\ Goto(t, "prepareIn")
  /\ UNCHANGED <<alive, stream, resv, session, managerVars, src, dst, req, attempt, pending, skip, ghostVars>>

\* The request is frozen, and then the adapter finds the snapshot invalid or
\* cannot encode it.
PrepareOutInvalid(t) ==
  /\ Executed(t, "prepareOut")
  /\ Fault
  /\ prepare_migration_out(src[t], req[t])
  /\ pending' = [pending EXCEPT ![t] = CleanupCalls]
  /\ Goto(t, "cleanup")
  /\ UNCHANGED <<alive, stream, resv, session, managerVars, src, dst, req, attempt, skip, born, over, victims, unclean>>

\* The reservation takes over the blocks of the pre-copy.
PrepareIn(t) ==
  /\ Executed(t, "prepareIn")
  /\ reserve_import(dst[t], req[t])
  /\ abort_incremental_migration(dst[t], req[t])
  /\ Goto(t, "transfer")
  /\ UNCHANGED <<alive, stream, snap, managerVars, src, dst, req, attempt, pending, skip, ghostVars>>

\* The source commits without the target.
TransferThenCommitOut(t) ==
  /\ Executed(t, "transfer")
  /\ import_blocks(dst[t], req[t])
  /\ Goto(t, "commitOut")
  /\ UNCHANGED <<alive, stream, resv, session, snap, managerVars, src, dst, req, attempt, pending, skip, ghostVars>>
\* For every layer, migration_send_layer and migration_receive_layer.
Transfer(t) ==
  /\ Executed(t, "transfer")
  /\ import_blocks(dst[t], req[t])
  /\ Goto(t, "commitIn")
  /\ UNCHANGED <<alive, stream, resv, session, snap, managerVars, src, dst, req, attempt, pending, skip, ghostVars>>

\* The source is released without a front end at the target.
CommitInUnregistered(t) ==
  /\ Executed(t, "commitIn")
  /\ commit_import(dst[t], req[t])
  /\ Goto(t, "commitOut")
  /\ UNCHANGED <<alive, stream, resv, session, snap, managerVars, src, dst, req, attempt, pending, skip, ghostVars>>
CommitIn(t) ==
  /\ Executed(t, "commitIn")
  /\ commit_import(dst[t], req[t])
  /\ Goto(t, "register")
  /\ UNCHANGED <<alive, stream, resv, session, snap, managerVars, src, dst, req, attempt, pending, skip, ghostVars>>

\* register_migrated_request
Register(t) ==
  /\ Executed(t, "register")
  /\ add_migrated_request(dst[t], req[t])
  /\ Goto(t, "commitOut")
  /\ UNCHANGED <<alive, core, resv, session, snap, managerVars, src, dst, req, attempt, pending, skip, ghostVars>>

CommitOut(t) ==
  /\ Executed(t, "commitOut")
  /\ commit_export(src[t], req[t])
  /\ Goto(t, "finishOut")
  /\ UNCHANGED <<alive, stream, resv, session, snap, managerVars, src, dst, req, attempt, pending, skip, ghostVars>>

\* finish_migrated_out and the clean-up of the pre-copy.
FinishOut(t) ==
  /\ Executed(t, "finishOut")
  /\ release_request(src[t], req[t])
  /\ AbortSessions(t)
  /\ End(t)
  /\ UNCHANGED <<alive, core, resv, snap, epoch, born, over, victims, unclean>>

----------------------------------------------------------------------------
(***************************************************************************)
(* The pre-copy of one attempt: _run_v1_incremental_precopy.               *)
(***************************************************************************)
PrecopyBegin(t) ==
  /\ Executed(t, "precopyBegin")
  /\ begin_incremental_migration(src[t], req[t])
  /\ Goto(t, "precopyReserve")
  /\ UNCHANGED <<alive, core, stream, resv, snap, managerVars, src, dst, req, attempt, pending, skip, ghostVars>>

PrecopyReserve(t) ==
  /\ Executed(t, "precopyReserve")
  /\ prepare_incremental_migration_in(dst[t], req[t])
  /\ Goto(t, "precopySend")
  /\ UNCHANGED <<alive, core, stream, resv, snap, managerVars, src, dst, req, attempt, pending, skip, ghostVars>>

\* The preview of the suffix session, and then all layers.
PrecopySend(t) ==
  /\ Executed(t, "precopySend")
  /\ Goto(t, "precopyCommit")
  /\ UNCHANGED <<alive, engineVars, managerVars, src, dst, req, attempt, pending, skip, ghostVars>>

PrecopyCommit(t) ==
  /\ Executed(t, "precopyCommit")
  /\ commit_incremental_migration_in(dst[t], req[t])
  /\ Goto(t, "precopyAppend")
  /\ UNCHANGED <<alive, core, stream, resv, snap, managerVars, src, dst, req, attempt, pending, skip, ghostVars>>

\* Both sides know of the copied prefix, and the transfer will leave it out.
PrecopyAppend(t) ==
  /\ Executed(t, "precopyAppend")
  /\ append_incremental_migration(src[t], req[t])
  /\ skip' = [skip EXCEPT ![t] = TRUE]
  /\ Goto(t, "prepareOut")
  /\ UNCHANGED <<alive, core, stream, resv, snap, managerVars, src, dst, req, attempt, pending, ghostVars>>

\* An empty prefix, or a step that failed.
PrecopyFallback(t) ==
  /\ pc[t] \in PrecopyCalls
  /\ Goto(t, "precopyClean")
  /\ UNCHANGED <<alive, engineVars, managerVars, src, dst, req, attempt, pending, skip, ghostVars>>

\* The mapping of a pre-copy that failed is kept.
PrecopyCleanKeepsPairs(t) ==
  /\ pc[t] = "precopyClean"
  /\ AbortSessions(t)
  /\ skip' = [skip EXCEPT ![t] = TRUE]
  /\ Goto(t, "prepareOut")
  /\ UNCHANGED <<alive, core, stream, resv, snap, managerVars, src, dst, req, attempt, pending, born, over,
                 victims, unclean>>
PrecopyClean(t) ==
  /\ pc[t] = "precopyClean"
  /\ AbortSessions(t)
  /\ skip' = [skip EXCEPT ![t] = FALSE]
  /\ Goto(t, "prepareOut")
  /\ UNCHANGED <<alive, core, stream, resv, snap, managerVars, src, dst, req, attempt, pending, born, over,
                 victims, unclean>>

----------------------------------------------------------------------------
(***************************************************************************)
(* Failures: _migrate_v1_request_with_retry.                               *)
(***************************************************************************)

\* RayActorError: only _check_instance_error, which changes nothing.
ActorError(t) ==
  /\ pc[t] \in Calls
  /\ ~alive[Side(t)] \/ (pc[t] = "transfer" /\ ~alive[src[t]])
  /\ End(t)
  /\ UNCHANGED <<alive, engineVars, epoch, ghostVars>>

\* The source says "request is not migratable".
NotMigratable(t) ==
  /\ pc[t] = "prepareOut" /\ alive[src[t]]
  /\ End(t)
  /\ UNCHANGED <<alive, engineVars, epoch, ghostVars>>

\* Any other exception: the call is not executed.  finish_migrated_out raises
\* none.
CallFails(t) ==
  /\ pc[t] \in Calls \ {"finishOut"}
  /\ alive[Side(t)]
  /\ IF Accepts(t) THEN Fault ELSE UNCHANGED faults
  /\ pending' = [pending EXCEPT ![t] = CleanupCalls]
  /\ Goto(t, "cleanup")
  /\ UNCHANGED <<alive, engineVars, managerVars, src, dst, req, attempt, skip, born, over, victims, unclean>>

\* _cleanup_v1_migration gathers its calls; each one is executed when it reaches
\* its actor.
AbortIn(t) ==
  abort_import(dst[t], req[t]) /\ UNCHANGED <<stream, session, faults>>

\* Only the front end of the target is removed.
AbortReqFrontEnd(t) ==
  release_request(dst[t], req[t]) /\ UNCHANGED <<core, resv, session, faults>>
\* abort_migrated_request at the target
AbortReq(t) ==
  LET i == dst[t]  r == req[t] IN
  /\ release_request(i, r)
  /\ core' = [core EXCEPT ![i][r] = IF @ = "running" THEN "none" ELSE @]
  /\ UNCHANGED <<resv, session, faults>>

AbortOut(t) ==
  abort_export(src[t], req[t]) /\ UNCHANGED <<stream, resv, session, faults>>

CleanupCall(t) ==
  /\ pc[t] = "cleanup"
  /\ \E c \in pending[t] :
       /\ pending' = [pending EXCEPT ![t] = @ \ {c}]
       /\ \/ c = "abortIn" /\ AbortIn(t)
          \/ c = "abortReq" /\ AbortReq(t)
          \/ c = "abortOut" /\ AbortOut(t)
          \/ c = "sessions" /\ AbortSessions(t) /\ UNCHANGED <<core, stream, resv>>
  /\ UNCHANGED <<alive, snap, managerVars, pc, src, dst, req, attempt, skip, born,
                 over, victims, unclean>>

\* The clean-up is best effort: a call that fails is not repeated.
CleanupFails(t) ==
  /\ pc[t] = "cleanup"
  /\ Fault
  /\ \E c \in pending[t] \ {"sessions"} :
       /\ pending' = [pending EXCEPT ![t] = @ \ {c}]
       /\ unclean' = unclean \cup {<<IF c = "abortOut" THEN src[t] ELSE dst[t], req[t]>>}
  /\ UNCHANGED <<alive, engineVars, managerVars, pc, src, dst, req, attempt, skip, born,
                 over, victims>>

\* The second attempt follows after a pause, with the same epoch.
CanRetry(t) == attempt[t] < MaxAttempts

CleanupDone(t) ==
  /\ pc[t] = "cleanup" /\ pending[t] = {}
  /\ IF CanRetry(t)
     THEN Goto(t, "retry") /\ UNCHANGED <<migrating, busy, src, dst, req, attempt, pending, skip>>
     ELSE End(t)
  /\ UNCHANGED <<alive, engineVars, epoch, ghostVars>>

\* The attempts are not counted.
RetryUncounted(t) ==
  /\ pc[t] = "retry"
  /\ Goto(t, FirstCall)
  /\ UNCHANGED <<alive, engineVars, managerVars, src, dst, req, attempt, pending, skip, ghostVars>>
Retry(t) ==
  /\ pc[t] = "retry"
  /\ attempt' = [attempt EXCEPT ![t] = @ + 1]
  /\ skip' = [skip EXCEPT ![t] = FALSE]
  /\ Goto(t, FirstCall)
  /\ UNCHANGED <<alive, engineVars, managerVars, src, dst, req, pending, ghostVars>>

----------------------------------------------------------------------------
TaskStep(t) ==
  \/ StartPair(t) \/ SelectRequest(t) \/ SelectNothing(t)
  \/ PrecopyBegin(t) \/ PrecopyReserve(t) \/ PrecopySend(t) \/ PrecopyCommit(t)
  \/ PrecopyAppend(t) \/ PrecopyFallback(t) \/ PrecopyClean(t)
  \/ PrepareOut(t) \/ PrepareOutInvalid(t) \/ PrepareIn(t) \/ Transfer(t) \/ CommitIn(t)
  \/ Register(t) \/ CommitOut(t) \/ FinishOut(t)
  \/ ActorError(t) \/ NotMigratable(t) \/ CallFails(t)
  \/ CleanupCall(t) \/ CleanupFails(t) \/ CleanupDone(t) \/ Retry(t)

Next ==
  \/ \E i \in Inst, r \in Req : Generate(i, r) \/ Finish(i, r) \/ Abort(i, r)
  \/ \E i \in Inst : Crash(i)
  \/ \E t \in Task : TaskStep(t) \/ \E i, j \in Inst : PushMigration(t, i, j)

Spec == Init /\ [][Next]_vars

\* Remote calls return and the manager's event loop runs its tasks.
FairSpec == Spec /\ \A t \in Task : WF_vars(TaskStep(t))

----------------------------------------------------------------------------
(***************************************************************************)
(* Properties                                                              *)
(***************************************************************************)

\* "Only one migration owner at a time": two tasks never migrate one request,
\* although two tasks may share an instance.
OneOwner ==
  \A t, u \in Task : req[t] # NoReq /\ req[t] = req[u] => t = u

\* "The source must keep its KV copy until the target confirms a successful
\* import": a request that is not over is always held by an EngineCore that can
\* go on with it, through a failing call, a crash, retries and aborts of the
\* client.
NotLost ==
  /\ TypeOK
  /\ \A r \in Req \ (over \cup victims) :
       r \in born => \E i \in Inst : core[i][r] \in {"running", "frozen"}

AllAlive == \A i \in Inst : alive[i]

\* "If any step fails, the target releases the reserved blocks, the source
\* unfreezes and goes on": while no instance has died, only a migration that is
\* under way keeps a request frozen, unless its own clean-up failed there.
FrozenHasTask ==
  AllAlive => \A i \in Inst, r \in Req :
    core[i][r] = "frozen" /\ <<i, r>> \notin unclean
      => \E t \in Task : req[t] = r /\ src[t] = i

\* While no instance has died, an import belongs to a migration that is under
\* way, unless its clean-up failed there, or the instance has exported the
\* request before: the snapshot it keeps makes abort raise.
ImportHasTask ==
  AllAlive => \A i \in Inst, r \in Req :
    core[i][r] \in {"importing", "import_ready"} /\ <<i, r>> \notin unclean
      /\ snap[i][r] = 0
      => \E t \in Task : req[t] = r /\ dst[t] = i

\* While no instance has died and no clean-up of the request failed, at most one
\* instance runs a request that is not being migrated: a call that fails around
\* the two commits never leaves a second copy behind.
OneRunner ==
  AllAlive => \A r \in Req \ (over \cup migrating), i, j \in Inst :
    /\ core[i][r] = "running" /\ core[j][r] = "running"
    /\ \A k \in Inst : <<k, r>> \notin unclean
    => i = j

\* While no instance has died, an instance that runs a request which is not
\* being migrated forwards its outputs, unless a clean-up failed there: no
\* failing call leaves a request whose tokens nobody gets.
StreamFollows ==
  AllAlive => \A i \in Inst, r \in Req \ (over \cup migrating) :
    core[i][r] = "running" /\ <<i, r>> \notin unclean => stream[i][r]

\* The cut-over leaves out the pre-copied prefix only when both sides hold it as
\* copied, through fall-backs, clean-ups and second attempts.
PrefixSafe ==
  \A t \in Task : skip[t] /\ pc[t] \in {"prepareOut", "prepareIn"} =>
    \A i \in {src[t], dst[t]} : alive[i] => session[i][req[t]] = "synced"

\* A migration task always ends and leaves no request marked as migrating.
TasksEnd == \A t \in Task : pc[t] # "free" ~> pc[t] = "free"
=============================================================================
