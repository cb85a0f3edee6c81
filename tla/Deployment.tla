------------------------------ MODULE Deployment ------------------------------
(***************************************************************************)
(* The deployment side of the Manager (llumnix/manager.py) in the global   *)
(* launch mode with prefill/decode disaggregation: the loop that adds      *)
(* instances, the Launcher (llumnix/launcher.py) and its asynchronous      *)
(* done_scale_up tasks, the two loops that compare the cluster with what   *)
(* it should be, the blocking launch of the configured replicas, and the   *)
(* restart of the Manager actor (max_restarts=-1).                         *)
(*                                                                         *)
(* Each action is one stretch of the Manager's event loop between two      *)
(* awaits, or a step of Ray (a placement group gets its resources, an      *)
(* actor comes up or dies).  An instance id is a fresh uuid; an id that    *)
(* nothing in the system remembers any more may be drawn again, so that a  *)
(* finite set of ids stands for an endless supply.                         *)
(***************************************************************************)
EXTENDS Integers, FiniteSets

CONSTANTS
  Ids,            \* instance ids
  NoId,
  MaxInstances,   \* manager_args.max_instances
  Initial,        \* manager_args.initial_instances
  Scaling,        \* manager_args.enable_scaling
  RP, RD,         \* manager_args.pd_ratio
  PortStore,      \* manager_args.enable_port_offset_store
  Gpus,           \* placement groups the cluster can hold
  MaxPort,        \* bound on the launches of a behaviour
  MaxFaults,      \* bound on actor deaths and on slow creations given up
  MaxRestarts     \* bound on restarts of the Manager

ASSUME DeploymentAssumption ==
  /\ NoId \notin Ids /\ IsFiniteSet(Ids)
  /\ {MaxInstances, Initial, Gpus, MaxPort, MaxFaults, MaxRestarts} \subseteq Nat
  /\ {RP, RD} \subseteq Nat \ {0}
  /\ {Scaling, PortStore} \subseteq BOOLEAN

VARIABLES
  \* Ray
  pg,             \* placement group: "none", "pending" or "created"
  inst,           \* Llumlet actor: "none", "creating" or "alive"
  srv,            \* APIServerActor: "none", "creating", "alive" or "serving"
  port,           \* the port offset of the server (0 when there is none)
  stored,         \* port_offset in Ray's internal key-value store
  stateApi,       \* the State API answers (_state_api_available)
  \* Manager
  known,          \* instances
  pendingIds,     \* _pending_instance_ids
  pendingPgs,     \* _pending_placement_groups
  lastTimeout,    \* last_timeout_instance_id
  wait,           \* the id whose placement group _auto_scale_up_loop awaits
  watch,          \* ids with a watch_instance_deployment_states task
  pdPrev,         \* previous_penging_pg_names
  initLeft,       \* replicas init_global_instances has still to create
  \* Launcher
  launch,         \* done_scale_up: "none", "ready", "run" or "up"
  kind,           \* instance_args.instance_type of an id
  inflight,       \* inflight_num_{prefill,decode}_instance
  offset,         \* port_offset
  \* history and bounds
  clean,          \* no launched instance has been lost so far
  faults, restarts

ray == <<pg, inst, srv, port>>
mgr == <<known, pendingIds, pendingPgs>>
lch == <<launch, kind, inflight, offset, stored>>
loops == <<lastTimeout, wait, watch, pdPrev, initLeft>>
vars == <<ray, mgr, lch, loops, stateApi, clean, faults, restarts>>

Kinds == {"prefill", "decode"}

Groups == {i \in Ids : pg[i] # "none"}

PendingGroups == {i \in Ids : pg[i] = "pending"}

CreatedGroups == {i \in Ids : pg[i] = "created"}

OfKind(S, k) == {i \in S : kind[i] = k}

Launching == {i \in Ids : launch[i] # "none"}

\* A uuid nobody remembers: it stands for a new one.
Fresh(i) ==
  /\ pg[i] = "none" /\ launch[i] = "none" /\ i # wait /\ i # lastTimeout
  /\ i \notin known \cup pendingIds \cup pendingPgs \cup watch \cup pdPrev

\* init_global_instances waits for each placement group with a blocking
\* ray.get: while it is under way nothing else runs on the event loop.
EventLoopFree == initLeft \in {0, Initial}

Init ==
  /\ pg = [i \in Ids |-> "none"]
  /\ inst = [i \in Ids |-> "none"]
  /\ srv = [i \in Ids |-> "none"]
  /\ launch = [i \in Ids |-> "none"]
  /\ kind = [i \in Ids |-> "prefill"]
  /\ port = [i \in Ids |-> 0]
  /\ inflight = [k \in Kinds |-> 0]
  /\ offset = 0 /\ stored = 0
  /\ known = {} /\ pendingIds = {} /\ pendingPgs = {}
  /\ lastTimeout = NoId /\ wait = NoId /\ watch = {} /\ pdPrev = {}
  /\ initLeft = Initial
  /\ stateApi = TRUE /\ clean = TRUE /\ faults = 0 /\ restarts = 0

-------------------------------------------------------------------------------
(* Scaling down and the Ray resources of an instance                          *)

\* remove_placement_group, kill_server and kill_instance: what f holds for an id
\* of S is gone, and gone it stays when there was nothing.
Without(f, S, gone) == [i \in Ids |-> IF i \in S THEN gone ELSE f[i]]

\* init_placement_group(block=False): groups are requested for the ids of new.
Reserve(f, new) == [i \in Ids |-> IF i \in new THEN "pending" ELSE f[i]]

\* clear_instance_ray_resources of the ids of S; groups of new are requested.
ClearRay(S, new) ==
  /\ pg' = Reserve(Without(pg, S, "none"), new)
  /\ srv' = Without(srv, S, "none")
  /\ port' = Without(port, S, 0)
  /\ inst' = Without(inst, S, "none")

\* Manager.scale_down of the ids of S, then a placement group requested and
\* remembered for the ids of new.
ScaleDownAndReserve(S, new) ==
  /\ ClearRay(S, new)
  /\ pendingIds' = (pendingIds \ S) \cup new
  /\ pendingPgs' = (pendingPgs \ S) \cup new
  /\ known' = known \ S
  /\ clean' = (clean /\ S \cap (known \cup Launching) = {})

scale_down(S) == ScaleDownAndReserve(S, {})

-------------------------------------------------------------------------------
(* Launcher                                                                    *)

Abs(n) == IF n < 0 THEN -n ELSE n

\* _get_next_instance_type: the role that brings the counts of prefill and
\* decode instances nearer to the ratio RP:RD.
NextKind(p, d) ==
  LET base == LET x == p \div RP  y == d \div RD IN IF x < y THEN x ELSE y
      restP == p - base * RP
      restD == d - base * RD
      gap(n) == Abs(n - (RP - RD))
  IN  CASE p = 0 -> "prefill"
        [] p # 0 /\ d = 0 -> "decode"
        [] OTHER -> IF \/ restP + restD = 0
                       \/ gap(restP + 1 - restD) <= gap(restP - (restD + 1))
                    THEN "prefill" ELSE "decode"

NextTypeIgnoringInflight ==
  NextKind(Cardinality(OfKind(known, "prefill")), Cardinality(OfKind(known, "decode")))

\* _get_next_instance_args: registered instances and launches under way.
NextInstanceType ==
  NextKind(inflight["prefill"] + Cardinality(OfKind(known, "prefill")),
           inflight["decode"] + Cardinality(OfKind(known, "decode")))

TakePortUnsaved(i) ==
  /\ port' = [port EXCEPT ![i] = offset]
  /\ offset' = offset + 1
  /\ stored' = stored

\* _get_next_entrypoints_args: the offset is saved before the server starts.
TakePort(i) ==
  /\ port' = [port EXCEPT ![i] = offset]
  /\ offset' = offset + 1
  /\ stored' = IF PortStore THEN offset + 1 ELSE stored

\* init_server_and_instance on a group that is ready.
init_server_and_instance(i) ==
  /\ offset < MaxPort
  /\ inst[i] = "none" /\ srv[i] = "none"
  /\ inst' = [inst EXCEPT ![i] = "creating"]
  /\ srv' = [srv EXCEPT ![i] = "creating"]
  /\ kind' = [kind EXCEPT ![i] = NextInstanceType]
  /\ TakePort(i)
  /\ inflight' = [inflight EXCEPT ![NextInstanceType] = @ + 1]
  /\ launch' = [launch EXCEPT ![i] = "ready"]

\* done_scale_up: instance.is_ready() has answered.
LaunchReady(i) ==
  /\ EventLoopFree
  /\ launch[i] = "ready" /\ inst[i] = "alive"
  /\ launch' = [launch EXCEPT ![i] = "run"]
  /\ UNCHANGED <<ray, mgr, kind, inflight, offset, stored, loops,
                 stateApi, clean, faults, restarts>>

\* APIServerActor.run: the server starts to serve and the answer is on its way
\* to the Manager.
ServerRun(i) ==
  /\ launch[i] = "run" /\ srv[i] = "alive"
  /\ srv' = [srv EXCEPT ![i] = "serving"]
  /\ launch' = [launch EXCEPT ![i] = "up"]
  /\ UNCHANGED <<pg, inst, port, mgr, kind, inflight, offset, stored, loops,
                 stateApi, clean, faults, restarts>>

EndLaunch(i) ==
  /\ launch' = [launch EXCEPT ![i] = "none"]
  /\ inflight' = [inflight EXCEPT ![kind[i]] = @ - 1]
  /\ UNCHANGED <<kind, offset, stored>>

\* The answer arrives: the launch is no longer in flight and Manager.scale_up
\* registers the instance, whatever has happened to it meanwhile.
LaunchUp(i) ==
  /\ EventLoopFree
  /\ launch[i] = "up"
  /\ EndLaunch(i)
  /\ known' = known \cup {i}
  /\ pendingIds' = pendingIds \ {i}
  /\ pendingPgs' = pendingPgs \ {i}
  /\ UNCHANGED <<ray, loops, stateApi, clean, faults, restarts>>

LaunchFailsStillInflight(i) ==
  /\ EventLoopFree
  /\ \/ launch[i] = "ready" /\ inst[i] = "none"
     \/ launch[i] = "run" /\ srv[i] = "none"
  /\ launch' = [launch EXCEPT ![i] = "none"]
  /\ ClearRay({i}, {})
  /\ clean' = FALSE
  /\ UNCHANGED <<kind, inflight, offset, stored, mgr, loops, stateApi, faults, restarts>>

\* is_ready() or run() fails because the actor died: the Ray resources are
\* cleared.  The id stays among the pending ones.
LaunchFails(i) ==
  /\ EventLoopFree
  /\ \/ launch[i] = "ready" /\ inst[i] = "none"
     \/ launch[i] = "run" /\ srv[i] = "none"
  /\ EndLaunch(i)
  /\ ClearRay({i}, {})
  /\ clean' = FALSE
  /\ UNCHANGED <<mgr, loops, stateApi, faults, restarts>>

-------------------------------------------------------------------------------
(* _auto_scale_up_loop                                                         *)

\* The group the loop goes on with instead of asking for a new one.
Resumable ==
  IF stateApi
  THEN IF lastTimeout \in Ids /\ pg[lastTimeout] # "none" THEN {lastTimeout} ELSE {NoId}
  ELSE IF pendingPgs # {} THEN pendingPgs ELSE {NoId}

\* Pending groups the State API lists are scaled down, the resumed one excepted.
StaleGroups(r, listed) == IF listed THEN PendingGroups \ {r} ELSE {}

CapacityOfInstances(r, listed) ==
  IF listed THEN Cardinality(Groups) ELSE Cardinality(known)

\* The larger of the groups listed (before the scale-downs) and of the
\* instances registered or pending (after them).
Capacity(r, listed) ==
  LET all == IF listed THEN Cardinality(Groups) ELSE 0
      stale == StaleGroups(r, listed)
      own == Cardinality(known \ stale) + Cardinality(pendingIds \ stale)
  IN  IF all > own THEN all ELSE own

\* One pass of the loop, up to its next await.  The State API may be lost
\* between the look at the group that timed out and the listing.
ScaleUpPass ==
  /\ Scaling /\ EventLoopFree /\ wait = NoId
  /\ \E r \in Resumable, listed \in {FALSE, stateApi} :
       /\ stateApi' = listed
       /\ \/ /\ Capacity(r, listed) >= MaxInstances
             /\ scale_down(StaleGroups(r, listed))
             /\ wait' = NoId
          \/ /\ Capacity(r, listed) < MaxInstances /\ r # NoId
             /\ scale_down(StaleGroups(r, listed))
             /\ wait' = r
          \/ /\ Capacity(r, listed) < MaxInstances /\ r = NoId
             /\ \E i \in Ids :
                  /\ Fresh(i)
                  /\ ScaleDownAndReserve(StaleGroups(r, listed), {i})
                  /\ wait' = i
  /\ lastTimeout' = IF stateApi THEN NoId ELSE lastTimeout
  /\ UNCHANGED <<lch, watch, pdPrev, initLeft, faults, restarts>>

\* wait_for(new_pg.ready()) returns and the group is deployed.
DeployGroup ==
  /\ EventLoopFree /\ wait \in Ids
  /\ pg[wait] = "created"
  /\ init_server_and_instance(wait)
  /\ wait' = NoId
  /\ UNCHANGED <<pg, mgr, lastTimeout, watch, pdPrev, initLeft, stateApi, clean, faults, restarts>>

\* The name of the Llumlet is taken: the exception is logged, the loop goes on.
\* (When only the server's name is, a Llumlet without a launch is created before
\* the exception; here the loop waits until the failing launch has given the
\* group back.)
DeployAgain ==
  /\ EventLoopFree /\ wait \in Ids
  /\ pg[wait] = "created" /\ inst[wait] # "none"
  /\ wait' = NoId
  /\ UNCHANGED <<ray, mgr, lch, lastTimeout, watch, pdPrev, initLeft, stateApi, clean, faults, restarts>>

\* wait_for(new_pg.ready()) times out.
WaitTimesOut ==
  /\ EventLoopFree /\ wait \in Ids
  /\ pg[wait] # "created"
  /\ lastTimeout' = wait
  /\ wait' = NoId
  /\ UNCHANGED <<ray, mgr, lch, watch, pdPrev, initLeft, stateApi, clean, faults, restarts>>

-------------------------------------------------------------------------------
(* init_global_instances: blocking, and not limited by max_instances           *)

InitGlobalInstance ==
  /\ initLeft > 0
  /\ \E i \in Ids :
       /\ Fresh(i)
       /\ Cardinality(CreatedGroups) < Gpus
       /\ pg' = [pg EXCEPT ![i] = "created"]
       /\ pendingIds' = pendingIds \cup {i}
       /\ init_server_and_instance(i)
  /\ initLeft' = initLeft - 1
  /\ UNCHANGED <<known, pendingPgs, lastTimeout, wait, watch, pdPrev, stateApi,
                 clean, faults, restarts>>

-------------------------------------------------------------------------------
(* Reconciliation                                                              *)

\* _poll_instance_info_loop meets a dead Llumlet.
PollDead(i) ==
  /\ EventLoopFree
  /\ i \in known /\ inst[i] = "none"
  /\ scale_down({i})
  /\ UNCHANGED <<lch, loops, stateApi, faults, restarts>>

Complete(i) == inst[i] = "alive" /\ srv[i] \in {"alive", "serving"}

ScanStartedOnly ==
  /\ EventLoopFree /\ stateApi /\ watch = {}
  /\ watch' = {i \in CreatedGroups : ~Complete(i) /\ inst[i] # "none"}
  /\ watch' # {}
  /\ UNCHANGED <<ray, mgr, lch, lastTimeout, wait, pdPrev, initLeft, stateApi,
                 clean, faults, restarts>>

\* _check_deployment_states_loop starts a watch for each incomplete instance;
\* the next pass comes when all of them have ended.
ScanDeployments ==
  /\ EventLoopFree /\ stateApi /\ watch = {}
  /\ watch' = {i \in CreatedGroups : ~Complete(i)}
  /\ watch' # {}
  /\ UNCHANGED <<ray, mgr, lch, lastTimeout, wait, pdPrev, initLeft, stateApi,
                 clean, faults, restarts>>

\* watch_instance_deployment_states ends: the Llumlet is no longer being
\* created, or has been for too long; the states are read again.
WatchEnds(i) ==
  /\ EventLoopFree /\ i \in watch
  /\ inst[i] = "creating" => faults < MaxFaults
  /\ faults' = IF inst[i] = "creating" THEN faults + 1 ELSE faults
  /\ watch' = watch \ {i}
  /\ IF stateApi /\ pg[i] = "created" /\ ~Complete(i)
     THEN scale_down({i})
     ELSE UNCHANGED <<ray, mgr, clean>>
  /\ UNCHANGED <<lch, lastTimeout, wait, pdPrev, initLeft, stateApi, restarts>>

\* _check_pd_deployment_states_loop: the groups that were pending still are.
PdStuck == pdPrev # {} /\ pdPrev \subseteq PendingGroups

\* One pass of the loop: when it is stuck and all instances have one role
\* (_check_pd_deployment_states), one of them is given up.
PdCheck ==
  /\ EventLoopFree /\ stateApi
  /\ pdPrev' = PendingGroups
  /\ LET P == OfKind(known, "prefill")
         D == OfKind(known, "decode")
     IN  \/ /\ PdStuck /\ P = {} /\ D # {}
            /\ \E i \in D : scale_down({i})
         \/ /\ PdStuck /\ D = {} /\ P # {}
            /\ \E i \in P : scale_down({i})
         \/ /\ ~(PdStuck /\ (P = {}) # (D = {}))
            /\ UNCHANGED <<ray, mgr, clean>>
  /\ UNCHANGED <<lch, lastTimeout, wait, watch, initLeft, stateApi, faults, restarts>>

\* _disable_state_api_reconciliation: the State API turns out to be missing.
DisableStateApi ==
  /\ stateApi /\ EventLoopFree
  /\ stateApi' = FALSE
  /\ lastTimeout' = NoId
  /\ UNCHANGED <<ray, mgr, lch, wait, watch, pdPrev, initLeft, clean, faults, restarts>>

-------------------------------------------------------------------------------
(* Ray, and the restart of the Manager                                         *)

GroupCreated(i) ==
  /\ pg[i] = "pending" /\ Cardinality(CreatedGroups) < Gpus
  /\ pg' = [pg EXCEPT ![i] = "created"]
  /\ UNCHANGED <<inst, srv, port, mgr, lch, loops, stateApi, clean, faults, restarts>>

InstanceUp(i) ==
  /\ inst[i] = "creating"
  /\ inst' = [inst EXCEPT ![i] = "alive"]
  /\ UNCHANGED <<pg, srv, port, mgr, lch, loops, stateApi, clean, faults, restarts>>

ServerUp(i) ==
  /\ srv[i] = "creating"
  /\ srv' = [srv EXCEPT ![i] = "alive"]
  /\ UNCHANGED <<pg, inst, port, mgr, lch, loops, stateApi, clean, faults, restarts>>

\* A Llumlet dies, or kills itself when its engine has crashed.
InstanceDies(i) ==
  /\ inst[i] # "none" /\ faults < MaxFaults
  /\ inst' = [inst EXCEPT ![i] = "none"]
  /\ faults' = faults + 1
  /\ clean' = FALSE
  /\ UNCHANGED <<pg, srv, port, mgr, lch, loops, stateApi, restarts>>

ServerDies(i) ==
  /\ srv[i] # "none" /\ faults < MaxFaults
  /\ srv' = [srv EXCEPT ![i] = "none"]
  /\ port' = [port EXCEPT ![i] = 0]
  /\ faults' = faults + 1
  /\ clean' = FALSE
  /\ UNCHANGED <<pg, inst, mgr, lch, loops, stateApi, restarts>>

\* _connect_to_instances waits for every named Llumlet to answer
\* get_instance_args, and registers those that do.
Connected == {i \in Ids : inst[i] = "alive"}

\* Launcher.__init__ reads the offset from the store.
StoredOffset == IF PortStore THEN stored ELSE 0

\* retry_manager_method_sync repeats an init_global_instances that the death of
\* the Manager interrupted.
InitAgain == IF initLeft > 0 THEN Initial ELSE 0

\* Ray restarts the Manager actor: tasks, counters and pending ids are lost.
ManagerRestart ==
  /\ restarts < MaxRestarts
  /\ \A i \in Ids : inst[i] # "creating"
  /\ known' = Connected
  /\ pendingIds' = {} /\ pendingPgs' = {}
  /\ launch' = [i \in Ids |-> "none"]
  /\ inflight' = [k \in Kinds |-> 0]
  /\ offset' = StoredOffset
  /\ lastTimeout' = NoId /\ wait' = NoId /\ watch' = {} /\ pdPrev' = {}
  /\ initLeft' = InitAgain
  /\ stateApi' = TRUE
  /\ clean' = FALSE
  /\ restarts' = restarts + 1
  /\ UNCHANGED <<ray, kind, stored, faults>>

-------------------------------------------------------------------------------
Next ==
  \/ ScaleUpPass \/ DeployGroup \/ DeployAgain \/ WaitTimesOut
  \/ InitGlobalInstance
  \/ ScanDeployments \/ PdCheck \/ DisableStateApi \/ ManagerRestart
  \/ \E i \in Ids :
       \/ LaunchReady(i) \/ ServerRun(i) \/ LaunchUp(i) \/ LaunchFails(i)
       \/ PollDead(i) \/ WatchEnds(i)
       \/ GroupCreated(i) \/ InstanceUp(i) \/ ServerUp(i)
       \/ InstanceDies(i) \/ ServerDies(i)

Spec == Init /\ [][Next]_vars

\* The event loop serves every task, Ray brings up what it has accepted.
FairSpec ==
  /\ Spec
  /\ WF_vars(ScaleUpPass)
  /\ WF_vars(DeployGroup \/ DeployAgain \/ WaitTimesOut)
  /\ WF_vars(InitGlobalInstance) /\ WF_vars(ScanDeployments)
  /\ \A i \in Ids :
       /\ WF_vars(LaunchReady(i) \/ LaunchUp(i) \/ LaunchFails(i))
       /\ WF_vars(ServerRun(i)) /\ WF_vars(PollDead(i)) /\ WF_vars(WatchEnds(i))
       /\ WF_vars(InstanceUp(i)) /\ WF_vars(ServerUp(i))

-------------------------------------------------------------------------------
(* Properties                                                                  *)

TypeOK ==
  /\ pg \in [Ids -> {"none", "pending", "created"}]
  /\ inst \in [Ids -> {"none", "creating", "alive"}]
  /\ srv \in [Ids -> {"none", "creating", "alive", "serving"}]
  /\ launch \in [Ids -> {"none", "ready", "run", "up"}]
  /\ kind \in [Ids -> Kinds] /\ port \in [Ids -> Nat]
  /\ inflight \in [Kinds -> Nat]
  /\ {offset, stored, initLeft, faults, restarts} \subseteq Nat
  /\ known \subseteq Ids /\ pendingIds \subseteq Ids /\ pendingPgs \subseteq Ids
  /\ watch \subseteq Ids /\ pdPrev \subseteq Ids
  /\ {lastTimeout, wait} \subseteq Ids \cup {NoId}
  /\ {stateApi, clean} \subseteq BOOLEAN

\* Types, and the Launcher counts each instance once: the counters of launches under way
\* are the numbers of done_scale_up tasks of each role, and no instance is both
\* registered and in flight (the note in _get_next_instance_type), whatever
\* order launches end, fail and are scaled down in.
CountsExact ==
  /\ TypeOK
  /\ \A k \in Kinds : inflight[k] = Cardinality(OfKind(Launching, k))
  /\ known \cap Launching = {}

\* The loop never requests a group that takes the cluster beyond max_instances,
\* whether the State API answers or was lost: what is registered, launching,
\* pending or timed out is counted (the comment in _auto_scale_up_loop).
GroupsBounded ==
  [][restarts = 0 /\ (\E i \in Ids : pg[i] = "none" /\ pg'[i] = "pending")
       => Cardinality(Groups') <= MaxInstances]_vars

\* Two servers never listen on one port, across restarts of the Manager too
\* (enable_port_offset_store).
PortsUnique ==
  PortStore => \A i, j \in Ids :
    i # j /\ srv[i] # "none" /\ srv[j] # "none" => port[i] # port[j]

\* As long as no launched instance was lost, every RP+RD launches have exactly
\* RP prefill and RD decode instances, however the launches overlap.
RatioKept ==
  LET P == OfKind(known \cup Launching, "prefill")
      D == OfKind(known \cup Launching, "decode")
  IN  clean /\ Cardinality(P \cup D) % (RP + RD) = 0
        => Cardinality(P) * RD = Cardinality(D) * RP

\* A fixed-size deployment holds no more groups than initial_instances
\* (docstring of init_global_instances: "exactly once").
FixedSize == ~Scaling => Cardinality(Groups) <= Initial

\* While the State API answers, a group that got its resources ends up with a
\* registered instance or is given back: failed launches, timeouts, watches and
\* restarts leave no group that holds a GPU for nothing.
GroupsSettle ==
  \A i \in Ids : pg[i] = "created" ~> (pg[i] = "none" \/ i \in known \/ ~stateApi)

\* A group kept in _pending_placement_groups is resumed once it has its
\* resources (the comment in _auto_scale_up_loop).
RetainedResumed ==
  \A i \in Ids : ~stateApi /\ i \in pendingPgs /\ pg[i] = "created"
    ~> (inst[i] # "none" \/ pg[i] = "none" \/ stateApi)
===============================================================================
