--------------------------- MODULE DeploymentProofs ---------------------------
(***************************************************************************)
(* What the Launcher and the scale-up loop guarantee, proved for any       *)
(* number of instance ids, any max_instances and initial_instances, any    *)
(* ratio of roles and any number of deaths and restarts.                   *)
(***************************************************************************)
EXTENDS Deployment, FiniteSetTheorems, TLAPS

-------------------------------------------------------------------------------
(***************************************************************************)
(* The inductive invariant                                                 *)
(***************************************************************************)

\* The instances the Manager has registered or is launching.
Deployed == known \cup Launching

\* No second launch of an instance under way can start: the State API tells which
\* groups exist, or no two actors of one instance have died.
Steady == stateApi \/ MaxFaults <= 1

\* Actors live in a group that has its resources, and a group of a deployed
\* instance is never asked for again.
HeldInv ==
  \A i \in Ids :
    /\ inst[i] # "none" \/ srv[i] # "none" => pg[i] = "created"
    /\ i \in Deployed => pg[i] # "pending"

\* An actor that misses in the group of a deployed instance has died.
DeathsInv ==
  /\ faults <= MaxFaults
  /\ \A i \in Ids :
       /\ inst[i] # "none" /\ srv[i] = "none" => faults > 0
       /\ pg[i] = "created" /\ i \in Deployed =>
            /\ inst[i] = "none" \/ srv[i] = "none" => faults > 0
            /\ inst[i] = "none" /\ srv[i] = "none" => faults > 1

\* The group the scale-up loop awaits, or will take up again, has no instance yet.
AwaitInv ==
  stateApi =>
    /\ wait = NoId \/ lastTimeout = NoId
    /\ wait \notin Deployed
    /\ lastTimeout \in Deployed => pg[lastTimeout] = "none"

\* The counters of the Launcher.
CountsInv ==
  /\ \A k \in Kinds : inflight[k] >= Cardinality(OfKind(Launching, k))
  /\ Steady => /\ \A k \in Kinds : inflight[k] = Cardinality(OfKind(Launching, k))
               /\ known \cap Launching = {}

\* The offset in the store is the next port, and every server took an earlier one.
PortsInv ==
  PortStore =>
    /\ offset = stored
    /\ \A i \in Ids : srv[i] # "none" => port[i] < offset
    /\ \A i, j \in Ids : i # j /\ srv[i] # "none" /\ srv[j] # "none" => port[i] # port[j]

\* Until a restart, the Manager remembers every group.
GroupsInv == restarts = 0 => Groups \subseteq known \cup pendingIds

IInv ==
  /\ TypeOK /\ HeldInv /\ DeathsInv /\ AwaitInv /\ CountsInv /\ PortsInv /\ GroupsInv

\* Cardinalities of sets of ids.
LEMMA IdSets ==
  /\ \A S \in SUBSET Ids : IsFiniteSet(S) /\ Cardinality(S) \in Nat
  /\ \A S, T \in SUBSET Ids : S \subseteq T => Cardinality(S) <= Cardinality(T)
  /\ \A S \in SUBSET Ids : \A i \in Ids \ S :
       Cardinality(S \cup {i}) = Cardinality(S) + 1
  /\ \A S \in SUBSET Ids : \A i \in S : Cardinality(S \ {i}) = Cardinality(S) - 1
<1>1. \A S \in SUBSET Ids : IsFiniteSet(S) /\ Cardinality(S) \in Nat
  BY DeploymentAssumption, FS_Subset, FS_CardinalityType
<1>2. \A S, T \in SUBSET Ids : S \subseteq T => Cardinality(S) <= Cardinality(T)
  BY <1>1, FS_Subset
<1>3. \A S \in SUBSET Ids : \A i \in Ids \ S : Cardinality(S \cup {i}) = Cardinality(S) + 1
  BY <1>1, FS_AddElement
<1>4. \A S \in SUBSET Ids : \A i \in S : Cardinality(S \ {i}) = Cardinality(S) - 1
  BY <1>1, FS_RemoveElement
<1> QED
  BY <1>1, <1>2, <1>3, <1>4

\* The invariant holds at first.
LEMMA InitIInv == Init => IInv
<1> SUFFICES ASSUME Init PROVE IInv
  OBVIOUS
<1>1. TypeOK
  BY DeploymentAssumption DEF Init, TypeOK, Kinds
<1>2. Launching = {} /\ Deployed = {} /\ Groups = {}
  BY DEF Init, Launching, Deployed, Groups
<1>3. HeldInv /\ DeathsInv
  BY <1>2, DeploymentAssumption DEF Init, HeldInv, DeathsInv
<1>4. AwaitInv /\ PortsInv /\ GroupsInv
  BY <1>2 DEF Init, AwaitInv, PortsInv, GroupsInv
<1>5. CountsInv
  <2>1. \A k \in Kinds : OfKind(Launching, k) = {}
    BY <1>2 DEF OfKind
  <2>2. \A k \in Kinds : Cardinality(OfKind(Launching, k)) = 0
    BY <2>1, FS_EmptySet
  <2>3. \A k \in Kinds : inflight[k] = 0
    BY DEF Init
  <2>4. known = {}
    BY DEF Init
  <2> QED
    BY <2>2, <2>3, <2>4 DEF CountsInv
<1> QED
  BY <1>1, <1>3, <1>4, <1>5 DEF IInv

-------------------------------------------------------------------------------
(***************************************************************************)
(* Steps that launch nothing and end no launch.                            *)
(***************************************************************************)

\* The counters stay exact when launches and roles do not change, and no instance
\* is registered.
LEMMA CountsKept ==
  ASSUME IInv, UNCHANGED <<kind, inflight>>, Launching' = Launching,
         known' \subseteq known, stateApi' => stateApi
  PROVE  CountsInv'
<1>1. \A k \in Kinds : OfKind(Launching, k)' = OfKind(Launching, k)
  BY DEF OfKind
<1>2. Steady' => Steady
  BY DEF Steady
<1> QED
  BY <1>1, <1>2 DEF IInv, CountsInv

\* Manager.scale_down of the ids of S, and groups requested for new ids: what the
\* scale-up loop awaits is left to the caller.
LEMMA ScaleDownKeeps ==
  ASSUME IInv, NEW S \in SUBSET Ids, NEW new \in SUBSET Ids,
         \A i \in new : Fresh(i),
         ScaleDownAndReserve(S, new),
         UNCHANGED lch, stateApi' => stateApi, faults' \in {faults, faults + 1},
         faults' <= MaxFaults, restarts' = restarts
  PROVE  /\ HeldInv' /\ DeathsInv' /\ CountsInv' /\ PortsInv' /\ GroupsInv'
         /\ Deployed' \subseteq Deployed
         /\ pg' \in [Ids -> {"none", "pending", "created"}]
         /\ inst' \in [Ids -> {"none", "creating", "alive"}]
         /\ srv' \in [Ids -> {"none", "creating", "alive", "serving"}]
         /\ port' \in [Ids -> Nat] /\ clean' \in BOOLEAN
         /\ known' \subseteq Ids /\ pendingIds' \subseteq Ids /\ pendingPgs' \subseteq Ids
<1> USE DEF IInv
<1>1. /\ UNCHANGED <<launch, kind, inflight, offset, stored>>
      /\ pg' = [i \in Ids |-> IF i \in new THEN "pending" ELSE IF i \in S THEN "none" ELSE pg[i]]
      /\ srv' = [i \in Ids |-> IF i \in S THEN "none" ELSE srv[i]]
      /\ inst' = [i \in Ids |-> IF i \in S THEN "none" ELSE inst[i]]
      /\ port' = [i \in Ids |-> IF i \in S THEN 0 ELSE port[i]]
      /\ pendingIds' = (pendingIds \ S) \cup new
      /\ pendingPgs' = (pendingPgs \ S) \cup new
      /\ known' = known \ S
      /\ clean' = (clean /\ S \cap (known \cup Launching) = {})
  BY DEF ScaleDownAndReserve, ClearRay, Reserve, Without, lch
<1>2. /\ pg' \in [Ids -> {"none", "pending", "created"}]
      /\ inst' \in [Ids -> {"none", "creating", "alive"}]
      /\ srv' \in [Ids -> {"none", "creating", "alive", "serving"}]
      /\ port' \in [Ids -> Nat]
      /\ known' \subseteq Ids /\ pendingIds' \subseteq Ids /\ pendingPgs' \subseteq Ids
  BY <1>1 DEF TypeOK
<1>3. clean' \in BOOLEAN
  BY <1>1
<1>4. Launching' = Launching /\ Deployed' \subseteq Deployed
  BY <1>1 DEF Launching, Deployed
<1>5. \A i \in new : pg[i] = "none" /\ i \notin Deployed /\ inst[i] = "none" /\ srv[i] = "none"
  BY DEF Fresh, Deployed, Launching, HeldInv
<1>6. \A i \in Ids :
        /\ pg'[i] = IF i \in new THEN "pending" ELSE IF i \in S THEN "none" ELSE pg[i]
        /\ srv'[i] = IF i \in S THEN "none" ELSE srv[i]
        /\ inst'[i] = IF i \in S THEN "none" ELSE inst[i]
        /\ port'[i] = IF i \in S THEN 0 ELSE port[i]
  BY <1>1
<1>7. HeldInv'
  BY <1>4, <1>5, <1>6 DEF HeldInv
<1>8. DeathsInv'
  <2>1. faults \in Nat /\ faults' >= faults
    BY DEF TypeOK
  <2> QED
    BY <1>4, <1>5, <1>6, <2>1, DeploymentAssumption DEF DeathsInv
<1>9. CountsInv'
  BY <1>1, <1>4, CountsKept
<1>10. PortsInv'
  BY <1>1, <1>6 DEF PortsInv
<1>11. GroupsInv'
  BY <1>1, <1>6 DEF GroupsInv, Groups
<1> QED
  BY <1>2, <1>3, <1>4, <1>7, <1>8, <1>9, <1>10, <1>11

\* One pass of the scale-up loop: it awaits a group that has no instance yet.
LEMMA ScaleUpPassIInv ==
  ASSUME IInv, ScaleUpPass
  PROVE  IInv'
<1> USE DEF IInv
<1>1. PICK r \in Resumable, listed \in {FALSE, stateApi} :
        /\ stateApi' = listed
        /\ \/ /\ scale_down(StaleGroups(r, listed))
              /\ wait' \in {NoId, r}
           \/ \E i \in Ids : /\ Fresh(i)
                             /\ ScaleDownAndReserve(StaleGroups(r, listed), {i})
                             /\ wait' = i
  BY DEF ScaleUpPass
<1>2. /\ lastTimeout' = IF stateApi THEN NoId ELSE lastTimeout
      /\ UNCHANGED <<lch, watch, pdPrev, initLeft, faults, restarts>>
  BY DEF ScaleUpPass
<1>3. PICK new \in SUBSET Ids :
        /\ \A i \in new : Fresh(i)
        /\ ScaleDownAndReserve(StaleGroups(r, listed), new)
        /\ wait' \in {NoId, r} \cup new
  <2>1. CASE scale_down(StaleGroups(r, listed)) /\ wait' \in {NoId, r}
    BY <2>1 DEF scale_down
  <2>2. CASE \E i \in Ids : /\ Fresh(i)
                            /\ ScaleDownAndReserve(StaleGroups(r, listed), {i})
                            /\ wait' = i
    BY <2>2
  <2> QED
    BY <1>1, <2>1, <2>2
<1>4. StaleGroups(r, listed) \in SUBSET Ids
  BY DEF StaleGroups, PendingGroups
<1>5. stateApi' => stateApi
  BY <1>1
<1>6. faults' = faults /\ faults' <= MaxFaults
  BY <1>2 DEF DeathsInv
<1>7. /\ HeldInv' /\ DeathsInv' /\ CountsInv' /\ PortsInv' /\ GroupsInv'
      /\ Deployed' \subseteq Deployed
      /\ pg' \in [Ids -> {"none", "pending", "created"}]
      /\ inst' \in [Ids -> {"none", "creating", "alive"}]
      /\ srv' \in [Ids -> {"none", "creating", "alive", "serving"}]
      /\ port' \in [Ids -> Nat] /\ clean' \in BOOLEAN
      /\ known' \subseteq Ids /\ pendingIds' \subseteq Ids /\ pendingPgs' \subseteq Ids
  BY <1>2, <1>3, <1>4, <1>5, <1>6, ScaleDownKeeps
<1>8. r \in Ids \cup {NoId} /\ (stateApi /\ r \in Ids => r \notin Deployed)
  <2>1. CASE stateApi
    <3>1. r = NoId \/ (r = lastTimeout /\ r \in Ids /\ pg[r] # "none")
      BY <1>1, <2>1 DEF Resumable
    <3> QED
      BY <2>1, <3>1, DeploymentAssumption DEF AwaitInv
  <2>2. CASE ~stateApi
    BY <1>1, <2>2 DEF Resumable, TypeOK
  <2> QED
    BY <2>1, <2>2
<1>9. TypeOK'
  <2>1. stateApi' \in BOOLEAN
    BY <1>1 DEF TypeOK
  <2>2. {lastTimeout', wait'} \subseteq Ids \cup {NoId}
    BY <1>2, <1>3, <1>8 DEF TypeOK
  <2> QED
    BY <1>2, <1>7, <2>1, <2>2 DEF TypeOK, lch
<1>10. AwaitInv'
  <2>1. \A i \in new : i \notin Deployed
    BY <1>3 DEF Fresh, Deployed, Launching
  <2>2. NoId \notin Deployed
    BY DeploymentAssumption DEF Deployed, Launching, TypeOK
  <2> QED
    BY <1>2, <1>3, <1>5, <1>7, <1>8, <2>1, <2>2 DEF AwaitInv
<1> QED
  BY <1>7, <1>9, <1>10

\* The other loops give instances up and leave the scale-up loop alone.
LEMMA ReconcileIInv ==
  ASSUME IInv, PdCheck \/ \E i \in Ids : PollDead(i) \/ WatchEnds(i)
  PROVE  IInv'
<1> USE DEF IInv
<1>1. /\ UNCHANGED <<lch, lastTimeout, wait, initLeft, stateApi, restarts>>
      /\ watch' \subseteq watch /\ pdPrev' \in {pdPrev, PendingGroups}
      /\ faults' \in {faults, faults + 1} /\ (faults' = faults \/ faults < MaxFaults)
  BY DEF PdCheck, PollDead, WatchEnds, loops
<1>2. \/ \E S \in SUBSET Ids : scale_down(S)
      \/ UNCHANGED <<ray, mgr, clean>>
  BY DEF PdCheck, PollDead, WatchEnds, OfKind, TypeOK
<1>3. faults \in Nat /\ faults' \in Nat /\ faults' <= MaxFaults /\ faults' >= faults
  BY <1>1, DeploymentAssumption DEF DeathsInv, TypeOK
<1>4. /\ HeldInv' /\ DeathsInv' /\ CountsInv' /\ PortsInv' /\ GroupsInv'
      /\ Deployed' \subseteq Deployed
      /\ pg' \in [Ids -> {"none", "pending", "created"}]
      /\ inst' \in [Ids -> {"none", "creating", "alive"}]
      /\ srv' \in [Ids -> {"none", "creating", "alive", "serving"}]
      /\ port' \in [Ids -> Nat] /\ clean' \in BOOLEAN
      /\ known' \subseteq Ids /\ pendingIds' \subseteq Ids /\ pendingPgs' \subseteq Ids
      /\ \A i \in Ids : pg'[i] \in {"none", pg[i]}
  <2>1. CASE \E S \in SUBSET Ids : scale_down(S)
    <3>1. PICK S \in SUBSET Ids : ScaleDownAndReserve(S, {})
      BY <2>1 DEF scale_down
    <3>2. \A i \in Ids : pg'[i] \in {"none", pg[i]}
      BY <3>1 DEF ScaleDownAndReserve, ClearRay, Reserve, Without
    <3> QED
      BY <1>1, <1>3, <3>1, <3>2, ScaleDownKeeps
  <2>2. CASE UNCHANGED <<ray, mgr, clean>>
    <3>1. /\ Launching' = Launching /\ Deployed' = Deployed /\ Groups' = Groups
          /\ UNCHANGED <<pg, inst, srv, port, clean, known, pendingIds, pendingPgs,
                         kind, inflight, offset, stored>>
      BY <1>1, <2>2 DEF Launching, Deployed, Groups, ray, mgr, lch
    <3>2. CountsInv'
      BY <1>1, <3>1, CountsKept
    <3> QED
      BY <1>1, <1>3, <3>1, <3>2, DeploymentAssumption
         DEF HeldInv, DeathsInv, PortsInv, GroupsInv, TypeOK
  <2> QED
    BY <1>2, <2>1, <2>2
<1>5. TypeOK'
  BY <1>1, <1>3, <1>4 DEF TypeOK, lch, PendingGroups
<1>6. AwaitInv'
  <2>1. wait \in Ids \cup {NoId} /\ lastTimeout \in Ids \cup {NoId} /\ Deployed' \subseteq Ids
    BY <1>4 DEF TypeOK, Deployed, Launching
  <2> QED
    BY <1>1, <1>4, <2>1 DEF AwaitInv
<1> QED
  BY <1>4, <1>5, <1>6

\* The other steps of the loops: what they change is theirs alone.
LEMMA LoopIInv ==
  ASSUME IInv, \/ DeployAgain \/ WaitTimesOut \/ ScanDeployments \/ DisableStateApi
               \/ \E i \in Ids : LaunchReady(i)
  PROVE  IInv'
<1> USE DEF IInv
<1>1. /\ UNCHANGED <<pg, inst, srv, port, clean, known, pendingIds, pendingPgs, kind,
                     inflight, offset, stored, initLeft, faults, restarts, pdPrev>>
      /\ stateApi' => stateApi
      /\ stateApi' \in BOOLEAN
      /\ launch' \in [Ids -> {"none", "ready", "run", "up"}]
      /\ Launching' = Launching
      /\ watch' \subseteq Ids
  <2>1. CASE \E i \in Ids : LaunchReady(i)
    BY <2>1 DEF LaunchReady, ray, mgr, loops, TypeOK, Launching
  <2>2. CASE DeployAgain \/ WaitTimesOut
    BY <2>2 DEF DeployAgain, WaitTimesOut, ray, mgr, lch, TypeOK, Launching
  <2>3. CASE ScanDeployments
    BY <2>3 DEF ScanDeployments, ray, mgr, lch, TypeOK, Launching, CreatedGroups
  <2>4. CASE DisableStateApi
    BY <2>4 DEF DisableStateApi, ray, mgr, lch, TypeOK, Launching
  <2> QED
    BY <2>1, <2>2, <2>3, <2>4
<1>2. /\ wait' \in {wait, NoId} /\ lastTimeout' \in {lastTimeout, wait, NoId}
      /\ stateApi' => wait' = NoId \/ lastTimeout' = NoId
      /\ lastTimeout' \in {lastTimeout, NoId} \/ pg[lastTimeout'] # "created"
  BY DEF DeployAgain, WaitTimesOut, ScanDeployments, DisableStateApi, LaunchReady, loops,
         AwaitInv
<1>3. Deployed' = Deployed /\ Groups' = Groups
  BY <1>1 DEF Deployed, Groups
<1>4. TypeOK'
  <2>1. {lastTimeout', wait'} \subseteq Ids \cup {NoId}
    BY <1>2 DEF TypeOK
  <2> QED
    BY <1>1, <2>1 DEF TypeOK
<1>5. HeldInv' /\ DeathsInv' /\ PortsInv' /\ GroupsInv'
  BY <1>1, <1>3 DEF HeldInv, DeathsInv, PortsInv, GroupsInv
<1>6. CountsInv'
  BY <1>1, CountsKept
<1>7. AwaitInv'
  <2>1. Deployed \subseteq Ids /\ NoId \notin Ids
    BY DeploymentAssumption DEF TypeOK, Deployed, Launching
  <2> QED
    BY <1>1, <1>2, <1>3, <2>1 DEF AwaitInv
<1> QED
  BY <1>4, <1>5, <1>6, <1>7

\* A step of Ray: a group gets its resources, an actor comes up, serves or dies.
LEMMA RayIInv ==
  ASSUME IInv, NEW i \in Ids,
         \/ GroupCreated(i) \/ InstanceUp(i) \/ ServerUp(i) \/ ServerRun(i)
         \/ InstanceDies(i) \/ ServerDies(i)
  PROVE  IInv'
<1> USE DEF IInv
<1>1. /\ UNCHANGED <<known, pendingIds, pendingPgs, kind, inflight, offset, stored,
                     lastTimeout, wait, watch, pdPrev, initLeft, stateApi, restarts>>
      /\ launch' \in [Ids -> {"none", "ready", "run", "up"}]
      /\ Launching' = Launching
  BY DEF GroupCreated, InstanceUp, ServerUp, ServerRun, InstanceDies, ServerDies, mgr,
         lch, loops, TypeOK, Launching
<1>2. /\ pg' \in [Ids -> {"none", "pending", "created"}]
      /\ \A j \in Ids : pg'[j] = pg[j] \/ (j = i /\ pg[j] = "pending" /\ pg'[j] = "created")
  BY DEF GroupCreated, InstanceUp, ServerUp, ServerRun, InstanceDies, ServerDies, ray, TypeOK
<1>3. /\ inst' \in [Ids -> {"none", "creating", "alive"}]
      /\ srv' \in [Ids -> {"none", "creating", "alive", "serving"}]
      /\ port' \in [Ids -> Nat]
  BY DEF GroupCreated, InstanceUp, ServerUp, ServerRun, InstanceDies, ServerDies, ray, TypeOK
<1>4. /\ \A j \in Ids \ {i} : inst'[j] = inst[j] /\ srv'[j] = srv[j] /\ port'[j] = port[j]
      /\ inst'[i] # "none" => inst[i] # "none"
      /\ srv'[i] # "none" => srv[i] # "none" /\ port'[i] = port[i]
  BY DEF GroupCreated, InstanceUp, ServerUp, ServerRun, InstanceDies, ServerDies, ray, TypeOK
<1>5. /\ faults \in Nat /\ faults' \in {faults, faults + 1}
      /\ faults' = faults \/ faults < MaxFaults
      /\ clean' \in {clean, FALSE}
  BY DEF GroupCreated, InstanceUp, ServerUp, ServerRun, InstanceDies, ServerDies, TypeOK
<1>6. \/ faults' = faults /\ (inst'[i] # "none" <=> inst[i] # "none")
                          /\ (srv'[i] # "none" <=> srv[i] # "none")
      \/ faults' = faults + 1 /\ (inst'[i] = inst[i] \/ srv'[i] = srv[i])
  BY DEF GroupCreated, InstanceUp, ServerUp, ServerRun, InstanceDies, ServerDies, TypeOK
<1>7. Deployed' = Deployed /\ Groups' = Groups
  BY <1>1, <1>2 DEF Deployed, Groups
<1>8. TypeOK'
  <2>1. {stateApi', clean'} \subseteq BOOLEAN
    BY <1>1, <1>5 DEF TypeOK
  <2> QED
    BY <1>1, <1>2, <1>3, <1>5, <2>1 DEF TypeOK
<1>9. HeldInv'
  BY <1>2, <1>4, <1>7 DEF HeldInv
<1>10. DeathsInv'
  <2>1. \A j \in Deployed : j \in Ids /\ pg'[j] = pg[j]
    BY <1>2 DEF HeldInv, Deployed, Launching, TypeOK
  <2>2. faults' <= MaxFaults /\ faults' >= faults
    BY <1>5, DeploymentAssumption DEF DeathsInv
  <2>3. \A j \in Ids \ {i} :
          /\ inst'[j] # "none" /\ srv'[j] = "none" => faults' > 0
          /\ pg'[j] = "created" /\ j \in Deployed =>
               /\ inst'[j] = "none" \/ srv'[j] = "none" => faults' > 0
               /\ inst'[j] = "none" /\ srv'[j] = "none" => faults' > 1
    BY <1>4, <1>5, <2>1, <2>2 DEF DeathsInv
  <2>4. /\ inst'[i] # "none" /\ srv'[i] = "none" => faults' > 0
        /\ pg'[i] = "created" /\ i \in Deployed =>
             /\ inst'[i] = "none" \/ srv'[i] = "none" => faults' > 0
             /\ inst'[i] = "none" /\ srv'[i] = "none" => faults' > 1
    BY <1>5, <1>6, <2>1 DEF DeathsInv
  <2> QED
    BY <1>7, <2>2, <2>3, <2>4 DEF DeathsInv
<1>11. AwaitInv'
  <2>1. \A j \in Deployed : pg'[j] = pg[j]
    BY <1>2 DEF HeldInv, Deployed, Launching, TypeOK
  <2> QED
    BY <1>1, <1>7, <2>1 DEF AwaitInv
<1>12. CountsInv'
  BY <1>1, CountsKept
<1>13. PortsInv'
  BY <1>1, <1>4 DEF PortsInv
<1>14. GroupsInv'
  BY <1>1, <1>7 DEF GroupsInv
<1> QED
  BY <1>8, <1>9, <1>10, <1>11, <1>12, <1>13, <1>14

-------------------------------------------------------------------------------
(***************************************************************************)
(* Launches                                                                *)
(***************************************************************************)

\* _get_next_instance_type names one of the two roles.
LEMMA NextRole == NextInstanceType \in Kinds
<1>1. \A p, d : NextKind(p, d) \in Kinds
  BY DEF NextKind, Kinds
<1> QED
  BY <1>1 DEF NextInstanceType

\* init_server_and_instance counts the launch that it starts and gives its server
\* a port that no server has had.
LEMMA LaunchKeeps ==
  ASSUME IInv, NEW i \in Ids, init_server_and_instance(i),
         Steady => i \notin Deployed,
         pg' \in [Ids -> {"none", "pending", "created"}], pg'[i] = "created",
         \A j \in Ids \ {i} : pg'[j] = pg[j],
         UNCHANGED <<known, stateApi, faults>>
  PROVE  /\ HeldInv' /\ DeathsInv' /\ CountsInv' /\ PortsInv'
         /\ Deployed' = Deployed \cup {i}
         /\ inst' \in [Ids -> {"none", "creating", "alive"}]
         /\ srv' \in [Ids -> {"none", "creating", "alive", "serving"}]
         /\ port' \in [Ids -> Nat]
         /\ launch' \in [Ids -> {"none", "ready", "run", "up"}]
         /\ kind' \in [Ids -> Kinds] /\ inflight' \in [Kinds -> Nat]
         /\ offset' \in Nat /\ stored' \in Nat
<1> USE DEF IInv
<1>0. PICK n \in Kinds : n = NextInstanceType
  BY NextRole
<1>1. /\ inst[i] = "none" /\ srv[i] = "none"
      /\ inst' = [inst EXCEPT ![i] = "creating"]
      /\ srv' = [srv EXCEPT ![i] = "creating"]
      /\ kind' = [kind EXCEPT ![i] = n]
      /\ port' = [port EXCEPT ![i] = offset]
      /\ offset' = offset + 1
      /\ stored' = IF PortStore THEN offset + 1 ELSE stored
      /\ inflight' = [inflight EXCEPT ![n] = @ + 1]
      /\ launch' = [launch EXCEPT ![i] = "ready"]
  BY <1>0 DEF init_server_and_instance, TakePort
<1>2. /\ inst' \in [Ids -> {"none", "creating", "alive"}]
      /\ srv' \in [Ids -> {"none", "creating", "alive", "serving"}]
      /\ port' \in [Ids -> Nat]
      /\ launch' \in [Ids -> {"none", "ready", "run", "up"}]
      /\ kind' \in [Ids -> Kinds] /\ inflight' \in [Kinds -> Nat]
      /\ offset' \in Nat /\ stored' \in Nat
  BY <1>0, <1>1 DEF TypeOK
<1>3. Launching' = Launching \cup {i} /\ Deployed' = Deployed \cup {i}
  BY <1>1 DEF Launching, Deployed, TypeOK
<1>4. /\ inst'[i] = "creating" /\ srv'[i] = "creating" /\ port'[i] = offset
      /\ \A j \in Ids \ {i} : inst'[j] = inst[j] /\ srv'[j] = srv[j] /\ port'[j] = port[j]
  BY <1>1 DEF TypeOK
<1>5. HeldInv'
  BY <1>3, <1>4 DEF HeldInv
<1>6. DeathsInv'
  BY <1>3, <1>4 DEF DeathsInv
<1>7. PortsInv'
  <2>1. offset \in Nat
    BY DEF TypeOK
  <2>2. PortStore => /\ offset' = stored'
                     /\ \A j \in Ids : srv'[j] # "none" => port'[j] < offset'
    BY <1>1, <1>2, <1>4, <2>1 DEF PortsInv, TypeOK
  <2>3. PortStore => \A j, l \in Ids :
          j # l /\ srv'[j] # "none" /\ srv'[l] # "none" => port'[j] # port'[l]
    BY <1>2, <1>4, <2>1 DEF PortsInv, TypeOK
  <2> QED
    BY <2>2, <2>3 DEF PortsInv
<1>8. CountsInv'
  <2>1. /\ kind'[i] = n
        /\ \A j \in Ids \ {i} : kind'[j] = kind[j]
        /\ inflight'[n] = inflight[n] + 1
        /\ \A k \in Kinds \ {n} : inflight'[k] = inflight[k]
    BY <1>0, <1>1 DEF TypeOK
  <2>2. \A k \in Kinds : OfKind(Launching, k) \in SUBSET Ids /\ OfKind(Launching, k)' \in SUBSET Ids
    BY DEF OfKind, Launching
  <2>3. /\ OfKind(Launching, n)' = OfKind(Launching, n) \cup {i}
        /\ \A k \in Kinds \ {n} : OfKind(Launching, k)' \subseteq OfKind(Launching, k)
    BY <1>3, <2>1 DEF OfKind, Launching
  <2>4. \A k \in Kinds : inflight[k] \in Nat /\ inflight[k] >= Cardinality(OfKind(Launching, k))
    BY DEF CountsInv, TypeOK
  <2>5. \A k \in Kinds : /\ Cardinality(OfKind(Launching, k)) \in Nat
                         /\ Cardinality(OfKind(Launching, k)') \in Nat
    BY <2>2, IdSets
  <2>6. Cardinality(OfKind(Launching, n)') <= Cardinality(OfKind(Launching, n)) + 1
    <3>1. CASE i \in OfKind(Launching, n)
      <4>1. OfKind(Launching, n)' = OfKind(Launching, n)
        BY <2>3, <3>1
      <4> QED
        BY <1>0, <2>5, <4>1
    <3>2. CASE i \notin OfKind(Launching, n)
      BY <1>0, <2>2, <2>3, <2>5, <3>2, IdSets
    <3> QED
      BY <3>1, <3>2
  <2>7. \A k \in Kinds \ {n} :
          Cardinality(OfKind(Launching, k)') <= Cardinality(OfKind(Launching, k))
    BY <2>2, <2>3, IdSets
  <2>8. \A k \in Kinds : inflight'[k] >= Cardinality(OfKind(Launching, k)')
    BY <1>0, <2>1, <2>4, <2>5, <2>6, <2>7
  <2>9. Steady => /\ \A k \in Kinds : inflight'[k] = Cardinality(OfKind(Launching, k)')
                  /\ known \cap Launching' = {}
    <3> SUFFICES ASSUME Steady
                 PROVE  /\ \A k \in Kinds : inflight'[k] = Cardinality(OfKind(Launching, k)')
                        /\ known \cap Launching' = {}
      OBVIOUS
    <3>1. i \notin known /\ i \notin Launching
      BY DEF Deployed
    <3>2. known \cap Launching' = {}
      BY <1>3, <3>1 DEF CountsInv
    <3>3. \A k \in Kinds : inflight[k] = Cardinality(OfKind(Launching, k))
      BY DEF CountsInv
    <3>4. i \notin OfKind(Launching, n)
      BY <3>1 DEF OfKind
    <3>5. Cardinality(OfKind(Launching, n)') = Cardinality(OfKind(Launching, n)) + 1
      BY <1>0, <2>2, <2>3, <3>4, IdSets
    <3>6. \A k \in Kinds \ {n} : OfKind(Launching, k)' = OfKind(Launching, k)
      <4>1. Launching \subseteq Ids
        BY DEF Launching
      <4> QED
        BY <1>3, <2>1, <3>1, <4>1 DEF OfKind
    <3> QED
      BY <1>0, <2>1, <3>2, <3>3, <3>5, <3>6
  <2>10. Steady' <=> Steady
    BY DEF Steady
  <2> QED
    BY <2>8, <2>9, <2>10 DEF CountsInv
<1> QED
  BY <1>2, <1>3, <1>5, <1>6, <1>7, <1>8

\* The group that the scale-up loop awaits is ready and gets its instance.
LEMMA DeployGroupIInv ==
  ASSUME IInv, DeployGroup
  PROVE  IInv'
<1> USE DEF IInv
<1>1. /\ wait \in Ids /\ pg[wait] = "created" /\ init_server_and_instance(wait)
      /\ inst[wait] = "none" /\ srv[wait] = "none"
      /\ wait' = NoId
      /\ UNCHANGED <<pg, known, pendingIds, pendingPgs, lastTimeout, watch, pdPrev,
                     initLeft, stateApi, clean, faults, restarts>>
  BY DEF DeployGroup, mgr, init_server_and_instance
<1>2. Steady => wait \notin Deployed
  <2>1. CASE stateApi
    BY <2>1 DEF AwaitInv
  <2>2. CASE MaxFaults <= 1
    <3>1. ~(faults > 1)
      BY <2>2, DeploymentAssumption DEF DeathsInv, TypeOK
    <3> QED
      BY <1>1, <3>1 DEF DeathsInv
  <2> QED
    BY <2>1, <2>2 DEF Steady
<1>3. pg' \in [Ids -> {"none", "pending", "created"}] /\ pg'[wait] = "created"
  BY <1>1 DEF TypeOK
<1>4. /\ HeldInv' /\ DeathsInv' /\ CountsInv' /\ PortsInv'
      /\ Deployed' = Deployed \cup {wait}
      /\ inst' \in [Ids -> {"none", "creating", "alive"}]
      /\ srv' \in [Ids -> {"none", "creating", "alive", "serving"}]
      /\ port' \in [Ids -> Nat]
      /\ launch' \in [Ids -> {"none", "ready", "run", "up"}]
      /\ kind' \in [Ids -> Kinds] /\ inflight' \in [Kinds -> Nat]
      /\ offset' \in Nat /\ stored' \in Nat
  BY <1>1, <1>2, <1>3, LaunchKeeps
<1>5. TypeOK'
  BY <1>1, <1>3, <1>4 DEF TypeOK
<1>6. AwaitInv'
  <2>1. NoId \notin Deployed'
    BY <1>1, <1>4, DeploymentAssumption DEF Deployed, Launching, TypeOK
  <2> QED
    BY <1>1, <1>4, <2>1 DEF AwaitInv
<1>7. GroupsInv'
  BY <1>1 DEF GroupsInv, Groups
<1> QED
  BY <1>4, <1>5, <1>6, <1>7

\* A replica of init_global_instances: a new id, its group and its instance.
LEMMA InitGlobalIInv ==
  ASSUME IInv, InitGlobalInstance
  PROVE  IInv'
<1> USE DEF IInv
<1>1. PICK i \in Ids : /\ Fresh(i)
                       /\ pg' = [pg EXCEPT ![i] = "created"]
                       /\ pendingIds' = pendingIds \cup {i}
                       /\ init_server_and_instance(i)
  BY DEF InitGlobalInstance
<1>2. /\ initLeft > 0 /\ initLeft' = initLeft - 1
      /\ UNCHANGED <<known, pendingPgs, lastTimeout, wait, watch, pdPrev, stateApi,
                     clean, faults, restarts>>
  BY DEF InitGlobalInstance
<1>3. /\ i \notin Deployed /\ i # wait /\ i # lastTimeout
      /\ pg' \in [Ids -> {"none", "pending", "created"}] /\ pg'[i] = "created"
      /\ \A j \in Ids \ {i} : pg'[j] = pg[j]
  BY <1>1 DEF Fresh, Deployed, Launching, TypeOK
<1>4. /\ HeldInv' /\ DeathsInv' /\ CountsInv' /\ PortsInv'
      /\ Deployed' = Deployed \cup {i}
      /\ inst' \in [Ids -> {"none", "creating", "alive"}]
      /\ srv' \in [Ids -> {"none", "creating", "alive", "serving"}]
      /\ port' \in [Ids -> Nat]
      /\ launch' \in [Ids -> {"none", "ready", "run", "up"}]
      /\ kind' \in [Ids -> Kinds] /\ inflight' \in [Kinds -> Nat]
      /\ offset' \in Nat /\ stored' \in Nat
  BY <1>1, <1>2, <1>3, LaunchKeeps
<1>5. TypeOK'
  <2>1. initLeft' \in Nat
    BY <1>2 DEF TypeOK
  <2> QED
    BY <1>1, <1>2, <1>3, <1>4, <2>1 DEF TypeOK
<1>6. AwaitInv'
  <2>1. Deployed \subseteq Ids
    BY DEF Deployed, Launching, TypeOK
  <2> QED
    BY <1>2, <1>3, <1>4, <2>1 DEF AwaitInv
<1>7. GroupsInv'
  BY <1>1, <1>2, <1>3 DEF GroupsInv, Groups
<1> QED
  BY <1>4, <1>5, <1>6, <1>7

\* A launch ends: the counter of its role goes down with the task.
LEMMA EndKeeps ==
  ASSUME IInv, NEW i \in Launching, EndLaunch(i), stateApi' = stateApi
  PROVE  /\ Launching' = Launching \ {i} /\ i \in Ids
         /\ launch' \in [Ids -> {"none", "ready", "run", "up"}]
         /\ inflight' \in [Kinds -> Nat]
         /\ UNCHANGED <<kind, offset, stored>>
         /\ known' \subseteq known \cup {i} => CountsInv'
<1> USE DEF IInv
<1>1. /\ i \in Ids /\ launch' = [launch EXCEPT ![i] = "none"]
      /\ inflight' = [inflight EXCEPT ![kind[i]] = @ - 1]
      /\ UNCHANGED <<kind, offset, stored>>
  BY DEF EndLaunch, Launching
<1>2. /\ Launching' = Launching \ {i}
      /\ launch' \in [Ids -> {"none", "ready", "run", "up"}]
  BY <1>1 DEF Launching, TypeOK
<1>3. PICK n \in Kinds : n = kind[i]
  BY <1>1 DEF TypeOK
<1>4. \A k \in Kinds : OfKind(Launching, k) \in SUBSET Ids /\ OfKind(Launching, k)' \in SUBSET Ids
  BY DEF OfKind, Launching
<1>5. /\ i \in OfKind(Launching, n)
      /\ OfKind(Launching, n)' = OfKind(Launching, n) \ {i}
      /\ \A k \in Kinds \ {n} : OfKind(Launching, k)' = OfKind(Launching, k)
  BY <1>1, <1>2, <1>3 DEF OfKind
<1>6. Cardinality(OfKind(Launching, n)') = Cardinality(OfKind(Launching, n)) - 1
  BY <1>3, <1>4, <1>5, IdSets
<1>7. \A k \in Kinds : /\ inflight[k] \in Nat
                       /\ inflight[k] >= Cardinality(OfKind(Launching, k))
                       /\ Cardinality(OfKind(Launching, k)) \in Nat
                       /\ Cardinality(OfKind(Launching, k)') \in Nat
  BY <1>4, IdSets DEF CountsInv, TypeOK
<1>8. /\ inflight'[n] = inflight[n] - 1
      /\ \A k \in Kinds \ {n} : inflight'[k] = inflight[k]
  BY <1>1, <1>3 DEF TypeOK
<1>9. inflight[n] - 1 \in Nat
  BY <1>6, <1>7
<1>10. inflight' \in [Kinds -> Nat]
  BY <1>1, <1>3, <1>9 DEF TypeOK
<1>11. known' \subseteq known \cup {i} => CountsInv'
  <2>1. \A k \in Kinds : inflight'[k] >= Cardinality(OfKind(Launching, k)')
    <3>1. inflight'[n] >= Cardinality(OfKind(Launching, n)')
      BY <1>6, <1>7, <1>8
    <3>2. \A k \in Kinds \ {n} : inflight'[k] >= Cardinality(OfKind(Launching, k)')
      BY <1>5, <1>7, <1>8
    <3> QED
      BY <3>1, <3>2
  <2>2. Steady => \A k \in Kinds : inflight'[k] = Cardinality(OfKind(Launching, k)')
    <3>1. Steady => inflight'[n] = Cardinality(OfKind(Launching, n)')
      BY <1>6, <1>7, <1>8 DEF CountsInv
    <3>2. Steady => \A k \in Kinds \ {n} : inflight'[k] = Cardinality(OfKind(Launching, k)')
      BY <1>5, <1>7, <1>8 DEF CountsInv
    <3> QED
      BY <3>1, <3>2
  <2>3. Steady /\ known' \subseteq known \cup {i} => known' \cap Launching' = {}
    BY <1>2 DEF CountsInv
  <2>4. Steady' <=> Steady
    BY DEF Steady
  <2> QED
    BY <2>1, <2>2, <2>3, <2>4 DEF CountsInv
<1> QED
  BY <1>1, <1>2, <1>10, <1>11

\* The instance of a launch is registered, whatever has happened to it.
LEMMA LaunchUpIInv ==
  ASSUME IInv, NEW i \in Ids, LaunchUp(i)
  PROVE  IInv'
<1> USE DEF IInv
<1>1. /\ EndLaunch(i) /\ i \in Launching
      /\ known' = known \cup {i} /\ pendingIds' = pendingIds \ {i}
      /\ pendingPgs' = pendingPgs \ {i}
      /\ UNCHANGED <<pg, inst, srv, port, lastTimeout, wait, watch, pdPrev, initLeft,
                     stateApi, clean, faults, restarts>>
  BY DEF LaunchUp, Launching, ray, loops
<1>2. /\ Launching' = Launching \ {i}
      /\ launch' \in [Ids -> {"none", "ready", "run", "up"}]
      /\ inflight' \in [Kinds -> Nat]
      /\ UNCHANGED <<kind, offset, stored>>
      /\ CountsInv'
  BY <1>1, EndKeeps
<1>3. Deployed' = Deployed
  BY <1>1, <1>2 DEF Deployed
<1>4. TypeOK'
  BY <1>1, <1>2 DEF TypeOK
<1>5. HeldInv' /\ DeathsInv' /\ AwaitInv' /\ PortsInv'
  BY <1>1, <1>2, <1>3 DEF HeldInv, DeathsInv, AwaitInv, PortsInv
<1>6. GroupsInv'
  BY <1>1 DEF GroupsInv, Groups
<1> QED
  BY <1>2, <1>4, <1>5, <1>6

\* A launch fails with its actor, and the Ray resources are cleared.
LEMMA LaunchFailsIInv ==
  ASSUME IInv, NEW i \in Ids, LaunchFails(i)
  PROVE  IInv'
<1> USE DEF IInv
<1>1. /\ EndLaunch(i) /\ i \in Launching
      /\ clean' = FALSE
      /\ UNCHANGED <<known, pendingIds, pendingPgs, lastTimeout, wait, watch, pdPrev,
                     initLeft, stateApi, faults, restarts>>
      /\ pg' = [j \in Ids |-> IF j = i THEN "none" ELSE pg[j]]
      /\ srv' = [j \in Ids |-> IF j = i THEN "none" ELSE srv[j]]
      /\ inst' = [j \in Ids |-> IF j = i THEN "none" ELSE inst[j]]
      /\ port' = [j \in Ids |-> IF j = i THEN 0 ELSE port[j]]
  BY DEF LaunchFails, Launching, mgr, loops, ClearRay, Reserve, Without
<1>2. /\ Launching' = Launching \ {i}
      /\ launch' \in [Ids -> {"none", "ready", "run", "up"}]
      /\ inflight' \in [Kinds -> Nat]
      /\ UNCHANGED <<kind, offset, stored>>
      /\ CountsInv'
  BY <1>1, EndKeeps
<1>3. Deployed' \subseteq Deployed
  BY <1>1, <1>2 DEF Deployed
<1>4. TypeOK'
  BY <1>1, <1>2 DEF TypeOK
<1>5. HeldInv' /\ DeathsInv' /\ PortsInv'
  BY <1>1, <1>2, <1>3 DEF HeldInv, DeathsInv, PortsInv
<1>6. AwaitInv'
  <2>1. Deployed \subseteq Ids
    BY DEF Deployed, Launching, TypeOK
  <2> QED
    BY <1>1, <1>3, <2>1 DEF AwaitInv
<1>7. GroupsInv'
  BY <1>1 DEF GroupsInv, Groups
<1> QED
  BY <1>2, <1>4, <1>5, <1>6, <1>7

\* The restarted Manager registers the Llumlets that live and reads the offset.
LEMMA RestartIInv ==
  ASSUME IInv, ManagerRestart
  PROVE  IInv'
<1> USE DEF IInv
<1>1. /\ \A i \in Ids : inst[i] # "creating"
      /\ known' = Connected /\ pendingIds' = {} /\ pendingPgs' = {}
      /\ launch' = [i \in Ids |-> "none"]
      /\ inflight' = [k \in Kinds |-> 0]
      /\ offset' = StoredOffset
      /\ lastTimeout' = NoId /\ wait' = NoId /\ watch' = {} /\ pdPrev' = {}
      /\ initLeft' = InitAgain /\ stateApi' = TRUE /\ clean' = FALSE
      /\ restarts' = restarts + 1
      /\ UNCHANGED <<pg, inst, srv, port, kind, stored, faults>>
  BY DEF ManagerRestart, ray
<1>2. Launching' = {} /\ Deployed' = Connected /\ Connected \subseteq Ids
  BY <1>1 DEF Launching, Deployed, Connected
<1>3. TypeOK'
  <2>1. initLeft' \in Nat /\ restarts' \in Nat /\ offset' \in Nat
    BY <1>1, DeploymentAssumption DEF TypeOK, InitAgain, StoredOffset
  <2> QED
    BY <1>1, <1>2, <2>1 DEF TypeOK
<1>4. HeldInv' /\ DeathsInv'
  BY <1>1, <1>2 DEF HeldInv, DeathsInv, Connected
<1>5. AwaitInv'
  BY <1>1, <1>2, DeploymentAssumption DEF AwaitInv
<1>6. CountsInv'
  <2>1. \A k \in Kinds : OfKind(Launching, k)' = {}
    BY <1>2 DEF OfKind
  <2>2. \A k \in Kinds : Cardinality(OfKind(Launching, k)') = 0
    BY <2>1, FS_EmptySet
  <2>3. \A k \in Kinds : inflight'[k] = 0
    BY <1>1
  <2> QED
    BY <1>2, <2>2, <2>3 DEF CountsInv
<1>7. PortsInv'
  BY <1>1 DEF PortsInv, StoredOffset
<1>8. GroupsInv'
  BY <1>1 DEF GroupsInv, TypeOK
<1> QED
  BY <1>3, <1>4, <1>5, <1>6, <1>7, <1>8

-------------------------------------------------------------------------------
(***************************************************************************)
(* The theorems                                                            *)
(***************************************************************************)

\* Every step preserves the invariant.
LEMMA NextIInv == IInv /\ [Next]_vars => IInv'
<1> SUFFICES ASSUME IInv, [Next]_vars PROVE IInv'
  OBVIOUS
<1>1. CASE ScaleUpPass
  BY <1>1, ScaleUpPassIInv
<1>2. CASE DeployGroup
  BY <1>2, DeployGroupIInv
<1>3. CASE InitGlobalInstance
  BY <1>3, InitGlobalIInv
<1>4. CASE \/ DeployAgain \/ WaitTimesOut \/ ScanDeployments \/ DisableStateApi
           \/ \E i \in Ids : LaunchReady(i)
  BY <1>4, LoopIInv
<1>5. CASE PdCheck \/ \E i \in Ids : PollDead(i) \/ WatchEnds(i)
  BY <1>5, ReconcileIInv
<1>6. CASE ManagerRestart
  BY <1>6, RestartIInv
<1>7. CASE \E i \in Ids : LaunchUp(i)
  BY <1>7, LaunchUpIInv
<1>8. CASE \E i \in Ids : LaunchFails(i)
  BY <1>8, LaunchFailsIInv
<1>9. CASE \E i \in Ids : \/ GroupCreated(i) \/ InstanceUp(i) \/ ServerUp(i)
                          \/ ServerRun(i) \/ InstanceDies(i) \/ ServerDies(i)
  BY <1>9, RayIInv
<1>10. CASE UNCHANGED vars
  BY <1>10 DEF vars, ray, mgr, lch, loops, IInv, TypeOK, HeldInv, DeathsInv, AwaitInv,
       CountsInv, PortsInv, GroupsInv, Deployed, Launching, Groups, OfKind, Steady
<1> QED
  BY <1>1, <1>2, <1>3, <1>4, <1>5, <1>6, <1>7, <1>8, <1>9, <1>10 DEF Next

\* The inductive invariant holds in every behaviour of the loops, the launches,
\* Ray and the restarts.
THEOREM DeploymentInvariant == Spec => []IInv
<1>1. Init => IInv
  BY InitIInv
<1>2. IInv /\ [Next]_vars => IInv'
  BY NextIInv
<1> QED
  BY <1>1, <1>2, PTL DEF Spec

\* The Launcher counts each instance once when at most one actor dies or is given
\* up, with the State API or without it.
THEOREM CountsExactAlways == MaxFaults <= 1 => (Spec => []CountsExact)
<1> SUFFICES ASSUME MaxFaults <= 1 PROVE Spec => []CountsExact
  OBVIOUS
<1>1. IInv => CountsExact
  BY DEF IInv, CountsInv, Steady, CountsExact
<1> QED
  BY <1>1, DeploymentInvariant, PTL

\* While the State API answers, the Launcher counts each instance once whatever
\* number of actors die, in whatever order launches end, fail and are scaled down.
CountsExactListed == stateApi => CountsExact

\* The counts with the State API, for any number of faults.
THEOREM CountsExactListedAlways == Spec => []CountsExactListed
<1>1. IInv => CountsExactListed
  BY DEF IInv, CountsInv, Steady, CountsExact, CountsExactListed
<1> QED
  BY <1>1, DeploymentInvariant, PTL

\* Two servers never listen on one port, across any number of restarts of the
\* Manager and deaths of servers.
THEOREM PortsUniqueAlways == Spec => []PortsUnique
<1>1. IInv => PortsUnique
  BY DEF IInv, PortsInv, PortsUnique
<1> QED
  BY <1>1, DeploymentInvariant, PTL

\* A pass of the scale-up loop that asks for a group leaves the cluster within
\* max_instances, when the State API lists the groups and when it was just lost.
LEMMA GroupRequested ==
  ASSUME IInv, ScaleUpPass, restarts = 0, \E i \in Ids : pg[i] = "none" /\ pg'[i] = "pending"
  PROVE  Cardinality(Groups') <= MaxInstances
<1> USE DEF IInv
<1>1. PICK r \in Resumable, listed \in {FALSE, stateApi} :
        \/ scale_down(StaleGroups(r, listed))
        \/ \E i \in Ids : /\ Capacity(r, listed) < MaxInstances
                          /\ ScaleDownAndReserve(StaleGroups(r, listed), {i})
  BY DEF ScaleUpPass
<1>2. ~scale_down(StaleGroups(r, listed))
  BY DEF scale_down, ScaleDownAndReserve, ClearRay, Reserve, Without
<1>3. PICK i \in Ids : /\ Capacity(r, listed) < MaxInstances
                       /\ ScaleDownAndReserve(StaleGroups(r, listed), {i})
  BY <1>1, <1>2
<1>4. Groups' \subseteq Groups \cup {i}
  BY <1>3 DEF ScaleDownAndReserve, ClearRay, Reserve, Without, Groups
<1>5. /\ Groups \in SUBSET Ids /\ Groups' \in SUBSET Ids /\ Groups \cup {i} \in SUBSET Ids
      /\ known \in SUBSET Ids /\ pendingIds \in SUBSET Ids
  BY DEF Groups, TypeOK
<1>6. Cardinality(Groups') <= Cardinality(Groups) + 1
  <2>1. /\ Cardinality(Groups') <= Cardinality(Groups \cup {i})
        /\ Cardinality(Groups) \in Nat /\ Cardinality(Groups') \in Nat
        /\ Cardinality(Groups \cup {i}) \in Nat
    BY <1>4, <1>5, IdSets
  <2>2. CASE i \in Groups
    <3>1. Groups \cup {i} = Groups
      BY <2>2
    <3>2. Cardinality(Groups \cup {i}) = Cardinality(Groups)
      BY <3>1, Zenon
    <3> QED
      BY <2>1, <3>2
  <2>3. CASE i \notin Groups
    <3>1. Cardinality(Groups \cup {i}) = Cardinality(Groups) + 1
      BY <1>5, <2>3, IdSets
    <3> QED
      BY <2>1, <3>1
  <2> QED
    BY <2>2, <2>3
<1>7. Cardinality(Groups) <= Capacity(r, listed) /\ Capacity(r, listed) \in Nat
  <2> DEFINE stale == StaleGroups(r, listed)
  <2>0. /\ known \ stale \in SUBSET Ids /\ pendingIds \ stale \in SUBSET Ids
        /\ Cardinality(known \ stale) \in Nat /\ Cardinality(pendingIds \ stale) \in Nat
        /\ Cardinality(Groups) \in Nat
    BY <1>5, IdSets
  <2>1. CASE listed
    BY <2>0, <2>1 DEF Capacity
  <2>2. CASE ~listed
    <3>1. stale = {}
      BY <2>2 DEF StaleGroups
    <3>2. Groups \subseteq known \cup pendingIds
      BY DEF GroupsInv
    <3>3. /\ IsFiniteSet(known) /\ IsFiniteSet(pendingIds)
          /\ IsFiniteSet(known \cap pendingIds) /\ known \cup pendingIds \in SUBSET Ids
          /\ Cardinality(known) \in Nat /\ Cardinality(pendingIds) \in Nat
          /\ Cardinality(known \cap pendingIds) \in Nat
      <4>1. known \cap pendingIds \in SUBSET Ids
        BY <1>5
      <4> QED
        BY <1>5, <4>1, IdSets
    <3>4. Cardinality(known \cup pendingIds)
            = Cardinality(known) + Cardinality(pendingIds) - Cardinality(known \cap pendingIds)
      BY <3>3, FS_Union
    <3>5. Cardinality(Groups) <= Cardinality(known \cup pendingIds)
      BY <1>5, <3>2, <3>3, IdSets
    <3>6. known \ stale = known /\ pendingIds \ stale = pendingIds
      BY <3>1
    <3>7. Capacity(r, listed) = IF 0 > Cardinality(known) + Cardinality(pendingIds)
                                THEN 0 ELSE Cardinality(known) + Cardinality(pendingIds)
      BY <2>2, <3>6 DEF Capacity
    <3> QED
      BY <2>0, <3>3, <3>4, <3>5, <3>7
  <2> QED
    BY <2>1, <2>2
<1>8. MaxInstances \in Nat /\ Cardinality(Groups') \in Nat /\ Cardinality(Groups) \in Nat
  BY <1>5, IdSets, DeploymentAssumption
<1> QED
  BY <1>3, <1>6, <1>7, <1>8

\* The scale-up loop never takes the cluster beyond max_instances.
THEOREM GroupsBoundedAlways == Spec => GroupsBounded
<1>1. ASSUME IInv, [Next]_vars, restarts = 0,
             \E i \in Ids : pg[i] = "none" /\ pg'[i] = "pending"
      PROVE  Cardinality(Groups') <= MaxInstances
  <2>1. ScaleUpPass
    BY <1>1 DEF Next, DeployGroup, DeployAgain, WaitTimesOut, InitGlobalInstance,
         ScanDeployments, PdCheck, DisableStateApi, ManagerRestart, LaunchReady, ServerRun,
         LaunchUp, LaunchFails, PollDead, WatchEnds, GroupCreated, InstanceUp, ServerUp,
         InstanceDies, ServerDies, vars, ray, scale_down, ScaleDownAndReserve, ClearRay,
         Reserve, Without, IInv, TypeOK
  <2> QED
    BY <1>1, <2>1, GroupRequested
<1>2. IInv /\ [Next]_vars =>
        [restarts = 0 /\ (\E i \in Ids : pg[i] = "none" /\ pg'[i] = "pending")
           => Cardinality(Groups') <= MaxInstances]_vars
  BY <1>1
<1> QED
  BY <1>2, DeploymentInvariant, PTL DEF Spec, GroupsBounded

-------------------------------------------------------------------------------
(***************************************************************************)
(* The ratio of the roles: a round has RP prefill and RD decode instances. *)
(***************************************************************************)

\* p prefill and d decode instances: b full rounds of the ratio, and a last one
\* that is under way.
Rounds(p, d, b, u, v) ==
  /\ p = b * RP + u /\ d = b * RD + v
  /\ u <= RP /\ v <= RD /\ (u < RP \/ v < RD)

InRounds(p, d) == \E b, u, v \in Nat : Rounds(p, d, b, u, v)

\* Division with remainder is unique.
LEMMA Quotient ==
  ASSUME NEW n \in Nat \ {0}, NEW a \in Nat, NEW r \in 0 .. n - 1
  PROVE  (a * n + r) \div n = a /\ (a * n + r) % n = r
<1>. DEFINE x == a * n + r  q == x \div n  m == x % n
<1>1. x \in Nat
  OBVIOUS
<1>2. q \in Nat /\ m \in 0 .. n - 1 /\ x = n * q + m
  <2>. HIDE DEF x
  <2>. QED
    BY <1>1
<1>3. n * q + m = n * a + r
  BY <1>2
<1>. HIDE DEF q, m
<1>4. q = a /\ m = r
  BY <1>2, <1>3
<1>. QED
  BY <1>4 DEF q, m

\* The full rounds of one role.
LEMMA FullRounds ==
  ASSUME NEW n \in Nat \ {0}, NEW b \in Nat, NEW u \in 0 .. n
  PROVE  (b * n + u) \div n = IF u < n THEN b ELSE b + 1
<1>1. CASE u < n
  <2>1. u \in 0 .. n - 1
    BY <1>1
  <2>. QED
    BY <1>1, <2>1, Quotient
<1>2. CASE u = n
  <2>1. b * n + u = (b + 1) * n + 0 /\ b + 1 \in Nat /\ 0 \in 0 .. n - 1
    BY <1>2
  <2>2. ((b + 1) * n + 0) \div n = b + 1
    BY <2>1, Quotient
  <2>. QED
    BY <1>2, <2>1, <2>2
<1>. QED
  BY <1>1, <1>2

\* _get_next_instance_type completes the round that is under way.
LEMMA NextInRound ==
  ASSUME NEW p \in Nat, NEW d \in Nat, NEW b \in Nat, NEW u \in Nat, NEW v \in Nat,
         Rounds(p, d, b, u, v)
  PROVE  /\ NextKind(p, d) \in Kinds
         /\ NextKind(p, d) = "prefill" => u < RP
         /\ NextKind(p, d) = "decode" => v < RD
<1>0. RP \in Nat \ {0} /\ RD \in Nat \ {0}
  BY DeploymentAssumption
<1>1. /\ p = b * RP + u /\ d = b * RD + v /\ u <= RP /\ v <= RD
      /\ u < RP \/ v < RD
  BY DEF Rounds
<1>. DEFINE x == p \div RP  y == d \div RD
            base == IF x < y THEN x ELSE y
            restP == p - base * RP  restD == d - base * RD
            gap(n) == Abs(n - (RP - RD))
<1>2. base = b
  <2>1. u \in 0 .. RP /\ v \in 0 .. RD
    BY <1>0, <1>1
  <2>2. x = IF u < RP THEN b ELSE b + 1
    BY <1>0, <1>1, <2>1, FullRounds
  <2>3. y = IF v < RD THEN b ELSE b + 1
    BY <1>0, <1>1, <2>1, FullRounds
  <2>. HIDE DEF x, y
  <2>. QED
    BY <1>1, <2>2, <2>3
<1>3. restP = u /\ restD = v
  <2>. HIDE DEF base
  <2>1. b * RP \in Nat /\ b * RD \in Nat
    BY <1>0
  <2>2. restP = p - b * RP /\ restD = d - b * RD
    BY <1>2
  <2>. QED
    BY <1>1, <2>1, <2>2
<1>4. p = 0 => u = 0
  <2>1. b * RP \in Nat
    BY <1>0
  <2>. QED
    BY <1>1, <2>1
<1>5. d = 0 => v = 0
  <2>1. b * RD \in Nat
    BY <1>0
  <2>. QED
    BY <1>1, <2>1
<1>6. NextKind(p, d) =
        CASE p = 0 -> "prefill"
          [] p # 0 /\ d = 0 -> "decode"
          [] OTHER -> IF \/ restP + restD = 0
                         \/ gap(restP + 1 - restD) <= gap(restP - (restD + 1))
                      THEN "prefill" ELSE "decode"
  BY DEF NextKind
<1>7. gap(u + 1 - v) <= gap(u - (v + 1)) <=> u - v <= RP - RD
  BY <1>0 DEF Abs
<1>. HIDE DEF restP, restD, gap
<1>8. NextKind(p, d) =
        IF p = 0 \/ (d # 0 /\ (u + v = 0 \/ u - v <= RP - RD)) THEN "prefill" ELSE "decode"
  BY <1>3, <1>6, <1>7
<1>. QED
  BY <1>0, <1>1, <1>4, <1>5, <1>8 DEF Kinds

\* The launch of the role that it names leads to the next place in the rounds.
LEMMA NextInRounds ==
  ASSUME NEW p \in Nat, NEW d \in Nat, InRounds(p, d)
  PROVE  /\ NextKind(p, d) = "prefill" => InRounds(p + 1, d)
         /\ NextKind(p, d) = "decode" => InRounds(p, d + 1)
<1>0. RP \in Nat \ {0} /\ RD \in Nat \ {0}
  BY DeploymentAssumption
<1>1. PICK b \in Nat, u \in Nat, v \in Nat : Rounds(p, d, b, u, v)
  BY DEF InRounds
<1>2. /\ p = b * RP + u /\ d = b * RD + v /\ u <= RP /\ v <= RD
      /\ u < RP \/ v < RD
      /\ b * RP \in Nat /\ b * RD \in Nat
      /\ (b + 1) * RP = b * RP + RP /\ (b + 1) * RD = b * RD + RD
  BY <1>0, <1>1 DEF Rounds
<1>3. ASSUME NEW m \in Nat, NEW n \in Nat, NEW s \in Nat, NEW t \in Nat,
             m = b * RP + s, n = b * RD + t, s <= RP, t <= RD
      PROVE  InRounds(m, n)
  <2>1. CASE s < RP \/ t < RD
    <3>1. Rounds(m, n, b, s, t)
      BY <1>3, <2>1 DEF Rounds
    <3>. QED
      BY <3>1 DEF InRounds
  <2>2. CASE s = RP /\ t = RD
    <3>1. Rounds(m, n, b + 1, 0, 0)
      BY <1>0, <1>2, <1>3, <2>2 DEF Rounds
    <3>. QED
      BY <3>1 DEF InRounds
  <2>. QED
    BY <1>0, <1>3, <2>1, <2>2
<1>4. ASSUME NextKind(p, d) = "prefill" PROVE InRounds(p + 1, d)
  <2>1. u < RP
    BY <1>1, <1>4, NextInRound
  <2>2. /\ p + 1 \in Nat /\ u + 1 \in Nat /\ p + 1 = b * RP + (u + 1)
        /\ u + 1 <= RP
    BY <1>0, <1>2, <2>1
  <2>. QED
    BY <1>2, <1>3, <2>2
<1>5. ASSUME NextKind(p, d) = "decode" PROVE InRounds(p, d + 1)
  <2>1. v < RD
    BY <1>1, <1>5, NextInRound
  <2>2. /\ d + 1 \in Nat /\ v + 1 \in Nat /\ d + 1 = b * RD + (v + 1)
        /\ v + 1 <= RD
    BY <1>0, <1>2, <2>1
  <2>. QED
    BY <1>2, <1>3, <2>2
<1>. QED
  BY <1>4, <1>5

\* A product of three numbers.
LEMMA Exchange ==
  ASSUME NEW a \in Nat, NEW m \in Nat, NEW n \in Nat
  PROVE  (a * m) * n = (a * n) * m
  OBVIOUS

\* After full rounds the roles have the ratio.
LEMMA RoundsRatio ==
  ASSUME NEW p \in Nat, NEW d \in Nat, InRounds(p, d), (p + d) % (RP + RD) = 0
  PROVE  p * RD = d * RP
<1>0. RP \in Nat \ {0} /\ RD \in Nat \ {0} /\ RP + RD \in Nat \ {0}
  BY DeploymentAssumption
<1>1. PICK b \in Nat, u \in Nat, v \in Nat : Rounds(p, d, b, u, v)
  BY DEF InRounds
<1>2. /\ p = b * RP + u /\ d = b * RD + v
      /\ b * RP \in Nat /\ b * RD \in Nat /\ u + v \in 0 .. (RP + RD) - 1
  BY <1>0, <1>1 DEF Rounds
<1>3. b * (RP + RD) = b * RP + b * RD
  BY <1>0
<1>4. p + d = b * (RP + RD) + (u + v)
  BY <1>2, <1>3
<1>5. (b * (RP + RD) + (u + v)) % (RP + RD) = u + v
  BY <1>0, <1>2, Quotient
<1>6. u = 0 /\ v = 0
  BY <1>4, <1>5
<1>7. p = b * RP /\ d = b * RD
  BY <1>2, <1>6
<1>. QED
  BY <1>0, <1>7, Exchange

\* Until an instance is lost, every deployed one has its Llumlet and is counted
\* once, and the numbers of the two roles lie in the rounds.
CleanInv ==
  clean =>
    /\ \A i \in Deployed : inst[i] # "none"
    /\ known \cap Launching = {}
    /\ \A k \in Kinds : inflight[k] = Cardinality(OfKind(Launching, k))
    /\ InRounds(Cardinality(OfKind(Deployed, "prefill")),
                Cardinality(OfKind(Deployed, "decode")))

\* Nothing is deployed at first.
LEMMA InitClean == Init => CleanInv
<1> SUFFICES ASSUME Init PROVE CleanInv
  OBVIOUS
<1>1. Launching = {} /\ Deployed = {} /\ known = {} /\ \A k \in Kinds : inflight[k] = 0
  BY DEF Init, Launching, Deployed
<1>2. \A k \in Kinds : OfKind(Launching, k) = {} /\ OfKind(Deployed, k) = {}
  BY <1>1 DEF OfKind
<1>3. \A k \in Kinds : /\ Cardinality(OfKind(Launching, k)) = 0
                       /\ Cardinality(OfKind(Deployed, k)) = 0
  BY <1>2, FS_EmptySet
<1>4. InRounds(0, 0)
  <2>1. Rounds(0, 0, 0, 0, 0)
    BY DeploymentAssumption DEF Rounds
  <2> QED
    BY <2>1 DEF InRounds
<1>5. "prefill" \in Kinds /\ "decode" \in Kinds
  BY DEF Kinds
<1> QED
  BY <1>1, <1>3, <1>4, <1>5 DEF CleanInv

\* A step that deploys and loses nothing.
LEMMA CleanKept ==
  ASSUME CleanInv, UNCHANGED <<kind, inflight>>, Launching' = Launching,
         clean' => clean /\ known' = known /\ \A i \in Deployed : inst'[i] # "none"
  PROVE  CleanInv'
<1> SUFFICES ASSUME clean' PROVE CleanInv'
  BY DEF CleanInv
<1>1. Deployed' = Deployed
  BY DEF Deployed
<1>2. \A k : OfKind(Launching, k)' = OfKind(Launching, k) /\ OfKind(Deployed, k)' = OfKind(Deployed, k)
  BY <1>1 DEF OfKind
<1> QED
  BY <1>1, <1>2 DEF CleanInv

\* scale_down of ids that are not deployed, or a deployed instance is lost.
LEMMA CleanScaleDown ==
  ASSUME IInv, CleanInv, NEW S \in SUBSET Ids, NEW new \in SUBSET Ids,
         ScaleDownAndReserve(S, new), UNCHANGED lch
  PROVE  CleanInv'
<1>1. /\ UNCHANGED <<launch, kind, inflight>>
      /\ inst' = [i \in Ids |-> IF i \in S THEN "none" ELSE inst[i]]
      /\ known' = known \ S
      /\ clean' = (clean /\ S \cap (known \cup Launching) = {})
  BY DEF ScaleDownAndReserve, ClearRay, Without, lch
<1>2. Launching' = Launching /\ Deployed \subseteq Ids
  BY <1>1 DEF Launching, Deployed, IInv, TypeOK
<1>3. clean' => clean /\ known' = known /\ \A i \in Deployed : inst'[i] # "none"
  BY <1>1, <1>2 DEF CleanInv, Deployed
<1> QED
  BY <1>1, <1>2, <1>3, CleanKept

\* A registered instance and a launch are counted apart.
LEMMA DeployedCount ==
  ASSUME IInv, known \cap Launching = {}, NEW k \in Kinds
  PROVE  Cardinality(OfKind(Deployed, k)) =
           Cardinality(OfKind(Launching, k)) + Cardinality(OfKind(known, k))
<1> DEFINE L == OfKind(Launching, k)  K == OfKind(known, k)
<1>1. L \in SUBSET Ids /\ K \in SUBSET Ids /\ L \cap K = {}
  BY DEF OfKind, Launching, IInv, TypeOK
<1>2. OfKind(Deployed, k) = L \cup K
  BY DEF OfKind, Deployed
<1> HIDE DEF L, K
<1>3. IsFiniteSet(L) /\ IsFiniteSet(K) /\ Cardinality(L) \in Nat /\ Cardinality(K) \in Nat
  BY <1>1, IdSets
<1>4. Cardinality(L \cup K) = Cardinality(L) + Cardinality(K) - Cardinality(L \cap K)
  BY <1>3, FS_Union
<1>5. Cardinality(L \cap K) = 0
  BY <1>1, FS_EmptySet
<1>6. Cardinality(OfKind(Deployed, k)) = Cardinality(L) + Cardinality(K)
  BY <1>2, <1>3, <1>4, <1>5
<1> QED
  BY <1>6 DEF L, K

\* init_server_and_instance takes the role that the rounds want next.
LEMMA LaunchClean ==
  ASSUME IInv, CleanInv, NEW i \in Ids, init_server_and_instance(i),
         UNCHANGED <<known, clean>>
  PROVE  CleanInv'
<1> SUFFICES ASSUME clean PROVE CleanInv'
  BY DEF CleanInv
<1> DEFINE P == Cardinality(OfKind(Deployed, "prefill"))
           D == Cardinality(OfKind(Deployed, "decode"))
<1>0. /\ inst[i] = "none" /\ inst' = [inst EXCEPT ![i] = "creating"]
      /\ kind' = [kind EXCEPT ![i] = NextInstanceType]
      /\ inflight' = [inflight EXCEPT ![NextInstanceType] = @ + 1]
      /\ launch' = [launch EXCEPT ![i] = "ready"]
      /\ inst \in [Ids -> {"none", "creating", "alive"}] /\ kind \in [Ids -> Kinds]
      /\ inflight \in [Kinds -> Nat]
      /\ launch \in [Ids -> {"none", "ready", "run", "up"}] /\ known \subseteq Ids
      /\ Launching \subseteq Ids /\ Deployed \subseteq Ids
  BY DEF init_server_and_instance, IInv, TypeOK, Launching, Deployed
<1>1. /\ \A j \in Deployed : inst[j] # "none"
      /\ known \cap Launching = {} /\ i \notin Deployed
      /\ \A k \in Kinds : inflight[k] = Cardinality(OfKind(Launching, k))
      /\ InRounds(P, D)
  BY <1>0 DEF CleanInv
<1>2. \A k \in Kinds : Cardinality(OfKind(Deployed, k)) =
                        inflight[k] + Cardinality(OfKind(known, k))
  BY <1>1, DeployedCount
<1>3. "prefill" \in Kinds /\ "decode" \in Kinds
  BY DEF Kinds
<1>4. NextInstanceType = NextKind(P, D)
  BY <1>2, <1>3 DEF NextInstanceType
<1>5. \A k \in Kinds : /\ OfKind(Deployed, k) \in SUBSET Ids
                       /\ OfKind(Launching, k) \in SUBSET Ids
                       /\ Cardinality(OfKind(Deployed, k)) \in Nat
                       /\ i \notin OfKind(Deployed, k) /\ i \notin OfKind(Launching, k)
  <2>1. \A k \in Kinds : /\ OfKind(Deployed, k) \in SUBSET Ids
                         /\ OfKind(Launching, k) \in SUBSET Ids
                         /\ i \notin OfKind(Deployed, k) /\ i \notin OfKind(Launching, k)
    BY <1>0, <1>1 DEF OfKind, Deployed
  <2> QED
    BY <2>1, IdSets
<1>6. PICK n \in Kinds : n = NextInstanceType
  BY NextRole
<1>7. Launching' = Launching \cup {i} /\ Deployed' = Deployed \cup {i}
  BY <1>0 DEF Launching, Deployed
<1>8. kind'[i] = n /\ \A j \in Ids \ {i} : kind'[j] = kind[j]
  BY <1>0, <1>6
<1>9. /\ OfKind(Deployed, n)' = OfKind(Deployed, n) \cup {i}
      /\ OfKind(Launching, n)' = OfKind(Launching, n) \cup {i}
      /\ \A k \in Kinds \ {n} : /\ OfKind(Deployed, k)' = OfKind(Deployed, k)
                                /\ OfKind(Launching, k)' = OfKind(Launching, k)
  <2>1. i \notin Launching /\ i \notin Deployed
    BY <1>1 DEF Deployed
  <2> QED
    BY <1>0, <1>7, <1>8, <2>1 DEF OfKind
<1>10. /\ Cardinality(OfKind(Deployed, n)') = Cardinality(OfKind(Deployed, n)) + 1
       /\ Cardinality(OfKind(Launching, n)') = Cardinality(OfKind(Launching, n)) + 1
  BY <1>5, <1>6, <1>9, IdSets
<1>11. \A k \in Kinds : inflight'[k] = Cardinality(OfKind(Launching, k)')
  <2>1. inflight'[n] = inflight[n] + 1 /\ \A k \in Kinds \ {n} : inflight'[k] = inflight[k]
    BY <1>0, <1>6
  <2>2. inflight'[n] = Cardinality(OfKind(Launching, n)')
    BY <1>1, <1>6, <1>10, <2>1
  <2>3. \A k \in Kinds \ {n} : inflight'[k] = Cardinality(OfKind(Launching, k)')
    BY <1>1, <1>9, <2>1
  <2> QED
    BY <2>2, <2>3
<1>12. \A j \in Deployed' : inst'[j] # "none"
  BY <1>0, <1>1, <1>7
<1>13. known' \cap Launching' = {}
  BY <1>1, <1>7 DEF Deployed
<1>14. InRounds(Cardinality(OfKind(Deployed, "prefill")'), Cardinality(OfKind(Deployed, "decode")'))
  <2>1. P \in Nat /\ D \in Nat
    BY <1>3, <1>5
  <2>2. CASE n = "prefill"
    <3>1. /\ Cardinality(OfKind(Deployed, "prefill")') = P + 1
          /\ OfKind(Deployed, "decode")' = OfKind(Deployed, "decode")
      BY <1>3, <1>9, <1>10, <2>2
    <3>2. NextKind(P, D) = "prefill"
      BY <1>4, <1>6, <2>2
    <3> HIDE DEF P, D
    <3>3. InRounds(P + 1, D)
      BY <1>1, <2>1, <3>2, NextInRounds
    <3> QED
      BY <3>1, <3>3 DEF P, D
  <2>3. CASE n = "decode"
    <3>1. /\ Cardinality(OfKind(Deployed, "decode")') = D + 1
          /\ OfKind(Deployed, "prefill")' = OfKind(Deployed, "prefill")
      BY <1>3, <1>9, <1>10, <2>3
    <3>2. NextKind(P, D) = "decode"
      BY <1>4, <1>6, <2>3
    <3> HIDE DEF P, D
    <3>3. InRounds(P, D + 1)
      BY <1>1, <2>1, <3>2, NextInRounds
    <3> QED
      BY <3>1, <3>3 DEF P, D
  <2> QED
    BY <1>6, <2>2, <2>3 DEF Kinds
<1> QED
  BY <1>11, <1>12, <1>13, <1>14 DEF CleanInv

\* A launch that ends with a registered instance.
LEMMA LaunchUpClean ==
  ASSUME IInv, CleanInv, NEW i \in Ids, LaunchUp(i)
  PROVE  CleanInv'
<1> SUFFICES ASSUME clean' PROVE CleanInv'
  BY DEF CleanInv
<1>0. /\ i \in Launching /\ known' = known \cup {i} /\ clean /\ UNCHANGED <<kind, inst>>
      /\ launch' = [launch EXCEPT ![i] = "none"]
      /\ inflight' = [inflight EXCEPT ![kind[i]] = @ - 1]
      /\ launch \in [Ids -> {"none", "ready", "run", "up"}] /\ kind \in [Ids -> Kinds]
      /\ inflight \in [Kinds -> Nat]
  BY DEF LaunchUp, EndLaunch, Launching, ray, IInv, TypeOK
<1>1. Launching' = Launching \ {i} /\ Deployed' = Deployed
  BY <1>0 DEF Launching, Deployed
<1>2. \A k : OfKind(Deployed, k)' = OfKind(Deployed, k)
  BY <1>0, <1>1 DEF OfKind
<1>3. PICK n \in Kinds : n = kind[i]
  BY <1>0
<1>4. /\ i \in OfKind(Launching, n) /\ OfKind(Launching, n) \in SUBSET Ids
      /\ OfKind(Launching, n)' = OfKind(Launching, n) \ {i}
      /\ \A k \in Kinds \ {n} : OfKind(Launching, k)' = OfKind(Launching, k)
  BY <1>0, <1>1, <1>3 DEF OfKind, Launching
<1>5. Cardinality(OfKind(Launching, n)') = Cardinality(OfKind(Launching, n)) - 1
  BY <1>4, IdSets
<1>6. inflight'[n] = inflight[n] - 1 /\ \A k \in Kinds \ {n} : inflight'[k] = inflight[k]
  BY <1>0, <1>3
<1>7. \A k \in Kinds : inflight[k] = Cardinality(OfKind(Launching, k))
  BY <1>0 DEF CleanInv
<1>8. inflight'[n] = Cardinality(OfKind(Launching, n)')
  BY <1>3, <1>5, <1>6, <1>7
<1>9. \A k \in Kinds \ {n} : inflight'[k] = Cardinality(OfKind(Launching, k)')
  BY <1>4, <1>6, <1>7
<1>10. known' \cap Launching' = {}
  BY <1>0, <1>1 DEF CleanInv
<1> QED
  BY <1>0, <1>1, <1>2, <1>8, <1>9, <1>10 DEF CleanInv

\* Every step keeps the rounds, or an instance is lost.
LEMMA NextClean == IInv /\ CleanInv /\ [Next]_vars => CleanInv'
<1> SUFFICES ASSUME IInv, CleanInv, [Next]_vars PROVE CleanInv'
  OBVIOUS
<1>0. Deployed \subseteq Ids
  BY DEF IInv, TypeOK, Deployed, Launching
<1>1. CASE ScaleUpPass
  <2>1. PICK r \in Resumable, listed \in {FALSE, stateApi} :
          \/ scale_down(StaleGroups(r, listed))
          \/ \E i \in Ids : ScaleDownAndReserve(StaleGroups(r, listed), {i})
    BY <1>1 DEF ScaleUpPass
  <2>2. PICK new \in SUBSET Ids : ScaleDownAndReserve(StaleGroups(r, listed), new)
    BY <2>1 DEF scale_down
  <2>3. StaleGroups(r, listed) \in SUBSET Ids /\ UNCHANGED lch
    BY <1>1 DEF StaleGroups, PendingGroups, ScaleUpPass
  <2> QED
    BY <2>2, <2>3, CleanScaleDown
<1>2. CASE DeployGroup
  <2>1. wait \in Ids /\ init_server_and_instance(wait) /\ UNCHANGED <<known, clean>>
    BY <1>2 DEF DeployGroup, mgr
  <2> QED
    BY <2>1, LaunchClean
<1>3. CASE InitGlobalInstance
  <2>1. PICK i \in Ids : init_server_and_instance(i)
    BY <1>3 DEF InitGlobalInstance
  <2>2. UNCHANGED <<known, clean>>
    BY <1>3 DEF InitGlobalInstance
  <2> QED
    BY <2>1, <2>2, LaunchClean
<1>4. CASE \/ DeployAgain \/ WaitTimesOut \/ ScanDeployments \/ DisableStateApi
           \/ \E i \in Ids : LaunchReady(i)
  <2>1. UNCHANGED <<inst, clean, known, kind, inflight>> /\ Launching' = Launching
    <3>1. CASE \E i \in Ids : LaunchReady(i)
      BY <3>1 DEF LaunchReady, ray, mgr, IInv, TypeOK, Launching
    <3>2. CASE DeployAgain \/ WaitTimesOut
      BY <3>2 DEF DeployAgain, WaitTimesOut, ray, mgr, lch, Launching
    <3>3. CASE ScanDeployments \/ DisableStateApi
      BY <3>3 DEF ScanDeployments, DisableStateApi, ray, mgr, lch, Launching
    <3> QED
      BY <1>4, <3>1, <3>2, <3>3
  <2> QED
    BY <2>1, CleanKept DEF CleanInv
<1>5. CASE PdCheck \/ \E i \in Ids : PollDead(i) \/ WatchEnds(i)
  <2>1. /\ UNCHANGED lch
        /\ (\E S \in SUBSET Ids : scale_down(S)) \/ UNCHANGED <<ray, mgr, clean>>
    BY <1>5 DEF PdCheck, PollDead, WatchEnds, OfKind, IInv, TypeOK
  <2>2. CASE \E S \in SUBSET Ids : scale_down(S)
    <3>1. PICK S \in SUBSET Ids : ScaleDownAndReserve(S, {})
      BY <2>2 DEF scale_down
    <3> QED
      BY <2>1, <3>1, CleanScaleDown
  <2>3. CASE UNCHANGED <<ray, mgr, clean>>
    <3>1. UNCHANGED <<inst, clean, known, kind, inflight>> /\ Launching' = Launching
      BY <2>1, <2>3 DEF ray, mgr, lch, Launching
    <3> QED
      BY <3>1, CleanKept DEF CleanInv
  <2> QED
    BY <2>1, <2>2, <2>3
<1>6. CASE ManagerRestart \/ \E i \in Ids : LaunchFails(i) \/ InstanceDies(i) \/ ServerDies(i)
  <2>1. clean' = FALSE
    BY <1>6 DEF ManagerRestart, LaunchFails, InstanceDies, ServerDies
  <2> QED
    BY <2>1 DEF CleanInv
<1>7. CASE \E i \in Ids : LaunchUp(i)
  BY <1>7, LaunchUpClean
<1>8. CASE \E i \in Ids : GroupCreated(i) \/ InstanceUp(i) \/ ServerUp(i) \/ ServerRun(i)
  <2>1. UNCHANGED <<clean, known, kind, inflight>> /\ Launching' = Launching
    BY <1>8 DEF GroupCreated, InstanceUp, ServerUp, ServerRun, mgr, lch, Launching, IInv, TypeOK
  <2>2. \A j \in Ids : inst[j] # "none" => inst'[j] # "none"
    BY <1>8 DEF GroupCreated, InstanceUp, ServerUp, ServerRun, ray, IInv, TypeOK
  <2> QED
    BY <1>0, <2>1, <2>2, CleanKept DEF CleanInv
<1>9. CASE UNCHANGED vars
  <2>1. UNCHANGED <<inst, clean, known, kind, inflight>> /\ Launching' = Launching
    BY <1>9 DEF vars, ray, mgr, lch, Launching
  <2> QED
    BY <2>1, CleanKept DEF CleanInv
<1> QED
  BY <1>1, <1>2, <1>3, <1>4, <1>5, <1>6, <1>7, <1>8, <1>9 DEF Next

\* However launches overlap, every RP + RD instances that were launched and not
\* lost have RP of the prefill and RD of the decode role, for every ratio.
THEOREM RatioKeptAlways == Spec => []RatioKept
<1>1. Init => CleanInv
  BY InitClean
<1>2. IInv /\ CleanInv /\ [Next]_vars => CleanInv'
  BY NextClean
<1>3. IInv /\ CleanInv => RatioKept
  <2> DEFINE P == OfKind(Deployed, "prefill")  D == OfKind(Deployed, "decode")
  <2> SUFFICES ASSUME IInv, CleanInv, clean, Cardinality(P \cup D) % (RP + RD) = 0
               PROVE  Cardinality(P) * RD = Cardinality(D) * RP
    BY DEF RatioKept, Deployed
  <2>1. P \in SUBSET Ids /\ D \in SUBSET Ids /\ P \cap D = {}
    BY DEF OfKind, Deployed, Launching, IInv, TypeOK
  <2>2. InRounds(Cardinality(P), Cardinality(D))
    BY DEF CleanInv
  <2> HIDE DEF P, D
  <2>3. /\ IsFiniteSet(P) /\ IsFiniteSet(D)
        /\ Cardinality(P) \in Nat /\ Cardinality(D) \in Nat
    BY <2>1, IdSets
  <2>4. Cardinality(P \cup D) = Cardinality(P) + Cardinality(D) - Cardinality(P \cap D)
    BY <2>3, FS_Union
  <2>5. Cardinality(P \cap D) = 0
    BY <2>1, FS_EmptySet
  <2>6. Cardinality(P \cup D) = Cardinality(P) + Cardinality(D)
    BY <2>3, <2>4, <2>5
  <2>7. (Cardinality(P) + Cardinality(D)) % (RP + RD) = 0
    BY <2>6
  <2> QED
    BY <2>2, <2>3, <2>7, RoundsRatio
<1> QED
  BY <1>1, <1>2, <1>3, DeploymentInvariant, PTL DEF Spec
=============================================================================
