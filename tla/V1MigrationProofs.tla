-------------------------- MODULE V1MigrationProofs --------------------------
(***************************************************************************)
(* What the true KV migration of V1 guarantees, proved for any number of   *)
(* instances, requests, tasks, failing calls and crashes.                  *)
(***************************************************************************)
EXTENDS V1Migration, TLAPS

----------------------------------------------------------------------------
(***************************************************************************)
(* The inductive invariant                                                 *)
(***************************************************************************)

\* Where a task has no request yet; where it has frozen it, and not yet
\* cleaned up or committed it at the source.
Unselected == {"free", "ready", "select"}
Before == PrecopyCalls \cup {"precopyClean", "prepareOut", "retry"}
Importing == {"prepareIn", "transfer", "commitIn"}
Committing == {"register", "commitOut"}

\* The local variables of a task and the manager's v1_migrating_requests.
TaskInv ==
  /\ \A t \in Task :
       /\ pc[t] # "free" => src[t] \in Inst /\ dst[t] \in Inst /\ src[t] # dst[t]
       /\ pc[t] \in Unselected <=> req[t] = NoReq
       /\ req[t] # NoReq => /\ req[t] \in migrating /\ epoch[req[t]] > 0
                            /\ req[t] \in born
       /\ pc[t] = "retry" => attempt[t] < MaxAttempts
       /\ pc[t] \in Unselected => ~skip[t]
  /\ \A r \in migrating : \E t \in Task : req[t] = r

\* Before its first dispatch no engine knows a request.
NewInv ==
  \A r \in Req : r \notin born => \A i \in Inst : core[i][r] = "none"

\* A dead instance holds nothing, and each death is a fault; so is each clean-up
\* that failed.
DeadInv ==
  /\ \A i \in Inst : ~alive[i] => faults > 0 /\ \A r \in Req : core[i][r] = "none"
  /\ AllAlive => victims = {}
  /\ unclean # {} => faults > 0
  /\ ~AllAlive /\ unclean # {} => faults > 1

\* What a task has frozen has the snapshot of its epoch.
SnapInv ==
  \A t \in Task : req[t] # NoReq /\ core[src[t]][req[t]] = "frozen"
                    => snap[src[t]][req[t]] = epoch[req[t]]

\* Freezing and importing end with the task that did it, or with its clean-up.
FrozenInv ==
  AllAlive => \A i \in Inst, r \in Req :
    core[i][r] = "frozen" /\ <<i, r>> \notin unclean =>
      \E t \in Task : /\ req[t] = r /\ src[t] = i
                      /\ \/ pc[t] \in Importing \cup Committing
                         \/ pc[t] = "cleanup" /\ "abortOut" \in pending[t]
ImportInv ==
  AllAlive => \A i \in Inst, r \in Req :
    core[i][r] \in {"importing", "import_ready"} /\ <<i, r>> \notin unclean
      /\ snap[i][r] = 0 =>
      \E t \in Task : /\ req[t] = r /\ dst[t] = i
                      /\ \/ pc[t] \in {"transfer", "commitIn"}
                         \/ pc[t] = "cleanup" /\ "abortIn" \in pending[t]

\* A request with a failed clean-up may have two copies that run.
Messy(r) == \E i \in Inst : <<i, r>> \in unclean

\* The sides of a task that migrates a request which is not over.
Kept(r) == r \in Req \ (over \cup victims)
SidesInv(t) ==
  LET s == core[src[t]][req[t]]  d == core[dst[t]][req[t]] IN
  /\ pc[t] \in Before \cup {"cleanup"} => s \in {"running", "frozen"}
  /\ pc[t] \in Importing => s = "frozen"
  /\ pc[t] \in Committing => d = "running" /\ (alive[src[t]] => s = "frozen")
  /\ pc[t] = "finishOut" => d = "running" /\ s \notin {"running", "frozen"}
  /\ ~Messy(req[t]) =>
       /\ pc[t] \in Before => s = "running" /\ d # "running"
       /\ pc[t] \in Importing => d # "running"
       /\ pc[t] = "cleanup" =>
            /\ s = "frozen" => "abortOut" \in pending[t]
            /\ d = "running" => faults > 0 /\ "abortReq" \in pending[t]
       /\ \A i \in Inst \ {src[t], dst[t]} : core[i][req[t]] # "running"
Sheltered == AllAlive \/ MaxFaults <= 1
KeptInv ==
  Sheltered =>
    /\ \A r \in born : Kept(r) => \E i \in Inst : core[i][r] \in {"running", "frozen"}
    /\ \A r \in Req \ migrating, i, j \in Inst :
         Kept(r) /\ ~Messy(r) /\ core[i][r] = "running" /\ core[j][r] = "running"
           => i = j
    /\ \A t \in Task : Kept(req[t]) => SidesInv(t)

\* The outputs of a request are forwarded where it runs or is frozen, but for a
\* target that is not registered yet or is about to be aborted.
StreamInv ==
  AllAlive => \A i \in Inst, r \in Req \ over :
    core[i][r] \in {"running", "frozen"} /\ <<i, r>> \notin unclean =>
      \/ stream[i][r]
      \/ \E t \in Task : /\ req[t] = r /\ dst[t] = i
                         /\ \/ pc[t] = "register"
                            \/ pc[t] = "cleanup" /\ "abortReq" \in pending[t]

\* The target has marked its copy of the prefix before the source does.
PrefixInv ==
  /\ PrefixSafe
  /\ \A t \in Task : pc[t] = "precopyAppend" /\ alive[dst[t]]
                       => session[dst[t]][req[t]] = "synced"

IInv ==
  /\ TypeOK /\ TaskInv /\ OneOwner /\ NewInv /\ DeadInv /\ SnapInv
  /\ FrozenInv /\ ImportInv /\ KeptInv /\ StreamInv /\ PrefixInv

\* The invariant holds at first.
LEMMA InitIInv == Init => IInv
<1> SUFFICES ASSUME Init PROVE IInv
  OBVIOUS
<1>1. TypeOK
  BY BoundsAssumption DEF Init, TypeOK, CoreStates, PCs, MaxAttempts
<1>2. TaskInv /\ OneOwner
  BY DEF Init, TaskInv, OneOwner, Unselected
<1>3. NewInv /\ DeadInv /\ SnapInv /\ FrozenInv /\ ImportInv
  BY DEF Init, NewInv, DeadInv, SnapInv, FrozenInv, ImportInv, AllAlive
<1>4. KeptInv
  BY NoneAssumption DEF Init, KeptInv, Kept
<1>5. StreamInv
  BY DEF Init, StreamInv
<1>6. PrefixInv
  BY DEF Init, PrefixInv, PrefixSafe
<1> QED
  BY <1>1, <1>2, <1>3, <1>4, <1>5, <1>6 DEF IInv

----------------------------------------------------------------------------
(***************************************************************************)
(* Steps of a task that change no EngineCore: the pre-copy, a failed call, *)
(* the second attempt.                                                     *)
(***************************************************************************)

\* Such a step preserves what the invariant says of engines and streams when it
\* keeps what it says of the task's own two sides.
LEMMA ControlKeeps ==
  ASSUME IInv, NEW t \in Task, NEW p \in PCs, pc[t] \notin Unselected,
         p \notin Unselected,
         UNCHANGED <<alive, core, stream, resv, snap, managerVars, src, dst, req, born,
                     over, victims, unclean>>,
         pc' = [pc EXCEPT ![t] = p],
         attempt' \in [Task -> 0..MaxAttempts],
         \A u \in Task \ {t} : attempt'[u] = attempt[u] /\ skip'[u] = skip[u]
                                 /\ pending'[u] = pending[u],
         p = "retry" => attempt'[t] < MaxAttempts,
         pending' \in [Task -> SUBSET CleanupCalls], skip' \in [Task -> BOOLEAN],
         faults' \in faults..MaxFaults,
         pc[t] \in Importing \cup Committing \cup {"cleanup"} =>
           \/ p = "cleanup" /\ pending'[t] = CleanupCalls
           \/ p # "cleanup" /\ pc[t] = "cleanup" /\ pending[t] = {},
         Kept(req[t]) /\ Sheltered /\ SidesInv(t) => SidesInv(t)'
  PROVE  /\ TaskInv' /\ OneOwner' /\ NewInv' /\ DeadInv' /\ SnapInv' /\ FrozenInv'
         /\ ImportInv' /\ KeptInv' /\ StreamInv'
         /\ (session' \in [Inst -> [Req -> {"none", "open", "synced"}]] => TypeOK')
<1> USE DEF IInv, managerVars
<1>1. session' \in [Inst -> [Req -> {"none", "open", "synced"}]] => TypeOK'
  <2>1. pc' \in [Task -> PCs] /\ faults' \in 0..MaxFaults
    BY BoundsAssumption DEF TypeOK
  <2> QED
    BY <2>1 DEF TypeOK
<1>2. TaskInv' /\ OneOwner'
  BY DEF TaskInv, OneOwner, TypeOK, Unselected
<1>3. NewInv'
  BY DEF NewInv
<1>4. DeadInv' /\ SnapInv'
  <2>1. DeadInv'
    BY BoundsAssumption DEF DeadInv, AllAlive, TypeOK
  <2> QED
    BY <2>1 DEF SnapInv
<1>5. FrozenInv'
  <2> SUFFICES ASSUME AllAlive, NEW i \in Inst, NEW r \in Req, core[i][r] = "frozen",
                      <<i, r>> \notin unclean
               PROVE  \E u \in Task :
                        /\ req[u] = r /\ src[u] = i
                        /\ \/ pc'[u] \in Importing \cup Committing
                           \/ pc'[u] = "cleanup" /\ "abortOut" \in pending'[u]
    BY DEF FrozenInv, AllAlive
  <2>1. PICK u \in Task : /\ req[u] = r /\ src[u] = i
                          /\ \/ pc[u] \in Importing \cup Committing
                             \/ pc[u] = "cleanup" /\ "abortOut" \in pending[u]
    BY DEF FrozenInv
  <2>2. CASE u = t
    BY <2>1, <2>2 DEF TypeOK, CleanupCalls, Importing, Committing
  <2>3. CASE u # t
    BY <2>1, <2>3 DEF TypeOK
  <2> QED
    BY <2>2, <2>3
<1>6. ImportInv'
  <2> SUFFICES ASSUME AllAlive, NEW i \in Inst, NEW r \in Req,
                      core[i][r] \in {"importing", "import_ready"},
                      <<i, r>> \notin unclean, snap[i][r] = 0
               PROVE  \E u \in Task :
                        /\ req[u] = r /\ dst[u] = i
                        /\ \/ pc'[u] \in {"transfer", "commitIn"}
                           \/ pc'[u] = "cleanup" /\ "abortIn" \in pending'[u]
    BY DEF ImportInv, AllAlive
  <2>1. PICK u \in Task : /\ req[u] = r /\ dst[u] = i
                          /\ \/ pc[u] \in {"transfer", "commitIn"}
                             \/ pc[u] = "cleanup" /\ "abortIn" \in pending[u]
    BY DEF ImportInv
  <2>2. CASE u = t
    BY <2>1, <2>2 DEF TypeOK, CleanupCalls, Importing
  <2>3. CASE u # t
    BY <2>1, <2>3 DEF TypeOK
  <2> QED
    BY <2>2, <2>3
<1>7. KeptInv'
  <2>2. \A r : (Kept(r)' <=> Kept(r)) /\ (Messy(r)' <=> Messy(r))
    BY DEF Kept, Messy
  <2>1. ASSUME NEW u \in Task \ {t}, Kept(req[u]), SidesInv(u) PROVE SidesInv(u)'
    <3>1. /\ pc'[u] = pc[u] /\ pending'[u] = pending[u]
          /\ faults > 0 => faults' > 0
          /\ Messy(req[u])' <=> Messy(req[u])
      BY <2>2, BoundsAssumption DEF TypeOK
    <3> QED
      BY <2>1, <3>1 DEF SidesInv
  <2>3. Sheltered' <=> Sheltered
    BY DEF Sheltered, AllAlive
  <2> QED
    BY <2>1, <2>2, <2>3 DEF KeptInv
<1>8. StreamInv'
  <2> SUFFICES ASSUME AllAlive, NEW i \in Inst, NEW r \in Req \ over,
                      core[i][r] \in {"running", "frozen"}, <<i, r>> \notin unclean,
                      ~stream[i][r]
               PROVE  \E u \in Task : /\ req[u] = r /\ dst[u] = i
                                      /\ \/ pc'[u] = "register"
                                         \/ pc'[u] = "cleanup" /\ "abortReq" \in pending'[u]
    BY DEF StreamInv, AllAlive
  <2>1. PICK u \in Task : /\ req[u] = r /\ dst[u] = i
                          /\ \/ pc[u] = "register"
                             \/ pc[u] = "cleanup" /\ "abortReq" \in pending[u]
    BY DEF StreamInv
  <2>2. CASE u = t
    BY <2>1, <2>2 DEF TypeOK, CleanupCalls, Committing
  <2>3. CASE u # t
    BY <2>1, <2>3 DEF TypeOK
  <2> QED
    BY <2>2, <2>3
<1> QED
  BY <1>1, <1>2, <1>3, <1>4, <1>5, <1>6, <1>7, <1>8

\* The sessions of other tasks are those of other requests.
LEMMA PrefixKeeps ==
  ASSUME IInv, NEW t \in Task, pc[t] \notin Unselected,
         UNCHANGED <<alive, src, dst, req>>,
         session' \in [Inst -> [Req -> {"none", "open", "synced"}]],
         \A i \in Inst, r \in Req \ {req[t]} : session'[i][r] = session[i][r],
         \A u \in Task \ {t} : pc'[u] = pc[u] /\ skip'[u] = skip[u],
         skip'[t] /\ pc'[t] \in {"prepareOut", "prepareIn"} =>
           \A i \in {src[t], dst[t]} : alive[i] => session'[i][req[t]] = "synced",
         pc'[t] = "precopyAppend" /\ alive[dst[t]]
           => session'[dst[t]][req[t]] = "synced"
  PROVE  PrefixInv'
<1> USE DEF IInv
<1>1. \A u \in Task \ {t} : pc[u] \notin Unselected
        => req[u] \in Req \ {req[t]} /\ src[u] \in Inst /\ dst[u] \in Inst
  BY DEF OneOwner, TaskInv, TypeOK, Unselected
<1>2. PrefixSafe'
  BY <1>1 DEF PrefixInv, PrefixSafe, Unselected
<1>3. \A u \in Task : pc'[u] = "precopyAppend" /\ alive'[dst'[u]]
                        => session'[dst'[u]][req'[u]] = "synced"
  BY <1>1 DEF PrefixInv, Unselected
<1> QED
  BY <1>2, <1>3 DEF PrefixInv

\* SetSession changes one session.
LEMMA SessionSet ==
  ASSUME TypeOK, NEW i \in Inst, NEW r \in Req,
         NEW s \in {"none", "open", "synced"}, SetSession(i, r, s)
  PROVE  /\ session' \in [Inst -> [Req -> {"none", "open", "synced"}]]
         /\ session'[i][r] = s
         /\ \A j \in Inst, q \in Req \ {r} : session'[j][q] = session[j][q]
         /\ \A j \in Inst \ {i}, q \in Req : session'[j][q] = session[j][q]
  BY DEF SetSession, TypeOK

\* AbortSessions changes the sessions of one request, and costs a fault when one of
\* its calls fails.
LEMMA SessionsAborted ==
  ASSUME TypeOK, NEW t \in Task, AbortSessions(t)
  PROVE  /\ session' \in [Inst -> [Req -> {"none", "open", "synced"}]]
         /\ \A j \in Inst, q \in Req \ {req[t]} : session'[j][q] = session[j][q]
         /\ faults' \in faults..MaxFaults
<1>1. PICK I \in SUBSET {src[t], dst[t]} :
        session' = [i \in Inst |-> [r \in Req |-> IF i \in I /\ r = req[t] THEN "none"
                                                ELSE session[i][r]]]
  BY DEF AbortSessions
<1>2. faults' = faults \/ (faults < MaxFaults /\ faults' = faults + 1)
  BY DEF AbortSessions, Fault
<1>3. faults' \in faults..MaxFaults
  BY <1>2, BoundsAssumption DEF TypeOK
<1> QED
  BY <1>1, <1>3 DEF TypeOK

\* Every call of the pre-copy, and its fall-back: the request goes on running.
LEMMA PrecopyIInv ==
  ASSUME IInv, NEW t \in Task,
         \/ PrecopyBegin(t) \/ PrecopyReserve(t) \/ PrecopySend(t)
         \/ PrecopyCommit(t) \/ PrecopyAppend(t) \/ PrecopyFallback(t)
         \/ PrecopyClean(t)
  PROVE  IInv'
<1> USE DEF IInv
<1>1. PICK p \in PrecopyCalls \cup {"precopyClean", "prepareOut"} :
        pc' = [pc EXCEPT ![t] = p]
  BY DEF PrecopyBegin, PrecopyReserve, PrecopySend, PrecopyCommit, PrecopyAppend,
         PrecopyFallback, PrecopyClean, Goto, PrecopyCalls
<1>2. pc[t] \in PrecopyCalls \cup {"precopyClean"}
  BY DEF PrecopyBegin, PrecopyReserve, PrecopySend, PrecopyCommit, PrecopyAppend,
         PrecopyFallback, PrecopyClean, Executed, PrecopyCalls
<1>3. UNCHANGED <<alive, core, stream, resv, snap, managerVars, src, dst, req, attempt,
                  pending, born, over, victims, unclean>>
  BY DEF PrecopyBegin, PrecopyReserve, PrecopySend, PrecopyCommit, PrecopyAppend,
         PrecopyFallback, PrecopyClean, engineVars, ghostVars
<1>4. /\ src[t] \in Inst /\ dst[t] \in Inst /\ req[t] \in Req /\ src[t] # dst[t]
      /\ pc[t] \notin Unselected /\ p \notin Unselected /\ p \in PCs
  BY <1>1, <1>2 DEF TaskInv, TypeOK, Unselected, PrecopyCalls, PCs, Calls
<1>5. /\ session' \in [Inst -> [Req -> {"none", "open", "synced"}]]
      /\ \A i \in Inst, r \in Req \ {req[t]} : session'[i][r] = session[i][r]
      /\ skip' \in [Task -> BOOLEAN]
      /\ \A u \in Task \ {t} : skip'[u] = skip[u]
      /\ faults' \in faults..MaxFaults
  <2>0. ~PrecopyClean(t) => faults' \in faults..MaxFaults
    BY BoundsAssumption
       DEF PrecopyBegin, PrecopyReserve, PrecopySend, PrecopyCommit, PrecopyAppend,
           PrecopyFallback, ghostVars, TypeOK
  <2>1. CASE PrecopyBegin(t) \/ PrecopyAppend(t)
    <3>1. PICK s \in {"open", "synced"} : SetSession(src[t], req[t], s)
      BY <2>1 DEF PrecopyBegin, PrecopyAppend,
           begin_incremental_migration, append_incremental_migration
    <3>2. PICK b \in BOOLEAN : skip' = [skip EXCEPT ![t] = b]
      BY <2>1 DEF PrecopyBegin, PrecopyAppend, TypeOK
    <3> QED
      BY <1>2, <1>4, <2>0, <2>1, <3>1, <3>2, SessionSet
         DEF PrecopyBegin, PrecopyAppend, PrecopyClean, Executed, TypeOK
  <2>2. CASE PrecopyReserve(t) \/ PrecopyCommit(t)
    <3>1. PICK s \in {"open", "synced"} : SetSession(dst[t], req[t], s)
      BY <2>2 DEF PrecopyReserve, PrecopyCommit,
           prepare_incremental_migration_in, commit_incremental_migration_in
    <3> QED
      BY <1>4, <2>0, <2>2, <3>1, SessionSet
         DEF PrecopyReserve, PrecopyCommit, PrecopyClean, Executed, TypeOK
  <2>3. CASE PrecopySend(t) \/ PrecopyFallback(t)
    BY <2>0, <2>3 DEF PrecopySend, PrecopyFallback, PrecopyClean, Executed,
         PrecopyCalls, engineVars, TypeOK
  <2>4. CASE PrecopyClean(t)
    <3>1. AbortSessions(t) /\ skip' = [skip EXCEPT ![t] = FALSE]
      BY <2>4 DEF PrecopyClean
    <3> QED
      BY <1>4, <3>1, SessionsAborted DEF TypeOK
  <2> QED
    BY <2>1, <2>2, <2>3, <2>4
<1>6. Kept(req[t]) /\ Sheltered /\ SidesInv(t) => SidesInv(t)'
  BY <1>1, <1>2, <1>3 DEF SidesInv, Messy, TypeOK, Before, Importing, Committing,
       PrecopyCalls
<1>7. /\ TaskInv' /\ OneOwner' /\ NewInv' /\ DeadInv' /\ SnapInv' /\ FrozenInv'
      /\ ImportInv' /\ KeptInv' /\ StreamInv' /\ TypeOK'
  <2>1. /\ attempt' \in [Task -> 0..MaxAttempts]
        /\ pending' \in [Task -> SUBSET CleanupCalls]
    BY <1>3 DEF TypeOK
  <2>2. /\ pc[t] \notin Importing \cup Committing \cup {"cleanup"}
        /\ p # "retry"
    BY <1>1, <1>2 DEF PrecopyCalls, Importing, Committing
  <2> QED
    BY <1>1, <1>3, <1>4, <1>5, <1>6, <2>1, <2>2, ControlKeeps
<1>8. PrefixInv'
  <2>1. /\ skip'[t] /\ pc'[t] \in {"prepareOut", "prepareIn"} =>
             \A i \in {src[t], dst[t]} : alive[i] => session'[i][req[t]] = "synced"
        /\ pc'[t] = "precopyAppend" /\ alive[dst[t]]
             => session'[dst[t]][req[t]] = "synced"
    <3>1. CASE PrecopyAppend(t)
      <4>1. pc[t] = "precopyAppend"
        BY <3>1 DEF PrecopyAppend, Executed
      <4>2. alive[dst[t]] => session[dst[t]][req[t]] = "synced"
        BY <4>1 DEF PrefixInv
      <4> QED
        BY <1>4, <3>1, <4>2 DEF PrecopyAppend, Goto, append_incremental_migration,
             SetSession, TypeOK
    <3>2. CASE PrecopyCommit(t)
      BY <1>4, <3>2 DEF PrecopyCommit, Goto, commit_incremental_migration_in,
           SetSession, TypeOK
    <3>3. CASE PrecopyClean(t)
      BY <3>3 DEF PrecopyClean, Goto, TypeOK
    <3>4. CASE \/ PrecopyBegin(t) \/ PrecopyReserve(t) \/ PrecopySend(t)
               \/ PrecopyFallback(t)
      <4>1. pc'[t] \in {"precopyReserve", "precopySend", "precopyCommit",
                        "precopyClean"}
        BY <3>4 DEF PrecopyBegin, PrecopyReserve, PrecopySend, PrecopyFallback,
             Goto, TypeOK
      <4> QED
        BY <4>1
    <3> QED
      BY <3>1, <3>2, <3>3, <3>4
  <2> QED
    BY <1>1, <1>3, <1>4, <1>5, <2>1, PrefixKeeps DEF TypeOK
<1> QED
  BY <1>7, <1>8

\* A failed call changes nothing; the clean-up follows.  The target commits
\* before the source does, so that the source still holds the request when the
\* clean-up aborts the target, unless the source has died before and this is a
\* second fault.
LEMMA CallFailsIInv ==
  ASSUME IInv, NEW t \in Task, CallFails(t)
  PROVE  IInv'
<1> USE DEF IInv
<1>1. /\ pc[t] \in {"prepareOut"} \cup Importing \cup Committing
      /\ alive[Side(t)] /\ pc' = [pc EXCEPT ![t] = "cleanup"]
      /\ pending' = [pending EXCEPT ![t] = CleanupCalls]
      /\ UNCHANGED <<alive, core, stream, resv, session, snap, managerVars, src, dst,
                     req, attempt, skip, born, over, victims, unclean>>
  BY DEF CallFails, Calls, Importing, Committing, Goto, engineVars
<1>2. /\ src[t] \in Inst /\ dst[t] \in Inst /\ req[t] \in Req /\ src[t] # dst[t]
      /\ pc[t] \notin Unselected
  BY <1>1 DEF TaskInv, TypeOK, Unselected, Importing, Committing
<1>3. faults' \in faults..MaxFaults /\ (Accepts(t) => faults = 0 \/ MaxFaults > 1)
  BY BoundsAssumption DEF CallFails, Fault, TypeOK
<1>4. Accepts(t) => faults' > 0
  BY BoundsAssumption DEF CallFails, Fault, TypeOK
<1>5. Kept(req[t]) /\ Sheltered /\ SidesInv(t) => SidesInv(t)'
  <2> SUFFICES ASSUME Kept(req[t]), Sheltered, SidesInv(t) PROVE SidesInv(t)'
    OBVIOUS
  <2> DEFINE s == core[src[t]][req[t]]
             d == core[dst[t]][req[t]]
  <2>1. s \in {"running", "frozen"}
    <3>1. CASE pc[t] = "register"
      <4>1. Accepts(t)
        BY <3>1 DEF Accepts
      <4>2. alive[src[t]]
        BY <1>2, <1>3, <4>1, BoundsAssumption DEF Sheltered, DeadInv, AllAlive, TypeOK
      <4> QED
        BY <3>1, <4>2 DEF SidesInv, Committing
    <3>2. CASE pc[t] = "commitOut"
      BY <1>1, <3>2 DEF SidesInv, Committing, Side
    <3> QED
      BY <1>1, <3>1, <3>2 DEF SidesInv, Before, Committing
  <2>2. ~Messy(req[t]) /\ d = "running" => faults' > 0
    <3>1. CASE pc[t] = "register"
      BY <1>4, <3>1 DEF Accepts
    <3>2. CASE pc[t] = "commitOut"
      <4>1. s = "frozen"
        BY <1>1, <3>2 DEF SidesInv, Committing, Side
      <4> QED
        BY <1>4, <3>2, <4>1 DEF Accepts
    <3> QED
      BY <1>1, <3>1, <3>2 DEF SidesInv, Before, Committing
  <2>3. ~Messy(req[t]) => \A i \in Inst \ {src[t], dst[t]} : core[i][req[t]] # "running"
    BY DEF SidesInv
  <2>4. pc'[t] = "cleanup" /\ {"abortReq", "abortOut"} \subseteq pending'[t]
    BY <1>1 DEF TypeOK, CleanupCalls
  <2> QED
    BY <1>1, <2>1, <2>2, <2>3, <2>4
       DEF SidesInv, Messy, Before, Importing, Committing, PrecopyCalls
<1>6. /\ TaskInv' /\ OneOwner' /\ NewInv' /\ DeadInv' /\ SnapInv' /\ FrozenInv'
      /\ ImportInv' /\ KeptInv' /\ StreamInv' /\ TypeOK'
  <2>1. /\ attempt' \in [Task -> 0..MaxAttempts] /\ skip' \in [Task -> BOOLEAN]
        /\ pending' \in [Task -> SUBSET CleanupCalls]
        /\ pending'[t] = CleanupCalls
        /\ \A u \in Task \ {t} : pending'[u] = pending[u]
        /\ session' \in [Inst -> [Req -> {"none", "open", "synced"}]]
    BY <1>1 DEF TypeOK
  <2>2. "cleanup" \in PCs /\ "cleanup" \notin Unselected
    BY DEF PCs, Unselected
  <2> QED
    BY <1>1, <1>2, <1>3, <1>5, <2>1, <2>2, ControlKeeps
<1>7. PrefixInv'
  BY <1>1, <1>2, PrefixKeeps DEF TypeOK
<1> QED
  BY <1>6, <1>7

\* The second attempt starts from the state of the first one.
LEMMA RetryIInv ==
  ASSUME IInv, NEW t \in Task,
         Retry(t) \/ (CleanupDone(t) /\ CanRetry(t))
  PROVE  IInv'
<1> USE DEF IInv
<1>1. PICK p \in {"retry", "precopyBegin", "prepareOut"} :
        /\ pc' = [pc EXCEPT ![t] = p]
        /\ p = "retry" => pc[t] = "cleanup" /\ pending[t] = {}
        /\ p # "retry" => pc[t] = "retry"
  BY DEF Retry, CleanupDone, FirstCall, Goto
<1>2. UNCHANGED <<alive, core, stream, resv, session, snap, managerVars, src, dst, req,
                  pending, born, over, victims, unclean, faults>>
  BY DEF Retry, CleanupDone, engineVars, managerVars, ghostVars
<1>3. /\ attempt' \in [Task -> 0..MaxAttempts] /\ skip' \in [Task -> BOOLEAN]
      /\ \A u \in Task \ {t} : attempt'[u] = attempt[u] /\ skip'[u] = skip[u]
      /\ p = "retry" => attempt'[t] < MaxAttempts
      /\ p # "retry" => ~skip'[t]
  <2>1. CASE Retry(t)
    <3>1. attempt[t] \in 0..MaxAttempts /\ attempt[t] < MaxAttempts
      BY <2>1 DEF Retry, TaskInv, TypeOK
    <3>2. attempt' = [attempt EXCEPT ![t] = attempt[t] + 1]
      BY <2>1 DEF Retry
    <3>3. attempt' \in [Task -> 0..MaxAttempts]
      BY <3>1, <3>2 DEF TypeOK, MaxAttempts
    <3>4. pc[t] = "retry" /\ skip' = [skip EXCEPT ![t] = FALSE]
      BY <2>1 DEF Retry
    <3> QED
      BY <1>1, <3>2, <3>3, <3>4 DEF TypeOK
  <2>2. CASE CleanupDone(t) /\ CanRetry(t)
    <3>1. attempt' = attempt /\ skip' = skip /\ pc[t] = "cleanup"
      BY <2>2 DEF CleanupDone
    <3>2. attempt[t] < MaxAttempts
      BY <2>2 DEF CanRetry
    <3> QED
      BY <1>1, <3>1, <3>2 DEF TypeOK
  <2> QED
    BY <2>1, <2>2
<1>4. /\ src[t] \in Inst /\ dst[t] \in Inst /\ req[t] \in Req
      /\ pc[t] \notin Unselected /\ p \notin Unselected /\ p \in PCs
  BY <1>1 DEF TaskInv, TypeOK, Unselected, PrecopyCalls, PCs, Calls
<1>5. Kept(req[t]) /\ Sheltered /\ SidesInv(t) => SidesInv(t)'
  <2> SUFFICES ASSUME Kept(req[t]), Sheltered, SidesInv(t) PROVE SidesInv(t)'
    OBVIOUS
  <2>1. CASE p = "retry"
    <3>1. /\ core[src[t]][req[t]] \in {"running", "frozen"}
          /\ ~Messy(req[t]) => core[src[t]][req[t]] = "running"
      BY <1>1, <2>1 DEF SidesInv
    <3> QED
      BY <1>1, <1>2, <2>1, <3>1
         DEF SidesInv, Messy, Before, Importing, Committing, TypeOK
  <2>2. CASE p # "retry"
    BY <1>1, <1>2, <2>2
       DEF SidesInv, Messy, Before, Importing, Committing, PrecopyCalls, TypeOK
  <2> QED
    BY <2>1, <2>2
<1>6. /\ TaskInv' /\ OneOwner' /\ NewInv' /\ DeadInv' /\ SnapInv' /\ FrozenInv'
      /\ ImportInv' /\ KeptInv' /\ StreamInv' /\ TypeOK'
  <2>1. /\ pending' \in [Task -> SUBSET CleanupCalls]
        /\ \A u \in Task \ {t} : pending'[u] = pending[u]
        /\ session' \in [Inst -> [Req -> {"none", "open", "synced"}]]
        /\ faults' \in faults..MaxFaults
    BY <1>2, BoundsAssumption DEF TypeOK
  <2>2. pc[t] \in Importing \cup Committing \cup {"cleanup"} =>
          p # "cleanup" /\ pc[t] = "cleanup" /\ pending[t] = {}
    BY <1>1 DEF Importing, Committing
  <2> QED
    BY <1>1, <1>2, <1>3, <1>4, <1>5, <2>1, <2>2, ControlKeeps
<1>7. PrefixInv'
  BY <1>1, <1>2, <1>3, <1>4, PrefixKeeps DEF TypeOK
<1> QED
  BY <1>6, <1>7

----------------------------------------------------------------------------
(***************************************************************************)
(* The ends of a task.                                                     *)
(***************************************************************************)

\* The `finally' clauses keep the task variables in order, and release the one
\* request of the task.
LEMMA EndTask ==
  ASSUME IInv, NEW t \in Task, pc[t] # "free", End(t), epoch' = epoch, born' = born
  PROVE  /\ TaskInv' /\ OneOwner'
         /\ (UNCHANGED <<alive, core, resv, snap, over, victims, unclean>>
               /\ faults' \in faults..MaxFaults
               /\ stream' \in [Inst -> [Req -> BOOLEAN]]
               /\ session' \in [Inst -> [Req -> {"none", "open", "synced"}]]
             => TypeOK')
<1> USE DEF IInv
<1>1. /\ pc' = [pc EXCEPT ![t] = "free"] /\ req' = [req EXCEPT ![t] = NoReq]
      /\ src' = [src EXCEPT ![t] = NoInst] /\ dst' = [dst EXCEPT ![t] = NoInst]
      /\ attempt' = [attempt EXCEPT ![t] = 0]
      /\ pending' = [pending EXCEPT ![t] = {}]
      /\ skip' = [skip EXCEPT ![t] = FALSE]
      /\ migrating' = migrating \ {req[t]}
      /\ busy' = [busy EXCEPT ![src[t]] = FALSE, ![dst[t]] = FALSE]
  BY DEF End, Goto
<1>2. OneOwner'
  BY <1>1 DEF OneOwner, TypeOK
<1>3. TaskInv'
  <2>1. \A u \in Task \ {t} : req[u] # NoReq => req[u] \in migrating'
    BY <1>1 DEF OneOwner, TaskInv, TypeOK
  <2>2. \A r \in migrating' : \E u \in Task : req'[u] = r
    BY <1>1 DEF TaskInv, TypeOK
  <2> QED
    BY <1>1, <2>1, <2>2 DEF TaskInv, TypeOK, Unselected
<1>4. /\ pc' \in [Task -> PCs] /\ req' \in [Task -> Req \cup {NoReq}]
      /\ src' \in [Task -> Inst \cup {NoInst}] /\ dst' \in [Task -> Inst \cup {NoInst}]
      /\ attempt' \in [Task -> 0..MaxAttempts]
      /\ pending' \in [Task -> SUBSET CleanupCalls] /\ skip' \in [Task -> BOOLEAN]
      /\ migrating' \subseteq Req /\ busy' \in [Inst -> BOOLEAN]
  <2>1. "free" \in PCs /\ 0 \in 0..MaxAttempts
    BY DEF PCs, MaxAttempts
  <2>2. pc' \in [Task -> PCs] /\ req' \in [Task -> Req \cup {NoReq}]
    BY <1>1, <2>1 DEF TypeOK
  <2>3. src' \in [Task -> Inst \cup {NoInst}] /\ dst' \in [Task -> Inst \cup {NoInst}]
    BY <1>1 DEF TypeOK
  <2>4. /\ attempt' \in [Task -> 0..MaxAttempts] /\ skip' \in [Task -> BOOLEAN]
        /\ pending' \in [Task -> SUBSET CleanupCalls]
    BY <1>1, <2>1 DEF TypeOK
  <2>5. migrating' \subseteq Req /\ busy' \in [Inst -> BOOLEAN]
    BY <1>1 DEF TypeOK
  <2> QED
    BY <2>2, <2>3, <2>4, <2>5
<1>5. faults' \in faults..MaxFaults => faults' \in 0..MaxFaults
  BY BoundsAssumption DEF TypeOK
<1> QED
  BY <1>2, <1>3, <1>4, <1>5 DEF TypeOK

\* When a task ends, its request runs on one side only, unless it is over or a
\* clean-up failed: on the target once that has committed, on the source before and after a clean-up.
LEMMA EndOneSide ==
  ASSUME IInv, NEW t \in Task, Sheltered, Kept(req[t]), ~Messy(req[t]),
         pc[t] # "free", pc[t] = "cleanup" => pending[t] = {},
         NEW i \in Inst, core[i][req[t]] = "running"
  PROVE  i = IF pc[t] \in Committing \cup {"finishOut"} THEN dst[t] ELSE src[t]
<1> USE DEF IInv
<1>1. /\ req[t] \in Req /\ pc[t] \notin Unselected
      /\ src[t] \in Inst /\ dst[t] \in Inst
  BY NoneAssumption DEF Kept, TaskInv
<1>2. SidesInv(t)
  BY DEF KeptInv
<1>3. i \in {src[t], dst[t]}
  BY <1>2 DEF SidesInv
<1>4. CASE pc[t] \in Committing \cup {"finishOut"}
  <2>1. core[src[t]][req[t]] # "running"
    BY <1>1, <1>2, <1>4 DEF SidesInv, DeadInv, Committing
  <2> QED
    BY <1>3, <1>4, <2>1
<1>5. CASE pc[t] \notin Committing \cup {"finishOut"}
  <2>1. core[dst[t]][req[t]] # "running"
    BY <1>1, <1>2, <1>5
       DEF SidesInv, TypeOK, PCs, Calls, Unselected, Before, Importing, Committing
  <2> QED
    BY <1>3, <1>5, <2>1
<1> QED
  BY <1>4, <1>5

\* A task that ends without a change of the engines.
LEMMA EndKeeps ==
  ASSUME IInv, NEW t \in Task, pc[t] # "free", End(t),
         UNCHANGED <<alive, core, resv, snap, epoch, born, over, victims, unclean>>,
         faults' \in faults..MaxFaults,
         stream' \in [Inst -> [Req -> BOOLEAN]],
         session' \in [Inst -> [Req -> {"none", "open", "synced"}]],
         \A i \in Inst, q \in Req \ {req[t]} :
           stream'[i][q] = stream[i][q] /\ session'[i][q] = session[i][q],
         pc[t] = "cleanup" => pending[t] = {},
         AllAlive => pc[t] \notin Importing \cup Committing,
         AllAlive /\ req[t] \in Req \ over =>
           \A i \in Inst : core[i][req[t]] \in {"running", "frozen"}
                             /\ <<i, req[t]>> \notin unclean => stream'[i][req[t]]
  PROVE  IInv'
<1> USE DEF IInv
<1>1. TypeOK' /\ TaskInv' /\ OneOwner'
  BY EndTask
<1>2. NewInv' /\ DeadInv'
  BY BoundsAssumption DEF NewInv, DeadInv, AllAlive, TypeOK
<1>3. /\ pc' = [pc EXCEPT ![t] = "free"] /\ req' = [req EXCEPT ![t] = NoReq]
      /\ src' = [src EXCEPT ![t] = NoInst] /\ dst' = [dst EXCEPT ![t] = NoInst]
      /\ pending' = [pending EXCEPT ![t] = {}]
      /\ skip' = [skip EXCEPT ![t] = FALSE]
      /\ migrating' = migrating \ {req[t]}
  BY DEF End, Goto
<1>4. FrozenInv'
  <2> SUFFICES ASSUME AllAlive, NEW i \in Inst, NEW r \in Req, core[i][r] = "frozen",
                      <<i, r>> \notin unclean
               PROVE  \E u \in Task :
                        /\ req'[u] = r /\ src'[u] = i
                        /\ \/ pc'[u] \in Importing \cup Committing
                           \/ pc'[u] = "cleanup" /\ "abortOut" \in pending'[u]
    BY DEF FrozenInv, AllAlive
  <2>1. PICK u \in Task : /\ req[u] = r /\ src[u] = i
                          /\ \/ pc[u] \in Importing \cup Committing
                             \/ pc[u] = "cleanup" /\ "abortOut" \in pending[u]
    BY DEF FrozenInv
  <2> QED
    BY <1>3, <2>1 DEF TypeOK
<1>5. ImportInv'
  <2> SUFFICES ASSUME AllAlive, NEW i \in Inst, NEW r \in Req,
                      core[i][r] \in {"importing", "import_ready"},
                      <<i, r>> \notin unclean, snap[i][r] = 0
               PROVE  \E u \in Task :
                        /\ req'[u] = r /\ dst'[u] = i
                        /\ \/ pc'[u] \in {"transfer", "commitIn"}
                           \/ pc'[u] = "cleanup" /\ "abortIn" \in pending'[u]
    BY DEF ImportInv, AllAlive
  <2>1. PICK u \in Task : /\ req[u] = r /\ dst[u] = i
                          /\ \/ pc[u] \in {"transfer", "commitIn"}
                             \/ pc[u] = "cleanup" /\ "abortIn" \in pending[u]
    BY DEF ImportInv
  <2> QED
    BY <1>3, <2>1 DEF TypeOK, Importing
<1>6. KeptInv'
  <2> SUFFICES ASSUME Sheltered PROVE KeptInv'
    BY DEF KeptInv, Sheltered, AllAlive
  <2>1. \A r : (Kept(r)' <=> Kept(r)) /\ (Messy(r)' <=> Messy(r))
    BY DEF Kept, Messy
  <2>2. \A r \in born : Kept(r)
          => \E i \in Inst : core[i][r] \in {"running", "frozen"}
    BY DEF KeptInv
  <2>3. ASSUME NEW r \in Req \ migrating', NEW i \in Inst, NEW j \in Inst,
               Kept(r), ~Messy(r), core[i][r] = "running", core[j][r] = "running"
        PROVE  i = j
    <3>1. CASE r = req[t]
      BY <2>3, <3>1, EndOneSide
    <3>2. CASE r # req[t]
      BY <1>3, <2>3, <3>2 DEF KeptInv
    <3> QED
      BY <3>1, <3>2
  <2>4. ASSUME NEW u \in Task \ {t}, SidesInv(u) PROVE SidesInv(u)'
    <3>1. /\ pc'[u] = pc[u] /\ pending'[u] = pending[u] /\ src'[u] = src[u]
          /\ dst'[u] = dst[u] /\ req'[u] = req[u] /\ core' = core /\ alive' = alive
          /\ faults > 0 => faults' > 0
          /\ Messy(req[u])' <=> Messy(req[u])
      BY <1>3, BoundsAssumption DEF TypeOK, Messy
    <3> QED
      BY <2>4, <3>1 DEF SidesInv
  <2>5. ~Kept(req'[t])
    BY <1>3, NoneAssumption DEF Kept, TypeOK
  <2>6. \A u \in Task : Kept(req'[u]) => SidesInv(u)'
    BY <1>3, <2>4, <2>5 DEF KeptInv, TypeOK
  <2> QED
    BY <2>1, <2>2, <2>3, <2>6 DEF KeptInv
<1>7. StreamInv' /\ SnapInv'
  <2>1. SnapInv'
    BY <1>3 DEF SnapInv, TypeOK
  <2> SUFFICES ASSUME AllAlive, NEW i \in Inst, NEW r \in Req \ over,
                      core[i][r] \in {"running", "frozen"}, <<i, r>> \notin unclean,
                      ~stream'[i][r]
               PROVE  \E u \in Task : /\ req'[u] = r /\ dst'[u] = i
                                      /\ \/ pc'[u] = "register"
                                         \/ pc'[u] = "cleanup" /\ "abortReq" \in pending'[u]
    BY <2>1 DEF StreamInv, AllAlive
  <2>2. r # req[t] /\ ~stream[i][r]
    OBVIOUS
  <2>3. PICK u \in Task : /\ req[u] = r /\ dst[u] = i
                          /\ \/ pc[u] = "register"
                             \/ pc[u] = "cleanup" /\ "abortReq" \in pending[u]
    BY <2>2 DEF StreamInv
  <2> QED
    BY <1>3, <2>2, <2>3 DEF TypeOK
<1>8. PrefixInv'
  <2>1. \A u \in Task \ {t} : pc[u] \notin Unselected
          => req[u] \in Req \ {req[t]} /\ src[u] \in Inst /\ dst[u] \in Inst
    BY DEF OneOwner, TaskInv, TypeOK, Unselected
  <2>2. /\ pc'[t] = "free"
        /\ \A u \in Task \ {t} : /\ pc'[u] = pc[u] /\ skip'[u] = skip[u]
                                 /\ req'[u] = req[u] /\ src'[u] = src[u]
                                 /\ dst'[u] = dst[u]
    BY <1>3 DEF TypeOK
  <2>3. PrefixSafe'
    BY <2>1, <2>2 DEF PrefixInv, PrefixSafe, Unselected
  <2>4. \A u \in Task : pc'[u] = "precopyAppend" /\ alive'[dst'[u]]
                        => session'[dst'[u]][req'[u]] = "synced"
    BY <2>1, <2>2 DEF PrefixInv, Unselected
  <2> QED
    BY <2>3, <2>4 DEF PrefixInv
<1> QED
  BY <1>1, <1>2, <1>4, <1>5, <1>6, <1>7, <1>8

\* Nothing to migrate, a request that is not migratable any more, a dead
\* instance, or two attempts that failed.
LEMMA GiveUpIInv ==
  ASSUME IInv, NEW t \in Task,
         \/ SelectNothing(t) \/ ActorError(t) \/ NotMigratable(t)
         \/ CleanupDone(t) /\ ~CanRetry(t)
  PROVE  IInv'
<1> USE DEF IInv
<1>1. /\ End(t)
      /\ UNCHANGED <<alive, core, stream, resv, session, snap, epoch, born, over,
                     victims, unclean, faults>>
  BY DEF SelectNothing, ActorError, NotMigratable, CleanupDone, engineVars, ghostVars
<1>2. \/ pc[t] \in {"select", "prepareOut"}
      \/ pc[t] = "cleanup" /\ pending[t] = {}
      \/ pc[t] \in Calls /\ ~AllAlive
  <2>1. CASE ActorError(t)
    <3>1. pc[t] \in Calls /\ (~alive[src[t]] \/ ~alive[dst[t]])
      BY <2>1 DEF ActorError, Side
    <3>2. src[t] \in Inst /\ dst[t] \in Inst
      BY <3>1 DEF Calls, TaskInv
    <3> QED
      BY <3>1, <3>2 DEF AllAlive
  <2> QED
    BY <2>1 DEF SelectNothing, NotMigratable, CleanupDone
<1>3. /\ pc[t] # "free"
      /\ pc[t] \notin {"register", "commitOut", "finishOut"} \/ ~AllAlive
  BY <1>2 DEF Calls
<1>4. /\ AllAlive => pc[t] \notin Importing \cup Committing
      /\ pc[t] = "cleanup" => pending[t] = {}
  BY <1>2 DEF Importing, Committing, Calls
<1>5. ASSUME AllAlive, req[t] \in Req \ over, NEW i \in Inst,
             core[i][req[t]] \in {"running", "frozen"}, <<i, req[t]>> \notin unclean
      PROVE  stream[i][req[t]]
  <2>1. \A u \in Task : req[u] = req[t] => u = t
    BY <1>5, NoneAssumption DEF OneOwner
  <2> QED
    BY <1>3, <1>4, <1>5, <2>1 DEF StreamInv
<1>6. /\ stream' \in [Inst -> [Req -> BOOLEAN]]
      /\ session' \in [Inst -> [Req -> {"none", "open", "synced"}]]
      /\ faults' \in faults..MaxFaults
  BY <1>1, BoundsAssumption DEF TypeOK
<1> QED
  BY <1>1, <1>3, <1>4, <1>5, <1>6, EndKeeps

\* The last step of a migration: the source has nothing left to forward.
LEMMA FinishOutIInv ==
  ASSUME IInv, NEW t \in Task, FinishOut(t)
  PROVE  IInv'
<1> USE DEF IInv
<1>1. /\ End(t) /\ pc[t] = "finishOut"
      /\ stream' = [stream EXCEPT ![src[t]][req[t]] = FALSE]
      /\ AbortSessions(t)
      /\ UNCHANGED <<alive, core, resv, snap, epoch, born, over, victims, unclean>>
  BY DEF FinishOut, Executed, release_request
<1>2. src[t] \in Inst /\ dst[t] \in Inst /\ req[t] \in Req /\ src[t] # dst[t]
  BY <1>1 DEF TaskInv, TypeOK, Unselected
<1>3. /\ stream' \in [Inst -> [Req -> BOOLEAN]]
      /\ \A i \in Inst, q \in Req : i # src[t] \/ q # req[t] => stream'[i][q] = stream[i][q]
  BY <1>1, <1>2 DEF TypeOK
<1>4. /\ session' \in [Inst -> [Req -> {"none", "open", "synced"}]]
      /\ \A i \in Inst, q \in Req \ {req[t]} : session'[i][q] = session[i][q]
      /\ faults' \in faults..MaxFaults
  BY <1>1, SessionsAborted
<1>5. ASSUME AllAlive, req[t] \in Req \ over, NEW i \in Inst,
             core[i][req[t]] \in {"running", "frozen"}, <<i, req[t]>> \notin unclean
      PROVE  stream'[i][req[t]]
  <2>1. Sheltered /\ Kept(req[t])
    BY <1>5 DEF Sheltered, Kept, DeadInv
  <2>2. core[src[t]][req[t]] \notin {"running", "frozen"}
    BY <1>1, <2>1 DEF KeptInv, SidesInv
  <2>3. \A u \in Task : req[u] = req[t] => u = t
    BY <1>5, NoneAssumption DEF OneOwner
  <2>4. stream[i][req[t]]
    BY <1>1, <1>5, <2>3 DEF StreamInv
  <2> QED
    BY <1>2, <1>3, <1>5, <2>2, <2>4
<1>6. pc[t] \notin Importing \cup Committing /\ pc[t] # "cleanup" /\ pc[t] # "free"
  BY <1>1 DEF Importing, Committing
<1>7. \A i \in Inst, q \in Req \ {req[t]} :
        stream'[i][q] = stream[i][q] /\ session'[i][q] = session[i][q]
  BY <1>3, <1>4
<1> QED
  BY <1>1, <1>3, <1>4, <1>5, <1>6, <1>7, EndKeeps

----------------------------------------------------------------------------
(***************************************************************************)
(* The start of a task.                                                    *)
(***************************************************************************)

\* A task that has no request yet is none that freezes or imports.
LEMMA IdleTaskKeeps ==
  ASSUME IInv, NEW t \in Task, req[t] = NoReq,
         UNCHANGED <<alive, core, stream, snap, over, unclean>>,
         \A u \in Task \ {t} : /\ pc'[u] = pc[u] /\ req'[u] = req[u]
                               /\ src'[u] = src[u] /\ dst'[u] = dst[u]
                               /\ pending'[u] = pending[u]
  PROVE  FrozenInv' /\ ImportInv' /\ StreamInv'
<1> USE DEF IInv
<1>1. AllAlive' <=> AllAlive
  BY DEF AllAlive
<1>2. FrozenInv'
  BY <1>1, NoneAssumption DEF FrozenInv
<1>3. ImportInv'
  BY <1>1, NoneAssumption DEF ImportInv
<1>4. StreamInv'
  BY <1>1, NoneAssumption DEF StreamInv
<1> QED
  BY <1>2, <1>3, <1>4

\* A task without a request: the manager starts it, and it marks its instances.
LEMMA StartIInv ==
  ASSUME IInv, NEW t \in Task,
         StartPair(t) \/ \E i, j \in Inst : PushMigration(t, i, j)
  PROVE  IInv'
<1> USE DEF IInv
<1>1. PICK p \in {"ready", "select"} :
        pc' = [pc EXCEPT ![t] = p] /\ pc[t] \in {"free", "ready"}
  BY DEF StartPair, PushMigration, Goto
<1>2. UNCHANGED <<alive, core, stream, resv, session, snap, epoch, migrating, req,
                  attempt, pending, skip, born, over, victims, unclean, faults>>
  BY DEF StartPair, PushMigration, engineVars, managerVars, ghostVars
<1>3. /\ src' \in [Task -> Inst \cup {NoInst}] /\ dst' \in [Task -> Inst \cup {NoInst}]
      /\ \A u \in Task \ {t} : src'[u] = src[u] /\ dst'[u] = dst[u]
      /\ src'[t] \in Inst /\ dst'[t] \in Inst /\ src'[t] # dst'[t]
      /\ busy' \in [Inst -> BOOLEAN]
  <2>1. CASE StartPair(t)
    BY <2>1 DEF StartPair, TaskInv, TypeOK
  <2>2. CASE \E i, j \in Inst : PushMigration(t, i, j)
    <3>1. PICK i \in Inst, j \in Inst : PushMigration(t, i, j)
      BY <2>2
    <3>2. /\ src' = [src EXCEPT ![t] = i] /\ dst' = [dst EXCEPT ![t] = j]
          /\ i # j /\ busy' = busy
      BY <3>1 DEF PushMigration, managerVars
    <3> QED
      BY <3>2 DEF TypeOK
  <2> QED
    BY <2>1, <2>2
<1>4. req[t] = NoReq
  BY <1>1 DEF TaskInv, Unselected
<1>5. TypeOK'
  <2>1. pc' \in [Task -> PCs]
    BY <1>1 DEF TypeOK, PCs
  <2> QED
    BY <1>2, <1>3, <2>1 DEF TypeOK
<1>6. TaskInv' /\ OneOwner'
  <2>1. OneOwner'
    BY <1>2 DEF OneOwner
  <2> QED
    BY <1>1, <1>2, <1>3, <1>4, <2>1 DEF TaskInv, TypeOK, Unselected
<1>7. NewInv' /\ DeadInv'
  BY <1>2 DEF NewInv, DeadInv, AllAlive
<1>8. FrozenInv' /\ ImportInv' /\ StreamInv'
  BY <1>1, <1>2, <1>3, <1>4, IdleTaskKeeps DEF TypeOK
<1>9. KeptInv'
  <2>1. \A u \in Task \ {t} : SidesInv(u) => SidesInv(u)'
    BY ZenonT(40), <1>1, <1>2, <1>3 DEF SidesInv, Messy, TypeOK
  <2>2. \A r : (Kept(r)' <=> Kept(r)) /\ (Messy(r)' <=> Messy(r))
    BY <1>2 DEF Kept, Messy
  <2>3. Sheltered' <=> Sheltered
    BY <1>2 DEF Sheltered, AllAlive
  <2>4. ~Kept(req[t])
    BY <1>4, NoneAssumption DEF Kept
  <2> QED
    BY <1>2, <2>1, <2>2, <2>3, <2>4 DEF KeptInv
<1>10. SnapInv'
  BY <1>2, <1>3, <1>4 DEF SnapInv
<1>11. PrefixInv'
  <2>1. /\ pc'[t] \in {"ready", "select"}
        /\ \A u \in Task \ {t} : pc'[u] = pc[u]
    BY <1>1 DEF TypeOK
  <2> QED
    BY <1>2, <1>3, <2>1 DEF PrefixInv, PrefixSafe
<1> QED
  BY <1>5, <1>6, <1>7, <1>8, <1>9, <1>10, <1>11

\* _select_v1_migration_request takes a request that runs on the source and that
\* no other task migrates.
LEMMA SelectRequestIInv ==
  ASSUME IInv, NEW t \in Task, SelectRequest(t)
  PROVE  IInv'
<1> USE DEF IInv
<1>1. PICK r \in Req : /\ core[src[t]][r] = "running" /\ r \notin migrating
                       /\ epoch[r] < MaxEpoch
                       /\ req' = [req EXCEPT ![t] = r]
                       /\ migrating' = migrating \cup {r}
                       /\ epoch' = [epoch EXCEPT ![r] = @ + 1]
  BY DEF SelectRequest, Candidates
<1>2. PICK p \in {"precopyBegin", "prepareOut"} :
        pc' = [pc EXCEPT ![t] = p] /\ pc[t] = "select"
  BY DEF SelectRequest, Goto, FirstCall
<1>3. /\ UNCHANGED <<alive, core, stream, resv, session, snap, busy, src, dst,
                     pending, skip, born, over, victims, unclean, faults>>
      /\ attempt' = [attempt EXCEPT ![t] = 1]
  BY DEF SelectRequest, engineVars, ghostVars
<1>4. /\ src[t] \in Inst /\ dst[t] \in Inst /\ src[t] # dst[t]
      /\ req[t] = NoReq /\ ~skip[t] /\ r \in born
  BY <1>1, <1>2 DEF TaskInv, Unselected, NewInv
<1>5. TypeOK'
  <2>1. pc' \in [Task -> PCs] /\ req' \in [Task -> Req \cup {NoReq}]
    BY <1>1, <1>2 DEF TypeOK, PCs, Calls, PrecopyCalls
  <2>2. attempt' \in [Task -> 0..MaxAttempts]
    BY <1>3 DEF TypeOK, MaxAttempts
  <2>3. epoch' \in [Req -> 0..MaxEpoch] /\ migrating' \subseteq Req
    BY <1>1, BoundsAssumption DEF TypeOK
  <2> QED
    BY <1>3, <2>1, <2>2, <2>3 DEF TypeOK
<1>6. OneOwner'
  <2>1. \A u \in Task \ {t} : req[u] # r
    BY <1>1, NoneAssumption DEF TaskInv
  <2> QED
    BY <1>1, <2>1 DEF OneOwner, TypeOK
<1>7. TaskInv'
  <2>1. /\ epoch'[r] > 0 /\ \A q \in Req : epoch'[q] >= epoch[q]
        /\ epoch' \in [Req -> Nat]
    BY <1>1, BoundsAssumption DEF TypeOK
  <2>2. \A q \in migrating' : \E u \in Task : req'[u] = q
    BY <1>1, <1>4, NoneAssumption DEF TaskInv, TypeOK
  <2>3. /\ pc'[t] = p /\ req'[t] = r /\ p \notin Unselected \cup {"retry"}
        /\ \A u \in Task \ {t} : pc'[u] = pc[u] /\ req'[u] = req[u]
                                   /\ attempt'[u] = attempt[u]
    BY <1>1, <1>2, <1>3 DEF TypeOK, Unselected
  <2>4. \A u \in Task \ {t} : req[u] # NoReq => epoch'[req[u]] > 0
    BY <2>1 DEF TaskInv, TypeOK
  <2> QED
    BY <1>1, <1>3, <1>4, <2>1, <2>2, <2>3, <2>4, NoneAssumption DEF TaskInv
<1>8. NewInv' /\ DeadInv'
  BY <1>3 DEF NewInv, DeadInv, AllAlive
<1>9. FrozenInv' /\ ImportInv' /\ StreamInv'
  BY <1>1, <1>2, <1>3, <1>4, IdleTaskKeeps DEF TypeOK
<1>10. KeptInv'
  <2> SUFFICES ASSUME Sheltered PROVE KeptInv'
    BY <1>3 DEF KeptInv, Sheltered, AllAlive
  <2>1. \A u \in Task \ {t} : SidesInv(u) => SidesInv(u)'
    BY ZenonT(40), <1>1, <1>2, <1>3 DEF SidesInv, Messy, TypeOK
  <2>2. \A q : (Kept(q)' <=> Kept(q)) /\ (Messy(q)' <=> Messy(q))
    BY <1>3 DEF Kept, Messy
  <2>3. Kept(r) /\ ~Messy(r) => \A i \in Inst \ {src[t]} : core[i][r] # "running"
    BY <1>1, <1>4 DEF KeptInv
  <2>4. Kept(r) => SidesInv(t)'
    <3>1. pc'[t] = p /\ req'[t] = r
      BY <1>1, <1>2 DEF TypeOK
    <3> QED
      BY <1>1, <1>2, <1>3, <1>4, <2>3, <3>1
         DEF SidesInv, Messy, Before, Importing, Committing, PrecopyCalls
  <2>5. \A u \in Task : Kept(req'[u]) => SidesInv(u)'
    BY <1>1, <2>1, <2>4 DEF KeptInv, TypeOK
  <2> QED
    BY <1>1, <1>3, <2>2, <2>5 DEF KeptInv
<1>11. SnapInv'
  <2>1. /\ req'[t] = r
        /\ \A u \in Task \ {t} : req'[u] = req[u] /\ req[u] # r
    BY <1>1, NoneAssumption DEF TaskInv, TypeOK
  <2>2. \A q \in Req \ {r} : epoch'[q] = epoch[q]
    BY <1>1 DEF TypeOK
  <2> QED
    BY <1>1, <1>3, <2>1, <2>2 DEF SnapInv, TypeOK
<1>12. PrefixInv'
  BY <1>1, <1>2, <1>3, <1>4 DEF PrefixInv, PrefixSafe, TypeOK
<1> QED
  BY <1>5, <1>6, <1>7, <1>8, <1>9, <1>10, <1>11, <1>12

----------------------------------------------------------------------------
(***************************************************************************)
(* The calls of an attempt that an engine executes.                        *)
(***************************************************************************)

\* A call of task t changes at most the copies of its request on its two sides.
CallTypes ==
  /\ core' \in [Inst -> [Req -> CoreStates]]
  /\ stream' \in [Inst -> [Req -> BOOLEAN]]
  /\ resv' \in [Inst -> SUBSET (Req \X (1..MaxEpoch))]
  /\ session' \in [Inst -> [Req -> {"none", "open", "synced"}]]
  /\ snap' \in [Inst -> [Req -> 0..MaxEpoch]]
  /\ pending' \in [Task -> SUBSET CleanupCalls]
  /\ unclean' \subseteq Inst \X Req
  /\ faults' \in faults..MaxFaults
CallFrame(t, p) ==
  /\ UNCHANGED <<alive, managerVars, src, dst, req, attempt, skip, born, over, victims>>
  /\ pc' = [pc EXCEPT ![t] = p]
  /\ \A u \in Task \ {t} : pending'[u] = pending[u]
  /\ \A i \in Inst, r \in Req \ {req[t]} : session'[i][r] = session[i][r]
  /\ unclean' = unclean \/ faults' = faults + 1
  /\ \A i \in Inst, r \in Req :
       /\ <<i, r>> \in unclean => <<i, r>> \in unclean'
       /\ r # req[t] => (<<i, r>> \in unclean' <=> <<i, r>> \in unclean)
SideFrame(t) ==
  /\ \A i \in Inst, r \in Req : i \notin {src[t], dst[t]} \/ r # req[t] =>
       /\ core'[i][r] = core[i][r] /\ stream'[i][r] = stream[i][r]
       /\ snap'[i][r] = snap[i][r]
  /\ \A i \in Inst : ~alive[i] => core'[i][req[t]] \in {"none", core[i][req[t]]}

\* What the invariant says of the request of the task, after the call.
CallFrozen(t, p) ==
  /\ core'[src[t]][req[t]] = "frozen" /\ <<src[t], req[t]>> \notin unclean' =>
       \/ p \in Importing \cup Committing
       \/ p = "cleanup" /\ "abortOut" \in pending'[t]
  /\ core'[dst[t]][req[t]] = "frozen" => <<dst[t], req[t]>> \in unclean'
CallImports(t, p) ==
  /\ core'[dst[t]][req[t]] \in {"importing", "import_ready"}
       /\ <<dst[t], req[t]>> \notin unclean' /\ snap'[dst[t]][req[t]] = 0 =>
       \/ p \in {"transfer", "commitIn"}
       \/ p = "cleanup" /\ "abortIn" \in pending'[t]
  /\ core'[src[t]][req[t]] \in {"importing", "import_ready"}
       /\ snap'[src[t]][req[t]] = 0 => <<src[t], req[t]>> \in unclean'
CallSnap(t) ==
  core'[src[t]][req[t]] = "frozen" => snap'[src[t]][req[t]] = epoch[req[t]]
CallSides(t) ==
  Kept(req[t]) /\ Sheltered /\ SidesInv(t) =>
    /\ SidesInv(t)'
    /\ \E i \in Inst : core'[i][req[t]] \in {"running", "frozen"}
CallStreams(t, p) ==
  req[t] \in Req \ over =>
    /\ core'[src[t]][req[t]] \in {"running", "frozen"}
         /\ <<src[t], req[t]>> \notin unclean' => stream'[src[t]][req[t]]
    /\ core'[dst[t]][req[t]] \in {"running", "frozen"}
         /\ <<dst[t], req[t]>> \notin unclean' =>
           \/ stream'[dst[t]][req[t]]
           \/ p = "register"
           \/ p = "cleanup" /\ "abortReq" \in pending'[t]
CallPrefix(t, p) ==
  skip[t] /\ p \in {"prepareOut", "prepareIn"} =>
    \A i \in {src[t], dst[t]} : alive[i] => session'[i][req[t]] = "synced"

\* What the invariant says of other requests is kept by a call; what it says of
\* this one has to be shown of the task alone.
LEMMA CallKeeps ==
  ASSUME IInv, NEW t \in Task, NEW p \in PCs, pc[t] \notin Unselected,
         p \notin Unselected \cup {"retry", "precopyAppend"},
         CallTypes, CallFrame(t, p), SideFrame(t),
         AllAlive => CallFrozen(t, p) /\ CallImports(t, p) /\ CallStreams(t, p),
         CallSnap(t), CallSides(t), CallPrefix(t, p)
  PROVE  IInv'
<1> USE DEF IInv
<1>t. /\ src[t] \in Inst /\ dst[t] \in Inst /\ src[t] # dst[t]
      /\ req[t] \in Req /\ req[t] \in migrating /\ req[t] \in born
  BY DEF TaskInv, TypeOK, Unselected
<1>e. /\ pc'[t] = p
      /\ \A u \in Task \ {t} : pc'[u] = pc[u] /\ pending'[u] = pending[u]
      /\ \A u \in Task \ {t} : pc[u] \notin Unselected => req[u] # req[t]
      /\ epoch' = epoch /\ migrating' = migrating /\ busy' = busy
      /\ UNCHANGED <<alive, src, dst, req, attempt, skip, born, over, victims>>
  <2>1. /\ UNCHANGED <<alive, managerVars, src, dst, req, attempt, skip, born, over, victims>>
        /\ pc' = [pc EXCEPT ![t] = p]
        /\ \A u \in Task \ {t} : pending'[u] = pending[u]
    BY DEF CallFrame
  <2>2. pc'[t] = p /\ \A u \in Task \ {t} : pc'[u] = pc[u]
    BY <2>1 DEF TypeOK
  <2>3. \A u \in Task \ {t} : pc[u] \notin Unselected => req[u] # req[t]
    BY <1>t DEF OneOwner, TaskInv
  <2> QED
    BY <2>1, <2>2, <2>3 DEF managerVars
<1>f. faults > 0 => faults' > 0
  BY BoundsAssumption DEF TypeOK, CallTypes
<1>a. (AllAlive' <=> AllAlive) /\ (Sheltered' <=> Sheltered)
  BY <1>e DEF AllAlive, Sheltered
<1>1. TypeOK'
  <2>1. pc' \in [Task -> PCs] /\ faults' \in 0..MaxFaults
    BY BoundsAssumption DEF TypeOK, CallTypes, CallFrame
  <2> QED
    BY <1>e, <2>1 DEF TypeOK, CallTypes
<1>2. TaskInv' /\ OneOwner'
  <2>1. /\ pc'[t] # "free" /\ pc'[t] \notin Unselected /\ pc'[t] # "retry"
        /\ req[t] # NoReq
    BY <1>t, <1>e, NoneAssumption DEF Unselected
  <2>2. OneOwner'
    BY <1>e DEF OneOwner
  <2>3. \A r \in migrating' : \E u \in Task : req'[u] = r
    BY <1>e DEF TaskInv
  <2> QED
    BY <1>t, <1>e, <2>1, <2>2, <2>3 DEF TaskInv
<1>3. NewInv'
  BY <1>e, <1>t DEF NewInv, SideFrame
<1>4. DeadInv'
  <2>1. \A i \in Inst, r \in Req : ~alive[i] => core'[i][r] = "none"
    BY <1>t DEF DeadInv, SideFrame
  <2>2. unclean' # {} => faults' > 0
    BY BoundsAssumption DEF DeadInv, CallFrame, CallTypes, TypeOK
  <2>3. ~AllAlive /\ unclean' # {} => faults' > 1
    <3>1. ~AllAlive => faults > 0
      BY DEF DeadInv, AllAlive
    <3> QED
      BY <3>1, BoundsAssumption DEF DeadInv, CallFrame, CallTypes, TypeOK
  <2>4. \A i \in Inst : ~alive[i] => faults' > 0
    BY <1>f DEF DeadInv
  <2> QED
    BY <1>a, <1>e, <2>1, <2>2, <2>3, <2>4 DEF DeadInv
<1>s. SnapInv'
  <2> SUFFICES ASSUME NEW u \in Task, req[u] # NoReq, core'[src[u]][req[u]] = "frozen"
               PROVE  snap'[src[u]][req[u]] = epoch[req[u]]
    BY <1>e DEF SnapInv
  <2>1. CASE u = t
    BY <2>1 DEF CallSnap
  <2>2. CASE u # t
    <3>1. /\ req[u] \in Req \ {req[t]} /\ src[u] \in Inst
      BY <1>e, <2>2 DEF TaskInv, TypeOK, Unselected
    <3>2. /\ core'[src[u]][req[u]] = core[src[u]][req[u]]
          /\ snap'[src[u]][req[u]] = snap[src[u]][req[u]]
      BY <3>1 DEF SideFrame
    <3> QED
      BY <3>2 DEF SnapInv
  <2> QED
    BY <2>1, <2>2
<1>5. FrozenInv'
  <2> SUFFICES ASSUME AllAlive, NEW i \in Inst, NEW r \in Req, core'[i][r] = "frozen",
                      <<i, r>> \notin unclean'
               PROVE  \E u \in Task :
                        /\ req[u] = r /\ src[u] = i
                        /\ \/ pc'[u] \in Importing \cup Committing
                           \/ pc'[u] = "cleanup" /\ "abortOut" \in pending'[u]
    BY <1>a, <1>e DEF FrozenInv
  <2>1. CASE r = req[t] /\ i \in {src[t], dst[t]}
    BY <1>e, <2>1 DEF CallFrozen
  <2>2. CASE ~(r = req[t] /\ i \in {src[t], dst[t]})
    <3>1. core[i][r] = "frozen" /\ <<i, r>> \notin unclean
      BY <2>2 DEF SideFrame, CallFrame
    <3>2. PICK u \in Task : /\ req[u] = r /\ src[u] = i
                            /\ \/ pc[u] \in Importing \cup Committing
                               \/ pc[u] = "cleanup" /\ "abortOut" \in pending[u]
      BY <3>1 DEF FrozenInv
    <3>3. u # t
      BY <2>2, <3>2
    <3> QED
      BY <1>e, <3>2, <3>3
  <2> QED
    BY <2>1, <2>2
<1>6. ImportInv'
  <2> SUFFICES ASSUME AllAlive, NEW i \in Inst, NEW r \in Req,
                      core'[i][r] \in {"importing", "import_ready"},
                      <<i, r>> \notin unclean', snap'[i][r] = 0
               PROVE  \E u \in Task :
                        /\ req[u] = r /\ dst[u] = i
                        /\ \/ pc'[u] \in {"transfer", "commitIn"}
                           \/ pc'[u] = "cleanup" /\ "abortIn" \in pending'[u]
    BY <1>a, <1>e DEF ImportInv
  <2>1. CASE r = req[t] /\ i \in {src[t], dst[t]}
    BY <1>e, <2>1 DEF CallImports
  <2>2. CASE ~(r = req[t] /\ i \in {src[t], dst[t]})
    <3>1. /\ core[i][r] \in {"importing", "import_ready"}
          /\ <<i, r>> \notin unclean /\ snap[i][r] = 0
      BY <2>2 DEF SideFrame, CallFrame
    <3>2. PICK u \in Task : /\ req[u] = r /\ dst[u] = i
                            /\ \/ pc[u] \in {"transfer", "commitIn"}
                               \/ pc[u] = "cleanup" /\ "abortIn" \in pending[u]
      BY <3>1 DEF ImportInv
    <3>3. u # t
      BY <2>2, <3>2
    <3> QED
      BY <1>e, <3>2, <3>3
  <2> QED
    BY <2>1, <2>2
<1>7. KeptInv'
  <2> SUFFICES ASSUME Sheltered PROVE KeptInv'
    BY <1>a DEF KeptInv
  <2>1. \A q : Kept(q)' <=> Kept(q)
    BY <1>e DEF Kept
  <2>2. ASSUME NEW u \in Task \ {t}, Kept(req[u]) PROVE SidesInv(u)'
    <3>1. /\ pc[u] \notin Unselected /\ req[u] \in Req /\ req[u] # req[t]
          /\ src[u] \in Inst /\ dst[u] \in Inst
      BY <1>e, <2>2, NoneAssumption DEF Kept, TaskInv, Unselected
    <3>2. \A i \in Inst : core'[i][req[u]] = core[i][req[u]]
      BY <3>1 DEF SideFrame
    <3>3. SidesInv(u)
      BY <2>2 DEF KeptInv
    <3>4. Messy(req[u])' <=> Messy(req[u])
      BY <1>e, <3>1 DEF Messy, CallFrame
    <3> QED
      BY <1>e, <1>f, <3>1, <3>2, <3>3, <3>4 DEF SidesInv
  <2>3. Kept(req[t]) => /\ SidesInv(t)'
                        /\ \E i \in Inst : core'[i][req[t]] \in {"running", "frozen"}
    BY DEF CallSides, KeptInv
  <2>4. \A r \in Req \ {req[t]}, i \in Inst : core'[i][r] = core[i][r]
    BY DEF SideFrame
  <2>5. \A r \in born : Kept(r)
          => \E i \in Inst : core'[i][r] \in {"running", "frozen"}
    BY <2>3, <2>4 DEF KeptInv, TypeOK
  <2>6. \A r \in Req \ migrating, i, j \in Inst :
          Kept(r) /\ ~Messy(r)' /\ core'[i][r] = "running" /\ core'[j][r] = "running"
            => i = j
    <3>1. \A r \in Req \ migrating : Messy(r) => Messy(r)'
      BY DEF Messy, CallFrame
    <3> QED
      BY <1>t, <2>4, <3>1 DEF KeptInv
  <2>7. \A u \in Task : Kept(req[u]) => SidesInv(u)'
    BY <2>2, <2>3
  <2> QED
    BY <1>e, <2>1, <2>5, <2>6, <2>7 DEF KeptInv
<1>8. StreamInv'
  <2> SUFFICES ASSUME AllAlive, NEW i \in Inst, NEW r \in Req \ over,
                      core'[i][r] \in {"running", "frozen"}, <<i, r>> \notin unclean',
                      ~stream'[i][r]
               PROVE  \E u \in Task : /\ req[u] = r /\ dst[u] = i
                                      /\ \/ pc'[u] = "register"
                                         \/ pc'[u] = "cleanup" /\ "abortReq" \in pending'[u]
    BY <1>a, <1>e DEF StreamInv
  <2>1. CASE r = req[t] /\ i \in {src[t], dst[t]}
    BY <1>e, <2>1 DEF CallStreams
  <2>2. CASE ~(r = req[t] /\ i \in {src[t], dst[t]})
    <3>1. /\ core[i][r] \in {"running", "frozen"} /\ <<i, r>> \notin unclean
          /\ ~stream[i][r]
      BY <2>2 DEF SideFrame, CallFrame
    <3>2. PICK u \in Task : /\ req[u] = r /\ dst[u] = i
                            /\ \/ pc[u] = "register"
                               \/ pc[u] = "cleanup" /\ "abortReq" \in pending[u]
      BY <3>1 DEF StreamInv
    <3>3. u # t
      BY <2>2, <3>2
    <3> QED
      BY <1>e, <3>2, <3>3
  <2> QED
    BY <2>1, <2>2
<1>9. PrefixInv'
  <2>1. /\ session' \in [Inst -> [Req -> {"none", "open", "synced"}]]
        /\ \A i \in Inst, r \in Req \ {req[t]} : session'[i][r] = session[i][r]
    BY DEF CallTypes, CallFrame
  <2>2. /\ skip'[t] /\ pc'[t] \in {"prepareOut", "prepareIn"} =>
             \A i \in {src[t], dst[t]} : alive[i] => session'[i][req[t]] = "synced"
        /\ pc'[t] # "precopyAppend"
    BY <1>e DEF CallPrefix
  <2> QED
    BY <1>e, <2>1, <2>2, PrefixKeeps
<1> QED
  BY <1>1, <1>2, <1>3, <1>4, <1>s, <1>5, <1>6, <1>7, <1>8, <1>9

\* One copy of a request changes its state.
LEMMA CoreSet ==
  ASSUME TypeOK, NEW i \in Inst, NEW r \in Req, NEW s \in CoreStates,
         core' = [core EXCEPT ![i][r] = s]
  PROVE  /\ core' \in [Inst -> [Req -> CoreStates]]
         /\ core'[i][r] = s
         /\ \A j \in Inst, q \in Req : j # i \/ q # r => core'[j][q] = core[j][q]
  BY DEF TypeOK

\* The two sides of the request of a task in a call, and what nobody changes.
LEMMA CallSidesKnown ==
  ASSUME IInv, NEW t \in Task, pc[t] \notin Unselected
  PROVE  /\ src[t] \in Inst /\ dst[t] \in Inst /\ src[t] # dst[t] /\ req[t] \in Req
         /\ <<req[t], epoch[req[t]]>> \in Req \X (1..MaxEpoch)
         /\ AllAlive =>
              /\ core[src[t]][req[t]] = "frozen" /\ <<src[t], req[t]>> \notin unclean =>
                   \/ pc[t] \in Importing \cup Committing
                   \/ pc[t] = "cleanup" /\ "abortOut" \in pending[t]
              /\ core[dst[t]][req[t]] = "frozen" => <<dst[t], req[t]>> \in unclean
              /\ core[dst[t]][req[t]] \in {"importing", "import_ready"}
                   /\ <<dst[t], req[t]>> \notin unclean /\ snap[dst[t]][req[t]] = 0 =>
                   \/ pc[t] \in {"transfer", "commitIn"}
                   \/ pc[t] = "cleanup" /\ "abortIn" \in pending[t]
              /\ core[src[t]][req[t]] \in {"importing", "import_ready"}
                   /\ snap[src[t]][req[t]] = 0 => <<src[t], req[t]>> \in unclean
         /\ AllAlive /\ req[t] \notin over =>
              /\ core[src[t]][req[t]] \in {"running", "frozen"}
                   /\ <<src[t], req[t]>> \notin unclean => stream[src[t]][req[t]]
              /\ core[dst[t]][req[t]] \in {"running", "frozen"}
                   /\ <<dst[t], req[t]>> \notin unclean =>
                     \/ stream[dst[t]][req[t]]
                     \/ pc[t] = "register"
                     \/ pc[t] = "cleanup" /\ "abortReq" \in pending[t]
         /\ core[src[t]][req[t]] = "frozen" => snap[src[t]][req[t]] = epoch[req[t]]
<1> USE DEF IInv
<1>1. /\ src[t] \in Inst /\ dst[t] \in Inst /\ src[t] # dst[t]
      /\ req[t] \in Req /\ epoch[req[t]] > 0 /\ req[t] # NoReq
  BY DEF TaskInv, TypeOK, Unselected
<1>2. epoch[req[t]] \in 1..MaxEpoch
  BY <1>1, BoundsAssumption DEF TypeOK
<1>3. \A u \in Task : req[u] = req[t] => u = t
  BY <1>1 DEF OneOwner
<1>4. AllAlive =>
        /\ core[src[t]][req[t]] = "frozen" /\ <<src[t], req[t]>> \notin unclean =>
             \/ pc[t] \in Importing \cup Committing
             \/ pc[t] = "cleanup" /\ "abortOut" \in pending[t]
        /\ core[dst[t]][req[t]] = "frozen" => <<dst[t], req[t]>> \in unclean
  BY <1>1, <1>3 DEF FrozenInv
<1>5. AllAlive =>
        /\ core[dst[t]][req[t]] \in {"importing", "import_ready"}
             /\ <<dst[t], req[t]>> \notin unclean /\ snap[dst[t]][req[t]] = 0 =>
             \/ pc[t] \in {"transfer", "commitIn"}
             \/ pc[t] = "cleanup" /\ "abortIn" \in pending[t]
        /\ core[src[t]][req[t]] \in {"importing", "import_ready"}
             /\ snap[src[t]][req[t]] = 0 => <<src[t], req[t]>> \in unclean
  BY <1>1, <1>3 DEF ImportInv
<1>6. AllAlive /\ req[t] \notin over =>
        /\ core[src[t]][req[t]] \in {"running", "frozen"}
             /\ <<src[t], req[t]>> \notin unclean => stream[src[t]][req[t]]
        /\ core[dst[t]][req[t]] \in {"running", "frozen"}
             /\ <<dst[t], req[t]>> \notin unclean =>
               \/ stream[dst[t]][req[t]]
               \/ pc[t] = "register"
               \/ pc[t] = "cleanup" /\ "abortReq" \in pending[t]
  BY <1>1, <1>3 DEF StreamInv
<1>7. core[src[t]][req[t]] = "frozen" => snap[src[t]][req[t]] = epoch[req[t]]
  BY <1>1 DEF SnapInv
<1> QED
  BY <1>1, <1>2, <1>4, <1>5, <1>6, <1>7

\* prepare_migration_out freezes the request at the source; when its snapshot
\* turns out to be invalid, the clean-up follows.
LEMMA PrepareOutIInv ==
  ASSUME IInv, NEW t \in Task, PrepareOut(t) \/ PrepareOutInvalid(t)
  PROVE  IInv'
<1> USE DEF IInv
<1>1. PICK p \in {"prepareIn", "cleanup"} :
        /\ pc' = [pc EXCEPT ![t] = p]
        /\ p = "prepareIn" => pending' = pending /\ faults' = faults
        /\ p = "cleanup" => /\ pending' = [pending EXCEPT ![t] = CleanupCalls]
                            /\ faults < MaxFaults /\ faults' = faults + 1
  BY DEF PrepareOut, PrepareOutInvalid, Goto, Fault, ghostVars
<1>2. /\ pc[t] = "prepareOut" /\ alive[src[t]] /\ core[src[t]][req[t]] = "running"
      /\ core' = [core EXCEPT ![src[t]][req[t]] = "frozen"]
      /\ snap' = [snap EXCEPT ![src[t]][req[t]] = epoch[req[t]]]
      /\ UNCHANGED <<alive, stream, resv, session, managerVars, src, dst, req,
                     attempt, skip, born, over, victims, unclean>>
  BY DEF PrepareOut, PrepareOutInvalid, Executed, Side, Accepts,
         prepare_migration_out, SetCore, ghostVars
<1>3. pc[t] \notin Unselected /\ p \notin Unselected \cup {"retry", "precopyAppend"}
        /\ p \in PCs
  BY <1>1, <1>2 DEF Unselected, PCs, Calls
<1>4. /\ src[t] \in Inst /\ dst[t] \in Inst /\ src[t] # dst[t] /\ req[t] \in Req
      /\ epoch[req[t]] \in 1..MaxEpoch
  BY <1>3, CallSidesKnown
<1>s. /\ snap' \in [Inst -> [Req -> 0..MaxEpoch]]
      /\ snap'[src[t]][req[t]] = epoch[req[t]] /\ epoch[req[t]] # 0
      /\ \A j \in Inst, q \in Req :
           j # src[t] \/ q # req[t] => snap'[j][q] = snap[j][q]
  BY <1>2, <1>4, BoundsAssumption DEF TypeOK
<1>5. /\ core' \in [Inst -> [Req -> CoreStates]]
      /\ core'[src[t]][req[t]] = "frozen"
      /\ \A j \in Inst, q \in Req :
           j # src[t] \/ q # req[t] => core'[j][q] = core[j][q]
  BY <1>2, <1>4, CoreSet DEF CoreStates
<1>6. CallTypes
  <2>1. pending' \in [Task -> SUBSET CleanupCalls]
    BY <1>1 DEF TypeOK
  <2>2. faults' \in faults..MaxFaults
    BY <1>1, BoundsAssumption DEF TypeOK
  <2> QED
    BY <1>2, <1>5, <1>s, <2>1, <2>2 DEF CallTypes, TypeOK
<1>7. CallFrame(t, p) /\ SideFrame(t)
  BY <1>1, <1>2, <1>4, <1>5, <1>s DEF CallFrame, SideFrame, TypeOK
<1>8. p = "cleanup" => pending'[t] = CleanupCalls /\ faults' > 0
  BY <1>1, BoundsAssumption DEF TypeOK
<1>9. CallSnap(t) /\ (AllAlive => CallFrozen(t, p) /\ CallImports(t, p) /\ CallStreams(t, p))
  <2>1. CallSnap(t)
    BY <1>s DEF CallSnap
  <2>2. AllAlive => CallFrozen(t, p)
    <3>1. AllAlive => (core[dst[t]][req[t]] = "frozen" => <<dst[t], req[t]>> \in unclean)
      BY <1>3, CallSidesKnown
    <3>2. core'[dst[t]][req[t]] = core[dst[t]][req[t]] /\ unclean' = unclean
      BY <1>2, <1>4, <1>5
    <3>3. p \in Importing \/ (p = "cleanup" /\ "abortOut" \in pending'[t])
      BY <1>1, <1>8 DEF CleanupCalls, Importing
    <3> QED
      BY <3>1, <3>2, <3>3 DEF CallFrozen
  <2>3. AllAlive => CallImports(t, p)
    <3>1. AllAlive => (core[dst[t]][req[t]] \in {"importing", "import_ready"}
                         /\ snap[dst[t]][req[t]] = 0 => <<dst[t], req[t]>> \in unclean)
      BY <1>2, <1>3, CallSidesKnown
    <3>2. /\ core'[dst[t]][req[t]] = core[dst[t]][req[t]] /\ unclean' = unclean
          /\ snap'[dst[t]][req[t]] = snap[dst[t]][req[t]]
      BY <1>2, <1>4, <1>5, <1>s
    <3> QED
      BY <1>5, <3>1, <3>2 DEF CallImports
  <2>4. AllAlive => CallStreams(t, p)
    BY ZenonT(40), <1>1, <1>2, <1>3, <1>4, <1>5, <1>8, CallSidesKnown DEF CallStreams, CleanupCalls
  <2> QED
    BY <2>1, <2>2, <2>3, <2>4
<1>10. CallSides(t)
  <2>1. pc'[t] = p
    BY <1>1 DEF TypeOK
  <2> QED
    BY <1>1, <1>2, <1>4, <1>5, <1>8, <2>1
       DEF CallSides, SidesInv, Messy, Before, Importing, Committing, PrecopyCalls, CleanupCalls
<1>11. CallPrefix(t, p)
  BY <1>2 DEF CallPrefix, PrefixInv, PrefixSafe
<1> QED
  BY <1>3, <1>6, <1>7, <1>9, <1>10, <1>11, CallKeeps

\* The target reserves blocks, receives the layers and takes the request over;
\* the source stays frozen.
LEMMA TargetIInv ==
  ASSUME IInv, NEW t \in Task, PrepareIn(t) \/ Transfer(t) \/ CommitIn(t)
  PROVE  IInv'
<1> USE DEF IInv
<1>1. PICK p \in {"transfer", "commitIn", "register"},
           s \in {"importing", "import_ready", "running"} :
        /\ pc' = [pc EXCEPT ![t] = p]
        /\ core' = [core EXCEPT ![dst[t]][req[t]] = s]
        /\ <<p, s>> \in {<<"transfer", "importing">>, <<"commitIn", "import_ready">>,
                         <<"register", "running">>}
  BY DEF PrepareIn, Transfer, CommitIn, Goto, reserve_import, import_blocks,
         commit_import, SetCore
<1>2. /\ pc[t] \in Importing /\ alive[dst[t]]
      /\ UNCHANGED <<alive, stream, snap, managerVars, src, dst, req, attempt, pending,
                     skip, born, over, victims, unclean, faults>>
  BY DEF PrepareIn, Transfer, CommitIn, Executed, Side, ghostVars, Importing
<1>3. /\ pc[t] \notin Unselected /\ p \notin Unselected \cup {"retry", "precopyAppend"}
      /\ p \in PCs /\ s \in CoreStates
  BY <1>1, <1>2 DEF Unselected, PCs, Calls, Importing, CoreStates
<1>4. /\ src[t] \in Inst /\ dst[t] \in Inst /\ src[t] # dst[t] /\ req[t] \in Req
      /\ <<req[t], epoch[req[t]]>> \in Req \X (1..MaxEpoch)
  BY <1>3, CallSidesKnown
<1>5. /\ core' \in [Inst -> [Req -> CoreStates]]
      /\ core'[dst[t]][req[t]] = s
      /\ \A j \in Inst, q \in Req :
           j # dst[t] \/ q # req[t] => core'[j][q] = core[j][q]
  BY <1>1, <1>3, <1>4, CoreSet DEF TypeOK
<1>6. /\ resv' \in [Inst -> SUBSET (Req \X (1..MaxEpoch))]
      /\ session' \in [Inst -> [Req -> {"none", "open", "synced"}]]
      /\ \A i \in Inst, r \in Req \ {req[t]} : session'[i][r] = session[i][r]
  <2>1. CASE PrepareIn(t)
    <3>1. SetSession(dst[t], req[t], "none")
      BY <2>1 DEF PrepareIn, abort_incremental_migration
    <3>2. resv' = [resv EXCEPT ![dst[t]] = @ \cup {<<req[t], epoch[req[t]]>>}]
      BY <2>1 DEF PrepareIn, reserve_import
    <3>3. resv' \in [Inst -> SUBSET (Req \X (1..MaxEpoch))]
      BY <1>4, <3>2 DEF TypeOK
    <3> QED
      BY <1>4, <3>1, <3>3, SessionSet
  <2>2. CASE Transfer(t) \/ CommitIn(t)
    BY <2>2 DEF Transfer, CommitIn, TypeOK
  <2> QED
    BY <2>1, <2>2
<1>7. CallTypes
  <2>1. faults' \in faults..MaxFaults
    BY <1>2, BoundsAssumption DEF TypeOK
  <2> QED
    BY <1>2, <1>5, <1>6, <2>1 DEF CallTypes, TypeOK
<1>8. CallFrame(t, p) /\ SideFrame(t)
  BY <1>1, <1>2, <1>4, <1>5, <1>6 DEF CallFrame, SideFrame, TypeOK
<1>9. CallSnap(t) /\ (AllAlive => CallFrozen(t, p) /\ CallImports(t, p) /\ CallStreams(t, p))
  <2>1. CallSnap(t)
    BY ZenonT(40), <1>2, <1>3, <1>4, <1>5, CallSidesKnown DEF CallSnap
  <2>2. AllAlive => CallFrozen(t, p) /\ CallImports(t, p)
    BY ZenonT(40), <1>1, <1>2, <1>3, <1>4, <1>5, CallSidesKnown
       DEF CallFrozen, CallImports, Importing, Committing
  <2>3. AllAlive => CallStreams(t, p)
    BY ZenonT(40), <1>1, <1>2, <1>3, <1>4, <1>5, CallSidesKnown DEF CallStreams, Importing
  <2> QED
    BY <2>1, <2>2, <2>3
<1>10. CallSides(t)
  <2>1. pc'[t] = p
    BY <1>1 DEF TypeOK
  <2>2. SidesInv(t) => core[src[t]][req[t]] = "frozen"
    BY <1>2 DEF SidesInv
  <2> QED
    BY <1>1, <1>2, <1>4, <1>5, <2>1, <2>2
       DEF CallSides, SidesInv, Messy, Before, Importing, Committing, PrecopyCalls
<1>11. CallPrefix(t, p)
  BY <1>1 DEF CallPrefix
<1> QED
  BY <1>3, <1>7, <1>8, <1>9, <1>10, <1>11, CallKeeps

\* The target forwards the outputs of the request that it runs.
LEMMA RegisterIInv ==
  ASSUME IInv, NEW t \in Task, Register(t)
  PROVE  IInv'
<1> USE DEF IInv
<1>1. /\ pc' = [pc EXCEPT ![t] = "commitOut"]
      /\ pc[t] = "register" /\ alive[dst[t]]
      /\ stream' = [stream EXCEPT ![dst[t]][req[t]] = TRUE]
      /\ UNCHANGED <<alive, core, resv, session, snap, managerVars, src, dst, req,
                     attempt, pending, skip, born, over, victims, unclean, faults>>
  BY DEF Register, Goto, Executed, Side, add_migrated_request, ghostVars
<1>3. /\ pc[t] \notin Unselected /\ "commitOut" \in PCs
      /\ "commitOut" \notin Unselected \cup {"retry", "precopyAppend"}
  BY <1>1 DEF Unselected, PCs, Calls
<1>4. src[t] \in Inst /\ dst[t] \in Inst /\ src[t] # dst[t] /\ req[t] \in Req
  BY <1>3, CallSidesKnown
<1>5. /\ stream' \in [Inst -> [Req -> BOOLEAN]]
      /\ stream'[dst[t]][req[t]]
      /\ \A j \in Inst, q \in Req :
           j # dst[t] \/ q # req[t] => stream'[j][q] = stream[j][q]
  BY <1>1, <1>4 DEF TypeOK
<1>7. CallTypes
  <2>1. faults' \in faults..MaxFaults
    BY <1>1, BoundsAssumption DEF TypeOK
  <2> QED
    BY <1>1, <1>5, <2>1 DEF CallTypes, TypeOK
<1>8. CallFrame(t, "commitOut") /\ SideFrame(t)
  BY <1>1, <1>4, <1>5 DEF CallFrame, SideFrame, TypeOK
<1>9. /\ CallSnap(t)
      /\ AllAlive => /\ CallFrozen(t, "commitOut") /\ CallImports(t, "commitOut")
                     /\ CallStreams(t, "commitOut")
  <2>1. CallSnap(t)
    BY <1>1, <1>3, CallSidesKnown DEF CallSnap
  <2>2. AllAlive => CallFrozen(t, "commitOut") /\ CallImports(t, "commitOut")
    BY <1>1, <1>3, <1>4, CallSidesKnown
       DEF CallFrozen, CallImports, Importing, Committing
  <2>3. AllAlive => CallStreams(t, "commitOut")
    BY ZenonT(40), <1>1, <1>3, <1>4, <1>5, CallSidesKnown DEF CallStreams
  <2> QED
    BY <2>1, <2>2, <2>3
<1>10. CallSides(t)
  <2>1. pc'[t] = "commitOut"
    BY <1>1 DEF TypeOK
  <2> QED
    BY <1>1, <1>4, <2>1
       DEF CallSides, SidesInv, Messy, Before, Importing, Committing, PrecopyCalls
<1>11. CallPrefix(t, "commitOut")
  BY DEF CallPrefix
<1> QED
  BY <1>3, <1>7, <1>8, <1>9, <1>10, <1>11, CallKeeps

\* The source drops its copy, after the target has taken the request over.
LEMMA CommitOutIInv ==
  ASSUME IInv, NEW t \in Task, CommitOut(t)
  PROVE  IInv'
<1> USE DEF IInv
<1>1. /\ pc' = [pc EXCEPT ![t] = "finishOut"]
      /\ pc[t] = "commitOut" /\ alive[src[t]]
      /\ core' = [core EXCEPT ![src[t]][req[t]] = "none"]
      /\ UNCHANGED <<alive, stream, resv, session, snap, managerVars, src, dst, req,
                     attempt, pending, skip, born, over, victims, unclean, faults>>
  BY DEF CommitOut, Goto, Executed, Side, commit_export, SetCore, ghostVars
<1>3. /\ pc[t] \notin Unselected /\ "finishOut" \in PCs /\ "none" \in CoreStates
      /\ "finishOut" \notin Unselected \cup {"retry", "precopyAppend"}
  BY <1>1 DEF Unselected, PCs, Calls, CoreStates
<1>4. src[t] \in Inst /\ dst[t] \in Inst /\ src[t] # dst[t] /\ req[t] \in Req
  BY <1>3, CallSidesKnown
<1>5. /\ core' \in [Inst -> [Req -> CoreStates]]
      /\ core'[src[t]][req[t]] = "none"
      /\ \A j \in Inst, q \in Req :
           j # src[t] \/ q # req[t] => core'[j][q] = core[j][q]
  BY <1>1, <1>3, <1>4, CoreSet DEF TypeOK
<1>7. CallTypes
  <2>1. faults' \in faults..MaxFaults
    BY <1>1, BoundsAssumption DEF TypeOK
  <2> QED
    BY <1>1, <1>5, <2>1 DEF CallTypes, TypeOK
<1>8. CallFrame(t, "finishOut") /\ SideFrame(t)
  BY <1>1, <1>4, <1>5 DEF CallFrame, SideFrame, TypeOK
<1>9. /\ CallSnap(t)
      /\ AllAlive => /\ CallFrozen(t, "finishOut") /\ CallImports(t, "finishOut")
                     /\ CallStreams(t, "finishOut")
  <2>1. CallSnap(t)
    BY <1>5 DEF CallSnap
  <2>2. AllAlive => CallFrozen(t, "finishOut") /\ CallImports(t, "finishOut")
    BY ZenonT(40), <1>1, <1>3, <1>4, <1>5, CallSidesKnown DEF CallFrozen, CallImports
  <2>3. AllAlive => CallStreams(t, "finishOut")
    BY ZenonT(40), <1>1, <1>3, <1>4, <1>5, CallSidesKnown DEF CallStreams
  <2> QED
    BY <2>1, <2>2, <2>3
<1>10. CallSides(t)
  <2>1. pc'[t] = "finishOut"
    BY <1>1 DEF TypeOK
  <2> QED
    BY <1>1, <1>4, <1>5, <2>1
       DEF CallSides, SidesInv, Messy, Before, Importing, Committing, PrecopyCalls
<1>11. CallPrefix(t, "finishOut")
  BY DEF CallPrefix
<1> QED
  BY <1>3, <1>7, <1>8, <1>9, <1>10, <1>11, CallKeeps

\* The calls of the clean-up, in any order: both sides go back to where they were,
\* and a copy that already runs at the target is dropped.
LEMMA CleanupCallIInv ==
  ASSUME IInv, NEW t \in Task, CleanupCall(t)
  PROVE  IInv'
<1> USE DEF IInv
<1> DEFINE i == src[t]
           j == dst[t]
           r == req[t]
<1>1. PICK c \in pending[t] :
        /\ pending' = [pending EXCEPT ![t] = @ \ {c}]
        /\ \/ c = "abortIn" /\ AbortIn(t)
           \/ c = "abortReq" /\ AbortReq(t)
           \/ c = "abortOut" /\ AbortOut(t)
           \/ c = "sessions" /\ AbortSessions(t) /\ UNCHANGED <<core, stream, resv>>
  BY DEF CleanupCall
<1>2. /\ pc[t] = "cleanup"
      /\ UNCHANGED <<alive, snap, managerVars, pc, src, dst, req, attempt, skip, born,
                     over, victims, unclean>>
  BY DEF CleanupCall
<1>3. /\ pc[t] \notin Unselected /\ "cleanup" \in PCs
      /\ "cleanup" \notin Unselected \cup {"retry", "precopyAppend"}
      /\ pc' = [pc EXCEPT ![t] = "cleanup"]
  BY <1>2 DEF Unselected, PCs, TypeOK
<1>4. /\ i \in Inst /\ j \in Inst /\ i # j /\ r \in Req
      /\ <<r, epoch[r]>> \in Req \X (1..MaxEpoch)
  BY <1>3, CallSidesKnown
<1>5. PICK s \in CoreStates, d \in CoreStates :
        /\ core' \in [Inst -> [Req -> CoreStates]]
        /\ core'[i][r] = s /\ core'[j][r] = d
        /\ \A k \in Inst, q \in Req :
             k \notin {i, j} \/ q # r => core'[k][q] = core[k][q]
        /\ s = IF c = "abortOut" /\ core[i][r] = "frozen" THEN "running" ELSE core[i][r]
        /\ \/ d = core[j][r]
           \/ d = "none" /\ core[j][r] \in {"running", "importing", "import_ready"}
        /\ c = "abortIn" /\ snap[j][r] = 0 => d \notin {"importing", "import_ready"}
        /\ c = "abortReq" => d # "running"
  <2> SUFFICES
        /\ core' \in [Inst -> [Req -> CoreStates]]
        /\ \A k \in Inst, q \in Req :
             k \notin {i, j} \/ q # r => core'[k][q] = core[k][q]
        /\ core'[i][r] =
             IF c = "abortOut" /\ core[i][r] = "frozen" THEN "running" ELSE core[i][r]
        /\ \/ core'[j][r] = core[j][r]
           \/ core'[j][r] = "none" /\ core[j][r] \in {"running", "importing", "import_ready"}
        /\ c = "abortIn" /\ snap[j][r] = 0
             => core'[j][r] \notin {"importing", "import_ready"}
        /\ c = "abortReq" => core'[j][r] # "running"
    BY <1>4
  <2> DEFINE din == IF core[j][r] \in {"importing", "import_ready"} /\ EpochMatches(j, r)
                    THEN "none" ELSE core[j][r]
             dreq == IF core[j][r] = "running" THEN "none" ELSE core[j][r]
             sout == IF core[i][r] = "frozen" THEN "running" ELSE core[i][r]
  <2>0. /\ din \in CoreStates /\ dreq \in CoreStates /\ sout \in CoreStates
        /\ core = [core EXCEPT ![j][r] = core[j][r]]
        /\ snap[j][r] = 0 => EpochMatches(j, r)
        /\ core[i][r] = "frozen" => EpochMatches(i, r)
    <3>1. core[i][r] \in CoreStates /\ core[j][r] \in CoreStates
      BY <1>4 DEF TypeOK
    <3>2. core = [core EXCEPT ![j][r] = core[j][r]]
      BY <1>4 DEF TypeOK
    <3>3. core[i][r] = "frozen" => snap[i][r] = epoch[r]
      BY <1>3, CallSidesKnown
    <3>4. din \in CoreStates /\ dreq \in CoreStates /\ sout \in CoreStates
      BY <3>1 DEF CoreStates
    <3> QED
      BY <3>2, <3>3, <3>4 DEF EpochMatches
  <2>1. CASE c = "abortIn"
    <3>1. core' = [core EXCEPT ![j][r] = din]
      BY <1>1, <2>0, <2>1 DEF AbortIn, abort_import, SetCore
    <3>s. snap[j][r] = 0 => din \notin {"importing", "import_ready"}
      BY <2>0
    <3>d. din = core[j][r] \/ (din = "none" /\ core[j][r] \in {"importing", "import_ready"})
      OBVIOUS
    <3> HIDE DEF din
    <3>2. /\ core' \in [Inst -> [Req -> CoreStates]] /\ core'[j][r] = din
          /\ \A k \in Inst, q \in Req : k # j \/ q # r => core'[k][q] = core[k][q]
      BY <1>4, <2>0, <3>1, CoreSet DEF TypeOK
    <3> QED
      BY <1>4, <2>1, <3>2, <3>s, <3>d
  <2>2. CASE c = "abortReq"
    <3>1. core' = [core EXCEPT ![j][r] = dreq]
      BY <1>1, <1>4, <2>2 DEF AbortReq, TypeOK
    <3> HIDE DEF dreq
    <3>2. /\ core' \in [Inst -> [Req -> CoreStates]] /\ core'[j][r] = dreq
          /\ \A k \in Inst, q \in Req : k # j \/ q # r => core'[k][q] = core[k][q]
      BY <1>4, <2>0, <3>1, CoreSet DEF TypeOK
    <3> QED
      BY <1>4, <2>2, <3>2 DEF dreq
  <2>3. CASE c = "abortOut"
    <3>1. core' = [core EXCEPT ![i][r] = sout]
      BY <1>1, <1>4, <2>0, <2>3 DEF AbortOut, abort_export, TypeOK
    <3> HIDE DEF sout
    <3>2. /\ core' \in [Inst -> [Req -> CoreStates]] /\ core'[i][r] = sout
          /\ \A k \in Inst, q \in Req : k # i \/ q # r => core'[k][q] = core[k][q]
      BY <1>4, <2>0, <3>1, CoreSet DEF TypeOK
    <3> QED
      BY <1>4, <2>3, <3>2 DEF sout
  <2>4. CASE c = "sessions"
    BY <1>1, <1>4, <2>4 DEF TypeOK, CoreStates
  <2> QED
    BY <1>1, <2>1, <2>2, <2>3, <2>4
<1>6. /\ stream' \in [Inst -> [Req -> BOOLEAN]]
      /\ \A k \in Inst, q \in Req : k # j \/ q # r => stream'[k][q] = stream[k][q]
      /\ c # "abortReq" => stream'[j][r] = stream[j][r]
  <2>1. CASE c = "abortReq"
    <3>1. stream' = [stream EXCEPT ![j][r] = FALSE]
      BY <1>1, <2>1 DEF AbortReq, release_request
    <3>2. stream \in [Inst -> [Req -> BOOLEAN]]
      BY DEF TypeOK
    <3> HIDE DEF IInv
    <3> QED
      BY <1>4, <2>1, <3>1, <3>2
  <2>2. CASE c # "abortReq"
    BY <1>1, <2>2 DEF AbortIn, AbortOut, TypeOK
  <2> QED
    BY <2>1, <2>2
<1>7. resv' \in [Inst -> SUBSET (Req \X (1..MaxEpoch))]
  <2>1. CASE c = "abortIn"
    <3>1. \/ resv' = resv
          \/ resv' = [resv EXCEPT ![j] = @ \ {<<r, epoch[r]>>}]
      BY <1>1, <2>1 DEF AbortIn, abort_import
    <3>2. resv \in [Inst -> SUBSET (Req \X (1..MaxEpoch))]
      BY DEF TypeOK
    <3> HIDE DEF IInv
    <3> QED
      BY <1>4, <3>1, <3>2
  <2>2. CASE c # "abortIn"
    BY <1>1, <2>2 DEF AbortReq, AbortOut, TypeOK
  <2> QED
    BY <2>1, <2>2
<1>8. /\ session' \in [Inst -> [Req -> {"none", "open", "synced"}]]
      /\ \A k \in Inst, q \in Req \ {r} : session'[k][q] = session[k][q]
      /\ faults' \in faults..MaxFaults
  <2>1. CASE c = "sessions"
    BY <1>1, <2>1, SessionsAborted
  <2>2. CASE c # "sessions"
    <3>1. UNCHANGED <<session, faults>>
      BY <1>1, <2>2 DEF AbortIn, AbortReq, AbortOut
    <3> QED
      BY <3>1, BoundsAssumption DEF TypeOK
  <2> QED
    BY <2>1, <2>2
<1>9. /\ pending' \in [Task -> SUBSET CleanupCalls]
      /\ pending'[t] = pending[t] \ {c}
      /\ \A u \in Task \ {t} : pending'[u] = pending[u]
  BY <1>1 DEF TypeOK
<1>10. CallTypes
  BY <1>2, <1>5, <1>6, <1>7, <1>8, <1>9 DEF CallTypes, TypeOK
<1>11. CallFrame(t, "cleanup") /\ SideFrame(t)
  <2>1. \A k \in Inst : ~alive[k] => core'[k][r] \in {"none", core[k][r]}
    <3>1. \A k \in Inst : ~alive[k] => core[k][r] = "none"
      BY <1>4 DEF DeadInv
    <3>2. /\ ~alive[i] => core'[i][r] = "none"
          /\ ~alive[j] => core'[j][r] = "none"
      BY <1>4, <1>5, <3>1
    <3>3. \A k \in Inst \ {i, j} : core'[k][r] = core[k][r]
      BY <1>4, <1>5
    <3> QED
      BY <3>2, <3>3
  <2>2. CallFrame(t, "cleanup")
    BY <1>2, <1>3, <1>8, <1>9 DEF CallFrame
  <2>3. SideFrame(t)
    BY <1>2, <1>4, <1>5, <1>6, <2>1 DEF SideFrame
  <2> QED
    BY <2>2, <2>3
<1>12. CallSnap(t) /\ (AllAlive => CallFrozen(t, "cleanup") /\ CallImports(t, "cleanup"))
  <2>0. core[i][r] = "frozen" => snap[i][r] = epoch[r]
    BY <1>3, CallSidesKnown
  <2>1. CallSnap(t)
    <3>1. s = "frozen" => core[i][r] = "frozen"
      BY <1>5
    <3> QED
      BY <1>2, <1>5, <2>0, <3>1 DEF CallSnap
  <2> SUFFICES ASSUME AllAlive PROVE CallFrozen(t, "cleanup") /\ CallImports(t, "cleanup")
    BY <2>1
  <2>2. /\ core[i][r] = "frozen" /\ <<i, r>> \notin unclean => "abortOut" \in pending[t]
        /\ core[j][r] = "frozen" => <<j, r>> \in unclean
        /\ core[j][r] \in {"importing", "import_ready"} /\ <<j, r>> \notin unclean
             /\ snap[j][r] = 0 => "abortIn" \in pending[t]
        /\ core[i][r] \in {"importing", "import_ready"} /\ snap[i][r] = 0
             => <<i, r>> \in unclean
    BY <1>2, <1>3, CallSidesKnown DEF Importing, Committing
  <2>3. CallFrozen(t, "cleanup")
    BY <1>2, <1>5, <1>9, <2>2 DEF CallFrozen
  <2>4. CallImports(t, "cleanup")
    BY <1>2, <1>5, <1>9, <2>2 DEF CallImports
  <2> QED
    BY <2>3, <2>4
<1>13. (AllAlive => CallStreams(t, "cleanup")) /\ CallPrefix(t, "cleanup")
  <2>1. CallPrefix(t, "cleanup")
    BY DEF CallPrefix
  <2> SUFFICES ASSUME AllAlive, r \notin over PROVE CallStreams(t, "cleanup")
    BY <2>1 DEF CallStreams
  <2>2. /\ core[i][r] \in {"running", "frozen"} /\ <<i, r>> \notin unclean => stream[i][r]
        /\ core[j][r] \in {"running", "frozen"} /\ <<j, r>> \notin unclean
             => stream[j][r] \/ "abortReq" \in pending[t]
        /\ core[j][r] = "frozen" => <<j, r>> \in unclean
    BY <1>2, <1>3, CallSidesKnown
  <2>3. s \in {"running", "frozen"} => core[i][r] \in {"running", "frozen"}
    BY <1>5
  <2>4. d \in {"running", "frozen"} => d = core[j][r]
    BY <1>5
  <2>5. stream'[i][r] = stream[i][r]
    BY <1>4, <1>6
  <2> QED
    BY <1>2, <1>5, <1>6, <1>9, <2>2, <2>3, <2>4, <2>5 DEF CallStreams
<1>14. CallSides(t)
  <2> SUFFICES ASSUME SidesInv(t)
               PROVE  SidesInv(t)' /\ \E k \in Inst : core'[k][r] \in {"running", "frozen"}
    BY DEF CallSides
  <2>1. /\ core[i][r] \in {"running", "frozen"}
        /\ ~Messy(r) =>
             /\ core[i][r] = "frozen" => "abortOut" \in pending[t]
             /\ core[j][r] = "running" => faults > 0 /\ "abortReq" \in pending[t]
             /\ \A k \in Inst \ {i, j} : core[k][r] # "running"
    BY <1>2 DEF SidesInv
  <2>f. faults > 0 => faults' > 0
    BY <1>8, BoundsAssumption DEF TypeOK
  <2>2. /\ s \in {"running", "frozen"}
        /\ ~Messy(r) =>
             /\ s = "frozen" => "abortOut" \in pending'[t]
             /\ d = "running" => faults' > 0 /\ "abortReq" \in pending'[t]
             /\ \A k \in Inst \ {i, j} : core'[k][r] # "running"
    BY <1>4, <1>5, <1>9, <2>1, <2>f
  <2>3. Messy(r)' <=> Messy(r)
    BY <1>2 DEF Messy
  <2> QED
    BY <1>2, <1>4, <1>5, <2>2, <2>3
       DEF SidesInv, Before, Importing, Committing, PrecopyCalls
<1> QED
  BY <1>3, <1>10, <1>11, <1>12, <1>13, <1>14, CallKeeps

\* A call of the clean-up that fails changes no engine, and is noted.
LEMMA CleanupFailsIInv ==
  ASSUME IInv, NEW t \in Task, CleanupFails(t)
  PROVE  IInv'
<1> USE DEF IInv
<1> DEFINE i == src[t]
           j == dst[t]
           r == req[t]
<1>1. PICK c \in pending[t] \ {"sessions"} :
        /\ pending' = [pending EXCEPT ![t] = @ \ {c}]
        /\ unclean' = unclean \cup {<<IF c = "abortOut" THEN src[t] ELSE dst[t], req[t]>>}
  BY DEF CleanupFails
<1>2. /\ pc[t] = "cleanup" /\ faults < MaxFaults /\ faults' = faults + 1
      /\ UNCHANGED <<alive, core, stream, resv, session, snap, managerVars, pc, src, dst,
                     req, attempt, skip, born, over, victims>>
  BY DEF CleanupFails, Fault, engineVars
<1>3. /\ pc[t] \notin Unselected /\ "cleanup" \in PCs
      /\ "cleanup" \notin Unselected \cup {"retry", "precopyAppend"}
      /\ pc' = [pc EXCEPT ![t] = "cleanup"]
  BY <1>2 DEF Unselected, PCs, TypeOK
<1>4. i \in Inst /\ j \in Inst /\ i # j /\ r \in Req
  BY <1>3, CallSidesKnown
<1>5. /\ unclean' \subseteq Inst \X Req
      /\ \A k \in Inst, q \in Req :
           <<k, q>> \in unclean'
             <=> \/ <<k, q>> \in unclean
                 \/ q = r /\ k = IF c = "abortOut" THEN i ELSE j
  BY <1>1, <1>4 DEF TypeOK
<1>6. /\ pending' \in [Task -> SUBSET CleanupCalls]
      /\ pending'[t] = pending[t] \ {c}
      /\ c \in {"abortIn", "abortReq", "abortOut"}
      /\ \A u \in Task \ {t} : pending'[u] = pending[u]
  <2>1. pending \in [Task -> SUBSET CleanupCalls]
    BY DEF TypeOK
  <2>2. c \in CleanupCalls \ {"sessions"}
    BY <1>1, <2>1
  <2>3. c \in {"abortIn", "abortReq", "abortOut"}
    BY <2>2 DEF CleanupCalls
  <2>4. /\ pending' \in [Task -> SUBSET CleanupCalls]
        /\ pending'[t] = pending[t] \ {c}
        /\ \A u \in Task \ {t} : pending'[u] = pending[u]
    BY <1>1, <2>1
  <2> QED
    BY <2>3, <2>4
<1>7. CallTypes
  <2>1. faults' \in faults..MaxFaults
    BY <1>2, BoundsAssumption DEF TypeOK
  <2> QED
    BY <1>2, <1>5, <1>6, <2>1 DEF CallTypes, TypeOK
<1>8. CallFrame(t, "cleanup") /\ SideFrame(t)
  BY <1>2, <1>3, <1>5, <1>6 DEF CallFrame, SideFrame
<1>9. CallSnap(t) /\ (AllAlive => CallFrozen(t, "cleanup") /\ CallImports(t, "cleanup")
                                    /\ CallStreams(t, "cleanup"))
  <2>1. CallSnap(t)
    BY <1>2, <1>3, CallSidesKnown DEF CallSnap
  <2>2. AllAlive => CallFrozen(t, "cleanup")
    BY <1>2, <1>3, <1>4, <1>5, <1>6, CallSidesKnown DEF CallFrozen, Importing, Committing
  <2>3. AllAlive => CallImports(t, "cleanup")
    BY <1>2, <1>3, <1>4, <1>5, <1>6, CallSidesKnown DEF CallImports
  <2>4. AllAlive => CallStreams(t, "cleanup")
    BY <1>2, <1>3, <1>4, <1>5, <1>6, CallSidesKnown DEF CallStreams
  <2> QED
    BY <2>1, <2>2, <2>3, <2>4
<1>10. CallPrefix(t, "cleanup")
  BY DEF CallPrefix
<1>11. CallSides(t)
  <2>1. Messy(r)'
    BY <1>2, <1>4, <1>5 DEF Messy
  <2> QED
    BY <1>2, <1>4, <2>1
       DEF CallSides, SidesInv, Before, Importing, Committing, PrecopyCalls
<1> QED
  BY <1>3, <1>7, <1>8, <1>9, <1>10, <1>11, CallKeeps

----------------------------------------------------------------------------
(***************************************************************************)
(* The steps of the engines and of the clients.                            *)
(***************************************************************************)

\* What no step of an engine changes: the tasks and the manager's records of them.
LEMMA TasksKept ==
  ASSUME IInv, UNCHANGED taskVars, UNCHANGED <<epoch, migrating>>,
         born \subseteq born'
  PROVE  TaskInv' /\ OneOwner'
<1>1. TypeOK /\ TaskInv /\ OneOwner
  BY DEF IInv
<1>2. OneOwner'
  BY <1>1 DEF OneOwner, taskVars
<1>3. TaskInv'
  BY <1>1 DEF TaskInv, TypeOK, taskVars
<1> QED
  BY <1>2, <1>3

\* Manager.generate gives a new request to an instance: nobody else knows it.
LEMMA GenerateIInv ==
  ASSUME IInv, NEW i \in Inst, NEW r \in Req, Generate(i, r)
  PROVE  IInv'
<1> USE DEF IInv
<1>1. /\ alive[i] /\ r \notin born
      /\ core' = [core EXCEPT ![i][r] = "running"]
      /\ stream' = [stream EXCEPT ![i][r] = TRUE]
      /\ born' = born \cup {r}
      /\ UNCHANGED <<alive, resv, session, snap, epoch, migrating, busy, pc, src, dst,
                     req, attempt, pending, skip, over, victims, unclean, faults>>
  BY DEF Generate, add_request, SetCore, managerVars, taskVars
<1>2. /\ core' \in [Inst -> [Req -> CoreStates]]
      /\ core'[i][r] = "running"
      /\ \A k \in Inst, q \in Req : k # i \/ q # r => core'[k][q] = core[k][q]
  BY <1>1, CoreSet DEF TypeOK, CoreStates
<1>3. /\ stream' \in [Inst -> [Req -> BOOLEAN]]
      /\ stream'[i][r]
      /\ \A k \in Inst, q \in Req : k # i \/ q # r => stream'[k][q] = stream[k][q]
  BY <1>1 DEF TypeOK
<1>5. /\ \A k \in Inst : core[k][r] = "none"
      /\ \A u \in Task : req[u] # r
      /\ r \notin migrating
  BY <1>1, NoneAssumption DEF NewInv, TaskInv
<1>6. TypeOK'
  BY <1>1, <1>2, <1>3 DEF TypeOK
<1>7. TaskInv' /\ OneOwner'
  BY <1>1, TasksKept DEF taskVars
<1>8. NewInv' /\ DeadInv' /\ SnapInv'
  <2>1. NewInv' /\ DeadInv'
    BY <1>1, <1>2 DEF NewInv, DeadInv, AllAlive
  <2>2. SnapInv'
    BY <1>1, <1>2, <1>5 DEF SnapInv, TaskInv, TypeOK, Unselected
  <2> QED
    BY <2>1, <2>2
<1>9. FrozenInv' /\ ImportInv'
  <2>1. \A k \in Inst, q \in Req :
          /\ core'[k][q] = "frozen" => core[k][q] = "frozen"
          /\ core'[k][q] \in {"importing", "import_ready"}
               => core[k][q] \in {"importing", "import_ready"}
    BY <1>2
  <2>2. FrozenInv'
    BY <1>1, <2>1 DEF FrozenInv, AllAlive
  <2>3. ImportInv'
    BY <1>1, <2>1 DEF ImportInv, AllAlive
  <2> QED
    BY <2>2, <2>3
<1>10. KeptInv'
  <2> SUFFICES ASSUME Sheltered PROVE KeptInv'
    BY <1>1 DEF KeptInv, Sheltered, AllAlive
  <2>1. \A q : Kept(q)' <=> Kept(q)
    BY <1>1 DEF Kept
  <2>2. \A q \in born' : Kept(q)
          => \E k \in Inst : core'[k][q] \in {"running", "frozen"}
    BY <1>1, <1>2 DEF KeptInv, TypeOK
  <2>3. \A q \in Req \ migrating, k, l \in Inst :
          Kept(q) /\ ~Messy(q) /\ core'[k][q] = "running" /\ core'[l][q] = "running"
            => k = l
    BY <1>2, <1>5 DEF KeptInv
  <2>m. \A q : Messy(q)' <=> Messy(q)
    BY <1>1 DEF Messy
  <2>4. ASSUME NEW u \in Task, Kept(req[u]) PROVE SidesInv(u)'
    <3>1. /\ req[u] \in Req \ {r} /\ src[u] \in Inst /\ dst[u] \in Inst
      BY <1>5, <2>4, NoneAssumption DEF Kept, TaskInv, Unselected
    <3>2. \A k \in Inst : core'[k][req[u]] = core[k][req[u]]
      BY <1>2, <3>1
    <3>3. SidesInv(u)
      BY <2>4 DEF KeptInv
    <3> QED
      BY <1>1, <2>m, <3>1, <3>2, <3>3 DEF SidesInv
  <2> QED
    BY <1>1, <2>1, <2>2, <2>3, <2>4, <2>m DEF KeptInv
<1>11. StreamInv'
  <2>1. \A k \in Inst, q \in Req :
          /\ core'[k][q] \in {"running", "frozen"} => core[k][q] \in {"running", "frozen"}
               \/ stream'[k][q]
          /\ stream[k][q] => stream'[k][q]
    BY <1>2, <1>3
  <2> QED
    BY <1>1, <2>1 DEF StreamInv, AllAlive
<1>12. PrefixInv'
  BY <1>1 DEF PrefixInv, PrefixSafe
<1> QED
  BY <1>6, <1>7, <1>8, <1>9, <1>10, <1>11, <1>12

\* A request ends at one instance, while its migration may be under way.
LEMMA OverKeeps ==
  ASSUME IInv, NEW r \in Req,
         core' \in [Inst -> [Req -> CoreStates]],
         stream' \in [Inst -> [Req -> BOOLEAN]],
         \A k \in Inst, q \in Req : core'[k][q] \in {core[k][q], "none"},
         \A k \in Inst, q \in Req \ {r} :
           core'[k][q] = core[k][q] /\ stream'[k][q] = stream[k][q],
         over' = over \cup {r},
         UNCHANGED <<alive, resv, session, snap, managerVars, taskVars, born, victims,
                     unclean, faults>>
  PROVE  IInv'
<1> USE DEF IInv
<1>1. /\ UNCHANGED <<alive, resv, session, snap, epoch, migrating, busy, pc, src, dst,
                     req, attempt, pending, skip, born, victims, unclean, faults>>
      /\ \A q \in over : q \in over'
      /\ r \in over'
  BY DEF managerVars, taskVars
<1>6. TypeOK'
  BY <1>1 DEF TypeOK
<1>7. TaskInv' /\ OneOwner'
  BY <1>1, TasksKept
<1>8. NewInv' /\ DeadInv' /\ SnapInv'
  <2>1. NewInv' /\ DeadInv'
    BY <1>1 DEF NewInv, DeadInv, AllAlive
  <2>2. \A u \in Task : req[u] # NoReq => req[u] \in Req /\ src[u] \in Inst
    BY DEF TaskInv, TypeOK, Unselected
  <2>3. SnapInv'
    BY <1>1, <2>2 DEF SnapInv
  <2> QED
    BY <2>1, <2>3
<1>9. FrozenInv' /\ ImportInv'
  <2>1. \A k \in Inst, q \in Req :
          /\ core'[k][q] = "frozen" => core[k][q] = "frozen"
          /\ core'[k][q] \in {"importing", "import_ready"}
               => core[k][q] \in {"importing", "import_ready"}
    OBVIOUS
  <2>2. FrozenInv'
    BY <1>1, <2>1 DEF FrozenInv, AllAlive
  <2>3. ImportInv'
    BY <1>1, <2>1 DEF ImportInv, AllAlive
  <2> QED
    BY <2>2, <2>3
<1>10. KeptInv'
  <2> SUFFICES ASSUME Sheltered PROVE KeptInv'
    BY <1>1 DEF KeptInv, Sheltered, AllAlive
  <2>1. \A q : Kept(q)' => Kept(q) /\ q # r
    BY <1>1 DEF Kept
  <2>2. \A q \in born : Kept(q)'
          => \E k \in Inst : core'[k][q] \in {"running", "frozen"}
    BY <2>1 DEF KeptInv, TypeOK
  <2>3. \A q \in Req \ migrating, k, l \in Inst :
          Kept(q)' /\ ~Messy(q) /\ core'[k][q] = "running" /\ core'[l][q] = "running"
            => k = l
    BY <2>1 DEF KeptInv
  <2>m. \A q : Messy(q)' <=> Messy(q)
    BY <1>1 DEF Messy
  <2>4. ASSUME NEW u \in Task, Kept(req[u])' PROVE SidesInv(u)'
    <3>1. /\ req[u] \in Req \ {r} /\ src[u] \in Inst /\ dst[u] \in Inst
      BY <1>1, <2>1, <2>4, NoneAssumption DEF Kept, TaskInv, Unselected
    <3>2. \A k \in Inst : core'[k][req[u]] = core[k][req[u]]
      BY <3>1
    <3>3. SidesInv(u)
      BY <1>1, <2>1, <2>4 DEF KeptInv
    <3> QED
      BY <1>1, <2>m, <3>1, <3>2, <3>3 DEF SidesInv
  <2> QED
    BY <1>1, <2>1, <2>2, <2>3, <2>4, <2>m DEF KeptInv
<1>11. StreamInv'
  BY <1>1 DEF StreamInv, AllAlive
<1>12. PrefixInv'
  BY <1>1 DEF PrefixInv, PrefixSafe
<1> QED
  BY <1>6, <1>7, <1>8, <1>9, <1>10, <1>11, <1>12

\* The last output of a request, and an abort of the client.
LEMMA OverIInv ==
  ASSUME IInv, NEW k0 \in Inst, NEW r \in Req, Finish(k0, r) \/ Abort(k0, r)
  PROVE  IInv'
<1> USE DEF IInv
<1>1. PICK i \in Inst, s \in CoreStates :
        /\ s \in {core[i][r], "none"}
        /\ core' = [core EXCEPT ![i][r] = s]
        /\ stream' = [stream EXCEPT ![i][r] = FALSE]
        /\ over' = over \cup {r}
        /\ UNCHANGED <<alive, resv, session, snap, managerVars, taskVars, born, victims,
                       unclean, faults>>
  <2>1. CASE Finish(k0, r)
    BY <2>1 DEF Finish, SetCore, release_request, CoreStates
  <2>2. CASE Abort(k0, r)
    <3> DEFINE s == IF core[k0][r] \in {"running", "frozen"} THEN "none" ELSE core[k0][r]
    <3>2. s \in CoreStates /\ s \in {core[k0][r], "none"}
      BY DEF TypeOK, CoreStates
    <3>3. core' = [core EXCEPT ![k0][r] = s]
      BY <2>2 DEF Abort, abort, TypeOK
    <3>4. /\ stream' = [stream EXCEPT ![k0][r] = FALSE]
          /\ over' = over \cup {r}
          /\ UNCHANGED <<alive, resv, session, snap, managerVars, taskVars, born, victims,
                         unclean, faults>>
      BY <2>2 DEF Abort, abort, release_request
    <3> HIDE DEF s
    <3> QED
      BY <3>2, <3>3, <3>4
  <2> QED
    BY <2>1, <2>2
<1>2. /\ core' \in [Inst -> [Req -> CoreStates]]
      /\ \A k \in Inst, q \in Req : core'[k][q] \in {core[k][q], "none"}
      /\ \A k \in Inst, q \in Req \ {r} : core'[k][q] = core[k][q]
  <2>1. /\ core' \in [Inst -> [Req -> CoreStates]] /\ core'[i][r] = s
        /\ \A k \in Inst, q \in Req : k # i \/ q # r => core'[k][q] = core[k][q]
    BY <1>1, CoreSet DEF TypeOK
  <2> QED
    BY <1>1, <2>1
<1>3. /\ stream' \in [Inst -> [Req -> BOOLEAN]]
      /\ \A k \in Inst, q \in Req \ {r} : stream'[k][q] = stream[k][q]
  BY <1>1 DEF TypeOK
<1>4. \A k \in Inst, q \in Req \ {r} :
        core'[k][q] = core[k][q] /\ stream'[k][q] = stream[k][q]
  BY <1>2, <1>3
<1>5. /\ over' = over \cup {r}
      /\ UNCHANGED <<alive, resv, session, snap, managerVars, taskVars, born, victims,
                     unclean, faults>>
  BY <1>1
<1> HIDE DEF IInv
<1> QED
  BY <1>2, <1>3, <1>4, <1>5, OverKeeps

\* The death of an instance.  A request that is not a victim is held elsewhere;
\* that the remaining copy is safe needs that this is the only fault.
LEMMA CrashIInv ==
  ASSUME IInv, NEW i \in Inst, Crash(i)
  PROVE  IInv'
<1> USE DEF IInv
<1>1. /\ alive[i] /\ faults < MaxFaults /\ faults' = faults + 1
      /\ alive' = [alive EXCEPT ![i] = FALSE]
      /\ UNCHANGED <<epoch, migrating, busy, pc, src, dst, req, attempt, pending, skip,
                     born, over, unclean>>
  BY DEF Crash, Fault, managerVars, taskVars
<1>2. /\ core' \in [Inst -> [Req -> CoreStates]]
      /\ \A q \in Req : core'[i][q] = "none"
      /\ \A k \in Inst \ {i}, q \in Req : core'[k][q] = core[k][q]
  BY DEF Crash, TypeOK, CoreStates
<1>3. /\ stream' \in [Inst -> [Req -> BOOLEAN]]
      /\ resv' \in [Inst -> SUBSET (Req \X (1..MaxEpoch))]
      /\ snap' \in [Inst -> [Req -> 0..MaxEpoch]]
      /\ \A k \in Inst \ {i} : snap'[k] = snap[k]
  <2>s. snap' = [snap EXCEPT ![i] = [r \in Req |-> 0]] /\ 0 \in 0..MaxEpoch
    BY BoundsAssumption DEF Crash
  <2>1. stream' = [stream EXCEPT ![i] = [r \in Req |-> FALSE]] /\ resv' = [resv EXCEPT ![i] = {}]
    BY DEF Crash
  <2>2. [r \in Req |-> FALSE] \in [Req -> BOOLEAN]
    OBVIOUS
  <2> QED
    BY <2>s, <2>1, <2>2 DEF TypeOK
<1>4. /\ session' \in [Inst -> [Req -> {"none", "open", "synced"}]]
      /\ \A k \in Inst \ {i} : session'[k] = session[k]
  BY DEF Crash, TypeOK
<1>5. /\ alive' \in [Inst -> BOOLEAN] /\ ~alive'[i]
      /\ \A k \in Inst \ {i} : alive'[k] = alive[k]
  BY <1>1 DEF TypeOK
<1>6. /\ victims' \subseteq Req /\ victims \subseteq victims'
      /\ \A q \in Req \ victims' :
           /\ core[i][q] # "running"
           /\ core[i][q] = "frozen" => \E k \in Inst : core[k][q] = "running"
  BY DEF Crash, TypeOK
<1>7. faults \in Nat /\ faults' \in 0..MaxFaults /\ faults' > 0
  BY <1>1, BoundsAssumption DEF TypeOK
<1>8. TypeOK'
  BY <1>1, <1>2, <1>3, <1>4, <1>5, <1>6, <1>7 DEF TypeOK
<1>9. TaskInv' /\ OneOwner'
  BY <1>1, TasksKept DEF taskVars
<1>10. ~AllAlive'
  BY <1>5 DEF AllAlive
<1>11. NewInv' /\ DeadInv' /\ SnapInv'
  <2>1. NewInv'
    BY <1>1, <1>2 DEF NewInv
  <2>2. unclean' # {} => faults' > 1
    BY <1>1, <1>7 DEF DeadInv
  <2>3. DeadInv'
    BY <1>2, <1>5, <1>7, <1>10, <2>2 DEF DeadInv
  <2>4. \A u \in Task : req[u] # NoReq => req[u] \in Req /\ src[u] \in Inst
    BY DEF TaskInv, TypeOK, Unselected
  <2>5. SnapInv'
    <3> SUFFICES ASSUME NEW u \in Task, req[u] # NoReq, core'[src[u]][req[u]] = "frozen"
                 PROVE  snap'[src[u]][req[u]] = epoch[req[u]]
      BY <1>1 DEF SnapInv
    <3>1. src[u] \in Inst \ {i} /\ req[u] \in Req
      BY <1>2, <2>4
    <3> QED
      BY <1>2, <1>3, <3>1 DEF SnapInv
  <2> QED
    BY <2>1, <2>3, <2>5
<1>12. FrozenInv' /\ ImportInv' /\ StreamInv'
  BY <1>10 DEF FrozenInv, ImportInv, StreamInv
<1>13. KeptInv'
  <2> SUFFICES ASSUME MaxFaults <= 1 PROVE KeptInv'
    BY <1>10 DEF KeptInv, Sheltered
  <2>1. faults = 0 /\ Sheltered
    BY <1>1, <1>7, BoundsAssumption DEF Sheltered
  <2>m. \A q : ~Messy(q) /\ ~Messy(q)'
    <3>1. unclean = {} /\ unclean' = {}
      BY <1>1, <2>1 DEF DeadInv
    <3> QED
      BY <3>1 DEF Messy
  <2>2. \A q : Kept(q)' => /\ Kept(q) /\ core[i][q] # "running"
                           /\ core[i][q] = "frozen" => \E k \in Inst : core[k][q] = "running"
    BY <1>1, <1>6 DEF Kept
  <2>3. \A q \in born : Kept(q)'
          => \E k \in Inst : core'[k][q] \in {"running", "frozen"}
    <3> SUFFICES ASSUME NEW q \in born, Kept(q)'
                 PROVE  \E k \in Inst : core'[k][q] \in {"running", "frozen"}
      OBVIOUS
    <3> q \in Req
      BY DEF TypeOK
    <3>1. PICK k \in Inst : core[k][q] \in {"running", "frozen"}
      BY <2>1, <2>2 DEF KeptInv
    <3>2. CASE k # i
      BY <1>2, <3>1, <3>2
    <3>3. CASE k = i
      <4>1. PICK l \in Inst : core[l][q] = "running"
        BY <2>2, <3>1, <3>3
      <4>2. l # i
        BY <2>2, <4>1
      <4> QED
        BY <1>2, <4>1, <4>2
    <3> QED
      BY <3>2, <3>3
  <2>4. \A q \in Req \ migrating, k, l \in Inst :
          Kept(q)' /\ core'[k][q] = "running" /\ core'[l][q] = "running" => k = l
    BY <1>2, <2>1, <2>2, <2>m DEF KeptInv
  <2>5. ASSUME NEW u \in Task, Kept(req[u])' PROVE SidesInv(u)'
    <3>1. /\ req[u] \in Req /\ src[u] \in Inst /\ dst[u] \in Inst
          /\ Kept(req[u])
      BY <1>1, <2>2, <2>5, NoneAssumption DEF Kept, TaskInv, Unselected
    <3>2. SidesInv(u)
      BY <2>1, <3>1 DEF KeptInv
    <3>3. /\ core[i][req[u]] # "running"
          /\ core[i][req[u]] = "frozen" => \E k \in Inst : core[k][req[u]] = "running"
      BY <2>2, <2>5, <1>1
    <3>4. \A k \in Inst : core'[k][req[u]] = IF k = i THEN "none" ELSE core[k][req[u]]
      BY <1>2, <3>1
    <3>5. pc[u] \in Before \cup Importing \cup {"cleanup"} => src[u] # i
      BY <2>1, <2>m, <3>1, <3>2, <3>3 DEF SidesInv, Before, Importing, PrecopyCalls, Committing
    <3>6. pc[u] \in Committing \cup {"finishOut"} => dst[u] # i
      BY <3>2, <3>3 DEF SidesInv
    <3>7. alive'[src[u]] => alive[src[u]] /\ src[u] # i
      BY <1>5, <3>1
    <3> QED
      BY <1>1, <1>7, <2>m, <3>1, <3>2, <3>4, <3>5, <3>6, <3>7 DEF SidesInv
  <2> QED
    BY <1>1, <2>2, <2>3, <2>4, <2>5 DEF KeptInv
<1>14. PrefixInv'
  <2>1. \A u \in Task : pc[u] \notin Unselected => src[u] \in Inst /\ dst[u] \in Inst
    BY DEF TaskInv, Unselected
  <2>2. \A k \in Inst : alive'[k] => alive[k] /\ session'[k] = session[k]
    BY <1>4, <1>5
  <2>3. PrefixSafe'
    BY <1>1, <2>1, <2>2 DEF PrefixInv, PrefixSafe, Unselected
  <2> QED
    BY <1>1, <2>1, <2>2, <2>3 DEF PrefixInv, Unselected
<1> QED
  BY <1>8, <1>9, <1>11, <1>12, <1>13, <1>14

----------------------------------------------------------------------------
(***************************************************************************)
(* The theorems                                                            *)
(***************************************************************************)

\* Every step preserves the invariant.
LEMMA NextIInv == IInv /\ [Next]_vars => IInv'
<1> SUFFICES ASSUME IInv, [Next]_vars PROVE IInv'
  OBVIOUS
<1>1. ASSUME NEW i \in Inst, NEW r \in Req, Generate(i, r) PROVE IInv'
  BY <1>1, GenerateIInv
<1>2. ASSUME NEW i \in Inst, NEW r \in Req, Finish(i, r) PROVE IInv'
  BY <1>2, OverIInv
<1>3. ASSUME NEW i \in Inst, NEW r \in Req, Abort(i, r) PROVE IInv'
  BY <1>3, OverIInv
<1>4. ASSUME NEW i \in Inst, Crash(i) PROVE IInv'
  BY <1>4, CrashIInv
<1>5. ASSUME NEW t \in Task, TaskStep(t) PROVE IInv'
  <2>1. CASE StartPair(t)
    BY <2>1, StartIInv
  <2>2. CASE SelectRequest(t)
    BY <2>2, SelectRequestIInv
  <2>3. CASE \/ PrecopyBegin(t) \/ PrecopyReserve(t) \/ PrecopySend(t)
             \/ PrecopyCommit(t) \/ PrecopyAppend(t) \/ PrecopyFallback(t)
             \/ PrecopyClean(t)
    BY <2>3, PrecopyIInv
  <2>4. CASE PrepareOut(t) \/ PrepareOutInvalid(t)
    BY <2>4, PrepareOutIInv
  <2>5. CASE PrepareIn(t) \/ Transfer(t) \/ CommitIn(t)
    BY <2>5, TargetIInv
  <2>6. CASE Register(t)
    BY <2>6, RegisterIInv
  <2>7. CASE CommitOut(t)
    BY <2>7, CommitOutIInv
  <2>8. CASE FinishOut(t)
    BY <2>8, FinishOutIInv
  <2>9. CASE SelectNothing(t) \/ ActorError(t) \/ NotMigratable(t)
    BY <2>9, GiveUpIInv
  <2>10. CASE CallFails(t)
    BY <2>10, CallFailsIInv
  <2>11. CASE CleanupCall(t)
    BY <2>11, CleanupCallIInv
  <2>14. CASE CleanupFails(t)
    BY <2>14, CleanupFailsIInv
  <2>12. CASE CleanupDone(t)
    BY <2>12, GiveUpIInv, RetryIInv
  <2>13. CASE Retry(t)
    BY <2>13, RetryIInv
  <2> QED
    BY <1>5, <2>1, <2>2, <2>3, <2>4, <2>5, <2>6, <2>7, <2>8, <2>9, <2>10, <2>11,
       <2>12, <2>13, <2>14 DEF TaskStep
<1>6. ASSUME NEW t \in Task, \E i, j \in Inst : PushMigration(t, i, j) PROVE IInv'
  BY <1>6, StartIInv
<1>7. CASE UNCHANGED vars
  <2>1. /\ UNCHANGED <<alive, core, stream, resv, session, snap, epoch, migrating, busy>>
        /\ UNCHANGED <<pc, src, dst, req, attempt, pending, skip, born, over, victims,
                       unclean, faults>>
    BY <1>7 DEF vars
  <2>2. (\A r : Messy(r)' <=> Messy(r)) /\ (\A r : Kept(r)' <=> Kept(r))
    BY <2>1 DEF Messy, Kept
  <2>3. \A t \in Task : SidesInv(t)' <=> SidesInv(t)
    BY <2>1, <2>2 DEF SidesInv
  <2>4. (Sheltered' <=> Sheltered) /\ (AllAlive' <=> AllAlive)
    BY <2>1 DEF Sheltered, AllAlive
  <2>5. KeptInv'
    BY <2>1, <2>2, <2>3, <2>4 DEF IInv, KeptInv
  <2>6. TypeOK' /\ TaskInv' /\ OneOwner'
    BY <2>1 DEF IInv, TypeOK, TaskInv, OneOwner
  <2>7. NewInv' /\ DeadInv' /\ SnapInv'
    BY <2>1, <2>4 DEF IInv, NewInv, DeadInv, SnapInv
  <2>8. FrozenInv' /\ ImportInv' /\ StreamInv'
    BY <2>1, <2>4 DEF IInv, FrozenInv, ImportInv, StreamInv
  <2>9. PrefixInv'
    BY <2>1 DEF IInv, PrefixInv, PrefixSafe
  <2> QED
    BY <2>5, <2>6, <2>7, <2>8, <2>9 DEF IInv
<1> QED
  BY <1>1, <1>2, <1>3, <1>4, <1>5, <1>6, <1>7 DEF Next

\* The inductive invariant holds in every behaviour of the manager's tasks, the
\* engines, the failing calls and the crashes.
THEOREM V1Invariant == Spec => []IInv
<1>1. Init => IInv
  BY InitIInv
<1>2. IInv /\ [Next]_vars => IInv'
  BY NextIInv
<1> QED
  BY <1>1, <1>2, PTL DEF Spec

\* _select_v1_migration_request never gives a request to two tasks at once.
THEOREM OneOwnerAlways == Spec => []OneOwner
<1>1. IInv => OneOwner
  BY DEF IInv
<1> QED
  BY <1>1, V1Invariant, PTL

\* A source stays frozen only while the task that froze it is under way: every
\* failing call is followed by an abort_export of the clean-up, whose snapshot is
\* always the one of the task's epoch.
THEOREM FrozenHasTaskAlways == Spec => []FrozenHasTask
<1>1. IInv => FrozenHasTask
  BY DEF IInv, FrozenInv, FrozenHasTask
<1> QED
  BY <1>1, V1Invariant, PTL

\* A reservation or a received import stays at the target only while the task
\* that made it is under way, unless the target has exported the request before
\* and its old snapshot makes abort raise.
THEOREM ImportHasTaskAlways == Spec => []ImportHasTask
<1>1. IInv => ImportHasTask
  BY DEF IInv, ImportInv, ImportHasTask
<1> QED
  BY <1>1, V1Invariant, PTL

\* abort_migrated_request removes the copy that a failed attempt has started at
\* the target: no request that has been migrated runs twice.
THEOREM OneRunnerAlways == Spec => []OneRunner
<1>1. IInv => OneRunner
  BY DEF IInv, KeptInv, Kept, Messy, Sheltered, DeadInv, OneRunner
<1> QED
  BY <1>1, V1Invariant, PTL

\* The target's front end is registered before the source's is released: where a
\* request runs that nobody migrates, its outputs are forwarded.
THEOREM StreamFollowsAlways == Spec => []StreamFollows
<1>1. IInv => StreamFollows
  BY NoneAssumption DEF IInv, StreamInv, TaskInv, StreamFollows
<1> QED
  BY <1>1, V1Invariant, PTL

\* The cut-over leaves out the pre-copied prefix only when both sides hold it.
THEOREM PrefixSafeAlways == Spec => []PrefixSafe
<1>1. IInv => PrefixSafe
  BY DEF IInv, PrefixInv
<1> QED
  BY <1>1, V1Invariant, PTL

\* No single fault, a failing call or a crash at any step of a migration, loses a
\* request that did not die with its instance.
THEOREM NotLostWithOneFault == MaxFaults <= 1 => (Spec => []NotLost)
<1> SUFFICES ASSUME MaxFaults <= 1 PROVE Spec => []NotLost
  OBVIOUS
<1>1. IInv => NotLost
  BY DEF IInv, KeptInv, Kept, Sheltered, NotLost
<1> QED
  BY <1>1, V1Invariant, PTL

\* While no instance dies, no number of failing calls and clean-ups loses a request.
KeptWhileAlive ==
  AllAlive => \A r \in born \ over : \E i \in Inst : core[i][r] \in {"running", "frozen"}

\* The clean-up of a failed attempt and the second attempt keep every request, for
\* any number of failing calls.
THEOREM KeptWhileAliveAlways == Spec => []KeptWhileAlive
<1>1. IInv => KeptWhileAlive
  BY DEF IInv, TypeOK, KeptInv, Kept, Sheltered, DeadInv, KeptWhileAlive
<1> QED
  BY <1>1, V1Invariant, PTL
=============================================================================
