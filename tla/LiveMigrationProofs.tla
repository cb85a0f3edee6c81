------------------------ MODULE LiveMigrationProofs ------------------------
(***************************************************************************)
(* The invariant IInv of LiveMigrationInv is inductive, and with it the    *)
(* safety properties of LiveMigration hold for all instances, requests,    *)
(* policies, block numbers and stage limits.  The second part shows that   *)
(* live migration implements the safety part of Ownership: its initial     *)
(* states map to the initial state, and each of its steps to a step of     *)
(* Ownership or to none.  The third part is about MigrationFaults: no      *)
(* block is lost and no request has two owners in spite of crashes and of  *)
(* the clean-up after them, until a clean-up takes a request from a newer  *)
(* migration.  Its invariant, with sums over the requests of an instance,  *)
(* also shows that live migration conserves the blocks.                    *)
(*                                                                         *)
(* One lemma for every action, or every branch of an action, shows that it *)
(* preserves IInv.  Its step <1>e is the effect of the branch, written     *)
(* without the conditionals of the action; the steps after it take the     *)
(* conjuncts of IInv one by one.                                           *)
(***************************************************************************)
EXTENDS LiveMigrationOwnership, MigrationFaults, FiniteSetTheorems, WellFoundedInduction, TLAPS

\* An empty cluster satisfies the invariant.
LEMMA InitIInv == Init => IInv
<1> SUFFICES ASSUME Init PROVE IInv
  OBVIOUS
<1> USE BlocksAssumption
<1>1. TypeOK
  BY DEF Init, TypeOK, Places, Statuses, Meta, NoMeta, NewMeta, PCs
<1>2. OneToOne
  BY DEF Init, OneToOne
<1>3. JobInv
  BY DEF Init, JobInv, Unassigned, Removing
<1>4. PlaceInv
  BY DEF Init, PlaceInv, LastSending, Sending
<1>5. UniqueInv
  BY DEF Init, UniqueInv
<1>6. KeptInv
  BY DEF Init, KeptInv
<1>7. CopyInv
  BY DEF Init, CopyInv
<1>8. StageInv
  <2>1. \A i \in Inst : SentInv(i)
    BY DEF Init, SentInv, NoMeta, NewMeta
  <2>2. \A i \in Inst : HealthInv(i)
    BY DEF Init, HealthInv, Removing, LastSending, Sending
  <2> QED
    BY <2>1, <2>2 DEF StageInv
<1>9. PreInv
  BY DEF Init, PreInv
<1> QED
  BY <1>1, <1>2, <1>3, <1>4, <1>5, <1>6, <1>7, <1>8, <1>9 DEF IInv

----------------------------------------------------------------------------
(***************************************************************************)
(* The attributes of the copy of a request.                                *)
(***************************************************************************)

\* A longer sequence (Grow) changes the number of blocks that its tokens fill
\* and nothing else of its copy.
LEMMA SetSize ==
  ASSUME NEW m \in Meta, NEW n \in Nat
  PROVE  LET e == [m EXCEPT !.size = n] IN
         /\ e \in Meta /\ e.size = n /\ e.sent = m.sent
         /\ e.preempted = m.preempted /\ e.finished = m.finished
  BY DEF Meta

\* The time stamps of a preemption or of the start of a migration change only
\* whether the request counts as preempted.
LEMMA SetPreempted ==
  ASSUME NEW m \in Meta, NEW b \in BOOLEAN
  PROVE  LET e == [m EXCEPT !.preempted = b] IN
         /\ e \in Meta /\ e.size = m.size /\ e.sent = m.sent
         /\ e.preempted = b /\ e.finished = m.finished
  BY DEF Meta

\* A request that leaves the engine (Retire) is finished, and otherwise as before.
LEMMA SetFinished ==
  ASSUME NEW m \in Meta
  PROVE  LET e == [m EXCEPT !.finished = TRUE] IN
         /\ e \in Meta /\ e.size = m.size /\ e.sent = m.sent
         /\ e.preempted = m.preempted /\ e.finished
  BY DEF Meta

\* reset_migration_args_src forgets the stages, and neither the size of the
\* request nor that it is finished.
LEMMA ResetMeta ==
  ASSUME NEW m \in Meta
  PROVE  LET e == [m EXCEPT !.sent = 0, !.mig = FALSE, !.preempted = FALSE] IN
         /\ e \in Meta /\ e.size = m.size /\ e.sent = 0
         /\ ~e.preempted /\ e.finished = m.finished
  BY DEF Meta

\* A stage that is sent is added to stage_num_blocks_list and moves the time
\* that a preemption is compared with.
LEMMA AddSent ==
  ASSUME NEW m \in Meta, NEW n \in Nat
  PROVE  LET e == [m EXCEPT !.sent = n, !.preempted = FALSE] IN
         /\ e \in Meta /\ e.size = m.size /\ e.sent = n
         /\ ~e.preempted /\ e.finished = m.finished
  BY DEF Meta

----------------------------------------------------------------------------
(***************************************************************************)
(* The engine and its clients.                                             *)
(***************************************************************************)

\* A request that arrives is in no queue, so its copy is the only one.
LEMMA AddRequestIInv ==
  ASSUME IInv, NEW i \in Inst, NEW r \in Req, AddRequest(i, r)
  PROVE  IInv'
<1> USE DEF IInv
<1>b. PICK b \in 1..MaxBlocks, l \in BOOLEAN :
        meta' = [meta EXCEPT ![i][r] = NewMeta(b, l)]
  BY DEF AddRequest
<1> DEFINE m == NewMeta(b, l)
<1>m. m \in Meta /\ m.size > 0 /\ m.sent = 0 /\ ~m.finished
  BY BlocksAssumption DEF NewMeta, Meta
<1>e. /\ r \notin arrived
      /\ m \in Meta /\ m.size > 0 /\ m.sent = 0 /\ ~m.finished
      /\ arrived' = arrived \cup {r}
      /\ place' = [place EXCEPT ![i][r] = "waiting"]
      /\ meta' = [meta EXCEPT ![i][r] = m]
      /\ UNCHANGED <<stat, held, eom, pre, free, lastStage, pc, dst, cur,
           todo, stage, num, last, busy>>
  BY <1>b, <1>m DEF AddRequest, blockVars, jobVars
<1> HIDE DEF m
<1>1. TypeOK'
  BY <1>e DEF TypeOK, Places
<1>2. OneToOne'
  BY <1>e DEF OneToOne
<1>3. JobInv'
  BY <1>e DEF JobInv, Unassigned, Removing, TypeOK
<1>4. PlaceInv'
  BY <1>e DEF PlaceInv, LastSending, Sending, TypeOK, KeptInv, JobInv,
       Unassigned
<1>5. UniqueInv'
  BY <1>e DEF UniqueInv, HandsOver, TypeOK, KeptInv
<1>6. KeptInv'
  <2>1. \A k \in Inst, q \in Req \ arrived' :
          place'[k][q] = "none" /\ stat'[k][q] = "none"
    BY <1>e DEF KeptInv, TypeOK
  <2>2. \A q \in arrived' : \E k \in Inst : Known(k, q)'
    <3>1. Known(i, r)'
      BY <1>e DEF Known, TypeOK
    <3>2. ASSUME NEW q \in arrived, NEW k \in Inst, Known(k, q) PROVE Known(k, q)'
      BY <1>e, <3>2 DEF Known, TypeOK
    <3> QED
      BY <1>e, <3>1, <3>2 DEF KeptInv
  <2>3. \A k \in Inst : pc'[k] = "committed" => Known(dst[k], cur[k])'
    BY <1>e DEF KeptInv, Known, JobInv, Unassigned, TypeOK
  <2> QED
    BY <1>e, <2>1, <2>2, <2>3 DEF KeptInv, Known
<1>7. CopyInv'
  BY <1>e DEF CopyInv, TypeOK, KeptInv
<1>8. StageInv'
  BY <1>e DEF StageInv, SentInv, HealthInv, Healthy, ShouldAbort,
       MidMigration, Removing, LastSending, Sending, TypeOK, JobInv, KeptInv,
       Unassigned
<1>9. PreInv'
  BY <1>e DEF PreInv, Reserves
<1> QED
  BY <1>1, <1>2, <1>3, <1>4, <1>5, <1>6, <1>7, <1>8, <1>9

\* The admission of a request that migrated in while it was waiting.
LEMMA AdmitMigratedIInv ==
  ASSUME IInv, NEW i \in Inst, NEW r \in Req, Admit(i, r),
         stat[i][r] = "waiting_migrating"
  PROVE  IInv'
<1> USE DEF IInv
<1>e. /\ place[i][r] = "waiting"
      /\ CanStep(i, r)
      /\ place' = [place EXCEPT ![i][r] = "running"]
      /\ stat' = [stat EXCEPT ![i][r] = "none"]
      /\ UNCHANGED <<arrived, held, meta, eom, pre, free, lastStage, pc, dst,
           cur, todo, stage, num, last, busy>>
  BY DEF Admit, jobVars
<1>1. TypeOK'
  BY <1>e DEF TypeOK, Places, Statuses
<1>2. OneToOne'
  BY <1>e DEF OneToOne
<1>3. JobInv'
  BY <1>e DEF JobInv
<1>4. PlaceInv'
  BY <1>e DEF PlaceInv, LastSending, Sending, TypeOK, JobInv
<1>5. UniqueInv'
  BY <1>e DEF UniqueInv, HandsOver, TypeOK
<1>6. KeptInv'
  BY <1>e DEF KeptInv, Known, TypeOK
<1>7. CopyInv'
  BY <1>e DEF CopyInv, TypeOK
<1>8. StageInv'
  BY <1>e DEF StageInv, SentInv, HealthInv, Healthy, ShouldAbort,
       MidMigration, Removing, LastSending, Sending, TypeOK, CanStep,
       PlaceInv, JobInv, Unassigned
<1>9. PreInv'
  BY <1>e DEF PreInv, Reserves
<1> QED
  BY <1>1, <1>2, <1>3, <1>4, <1>5, <1>6, <1>7, <1>8, <1>9

\* The admission of any other request.
LEMMA AdmitAllocatesIInv ==
  ASSUME IInv, NEW i \in Inst, NEW r \in Req, Admit(i, r),
         stat[i][r] # "waiting_migrating"
  PROVE  IInv'
<1> USE DEF IInv
<1>e. /\ place[i][r] = "waiting"
      /\ CanStep(i, r)
      /\ free[i] >= meta[i][r].size + Watermark
      /\ meta[i][r].size \in Nat
      /\ place' = [place EXCEPT ![i][r] = "running"]
      /\ held' = [held EXCEPT ![i][r] = meta[i][r].size]
      /\ free' = [free EXCEPT ![i] = free[i] - meta[i][r].size]
      /\ UNCHANGED <<arrived, stat, meta, eom, pre, lastStage, pc, dst, cur,
           todo, stage, num, last, busy>>
  BY DEF Admit, jobVars, TypeOK, Meta
<1>1. TypeOK'
  BY <1>e, BlocksAssumption DEF TypeOK, Places
<1>2. OneToOne'
  BY <1>e DEF OneToOne
<1>3. JobInv'
  BY <1>e DEF JobInv
<1>4. PlaceInv'
  BY <1>e DEF PlaceInv, LastSending, Sending, TypeOK
<1>5. UniqueInv'
  BY <1>e DEF UniqueInv, HandsOver, TypeOK
<1>6. KeptInv'
  BY <1>e DEF KeptInv, Known, TypeOK
<1>7. CopyInv'
  <2>1. stat[i][r] = "none"
    BY <1>e DEF CopyInv, TypeOK, Statuses
  <2> QED
    BY <1>e, <2>1 DEF CopyInv, TypeOK
<1>8. StageInv'
  BY <1>e DEF StageInv, SentInv, HealthInv, Healthy, ShouldAbort,
       MidMigration, Removing, LastSending, Sending, TypeOK, CanStep,
       PlaceInv, JobInv, Unassigned
<1>9. PreInv'
  BY <1>e DEF PreInv, Reserves
<1> QED
  BY <1>1, <1>2, <1>3, <1>4, <1>5, <1>6, <1>7, <1>8, <1>9

\* A running request gets the blocks that it lacks.
LEMMA GrowIInv ==
  ASSUME IInv, NEW i \in Inst, NEW r \in Req, Suspended(i), Grow(i, r)
  PROVE  IInv'
<1> USE DEF IInv
<1> DEFINE s == meta[i][r].size + 1
           n == IF s > held[i][r] THEN s - held[i][r] ELSE 0
           m == [meta[i][r] EXCEPT !.size = s]
<1>n. s \in Nat \ {0} /\ n \in Nat /\ meta[i][r] \in Meta
  BY DEF TypeOK, Meta
<1>m. /\ m \in Meta /\ m.size = s /\ m.sent = meta[i][r].sent
      /\ m.preempted = meta[i][r].preempted /\ m.finished = meta[i][r].finished
  BY <1>n, SetSize
<1> DEFINE p == IF pc[i] = "remove" /\ cur[i] = r THEN "removeStepped" ELSE pc[i]
<1>p. \/ p = pc[i] /\ ~(pc[i] = "remove" /\ cur[i] = r)
      \/ p = "removeStepped" /\ pc[i] = "remove" /\ cur[i] = r
  OBVIOUS
<1>q. pc' = [pc EXCEPT ![i] = p]
  BY DEF Grow, StepTaken
<1>e. /\ place[i][r] = "running"
      /\ n <= free[i]
      /\ meta' = [meta EXCEPT ![i][r] = m]
      /\ held' = [held EXCEPT ![i][r] = held[i][r] + n]
      /\ free' = [free EXCEPT ![i] = free[i] - n]
      /\ pc' = [pc EXCEPT ![i] = p]
      /\ \/ p = pc[i] /\ ~(pc[i] = "remove" /\ cur[i] = r)
         \/ p = "removeStepped" /\ pc[i] = "remove" /\ cur[i] = r
      /\ UNCHANGED <<arrived, place, stat, eom, pre, lastStage, dst, cur,
           todo, stage, num, last, busy>>
  BY <1>n, <1>p, <1>q DEF Grow, jobVars
<1> HIDE DEF s, n, m, p
<1>1. TypeOK'
  <2>1. pc' \in [Inst -> PCs]
    BY <1>e DEF PCs, TypeOK
  <2>2. free' \in [Inst -> Nat] /\ held' \in [Inst -> [Req -> Nat]]
    BY <1>e, <1>n DEF TypeOK
  <2> QED
    BY <1>e, <1>n, <1>m, <2>1, <2>2 DEF TypeOK
<1>2. OneToOne'
  BY <1>e, <1>m, <1>n DEF OneToOne, TypeOK
<1>3. JobInv'
  BY <1>e, <1>m, <1>n DEF JobInv, Unassigned, Removing, TypeOK
<1>4. PlaceInv'
  BY <1>e, <1>m, <1>n DEF PlaceInv, LastSending, Sending, TypeOK
<1>5. UniqueInv'
  BY <1>e, <1>m, <1>n DEF UniqueInv, HandsOver, TypeOK
<1>6. KeptInv'
  <2>1. \A k \in Inst, q \in Req : Known(k, q) => Known(k, q)'
    BY <1>e, <1>m DEF Known, TypeOK
  <2>2. \A k \in Inst : pc'[k] = "committed" => Known(dst[k], cur[k])'
    BY <1>e, <1>m DEF KeptInv, Known, TypeOK
  <2>3. \A k \in Inst, q \in Req \ arrived : place'[k][q] = "none" /\ stat'[k][q] = "none"
    BY <1>e DEF KeptInv, Known, TypeOK
  <2> QED
    BY <1>e, <2>1, <2>2, <2>3 DEF KeptInv, Known, TypeOK
<1>7. CopyInv'
  BY <1>e, <1>m, <1>n DEF CopyInv, TypeOK
<1>8. StageInv'
  <2>1. \A k \in Inst : SentInv(k)'
    BY <1>e, <1>m, <1>n DEF StageInv, SentInv, MidMigration, Sending,
         Removing, TypeOK
  <2>2. \A k \in Inst \ {i} : HealthInv(k)'
    BY <1>e, <1>m, <1>n DEF StageInv, HealthInv, Healthy, ShouldAbort,
         LastSending, Sending, Removing, TypeOK
  <2>3. HealthInv(i)'
    <3>1. CASE cur[i] = r
      BY <1>e, <1>m, <1>n, <3>1
         DEF StageInv, SentInv, HealthInv, Healthy, ShouldAbort, LastSending, Removing, Sending, PlaceInv,
             MidMigration, TypeOK, Meta
    <3>2. CASE cur[i] # r
      BY <1>e, <3>2
         DEF StageInv, HealthInv, Healthy, ShouldAbort, LastSending, Removing,
             Sending, JobInv, Unassigned, TypeOK
    <3> QED
      BY <3>1, <3>2
  <2> QED
    BY <2>1, <2>2, <2>3 DEF StageInv
<1>9. PreInv'
  <2>1. \A k, j \in Inst, q \in Req : Reserves(k, j, q) => Reserves(k, j, q)'
    BY <1>e DEF Reserves, Reserving, TypeOK
  <2>2. \A k \in Inst : pc'[k] \in {"allocated", "send", "commit"}
                         => pre'[dst'[k]][cur'[k]] > 0
    BY <1>e DEF PreInv, TypeOK
  <2> QED
    BY <1>e, <2>1, <2>2 DEF PreInv, TypeOK
<1> QED
  BY <1>1, <1>2, <1>3, <1>4, <1>5, <1>6, <1>7, <1>8, <1>9

\* A running request is preempted.
LEMMA PreemptIInv ==
  ASSUME IInv, NEW i \in Inst, NEW r \in Req, Suspended(i), Preempt(i, r)
  PROVE  IInv'
<1> USE DEF IInv
<1> DEFINE m == [meta[i][r] EXCEPT !.preempted = TRUE]
<1>n. meta[i][r] \in Meta
  BY DEF TypeOK
<1>m. /\ m \in Meta /\ m.size = meta[i][r].size /\ m.sent = meta[i][r].sent
      /\ m.preempted /\ m.finished = meta[i][r].finished
  BY <1>n, SetPreempted
<1> DEFINE p == IF pc[i] = "remove" /\ cur[i] = r THEN "removeStepped" ELSE pc[i]
<1>p. \/ p = pc[i] /\ ~(pc[i] = "remove" /\ cur[i] = r)
      \/ p = "removeStepped" /\ pc[i] = "remove" /\ cur[i] = r
  OBVIOUS
<1>q. pc' = [pc EXCEPT ![i] = p]
  BY DEF Preempt, StepTaken
<1>e. /\ place[i][r] = "running"
      /\ place' = [place EXCEPT ![i][r] = "waiting"]
      /\ meta' = [meta EXCEPT ![i][r] = m]
      /\ held' = [held EXCEPT ![i][r] = 0]
      /\ free' = [free EXCEPT ![i] = free[i] + held[i][r]]
      /\ pc' = [pc EXCEPT ![i] = p]
      /\ \/ p = pc[i] /\ ~(pc[i] = "remove" /\ cur[i] = r)
         \/ p = "removeStepped" /\ pc[i] = "remove" /\ cur[i] = r
      /\ UNCHANGED <<arrived, stat, eom, pre, lastStage, dst, cur, todo,
           stage, num, last, busy>>
  BY <1>p, <1>q DEF Preempt, jobVars
<1> HIDE DEF m, p
<1>1. TypeOK'
  <2>1. pc' \in [Inst -> PCs]
    BY <1>e DEF PCs, TypeOK
  <2>2. free' \in [Inst -> Nat] /\ held' \in [Inst -> [Req -> Nat]]
    BY <1>e DEF TypeOK
  <2> QED
    BY <1>e, <1>m, <2>1, <2>2 DEF TypeOK, Places
<1>2. OneToOne'
  BY <1>e, <1>m DEF OneToOne, TypeOK
<1>3. JobInv'
  BY <1>e, <1>m DEF JobInv, Unassigned, Removing, TypeOK
<1>4. PlaceInv'
  BY <1>e, <1>m DEF PlaceInv, LastSending, Sending, TypeOK
<1>5. UniqueInv'
  BY <1>e, <1>m DEF UniqueInv, HandsOver, TypeOK
<1>6. KeptInv'
  <2>1. \A k \in Inst, q \in Req : Known(k, q) => Known(k, q)'
    BY <1>e, <1>m DEF Known, TypeOK
  <2>2. \A k \in Inst : pc'[k] = "committed" => Known(dst[k], cur[k])'
    BY <1>e, <1>m DEF KeptInv, Known, TypeOK
  <2>3. \A k \in Inst, q \in Req \ arrived : place'[k][q] = "none" /\ stat'[k][q] = "none"
    BY <1>e DEF KeptInv, Known, TypeOK
  <2> QED
    BY <1>e, <2>1, <2>2, <2>3 DEF KeptInv, Known, TypeOK
<1>7. CopyInv'
  BY <1>e, <1>m DEF CopyInv, TypeOK
<1>8. StageInv'
  <2>1. \A k \in Inst : SentInv(k)'
    BY <1>e, <1>m DEF StageInv, SentInv, MidMigration, Sending, Removing,
         TypeOK
  <2>2. \A k \in Inst \ {i} : HealthInv(k)'
    BY <1>e, <1>m DEF StageInv, HealthInv, Healthy, ShouldAbort, LastSending,
         Sending, Removing, TypeOK
  <2>3. HealthInv(i)'
    <3>1. CASE cur[i] = r
      BY <1>e, <1>m, <3>1
         DEF StageInv, SentInv, HealthInv, Healthy, ShouldAbort, LastSending, Removing, Sending, PlaceInv,
             MidMigration, TypeOK, Meta
    <3>2. CASE cur[i] # r
      BY <1>e, <3>2
         DEF StageInv, HealthInv, Healthy, ShouldAbort, LastSending, Removing,
             Sending, JobInv, Unassigned, TypeOK
    <3> QED
      BY <3>1, <3>2
  <2> QED
    BY <2>1, <2>2, <2>3 DEF StageInv
<1>9. PreInv'
  <2>1. \A k, j \in Inst, q \in Req : Reserves(k, j, q) => Reserves(k, j, q)'
    BY <1>e DEF Reserves, Reserving, TypeOK
  <2>2. \A k \in Inst : pc'[k] \in {"allocated", "send", "commit"}
                         => pre'[dst'[k]][cur'[k]] > 0
    BY <1>e DEF PreInv, TypeOK
  <2> QED
    BY <1>e, <2>1, <2>2 DEF PreInv, TypeOK
<1> QED
  BY <1>1, <1>2, <1>3, <1>4, <1>5, <1>6, <1>7, <1>8, <1>9

\* A request leaves an engine for good.
LEMMA RetireIInv ==
  ASSUME IInv, NEW i \in Inst, NEW r \in Req, Retire(i, r),
         \/ Runnable(i, r)
         \/ pc[i] = "removed" /\ cur[i] = r
  PROVE  IInv'
<1> USE DEF IInv
<1> DEFINE m == [meta[i][r] EXCEPT !.finished = TRUE]
<1>n. meta[i][r] \in Meta
  BY DEF TypeOK
<1>m. /\ m \in Meta /\ m.size = meta[i][r].size /\ m.sent = meta[i][r].sent
      /\ m.preempted = meta[i][r].preempted /\ m.finished
  BY <1>n, SetFinished
<1>e. /\ Runnable(i, r) \/ (pc[i] = "removed" /\ cur[i] = r)
      /\ place' = [place EXCEPT ![i][r] = "none"]
      /\ meta' = [meta EXCEPT ![i][r] = m]
      /\ held' = [held EXCEPT ![i][r] = 0]
      /\ free' = [free EXCEPT ![i] = free[i] + held[i][r]]
      /\ UNCHANGED <<arrived, stat, eom, pre, lastStage, pc, dst, cur, todo,
           stage, num, last, busy>>
  BY DEF Retire, jobVars
<1> HIDE DEF m
<1>1. TypeOK'
  BY <1>e, <1>m DEF TypeOK, Places
<1>2. OneToOne'
  BY <1>e DEF OneToOne
<1>3. JobInv'
  BY <1>e DEF JobInv
<1>4. PlaceInv'
  BY <1>e, <1>m DEF PlaceInv, LastSending, Sending, TypeOK, Runnable, JobInv,
       Unassigned
<1>5. UniqueInv'
  BY <1>e, <1>m DEF UniqueInv, HandsOver, TypeOK
<1>6. KeptInv'
  <2>1. \A k \in Inst, q \in Req : Known(k, q) => Known(k, q)'
    BY <1>e, <1>m DEF Known, TypeOK
  <2>2. \A k \in Inst : pc'[k] = "committed" => Known(dst[k], cur[k])'
    BY <1>e, <1>m DEF KeptInv, Known, TypeOK
  <2>3. \A k \in Inst, q \in Req \ arrived : place'[k][q] = "none" /\ stat'[k][q] = "none"
    BY <1>e DEF KeptInv, Known, TypeOK
  <2> QED
    BY <1>e, <2>1, <2>2, <2>3 DEF KeptInv, Known, TypeOK
<1>7. CopyInv'
  BY <1>e, <1>m DEF CopyInv, TypeOK
<1>8. StageInv'
  <2>1. \A k \in Inst : SentInv(k)'
    BY <1>e, <1>m DEF StageInv, SentInv, MidMigration, Sending, Removing,
         TypeOK
  <2>2. \A k \in Inst \ {i} : HealthInv(k)'
    BY <1>e, <1>m DEF StageInv, HealthInv, Healthy, ShouldAbort, LastSending,
         Sending, Removing, TypeOK
  <2>3. HealthInv(i)'
    <3>1. CASE cur[i] = r
      BY <1>e, <1>m, <3>1
         DEF StageInv, SentInv, HealthInv, Healthy, ShouldAbort, LastSending, Removing, Sending, PlaceInv,
             MidMigration, TypeOK, Meta, Runnable
    <3>2. CASE cur[i] # r
      BY <1>e, <3>2
         DEF StageInv, HealthInv, Healthy, ShouldAbort, LastSending, Removing,
             Sending, JobInv, Unassigned, TypeOK
    <3> QED
      BY <3>1, <3>2
  <2> QED
    BY <2>1, <2>2, <2>3 DEF StageInv
<1>9. PreInv'
  BY <1>e DEF PreInv, Reserves
<1> QED
  BY <1>1, <1>2, <1>3, <1>4, <1>5, <1>6, <1>7, <1>8, <1>9

----------------------------------------------------------------------------
(***************************************************************************)
(* The manager and the destination.                                        *)
(***************************************************************************)

\* The manager starts a migration for two instances that are not busy.
LEMMA PushMigrationIInv ==
  ASSUME IInv, NEW i \in Inst, NEW j \in Inst, PushMigration(i, j)
  PROVE  IInv'
<1> USE DEF IInv
<1>e. /\ i # j /\ ~busy[i] /\ ~busy[j] /\ pc[i] = "idle"
      /\ busy' = [busy EXCEPT ![i] = TRUE, ![j] = TRUE]
      /\ dst' = [dst EXCEPT ![i] = j]
      /\ pc' = [pc EXCEPT ![i] = "called"]
      /\ UNCHANGED <<arrived, place, stat, held, meta, eom, pre, free,
           lastStage, cur, todo, stage, num, last>>
  BY DEF PushMigration, NotMigrating, PairOK, queueVars, blockVars, jobVars
<1>1. TypeOK'
  BY <1>e DEF TypeOK, PCs
<1>2. OneToOne'
  <2>1. ASSUME NEW k \in Inst, pc'[k] # "idle"
        PROVE  dst'[k] # k /\ busy'[k] /\ busy'[dst'[k]]
    BY <1>e, <2>1 DEF OneToOne, TypeOK
  <2>2. ASSUME NEW k \in Inst, NEW l \in Inst, k # l,
               pc'[k] # "idle", pc'[l] # "idle"
        PROVE  dst'[k] # dst'[l] /\ dst'[k] # l
    BY <1>e, <2>2 DEF OneToOne, TypeOK
  <2> QED
    BY <2>1, <2>2 DEF OneToOne
<1>3. JobInv'
  BY <1>e DEF JobInv, Unassigned, Removing, TypeOK
<1>4. PlaceInv'
  BY <1>e DEF PlaceInv, LastSending, Sending, TypeOK
<1>5. UniqueInv'
  BY <1>e DEF UniqueInv, HandsOver, TypeOK
<1>6. KeptInv'
  BY <1>e DEF KeptInv, Known, TypeOK
<1>7. CopyInv'
  BY <1>e DEF CopyInv
<1>8. StageInv'
  BY <1>e DEF StageInv, SentInv, HealthInv, Healthy, ShouldAbort,
       MidMigration, Removing, LastSending, Sending, TypeOK
<1>9. PreInv'
  <2>1. \A k, l \in Inst, q \in Req : Reserves(k, l, q) => Reserves(k, l, q)'
    BY <1>e DEF Reserves, Reserving, TypeOK
  <2>2. \A k \in Inst : pc'[k] \in {"allocated", "send", "commit"}
                         => pre'[dst'[k]][cur'[k]] > 0
    BY <1>e DEF PreInv, TypeOK
  <2> QED
    BY <1>e, <2>1, <2>2 DEF PreInv, TypeOK
<1> QED
  BY <1>1, <1>2, <1>3, <1>4, <1>5, <1>6, <1>7, <1>8, <1>9

\* The manager's callback.
LEMMA MigrateDoneIInv ==
  ASSUME IInv, NEW i \in Inst, MigrateDone(i)
  PROVE  IInv'
<1> USE DEF IInv
<1>e. /\ pc[i] = "done"
      /\ busy' = [busy EXCEPT ![i] = FALSE, ![dst[i]] = FALSE]
      /\ dst' = [dst EXCEPT ![i] = i]
      /\ pc' = [pc EXCEPT ![i] = "idle"]
      /\ UNCHANGED <<arrived, place, stat, held, meta, eom, pre, free,
           lastStage, cur, todo, stage, num, last>>
  BY DEF MigrateDone, queueVars, blockVars, jobVars
<1>1. TypeOK'
  BY <1>e DEF TypeOK, PCs
<1>2. OneToOne'
  BY <1>e DEF OneToOne, TypeOK
<1>3. JobInv'
  BY <1>e DEF JobInv, Unassigned, Removing, TypeOK
<1>4. PlaceInv'
  BY <1>e DEF PlaceInv, LastSending, Sending, TypeOK
<1>5. UniqueInv'
  BY <1>e DEF UniqueInv, HandsOver, TypeOK
<1>6. KeptInv'
  BY <1>e DEF KeptInv, Known, TypeOK
<1>7. CopyInv'
  BY <1>e DEF CopyInv
<1>8. StageInv'
  BY <1>e DEF StageInv, SentInv, HealthInv, Healthy, ShouldAbort,
       MidMigration, Removing, LastSending, Sending, TypeOK
<1>9. PreInv'
  <2>1. \A k, j \in Inst, q \in Req : Reserves(k, j, q) => Reserves(k, j, q)'
    BY <1>e DEF Reserves, Reserving, TypeOK
  <2>2. \A k \in Inst : pc'[k] \in {"allocated", "send", "commit"}
                         => pre'[dst'[k]][cur'[k]] > 0
    BY <1>e DEF PreInv, TypeOK
  <2> QED
    BY <1>e, <2>1, <2>2 DEF PreInv, TypeOK
<1> QED
  BY <1>1, <1>2, <1>3, <1>4, <1>5, <1>6, <1>7, <1>8, <1>9

\* The destination allocates the blocks of a stage.
LEMMA PreAllocOKIInv ==
  ASSUME IInv, NEW i \in Inst, pc[i] = "alloc",
         PreAllocOK(i, dst[i], cur[i]),
         UNCHANGED <<queueVars, held, lastStage, dst, jobVars, busy>>
  PROVE  IInv'
<1> USE DEF IInv
<1>c. cur[i] \in Req /\ dst[i] \in Inst
  BY DEF JobInv, Unassigned, TypeOK
<1> DEFINE n == PreAllocLen(dst[i], cur[i], num[i])
<1>n. n \in Nat /\ n <= free[dst[i]] + pre[dst[i]][cur[i]]
  BY <1>c, BlocksAssumption DEF PreAllocLen, TypeOK
<1>e. /\ pc[i] = "alloc"
      /\ n \in Nat /\ n <= free[dst[i]] + pre[dst[i]][cur[i]] /\ num[i] <= n
      /\ pre' = [pre EXCEPT ![dst[i]][cur[i]] = n]
      /\ free' = [free EXCEPT ![dst[i]] = (free[dst[i]] + pre[dst[i]][cur[i]]) - n]
      /\ pc' = [pc EXCEPT ![i] = "allocated"]
      /\ UNCHANGED <<arrived, place, stat, held, meta, eom, lastStage, dst,
           cur, todo, stage, num, last, busy>>
  BY <1>n DEF PreAllocOK, queueVars, jobVars
<1> HIDE DEF n
<1>1. TypeOK'
  <2>1. free' \in [Inst -> Nat]
    BY <1>e, <1>c DEF TypeOK
  <2>2. pre' \in [Inst -> [Req -> Nat]] /\ pc' \in [Inst -> PCs]
    BY <1>e, <1>c DEF TypeOK, PCs
  <2> QED
    BY <1>e, <2>1, <2>2 DEF TypeOK
<1>2. OneToOne'
  BY <1>e, <1>c DEF OneToOne, TypeOK
<1>3. JobInv'
  BY <1>e, <1>c DEF JobInv, Unassigned, Removing, TypeOK
<1>4. PlaceInv'
  BY <1>e, <1>c DEF PlaceInv, LastSending, Sending, TypeOK
<1>5. UniqueInv'
  BY <1>e, <1>c DEF UniqueInv, HandsOver, TypeOK
<1>6. KeptInv'
  BY <1>e, <1>c DEF KeptInv, Known, TypeOK
<1>7. CopyInv'
  BY <1>e DEF CopyInv
<1>8. StageInv'
  <2>1. \A k \in Inst : SentInv(k)'
    BY <1>e DEF StageInv, SentInv, MidMigration, Sending, Removing, TypeOK
  <2>2. \A k \in Inst \ {i} : HealthInv(k)'
    BY <1>e DEF StageInv, HealthInv, Healthy, ShouldAbort, LastSending,
         Sending, Removing, TypeOK
  <2>3. HealthInv(i)'
    BY <1>e DEF StageInv, HealthInv, Healthy, ShouldAbort, LastSending,
         Sending, Removing, TypeOK
  <2> QED
    BY <2>1, <2>2, <2>3 DEF StageInv
<1>9. PreInv'
  <2>1. \A k, j \in Inst, q \in Req : Reserves(k, j, q) => Reserves(k, j, q)'
    BY <1>e DEF Reserves, Reserving, TypeOK
  <2>2. pc'[i] \in Reserving
    BY <1>e DEF Reserving, TypeOK
  <2>3. \A j \in Inst, q \in Req :
          pre'[j][q] > 0 => \E k \in Inst : Reserves(k, j, q)'
    <3> SUFFICES ASSUME NEW j \in Inst, NEW q \in Req, pre'[j][q] > 0
                 PROVE  \E k \in Inst : Reserves(k, j, q)'
      OBVIOUS
    <3>1. CASE j = dst[i] /\ q = cur[i]
      BY <1>e, <2>2, <3>1 DEF Reserves
    <3>2. CASE ~(j = dst[i] /\ q = cur[i])
      BY <1>e, <1>c, <2>1, <3>2 DEF PreInv, TypeOK
    <3> QED
      BY <3>1, <3>2
  <2>4. num[i] > 0
    BY <1>e DEF StageInv, HealthInv
  <2>5. \A k \in Inst : pc'[k] \in {"allocated", "send", "commit"}
                         => pre'[dst'[k]][cur'[k]] > 0
    <3> SUFFICES ASSUME NEW k \in Inst, pc'[k] \in {"allocated", "send", "commit"}
                 PROVE  pre'[dst[k]][cur[k]] > 0
      BY <1>e
    <3>1. CASE k = i
      BY <1>e, <1>c, <2>4, <3>1 DEF TypeOK
    <3>2. CASE k # i
      <4>1. dst[k] # dst[i] /\ pre[dst[k]][cur[k]] > 0
        BY <1>e, <3>2 DEF OneToOne, PreInv, TypeOK
      <4> QED
        BY <1>e, <1>c, <3>2, <4>1 DEF TypeOK
    <3> QED
      BY <3>1, <3>2
  <2> QED
    BY <2>3, <2>5 DEF PreInv
<1> QED
  BY <1>1, <1>2, <1>3, <1>4, <1>5, <1>6, <1>7, <1>8, <1>9

\* The destination refuses and frees what it had allocated.
LEMMA PreAllocRefusedIInv ==
  ASSUME IInv, NEW i \in Inst, pc[i] = "alloc",
         PreAllocRefused(i, dst[i], cur[i]),
         UNCHANGED <<queueVars, held, lastStage, dst, jobVars, busy>>
  PROVE  IInv'
<1> USE DEF IInv
<1>c. cur[i] \in Req /\ dst[i] \in Inst
  BY DEF JobInv, Unassigned, TypeOK
<1>e. /\ pc[i] = "alloc"
      /\ pre' = [pre EXCEPT ![dst[i]][cur[i]] = 0]
      /\ free' = [free EXCEPT ![dst[i]] = free[dst[i]] + pre[dst[i]][cur[i]]]
      /\ pc' = [pc EXCEPT ![i] = "refused"]
      /\ UNCHANGED <<arrived, place, stat, held, meta, eom, lastStage, dst,
           cur, todo, stage, num, last, busy>>
  BY DEF PreAllocRefused, queueVars, jobVars
<1>1. TypeOK'
  <2>1. free' \in [Inst -> Nat]
    BY <1>e, <1>c DEF TypeOK
  <2>2. pre' \in [Inst -> [Req -> Nat]] /\ pc' \in [Inst -> PCs]
    BY <1>e, <1>c DEF TypeOK, PCs
  <2> QED
    BY <1>e, <2>1, <2>2 DEF TypeOK
<1>2. OneToOne'
  BY <1>e, <1>c DEF OneToOne, TypeOK
<1>3. JobInv'
  BY <1>e, <1>c DEF JobInv, Unassigned, Removing, TypeOK
<1>4. PlaceInv'
  BY <1>e, <1>c DEF PlaceInv, LastSending, Sending, TypeOK
<1>5. UniqueInv'
  BY <1>e, <1>c DEF UniqueInv, HandsOver, TypeOK
<1>6. KeptInv'
  BY <1>e, <1>c DEF KeptInv, Known, TypeOK
<1>7. CopyInv'
  BY <1>e DEF CopyInv
<1>8. StageInv'
  <2>1. \A k \in Inst : SentInv(k)'
    BY <1>e DEF StageInv, SentInv, MidMigration, Sending, Removing, TypeOK
  <2>2. \A k \in Inst \ {i} : HealthInv(k)'
    BY <1>e DEF StageInv, HealthInv, Healthy, ShouldAbort, LastSending,
         Sending, Removing, TypeOK
  <2>3. HealthInv(i)'
    BY <1>e DEF StageInv, HealthInv, Healthy, ShouldAbort, LastSending,
         Sending, Removing, TypeOK
  <2> QED
    BY <2>1, <2>2, <2>3 DEF StageInv
<1>9. PreInv'
  <2>1. \A k, j \in Inst, q \in Req :
          Reserves(k, j, q) /\ ~(j = dst[i] /\ q = cur[i]) => Reserves(k, j, q)'
    BY <1>e DEF Reserves, Reserving, TypeOK
  <2>2. \A j \in Inst, q \in Req :
          pre'[j][q] > 0 => pre[j][q] > 0 /\ ~(j = dst[i] /\ q = cur[i])
    BY <1>e, <1>c DEF TypeOK
  <2>3. \A k \in Inst \ {i} : pc[k] # "idle" => dst[k] # dst[i]
    BY <1>e DEF OneToOne, TypeOK
  <2>4. \A k \in Inst : pc'[k] \in {"allocated", "send", "commit"}
                         => pre'[dst'[k]][cur'[k]] > 0
    BY <1>e, <1>c, <2>3 DEF PreInv, TypeOK
  <2> QED
    BY <2>1, <2>2, <2>4 DEF PreInv
<1> QED
  BY <1>1, <1>2, <1>3, <1>4, <1>5, <1>6, <1>7, <1>8, <1>9

\* The destination takes the request over.
LEMMA CommitDstRequestIInv ==
  ASSUME IInv, NEW i \in Inst, CommitDstRequest(i)
  PROVE  IInv'
<1> USE DEF IInv
<1>j. PICK j \in Inst, r \in Req : j = dst[i] /\ r = cur[i] /\ pc[i] = "commit"
  BY DEF CommitDstRequest, JobInv, Unassigned, TypeOK
<1> DEFINE m == NewMeta(meta[i][r].size, FALSE)
           w == stat[i][r] = "waiting_migrating"
           pl == IF w THEN "waiting" ELSE "running"
           st == IF w THEN "waiting_migrating" ELSE "none"
<1>c. pc[i] = "commit" /\ i # j /\ last[i] /\ pc[j] = "idle"
  BY <1>j DEF JobInv, Removing, OneToOne
<1>p. pre[j][r] > 0 /\ pre[j][r] # 0
  BY <1>c, <1>j DEF PreInv, TypeOK
<1>d. place[i][r] = "detached" /\ r \in arrived
  BY <1>c, <1>j DEF PlaceInv, LastSending, Sending, JobInv, Unassigned
<1>s. meta[i][r].size \in Nat /\ meta[i][r].size > 0
  BY <1>c, <1>d DEF CopyInv, TypeOK, Meta
<1>m. m \in Meta /\ m.size > 0 /\ m.sent = 0 /\ ~m.finished
  BY <1>s DEF NewMeta, Meta
<1>f. /\ pc' = [pc EXCEPT ![i] = "committed"]
      /\ held' = [held EXCEPT ![j][r] = pre[j][r]]
      /\ pre' = [pre EXCEPT ![j][r] = 0]
      /\ meta' = [meta EXCEPT ![j][r] = m]
  BY <1>j, <1>p DEF CommitDstRequest
<1>g. /\ place' = [place EXCEPT ![j][r] = pl]
      /\ stat' = [stat EXCEPT ![j][r] = st]
  <2>1. CASE w
    BY <1>j, <1>p, <2>1 DEF CommitDstRequest
  <2>2. CASE ~w
    BY <1>j, <1>p, <2>2 DEF CommitDstRequest
  <2> QED
    BY <2>1, <2>2
<1>w. \/ w /\ pl = "waiting" /\ st = "waiting_migrating"
      \/ ~w /\ pl = "running" /\ st = "none"
  OBVIOUS
<1>u. \A k \in Inst \ {i} : place[k][r] = "none"
  BY <1>c, <1>d, <1>j DEF UniqueInv, HandsOver, OneToOne
<1>e. /\ pc' = [pc EXCEPT ![i] = "committed"]
      /\ held' = [held EXCEPT ![j][r] = pre[j][r]]
      /\ pre' = [pre EXCEPT ![j][r] = 0]
      /\ meta' = [meta EXCEPT ![j][r] = m]
      /\ place' = [place EXCEPT ![j][r] = pl]
      /\ stat' = [stat EXCEPT ![j][r] = st]
      /\ UNCHANGED <<arrived, eom, free, lastStage, dst, cur, todo, stage,
           num, last, busy>>
  BY <1>f, <1>g DEF CommitDstRequest, jobVars
<1> HIDE DEF m, pl, st, w
<1>1. TypeOK'
  <2>1. pl \in Places /\ st \in Statuses
    BY <1>w DEF Places, Statuses
  <2>2. pc' \in [Inst -> PCs]
    BY <1>e DEF TypeOK, PCs
  <2>3. held' \in [Inst -> [Req -> Nat]] /\ pre' \in [Inst -> [Req -> Nat]]
    BY <1>e, <1>c DEF TypeOK
  <2> QED
    BY <1>e, <1>c, <1>m, <2>1, <2>2, <2>3 DEF TypeOK
<1>2. OneToOne'
  BY <1>e, <1>c, <1>d, <1>j DEF OneToOne, TypeOK
<1>3. JobInv'
  BY <1>e, <1>c, <1>d, <1>j DEF JobInv, Unassigned, Removing, TypeOK
<1>4. PlaceInv'
  BY <1>e, <1>c, <1>d, <1>j, <1>w
  DEF PlaceInv, LastSending, Sending, JobInv, Unassigned, Removing, OneToOne, TypeOK
<1>5. UniqueInv'
  BY <1>e, <1>c, <1>d, <1>j, <1>u, <1>w DEF UniqueInv, HandsOver, TypeOK
<1>6. KeptInv'
  <2>1. \A k \in Inst, q \in Req : Known(k, q) => Known(k, q)'
    BY <1>e, <1>c, <1>w DEF Known, TypeOK
  <2>2. \A k \in Inst : pc'[k] = "committed" => Known(dst[k], cur[k])'
    <3> SUFFICES ASSUME NEW k \in Inst, pc'[k] = "committed"
                 PROVE  Known(dst[k], cur[k])'
      OBVIOUS
    <3>1. CASE k = i
      BY <1>e, <1>c, <1>j, <1>w, <3>1 DEF Known, TypeOK
    <3>2. CASE k # i
      BY <1>e, <1>c, <1>j, <3>2 
         DEF KeptInv, Known, OneToOne, JobInv, Unassigned, TypeOK
    <3> QED
      BY <3>1, <3>2
  <2>3. \A k \in Inst, q \in Req \ arrived : place'[k][q] = "none" /\ stat'[k][q] = "none"
    BY <1>e, <1>c, <1>d DEF KeptInv, TypeOK
  <2> QED
    BY <1>e, <2>1, <2>2, <2>3 DEF KeptInv, Known, TypeOK
<1>7. CopyInv'
  <2>1. ASSUME NEW k \in Inst, NEW q \in Req, ~(k = j /\ q = r)
        PROVE  /\ place'[k][q] = place[k][q] /\ meta'[k][q] = meta[k][q]
               /\ stat'[k][q] = stat[k][q] /\ held'[k][q] = held[k][q]
    BY <1>e, <1>c, <2>1 DEF TypeOK
  <2>2. /\ place'[j][r] = pl /\ meta'[j][r] = m
        /\ stat'[j][r] = st /\ held'[j][r] = pre[j][r]
    BY <1>e, <1>c DEF TypeOK
  <2> QED
    BY <2>1, <2>2, <1>m, <1>p, <1>w DEF CopyInv
<1>8. StageInv'
  <2>1. \A k \in Inst : SentInv(k)'
    BY <1>e, <1>c, <1>m, <1>j
       DEF StageInv, SentInv, MidMigration, Sending, Removing, TypeOK
  <2>2. HealthInv(j)'
    <3>1. pc'[j] = "idle"
      BY <1>e, <1>c DEF TypeOK
    <3> QED
      BY <3>1 DEF HealthInv, LastSending, Sending, Removing
  <2>3. HealthInv(i)'
    BY <1>e, <1>c, <1>j
       DEF StageInv, HealthInv, LastSending, Sending, Removing, TypeOK
  <2>4. \A k \in Inst \ {i, j} : HealthInv(k)'
    BY <1>e, <1>c
       DEF StageInv, HealthInv, Healthy, ShouldAbort, LastSending, Sending,
           Removing, TypeOK
  <2> QED
    BY <1>c, <2>1, <2>2, <2>3, <2>4 DEF StageInv
<1>9. PreInv'
  <2>1. \A k, l \in Inst, q \in Req :
          Reserves(k, l, q) /\ ~(l = dst[i] /\ q = cur[i]) => Reserves(k, l, q)'
    BY <1>e, <1>j DEF Reserves, Reserving, TypeOK
  <2>2. \A l \in Inst, q \in Req :
          pre'[l][q] > 0 => pre[l][q] > 0 /\ ~(l = dst[i] /\ q = cur[i])
    BY <1>e, <1>c, <1>j DEF TypeOK
  <2>3. \A k \in Inst \ {i} : pc[k] # "idle" => dst[k] # dst[i]
    BY <1>c, <1>j DEF OneToOne, TypeOK
  <2>4. \A k \in Inst : pc'[k] \in {"allocated", "send", "commit"}
                         => pre'[dst'[k]][cur'[k]] > 0
    BY <1>e, <1>c, <1>j, <2>3 DEF PreInv, TypeOK
  <2> QED
    BY <2>1, <2>2, <2>4 DEF PreInv
<1> QED
  BY <1>1, <1>2, <1>3, <1>4, <1>5, <1>6, <1>7, <1>8, <1>9

----------------------------------------------------------------------------
(***************************************************************************)
(* The source.                                                             *)
(***************************************************************************)

\* get_migrate_out_requests chooses requests of the queues only, so all of them
\* have arrived.
LEMMA ChoicesArrived ==
  ASSUME IInv, NEW i \in Inst, NEW D \in SUBSET Req,
         NEW c \in MigrateOutChoices(i, D)
  PROVE  c[1] \in arrived /\ c[2] \subseteq arrived
<1>1. Waiting(i) \subseteq arrived /\ Running(i) \subseteq arrived
  BY DEF IInv, KeptInv, Waiting, Running
<1>2. /\ Required(i, D) \subseteq arrived
      /\ FilteredRunning(i, D) \subseteq arrived
      /\ FirstWaiting(i, D) \subseteq arrived
  BY <1>1 DEF Required, FilteredRunning, FirstWaiting
<1> HIDE DEF Required, FilteredRunning, FirstWaiting
<1>3. \/ \E r \in Required(i, D) : c = <<r, Required(i, D) \ {r}>>
      \/ \E w \in FirstWaiting(i, D) : c = <<w, {}>>
      \/ \E w \in FirstWaiting(i, D), r \in FilteredRunning(i, D) : c = <<w, {r}>>
      \/ \E r \in FilteredRunning(i, D) : c = <<r, {}>>
  BY DEF MigrateOutChoices
<1> QED
  BY <1>2, <1>3

\* Setting is_migrating for the chosen requests leaves the rest of their copies
\* alone.
LEMMA MarkedMeta ==
  ASSUME TypeOK, NEW i \in Inst, NEW R, MarkMigrating(i, R)
  PROVE  /\ meta' \in [Inst -> [Req -> Meta]]
         /\ \A k \in Inst, q \in Req :
              /\ meta'[k][q].size = meta[k][q].size
              /\ meta'[k][q].sent = meta[k][q].sent
              /\ meta'[k][q].preempted = meta[k][q].preempted
              /\ meta'[k][q].finished = meta[k][q].finished
<1>1. \A m \in Meta : LET e == [m EXCEPT !.mig = TRUE] IN
        /\ e \in Meta /\ e.size = m.size /\ e.sent = m.sent
        /\ e.preempted = m.preempted /\ e.finished = m.finished
  BY DEF Meta
<1> DEFINE f == [r \in Req |-> IF r \in R THEN [meta[i][r] EXCEPT !.mig = TRUE]
                                          ELSE meta[i][r]]
<1>2. meta' = [meta EXCEPT ![i] = f]
  BY DEF MarkMigrating
<1>3. ASSUME NEW q \in Req
      PROVE  /\ f[q] \in Meta /\ f[q].size = meta[i][q].size
             /\ f[q].sent = meta[i][q].sent
             /\ f[q].preempted = meta[i][q].preempted
             /\ f[q].finished = meta[i][q].finished
  <2>1. meta[i][q] \in Meta
    BY DEF TypeOK
  <2>2. CASE q \in R
    BY <1>1, <2>1, <2>2
  <2>3. CASE q \notin R
    BY <2>1, <2>3
  <2> QED
    BY <2>2, <2>3
<1>4. f = [q \in Req |-> f[q]]
  OBVIOUS
<1> HIDE DEF f
<1>5. f \in [Req -> Meta]
  BY <1>3, <1>4
<1>6. meta' \in [Inst -> [Req -> Meta]]
  BY <1>2, <1>5 DEF TypeOK
<1>7. \A k \in Inst : meta'[k] = IF k = i THEN f ELSE meta[k]
  BY <1>2 DEF TypeOK
<1> QED
  BY <1>3, <1>6, <1>7

\* migrate_out finds no request and returns.
LEMMA MigrateNoneIInv ==
  ASSUME IInv, NEW i \in Inst, NEW D, pc[i] = "called", MigrateNone(i, D),
         UNCHANGED <<arrived, place, stat, blockVars, lastStage, dst, stage, num,
                     last, busy>>
  PROVE  IInv'
<1> USE DEF IInv
<1>e. /\ pc[i] = "called"
      /\ pc' = [pc EXCEPT ![i] = "done"]
      /\ UNCHANGED <<arrived, place, stat, held, meta, eom, pre, free,
           lastStage, dst, cur, todo, stage, num, last, busy>>
  BY DEF MigrateNone, blockVars
<1>1. TypeOK'
  BY <1>e DEF TypeOK, PCs
<1>2. OneToOne'
  BY <1>e DEF OneToOne, TypeOK
<1>3. JobInv'
  BY <1>e DEF JobInv, Unassigned, Removing, TypeOK
<1>4. PlaceInv'
  BY <1>e DEF PlaceInv, LastSending, Sending, TypeOK
<1>5. UniqueInv'
  BY <1>e DEF UniqueInv, HandsOver, TypeOK
<1>6. KeptInv'
  BY <1>e DEF KeptInv, Known, TypeOK
<1>7. CopyInv'
  BY <1>e DEF CopyInv
<1>8. StageInv'
  <2>1. \A k \in Inst : SentInv(k)'
    BY <1>e DEF StageInv, SentInv, MidMigration, Sending, Removing, TypeOK
  <2>2. \A k \in Inst \ {i} : HealthInv(k)'
    BY <1>e DEF StageInv, HealthInv, Healthy, ShouldAbort, LastSending,
         Sending, Removing, TypeOK
  <2>3. HealthInv(i)'
    BY <1>e DEF StageInv, HealthInv, Healthy, ShouldAbort, LastSending,
         Sending, Removing, TypeOK
  <2> QED
    BY <2>1, <2>2, <2>3 DEF StageInv
<1>9. PreInv'
  <2>1. \A k, j \in Inst, q \in Req : Reserves(k, j, q) => Reserves(k, j, q)'
    BY <1>e DEF Reserves, Reserving, TypeOK
  <2>2. \A k \in Inst : pc'[k] \in {"allocated", "send", "commit"}
                         => pre'[dst'[k]][cur'[k]] > 0
    BY <1>e DEF PreInv, TypeOK
  <2> QED
    BY <1>e, <2>1, <2>2 DEF PreInv, TypeOK
<1> QED
  BY <1>1, <1>2, <1>3, <1>4, <1>5, <1>6, <1>7, <1>8, <1>9

\* migrate_out marks the requests it has chosen.
LEMMA MigrateSomeIInv ==
  ASSUME IInv, NEW i \in Inst, NEW D \in SUBSET Req, pc[i] = "called",
         MigrateSome(i, D),
         UNCHANGED <<arrived, place, stat, blockVars, lastStage, dst, stage, num,
                     last, busy>>
  PROVE  IInv'
<1> USE DEF IInv
<1>p. PICK c \in MigrateOutChoices(i, D) :
        /\ MarkMigrating(i, {c[1]} \cup c[2])
        /\ cur' = [cur EXCEPT ![i] = c[1]]
        /\ todo' = [todo EXCEPT ![i] = c[2]]
        /\ eom' = IF Required(i, D) = {} /\ Policy = "FCWSR" /\ c[1] \in Waiting(i)
                  THEN eom \cup {c[1]} ELSE eom
        /\ pc' = [pc EXCEPT ![i] = "next"]
  BY DEF MigrateSome
<1>c. c[1] \in arrived /\ c[2] \subseteq arrived /\ arrived \subseteq Req
  BY ChoicesArrived DEF TypeOK
<1>m. /\ meta' \in [Inst -> [Req -> Meta]]
      /\ \A k \in Inst, q \in Req :
           /\ meta'[k][q].size = meta[k][q].size
           /\ meta'[k][q].sent = meta[k][q].sent
           /\ meta'[k][q].preempted = meta[k][q].preempted
           /\ meta'[k][q].finished = meta[k][q].finished
  BY <1>p, MarkedMeta
<1>e. /\ pc[i] = "called"
      /\ pc' = [pc EXCEPT ![i] = "next"]
      /\ cur' = [cur EXCEPT ![i] = c[1]]
      /\ todo' = [todo EXCEPT ![i] = c[2]]
      /\ eom' \subseteq Req
      /\ UNCHANGED <<arrived, place, stat, held, pre, free, lastStage, dst,
           stage, num, last, busy>>
  BY <1>p, <1>c DEF blockVars, TypeOK
<1>1. TypeOK'
  <2>1. pc' \in [Inst -> PCs]
    BY <1>e DEF TypeOK, PCs
  <2>2. /\ cur' \in [Inst -> Req \cup {NoReq}]
        /\ todo' \in [Inst -> SUBSET Req]
    BY <1>e, <1>c DEF TypeOK
  <2> QED
    BY <1>e, <1>m, <2>1, <2>2 DEF TypeOK
<1>2. OneToOne'
  BY <1>e, <1>c, <1>m DEF OneToOne, TypeOK
<1>3. JobInv'
  BY <1>e, <1>c, <1>m DEF JobInv, Unassigned, Removing, TypeOK
<1>4. PlaceInv'
  BY <1>e, <1>c, <1>m DEF PlaceInv, LastSending, Sending, TypeOK
<1>5. UniqueInv'
  BY <1>e, <1>c, <1>m DEF UniqueInv, HandsOver, TypeOK
<1>6. KeptInv'
  <2>1. \A k \in Inst, q \in Req : Known(k, q) => Known(k, q)'
    BY <1>e, <1>m DEF Known, TypeOK
  <2>2. \A k \in Inst : pc'[k] = "committed" => Known(dst[k], cur[k])'
    <3> SUFFICES ASSUME NEW k \in Inst, pc'[k] = "committed"
                 PROVE  Known(dst[k], cur[k])'
      OBVIOUS
    <3>1. k # i /\ pc[k] = "committed" /\ cur[k] \in Req /\ dst[k] \in Inst
      BY <1>e DEF TypeOK, JobInv, Unassigned
    <3>2. cur'[k] = cur[k] /\ dst'[k] = dst[k]
      BY <1>e, <3>1 DEF TypeOK
    <3>3. Known(dst[k], cur[k])
      BY <3>1 DEF KeptInv
    <3>4. /\ place'[dst[k]][cur[k]] = place[dst[k]][cur[k]]
          /\ meta'[dst[k]][cur[k]].finished = meta[dst[k]][cur[k]].finished
      BY <1>e, <1>m, <3>1
    <3> QED
      BY <3>2, <3>3, <3>4 DEF Known
  <2>3. \A k \in Inst, q \in Req \ arrived : place'[k][q] = "none" /\ stat'[k][q] = "none"
    BY <1>e DEF KeptInv
  <2> QED
    BY <1>e, <2>1, <2>2, <2>3 DEF KeptInv, Known, TypeOK
<1>7. CopyInv'
  <2> SUFFICES ASSUME NEW k \in Inst, NEW q \in Req
               PROVE  (place[k][q] # "none" => meta'[k][q].size > 0 /\ ~meta'[k][q].finished)
    BY <1>e DEF CopyInv
  <2> QED
    BY <1>m DEF CopyInv
<1>8. StageInv'
  <2>1. \A k \in Inst : SentInv(k)'
    <3> SUFFICES ASSUME NEW k \in Inst, NEW q \in Req, meta'[k][q].sent # 0
                 PROVE  cur'[k] = q /\ pc'[k] \in MidMigration
      BY DEF SentInv
    <3>1. meta[k][q].sent # 0
      BY <1>m
    <3> QED
      BY <1>e, <3>1 DEF StageInv, SentInv, MidMigration, Sending, Removing,
           TypeOK
  <2>2. \A k \in Inst \ {i} : HealthInv(k)'
    <3> SUFFICES ASSUME NEW k \in Inst, k # i PROVE HealthInv(k)'
      OBVIOUS
    <3>1. pc[k] \notin Unassigned => cur[k] \in Req
      BY DEF JobInv, TypeOK
    <3>2. pc[k] \notin Unassigned =>
            /\ meta'[k][cur[k]].sent = meta[k][cur[k]].sent
            /\ meta'[k][cur[k]].preempted = meta[k][cur[k]].preempted
            /\ meta'[k][cur[k]].finished = meta[k][cur[k]].finished
      BY <1>m, <3>1
    <3>3. pc'[k] = pc[k] /\ cur'[k] = cur[k]
      BY <1>e DEF TypeOK
    <3>4. HealthInv(k)
      BY DEF StageInv
    <3>5. CASE pc[k] \in Unassigned
      BY <3>3, <3>5 DEF HealthInv, LastSending, Sending, Removing, Unassigned
    <3>6. CASE pc[k] \notin Unassigned
      <4>1. ShouldAbort(k, cur[k])' = ShouldAbort(k, cur[k])
        BY <3>2, <3>3, <3>6 DEF ShouldAbort
      <4>2. /\ Healthy(k, 0) => Healthy(k, 0)'
            /\ Healthy(k, num[k]) => Healthy(k, num[k])'
        BY <1>e, <3>2, <3>3, <3>6, <4>1 DEF Healthy
      <4>3. LastSending(k)' = LastSending(k)
        BY <1>e, <3>3 DEF LastSending
      <4> QED
        BY <1>e, <3>2, <3>3, <3>4, <3>6, <4>2, <4>3 DEF HealthInv
    <3> QED
      BY <3>5, <3>6
  <2>3. HealthInv(i)'
    BY <1>e, <1>m DEF StageInv, HealthInv, Healthy, ShouldAbort, LastSending,
         Sending, Removing, TypeOK
  <2> QED
    BY <2>1, <2>2, <2>3 DEF StageInv
<1>9. PreInv'
  <2>1. \A k, j \in Inst, q \in Req : Reserves(k, j, q) => Reserves(k, j, q)'
    BY <1>e DEF Reserves, Reserving, TypeOK
  <2>2. \A k \in Inst : pc'[k] \in {"allocated", "send", "commit"}
                         => pre'[dst'[k]][cur'[k]] > 0
    BY <1>e DEF PreInv, TypeOK
  <2> QED
    BY <1>e, <2>1, <2>2 DEF PreInv, TypeOK
<1> QED
  BY <1>1, <1>2, <1>3, <1>4, <1>5, <1>6, <1>7, <1>8, <1>9

\* At the end of _migrate_out_one_request the loop goes on with a request it
\* has chosen, or migrate_out returns; its local variables are reset.
LEMMA AdvanceEffect ==
  ASSUME IInv, NEW i \in Inst, NEW g, Advance(i, g)
  PROVE  \E p \in {"next", "done"}, c \in Req \cup {NoReq}, T \in SUBSET arrived :
           /\ p = "next" => c \in arrived
           /\ pc' = [pc EXCEPT ![i] = p]
           /\ cur' = [cur EXCEPT ![i] = c]
           /\ todo' = [todo EXCEPT ![i] = T]
           /\ stage' = [stage EXCEPT ![i] = 0]
           /\ num' = [num EXCEPT ![i] = 0]
           /\ last' = [last EXCEPT ![i] = FALSE]
<1>1. CASE todo[i] = {} \/ (~g /\ cur[i] \in eom)
  BY <1>1 DEF Advance
<1>2. CASE ~(todo[i] = {} \/ (~g /\ cur[i] \in eom))
  <2>1. PICK r \in todo[i] :
          /\ pc' = [pc EXCEPT ![i] = "next"]
          /\ cur' = [cur EXCEPT ![i] = r]
          /\ todo' = [todo EXCEPT ![i] = todo[i] \ {r}]
    BY <1>2 DEF Advance
  <2>2. r \in Req /\ r \in arrived /\ todo[i] \ {r} \in SUBSET arrived
    BY DEF IInv, JobInv, TypeOK
  <2> QED
    BY <2>1, <2>2 DEF Advance
<1> QED
  BY <1>1, <1>2

\* ABORTED_SRC: the request was not taken out of its queue.
LEMMA AbortSrcIInv ==
  ASSUME IInv, NEW i \in Inst, cur[i] \in Req, AbortSrc(i, cur[i]),
         pc[i] \in {"next", "stage", "removed", "allocated", "send"},
         place[i][cur[i]] # "detached",
         UNCHANGED <<arrived, place, eom, blockVars, lastStage, dst, busy>>
  PROVE  IInv'
<1> USE DEF IInv
<1>r. PICK r \in Req : r = cur[i] /\ r \in arrived
  BY DEF JobInv, Unassigned, TypeOK
<1> DEFINE m == [meta[i][r] EXCEPT !.sent = 0, !.mig = FALSE, !.preempted = FALSE]
<1>n. meta[i][r] \in Meta
  BY DEF TypeOK
<1>m. /\ m \in Meta /\ m.size = meta[i][r].size /\ m.sent = 0
      /\ ~m.preempted /\ m.finished = meta[i][r].finished
  BY <1>n, ResetMeta
<1>e. /\ pc[i] \in {"next", "stage", "removed", "allocated", "send"}
      /\ place[i][r] # "detached"
      /\ meta' = [meta EXCEPT ![i][r] = m]
      /\ stat' = [stat EXCEPT ![i][r] = "none"]
      /\ pc' = [pc EXCEPT ![i] = "abort"]
      /\ UNCHANGED <<arrived, place, held, eom, pre, free, lastStage, dst,
           cur, todo, stage, num, last, busy>>
  BY <1>r DEF AbortSrc, ResetSrc, blockVars, jobVars
<1> HIDE DEF m
<1>1. TypeOK'
  <2>1. pc' \in [Inst -> PCs] /\ stat' \in [Inst -> [Req -> Statuses]]
    BY <1>e DEF TypeOK, PCs, Statuses
  <2> QED
    BY <1>e, <1>m, <2>1 DEF TypeOK
<1>2. OneToOne'
  BY <1>e, <1>r, <1>m DEF OneToOne, TypeOK
<1>3. JobInv'
  BY <1>e, <1>r, <1>m DEF JobInv, Unassigned, Removing, TypeOK, Unassigned
<1>4. PlaceInv'
  BY <1>e, <1>r, <1>m DEF PlaceInv, LastSending, Sending, TypeOK
<1>5. UniqueInv'
  BY <1>e, <1>r, <1>m DEF UniqueInv, HandsOver, TypeOK
<1>6. KeptInv'
  <2>1. \A k \in Inst, q \in Req : Known(k, q) => Known(k, q)'
    BY <1>e, <1>m, <1>r DEF Known, TypeOK
  <2>2. \A k \in Inst : pc'[k] = "committed" => Known(dst[k], cur[k])'
    <3> SUFFICES ASSUME NEW k \in Inst, pc'[k] = "committed"
                 PROVE  Known(dst[k], cur[k])'
      OBVIOUS
    <3>1. pc[k] = "committed" /\ cur[k] \in Req /\ dst[k] \in Inst /\ cur'[k] = cur[k]
      BY <1>e, <1>r DEF TypeOK, JobInv, Unassigned
    <3> QED
      BY <1>e, <1>r, <1>m, <3>1 DEF KeptInv, Known, TypeOK
  <2>3. \A k \in Inst, q \in Req \ arrived : place'[k][q] = "none" /\ stat'[k][q] = "none"
    BY <1>e, <1>r DEF KeptInv, TypeOK
  <2> QED
    BY <1>e, <2>1, <2>2, <2>3 DEF KeptInv, Known, TypeOK
<1>7. CopyInv'
  BY <1>e, <1>r, <1>m DEF CopyInv, TypeOK
<1>8. StageInv'
  <2>1. \A k \in Inst : SentInv(k)'
    BY <1>e, <1>r, <1>m DEF StageInv, SentInv, MidMigration, Sending,
         Removing, TypeOK
  <2>2. \A k \in Inst \ {i} : HealthInv(k)'
    BY <1>e, <1>r, <1>m DEF StageInv, HealthInv, Healthy, ShouldAbort,
         LastSending, Sending, Removing, TypeOK
  <2>3. HealthInv(i)'
    BY <1>e, <1>r, <1>m DEF StageInv, HealthInv, Healthy, ShouldAbort,
         LastSending, Sending, Removing, TypeOK
  <2> QED
    BY <2>1, <2>2, <2>3 DEF StageInv
<1>9. PreInv'
  <2>1. \A k, j \in Inst, q \in Req : Reserves(k, j, q) => Reserves(k, j, q)'
    BY <1>e DEF Reserves, Reserving, TypeOK
  <2>2. \A k \in Inst : pc'[k] \in {"allocated", "send", "commit"}
                         => pre'[dst'[k]][cur'[k]] > 0
    BY <1>e DEF PreInv, TypeOK
  <2> QED
    BY <1>e, <2>1, <2>2 DEF PreInv, TypeOK
<1> QED
  BY <1>1, <1>2, <1>3, <1>4, <1>5, <1>6, <1>7, <1>8, <1>9

\* The migration of a running request begins.
LEMMA BeginRunningIInv ==
  ASSUME IInv, NEW i \in Inst, pc[i] = "next", BeginRunning(i, cur[i]),
         UNCHANGED <<arrived, eom, blockVars, dst, busy>>
  PROVE  IInv'
<1> USE DEF IInv
<1>r. PICK r \in Req : r = cur[i] /\ r \in arrived
  BY DEF JobInv, Unassigned, TypeOK
<1> DEFINE b == meta[i][r].preempted /\ meta[i][r].sent # 0
           m == [meta[i][r] EXCEPT !.preempted = b]
<1>n. meta[i][r] \in Meta
  BY DEF TypeOK
<1>o. meta[i][r].sent = 0
  <2>1. pc[i] \notin MidMigration
    BY DEF MidMigration, Sending, Removing
  <2> QED
    BY <2>1 DEF StageInv, SentInv
<1>b. ~b /\ b \in BOOLEAN
  BY <1>o
<1> HIDE DEF b
<1>m. /\ m \in Meta /\ m.size = meta[i][r].size /\ m.sent = 0
      /\ ~m.preempted /\ m.finished = meta[i][r].finished
  BY <1>n, <1>o, <1>b, SetPreempted
<1>t. meta' = [meta EXCEPT ![i][r] = m]
  BY <1>r DEF BeginRunning, StartTime, b
<1>e. /\ pc[i] = "next"
      /\ place[i][r] = "running"
      /\ meta' = [meta EXCEPT ![i][r] = m]
      /\ pc' = [pc EXCEPT ![i] = "stage"]
      /\ UNCHANGED <<arrived, place, stat, held, eom, pre, free, lastStage,
           dst, cur, todo, stage, num, last, busy>>
  BY <1>r, <1>t DEF BeginRunning, blockVars, jobVars
<1> HIDE DEF m
<1>1. TypeOK'
  <2>1. pc' \in [Inst -> PCs]
    BY <1>e DEF TypeOK, PCs
  <2> QED
    BY <1>e, <1>m, <2>1 DEF TypeOK
<1>2. OneToOne'
  BY <1>e, <1>r, <1>m DEF OneToOne, TypeOK
<1>3. JobInv'
  BY <1>e, <1>r, <1>m DEF JobInv, Unassigned, Removing, TypeOK
<1>4. PlaceInv'
  BY <1>e, <1>r, <1>m DEF PlaceInv, LastSending, Sending, TypeOK
<1>5. UniqueInv'
  BY <1>e, <1>r, <1>m DEF UniqueInv, HandsOver, TypeOK
<1>6. KeptInv'
  <2>1. \A k \in Inst, q \in Req : Known(k, q) => Known(k, q)'
    BY <1>e, <1>m, <1>r DEF Known, TypeOK
  <2>2. \A k \in Inst : pc'[k] = "committed" => Known(dst[k], cur[k])'
    <3> SUFFICES ASSUME NEW k \in Inst, pc'[k] = "committed"
                 PROVE  Known(dst[k], cur[k])'
      OBVIOUS
    <3>1. pc[k] = "committed" /\ cur[k] \in Req /\ dst[k] \in Inst /\ cur'[k] = cur[k]
      BY <1>e, <1>r DEF TypeOK, JobInv, Unassigned
    <3> QED
      BY <1>e, <1>r, <1>m, <3>1 DEF KeptInv, Known, TypeOK
  <2>3. \A k \in Inst, q \in Req \ arrived : place'[k][q] = "none" /\ stat'[k][q] = "none"
    BY <1>e, <1>r DEF KeptInv, TypeOK
  <2> QED
    BY <1>e, <2>1, <2>2, <2>3 DEF KeptInv, Known, TypeOK
<1>7. CopyInv'
  BY <1>e, <1>r, <1>m DEF CopyInv, TypeOK
<1>8. StageInv'
  <2>1. \A k \in Inst : SentInv(k)'
    BY <1>e, <1>r, <1>m DEF StageInv, SentInv, MidMigration, Sending,
         Removing, TypeOK
  <2>2. \A k \in Inst \ {i} : HealthInv(k)'
    BY <1>e, <1>r, <1>m DEF StageInv, HealthInv, Healthy, ShouldAbort,
         LastSending, Sending, Removing, TypeOK
  <2>3. HealthInv(i)'
    BY <1>e, <1>r, <1>m DEF StageInv, HealthInv, Healthy, ShouldAbort,
         LastSending, Sending, Removing, TypeOK, CopyInv
  <2> QED
    BY <2>1, <2>2, <2>3 DEF StageInv
<1>9. PreInv'
  <2>1. \A k, j \in Inst, q \in Req : Reserves(k, j, q) => Reserves(k, j, q)'
    BY <1>e DEF Reserves, Reserving, TypeOK
  <2>2. \A k \in Inst : pc'[k] \in {"allocated", "send", "commit"}
                         => pre'[dst'[k]][cur'[k]] > 0
    BY <1>e DEF PreInv, TypeOK
  <2> QED
    BY <1>e, <2>1, <2>2 DEF PreInv, TypeOK
<1> QED
  BY <1>1, <1>2, <1>3, <1>4, <1>5, <1>6, <1>7, <1>8, <1>9

\* The migration of a waiting request takes it out of its queue.
LEMMA BeginWaitingIInv ==
  ASSUME IInv, NEW i \in Inst, pc[i] = "next", BeginWaiting(i, cur[i]),
         UNCHANGED <<arrived, eom, blockVars, dst, busy>>
  PROVE  IInv'
<1> USE DEF IInv
<1>r. PICK r \in Req : r = cur[i] /\ r \in arrived
  BY DEF JobInv, Unassigned, TypeOK
<1> DEFINE b == meta[i][r].preempted /\ meta[i][r].sent # 0
           m == [meta[i][r] EXCEPT !.preempted = b]
<1>n. meta[i][r] \in Meta
  BY DEF TypeOK
<1>o. meta[i][r].sent = 0
  <2>1. pc[i] \notin MidMigration
    BY DEF MidMigration, Sending, Removing
  <2> QED
    BY <2>1 DEF StageInv, SentInv
<1>b. ~b /\ b \in BOOLEAN
  BY <1>o
<1> HIDE DEF b
<1>m. /\ m \in Meta /\ m.size = meta[i][r].size /\ m.sent = 0
      /\ ~m.preempted /\ m.finished = meta[i][r].finished
  BY <1>n, <1>o, <1>b, SetPreempted
<1>t. meta' = [meta EXCEPT ![i][r] = m]
  BY <1>r DEF BeginWaiting, AddLastStage, WaitingNumBlocks, StartTime, b
<1>s. meta[i][r].size \in Nat /\ (place[i][r] # "none" => meta[i][r].size > 0)
  BY <1>n DEF Meta, CopyInv
<1>e. /\ pc[i] = "next"
      /\ place[i][r] = "waiting"
      /\ place' = [place EXCEPT ![i][r] = "detached"]
      /\ stat' = [stat EXCEPT ![i][r] = "waiting_migrating"]
      /\ meta' = [meta EXCEPT ![i][r] = m]
      /\ lastStage' = [lastStage EXCEPT ![i] = lastStage[i] \cup {r}]
      /\ num' = [num EXCEPT ![i] = meta[i][r].size]
      /\ last' = [last EXCEPT ![i] = TRUE]
      /\ pc' = [pc EXCEPT ![i] = "alloc"]
      /\ UNCHANGED <<arrived, held, eom, pre, free, dst, cur, todo, stage,
           busy>>
  BY <1>r, <1>t DEF BeginWaiting, AddLastStage, WaitingNumBlocks, blockVars
<1> HIDE DEF m
<1>1. TypeOK'
  <2>1. pc' \in [Inst -> PCs] /\ stat' \in [Inst -> [Req -> Statuses]]
    BY <1>e DEF TypeOK, PCs, Statuses
  <2>2. place' \in [Inst -> [Req -> Places]] /\ num' \in [Inst -> Nat]
    BY <1>e, <1>s DEF TypeOK, Places
  <2> QED
    BY <1>e, <1>m, <2>1, <2>2 DEF TypeOK
<1>2. OneToOne'
  BY <1>e, <1>r, <1>m DEF OneToOne, TypeOK
<1>3. JobInv'
  BY <1>e, <1>r, <1>m DEF JobInv, Unassigned, Removing, TypeOK
<1>4. PlaceInv'
  BY <1>e, <1>r, <1>m DEF PlaceInv, LastSending, Sending, TypeOK, JobInv,
       Unassigned
<1>5. UniqueInv'
  BY <1>e, <1>r, <1>m DEF UniqueInv, HandsOver, TypeOK
<1>6. KeptInv'
  <2>1. \A k \in Inst, q \in Req : Known(k, q) => Known(k, q)'
    BY <1>e, <1>m, <1>r DEF Known, TypeOK
  <2>2. \A k \in Inst : pc'[k] = "committed" => Known(dst[k], cur[k])'
    <3> SUFFICES ASSUME NEW k \in Inst, pc'[k] = "committed"
                 PROVE  Known(dst[k], cur[k])'
      OBVIOUS
    <3>1. pc[k] = "committed" /\ cur[k] \in Req /\ dst[k] \in Inst /\ cur'[k] = cur[k]
      BY <1>e, <1>r DEF TypeOK, JobInv, Unassigned
    <3> QED
      BY <1>e, <1>r, <1>m, <3>1 DEF KeptInv, Known, TypeOK
  <2>3. \A k \in Inst, q \in Req \ arrived : place'[k][q] = "none" /\ stat'[k][q] = "none"
    BY <1>e, <1>r DEF KeptInv, TypeOK
  <2> QED
    BY <1>e, <2>1, <2>2, <2>3 DEF KeptInv, Known, TypeOK
<1>7. CopyInv'
  BY <1>e, <1>r, <1>m DEF CopyInv, TypeOK
<1>8. StageInv'
  <2>1. \A k \in Inst : SentInv(k)'
    BY <1>e, <1>r, <1>m, <1>s DEF StageInv, SentInv, MidMigration, Sending,
         Removing, TypeOK
  <2>2. \A k \in Inst \ {i} : HealthInv(k)'
    BY <1>e, <1>r, <1>m, <1>s DEF StageInv, HealthInv, Healthy, ShouldAbort,
         LastSending, Sending, Removing, TypeOK
  <2>3. HealthInv(i)'
    BY <1>e, <1>r, <1>s
       DEF HealthInv, LastSending, Sending, Removing, TypeOK
  <2> QED
    BY <2>1, <2>2, <2>3 DEF StageInv
<1>9. PreInv'
  <2>1. \A k, j \in Inst, q \in Req : Reserves(k, j, q) => Reserves(k, j, q)'
    BY <1>e DEF Reserves, Reserving, TypeOK
  <2>2. \A k \in Inst : pc'[k] \in {"allocated", "send", "commit"}
                         => pre'[dst'[k]][cur'[k]] > 0
    BY <1>e DEF PreInv, TypeOK
  <2> QED
    BY <1>e, <2>1, <2>2 DEF PreInv, TypeOK
<1> QED
  BY <1>1, <1>2, <1>3, <1>4, <1>5, <1>6, <1>7, <1>8, <1>9

\* A request that is neither running nor waiting is skipped.
LEMMA BeginSkippedIInv ==
  ASSUME IInv, NEW i \in Inst, pc[i] = "next", BeginSkipped(i, cur[i]),
         UNCHANGED <<arrived, eom, blockVars, dst, busy>>
  PROVE  IInv'
<1> USE DEF IInv
<1>r. PICK r \in Req : r = cur[i] /\ r \in arrived
  BY DEF JobInv, Unassigned, TypeOK
<1>v. PICK p \in {"next", "done"}, c \in Req \cup {NoReq}, T \in SUBSET arrived :
        /\ p = "next" => c \in arrived
        /\ pc' = [pc EXCEPT ![i] = p]
        /\ cur' = [cur EXCEPT ![i] = c]
        /\ todo' = [todo EXCEPT ![i] = T]
        /\ stage' = [stage EXCEPT ![i] = 0]
        /\ num' = [num EXCEPT ![i] = 0]
        /\ last' = [last EXCEPT ![i] = FALSE]
  <2>1. Advance(i, FALSE)
    BY DEF BeginSkipped
  <2> QED
    BY <2>1, AdvanceEffect
<1>e. /\ pc[i] = "next"
      /\ UNCHANGED <<arrived, place, stat, held, meta, eom, pre, free,
           lastStage, dst, busy>>
  BY DEF BeginSkipped, blockVars
<1>1. TypeOK'
  <2>1. pc' \in [Inst -> PCs]
    BY <1>e, <1>v DEF TypeOK, PCs
  <2>2. /\ cur' \in [Inst -> Req \cup {NoReq}]
        /\ todo' \in [Inst -> SUBSET Req]
        /\ stage' \in [Inst -> Nat] /\ num' \in [Inst -> Nat]
        /\ last' \in [Inst -> BOOLEAN]
    BY <1>v DEF TypeOK
  <2> QED
    BY <1>e, <2>1, <2>2 DEF TypeOK
<1>2. OneToOne'
  BY <1>e, <1>r, <1>v DEF OneToOne, TypeOK
<1>3. JobInv'
  BY <1>e, <1>r, <1>v DEF JobInv, Unassigned, Removing, TypeOK
<1>4. PlaceInv'
  BY <1>e, <1>r, <1>v DEF PlaceInv, LastSending, Sending, TypeOK
<1>5. UniqueInv'
  BY <1>e, <1>r, <1>v DEF UniqueInv, HandsOver, TypeOK
<1>6. KeptInv'
  <2>1. \A k \in Inst, q \in Req : Known(k, q) => Known(k, q)'
    BY <1>e DEF Known
  <2>2. \A k \in Inst : pc'[k] = "committed" => Known(dst[k], cur[k])'
    <3> SUFFICES ASSUME NEW k \in Inst, pc'[k] = "committed"
                 PROVE  Known(dst[k], cur[k])'
      OBVIOUS
    <3>1. pc[k] = "committed" /\ cur[k] \in Req /\ dst[k] \in Inst /\ cur'[k] = cur[k]
      BY <1>e, <1>r, <1>v DEF TypeOK, JobInv, Unassigned
    <3> QED
      BY <1>e, <1>r, <1>v, <3>1 DEF KeptInv, Known, TypeOK
  <2>3. \A k \in Inst, q \in Req \ arrived : place'[k][q] = "none" /\ stat'[k][q] = "none"
    BY <1>e, <1>r DEF KeptInv, TypeOK
  <2> QED
    BY <1>e, <2>1, <2>2, <2>3 DEF KeptInv, Known, TypeOK
<1>7. CopyInv'
  BY <1>e DEF CopyInv
<1>8. StageInv'
  <2>1. \A k \in Inst : SentInv(k)'
    BY <1>e, <1>r, <1>v DEF StageInv, SentInv, MidMigration, Sending,
         Removing, TypeOK
  <2>2. \A k \in Inst \ {i} : HealthInv(k)'
    BY <1>e, <1>r, <1>v DEF StageInv, HealthInv, Healthy, ShouldAbort,
         LastSending, Sending, Removing, TypeOK
  <2>3. HealthInv(i)'
    BY <1>e, <1>r, <1>v DEF StageInv, HealthInv, Healthy, ShouldAbort,
         LastSending, Sending, Removing, TypeOK
  <2> QED
    BY <2>1, <2>2, <2>3 DEF StageInv
<1>9. PreInv'
  <2>1. \A k, j \in Inst, q \in Req : Reserves(k, j, q) => Reserves(k, j, q)'
    BY <1>e, <1>v DEF Reserves, Reserving, TypeOK
  <2>2. \A k \in Inst : pc'[k] \in {"allocated", "send", "commit"}
                         => pre'[dst'[k]][cur'[k]] > 0
    BY <1>e, <1>v DEF PreInv, TypeOK
  <2> QED
    BY <1>e, <2>1, <2>2 DEF PreInv, TypeOK
<1> QED
  BY <1>1, <1>2, <1>3, <1>4, <1>5, <1>6, <1>7, <1>8, <1>9

\* A stage begins: there is at least one block to send.
LEMMA StartStageIInv ==
  ASSUME IInv, NEW i \in Inst, StartStage(i),
         ~(stage[i] = MaxStages \/ ShouldAbort(i, cur[i]))
  PROVE  IInv'
<1> USE DEF IInv
<1>r. PICK r \in Req : r = cur[i] /\ r \in arrived
  BY DEF StartStage, StageNumBlocks, StagePC, JobInv, Unassigned, TypeOK
<1> DEFINE inc == held[i][r] - meta[i][r].sent
           l == inc <= LastStageMax \/ meta[i][r].limited
           n == IF l THEN inc ELSE inc - 1
           p == IF l THEN "remove" ELSE "alloc"
<1>a. /\ pc[i] = "stage" /\ ~ShouldAbort(i, r)
      /\ meta[i][r].sent \in Nat /\ held[i][r] \in Nat
      /\ meta[i][r].sent < held[i][r] /\ place[i][r] = "running"
  BY <1>r DEF StartStage, StageNumBlocks, StagePC, StageInv, HealthInv, Healthy, TypeOK, Meta
<1>o. stat[i][r] = "none"
  BY <1>a, <1>r DEF StageInv, HealthInv, JobInv
<1>i. inc \in Nat /\ inc > 0 /\ l \in BOOLEAN
  BY <1>a
<1>k. ~l => inc > 1
  BY <1>i, BlocksAssumption
<1>n. n \in Nat /\ n > 0 /\ (~l => meta[i][r].sent + n < held[i][r])
  BY <1>a, <1>i, <1>k
<1>p. (l /\ p = "remove") \/ (~l /\ p = "alloc")
  OBVIOUS
<1>f. /\ stage' = [stage EXCEPT ![i] = stage[i] + 1]
      /\ num' = [num EXCEPT ![i] = n]
      /\ last' = [last EXCEPT ![i] = l]
      /\ pc' = [pc EXCEPT ![i] = p]
      /\ UNCHANGED <<stat, meta, cur, todo>>
  BY <1>r DEF StartStage, StageNumBlocks, StagePC
<1>e. /\ pc[i] = "stage"
      /\ stage' = [stage EXCEPT ![i] = stage[i] + 1]
      /\ num' = [num EXCEPT ![i] = n]
      /\ last' = [last EXCEPT ![i] = l]
      /\ pc' = [pc EXCEPT ![i] = p]
      /\ UNCHANGED <<arrived, place, stat, held, meta, eom, pre, free,
           lastStage, dst, cur, todo, busy>>
  BY <1>a, <1>f DEF StartStage, StageNumBlocks, StagePC, blockVars
<1> HIDE DEF inc, l, n, p
<1>1. TypeOK'
  <2>1. pc' \in [Inst -> PCs]
    BY <1>e, <1>p DEF TypeOK, PCs
  <2>2. /\ stage' \in [Inst -> Nat] /\ num' \in [Inst -> Nat]
        /\ last' \in [Inst -> BOOLEAN]
    BY <1>e, <1>n, <1>i DEF TypeOK
  <2> QED
    BY <1>e, <2>1, <2>2 DEF TypeOK
<1>2. OneToOne'
  BY <1>e, <1>r, <1>i, <1>p DEF OneToOne, TypeOK
<1>3. JobInv'
  BY <1>e, <1>r, <1>i, <1>p DEF JobInv, Unassigned, Removing, TypeOK
<1>4. PlaceInv'
  BY <1>e, <1>r, <1>i, <1>p DEF PlaceInv, LastSending, Sending, TypeOK
<1>5. UniqueInv'
  BY <1>e, <1>r, <1>i, <1>p DEF UniqueInv, HandsOver, TypeOK
<1>6. KeptInv'
  <2>1. \A k \in Inst, q \in Req : Known(k, q) => Known(k, q)'
    BY <1>e DEF Known
  <2>2. \A k \in Inst : pc'[k] = "committed" => Known(dst[k], cur[k])'
    <3> SUFFICES ASSUME NEW k \in Inst, pc'[k] = "committed"
                 PROVE  Known(dst[k], cur[k])'
      OBVIOUS
    <3>1. pc[k] = "committed" /\ cur[k] \in Req /\ dst[k] \in Inst /\ cur'[k] = cur[k]
      BY <1>e, <1>r, <1>p DEF TypeOK, JobInv, Unassigned
    <3> QED
      BY <1>e, <1>r, <1>p, <3>1 DEF KeptInv, Known, TypeOK
  <2>3. \A k \in Inst, q \in Req \ arrived : place'[k][q] = "none" /\ stat'[k][q] = "none"
    BY <1>e, <1>r DEF KeptInv, TypeOK
  <2> QED
    BY <1>e, <2>1, <2>2, <2>3 DEF KeptInv, Known, TypeOK
<1>7. CopyInv'
  BY <1>e DEF CopyInv
<1>8. StageInv'
  <2>1. \A k \in Inst : SentInv(k)'
    BY <1>e, <1>r, <1>p DEF StageInv, SentInv, MidMigration, Sending,
         Removing, TypeOK
  <2>2. \A k \in Inst \ {i} : HealthInv(k)'
    BY <1>e, <1>r, <1>p DEF StageInv, HealthInv, Healthy, ShouldAbort,
         LastSending, Sending, Removing, TypeOK
  <2>3. HealthInv(i)'
    BY <1>e, <1>r, <1>a, <1>i, <1>n, <1>o, <1>p
       DEF HealthInv, Healthy, ShouldAbort, LastSending, Sending, Removing, TypeOK
  <2> QED
    BY <2>1, <2>2, <2>3 DEF StageInv
<1>9. PreInv'
  <2>1. \A k, j \in Inst, q \in Req : Reserves(k, j, q) => Reserves(k, j, q)'
    BY <1>e, <1>p DEF Reserves, Reserving, TypeOK
  <2>2. \A k \in Inst : pc'[k] \in {"allocated", "send", "commit"}
                         => pre'[dst'[k]][cur'[k]] > 0
    BY <1>e, <1>p DEF PreInv, TypeOK
  <2> QED
    BY <1>e, <2>1, <2>2 DEF PreInv, TypeOK
<1> QED
  BY <1>1, <1>2, <1>3, <1>4, <1>5, <1>6, <1>7, <1>8, <1>9

\* The engine loop takes the request out of the running queue.
LEMMA RemoveRunningIInv ==
  ASSUME IInv, NEW i \in Inst, RemoveRunningRequest(i),
         place[i][cur[i]] = "running"
  PROVE  IInv'
<1> USE DEF IInv
<1>r. PICK r \in Req : r = cur[i] /\ r \in arrived
  BY DEF RemoveRunningRequest, JobInv, Unassigned, TypeOK
<1>e. /\ pc[i] \in {"remove", "removeStepped"}
      /\ place[i][r] = "running"
      /\ place' = [place EXCEPT ![i][r] = "detached"]
      /\ stat' = [stat EXCEPT ![i][r] = "running_migrating"]
      /\ pc' = [pc EXCEPT ![i] = "removed"]
      /\ UNCHANGED <<arrived, held, meta, eom, pre, free, lastStage, dst,
           cur, todo, stage, num, last, busy>>
  BY <1>r DEF RemoveRunningRequest, blockVars, jobVars
<1>1. TypeOK'
  BY <1>e, <1>r DEF TypeOK, Places, Statuses, PCs
<1>2. OneToOne'
  BY <1>e, <1>r DEF OneToOne, TypeOK
<1>3. JobInv'
  BY <1>e, <1>r DEF JobInv, Unassigned, Removing, TypeOK
<1>4. PlaceInv'
  BY <1>e, <1>r DEF PlaceInv, LastSending, Sending, TypeOK
<1>5. UniqueInv'
  BY <1>e, <1>r DEF UniqueInv, HandsOver, TypeOK
<1>6. KeptInv'
  <2>1. \A k \in Inst, q \in Req : Known(k, q) => Known(k, q)'
    BY <1>e, <1>r DEF Known, TypeOK
  <2>2. \A k \in Inst : pc'[k] = "committed" => Known(dst[k], cur[k])'
    <3> SUFFICES ASSUME NEW k \in Inst, pc'[k] = "committed"
                 PROVE  Known(dst[k], cur[k])'
      OBVIOUS
    <3>1. pc[k] = "committed" /\ cur[k] \in Req /\ dst[k] \in Inst /\ cur'[k] = cur[k]
      BY <1>e, <1>r DEF TypeOK, JobInv, Unassigned
    <3> QED
      BY <1>e, <1>r, <3>1 DEF KeptInv, Known, TypeOK
  <2>3. \A k \in Inst, q \in Req \ arrived : place'[k][q] = "none" /\ stat'[k][q] = "none"
    BY <1>e, <1>r DEF KeptInv, TypeOK
  <2> QED
    BY <1>e, <2>1, <2>2, <2>3 DEF KeptInv, Known, TypeOK
<1>7. CopyInv'
  BY <1>e, <1>r DEF CopyInv, TypeOK
<1>8. StageInv'
  <2>1. \A k \in Inst : SentInv(k)'
    BY <1>e, <1>r DEF StageInv, SentInv, MidMigration, Sending, Removing,
         TypeOK
  <2>2. \A k \in Inst \ {i} : HealthInv(k)'
    BY <1>e, <1>r DEF StageInv, HealthInv, Healthy, ShouldAbort, LastSending,
         Sending, Removing, TypeOK
  <2>3. HealthInv(i)'
    BY <1>e, <1>r DEF StageInv, HealthInv, Healthy, ShouldAbort, LastSending,
         Sending, Removing, TypeOK
  <2> QED
    BY <2>1, <2>2, <2>3 DEF StageInv
<1>9. PreInv'
  <2>1. \A k, j \in Inst, q \in Req : Reserves(k, j, q) => Reserves(k, j, q)'
    BY <1>e DEF Reserves, Reserving, TypeOK
  <2>2. \A k \in Inst : pc'[k] \in {"allocated", "send", "commit"}
                         => pre'[dst'[k]][cur'[k]] > 0
    BY <1>e DEF PreInv, TypeOK
  <2> QED
    BY <1>e, <2>1, <2>2 DEF PreInv, TypeOK
<1> QED
  BY <1>1, <1>2, <1>3, <1>4, <1>5, <1>6, <1>7, <1>8, <1>9

\* The request is not in the running queue any more.
LEMMA RemoveMissingIInv ==
  ASSUME IInv, NEW i \in Inst, RemoveRunningRequest(i),
         place[i][cur[i]] # "running"
  PROVE  IInv'
<1> USE DEF IInv
<1>r. PICK r \in Req : r = cur[i] /\ r \in arrived
  BY DEF RemoveRunningRequest, JobInv, Unassigned, TypeOK
<1>e. /\ pc[i] \in {"remove", "removeStepped"}
      /\ pc' = [pc EXCEPT ![i] = "removed"]
      /\ place[i][r] # "running"
      /\ UNCHANGED <<arrived, place, stat, held, meta, eom, pre, free,
           lastStage, dst, cur, todo, stage, num, last, busy>>
  BY <1>r DEF RemoveRunningRequest, blockVars, jobVars
<1>1. TypeOK'
  BY <1>e, <1>r DEF TypeOK, PCs
<1>2. OneToOne'
  BY <1>e, <1>r DEF OneToOne, TypeOK
<1>3. JobInv'
  BY <1>e, <1>r DEF JobInv, Unassigned, Removing, TypeOK
<1>4. PlaceInv'
  BY <1>e, <1>r DEF PlaceInv, LastSending, Sending, TypeOK
<1>5. UniqueInv'
  BY <1>e, <1>r DEF UniqueInv, HandsOver, TypeOK
<1>6. KeptInv'
  <2>1. \A k \in Inst, q \in Req : Known(k, q) => Known(k, q)'
    BY <1>e, <1>r DEF Known, TypeOK
  <2>2. \A k \in Inst : pc'[k] = "committed" => Known(dst[k], cur[k])'
    <3> SUFFICES ASSUME NEW k \in Inst, pc'[k] = "committed"
                 PROVE  Known(dst[k], cur[k])'
      OBVIOUS
    <3>1. pc[k] = "committed" /\ cur[k] \in Req /\ dst[k] \in Inst /\ cur'[k] = cur[k]
      BY <1>e, <1>r DEF TypeOK, JobInv, Unassigned
    <3> QED
      BY <1>e, <1>r, <3>1 DEF KeptInv, Known, TypeOK
  <2>3. \A k \in Inst, q \in Req \ arrived : place'[k][q] = "none" /\ stat'[k][q] = "none"
    BY <1>e, <1>r DEF KeptInv, TypeOK
  <2> QED
    BY <1>e, <2>1, <2>2, <2>3 DEF KeptInv, Known, TypeOK
<1>7. CopyInv'
  BY <1>e DEF CopyInv
<1>8. StageInv'
  <2>1. \A k \in Inst : SentInv(k)'
    BY <1>e, <1>r DEF StageInv, SentInv, MidMigration, Sending, Removing,
         TypeOK
  <2>2. \A k \in Inst \ {i} : HealthInv(k)'
    BY <1>e, <1>r DEF StageInv, HealthInv, Healthy, ShouldAbort, LastSending,
         Sending, Removing, TypeOK
  <2>3. HealthInv(i)'
    <3>1. place[i][r] # "detached"
      BY <1>e, <1>r DEF PlaceInv, LastSending, Sending
    <3> QED
      BY <1>e, <1>r, <3>1
         DEF StageInv, HealthInv, LastSending, Sending, Removing, TypeOK
  <2> QED
    BY <2>1, <2>2, <2>3 DEF StageInv
<1>9. PreInv'
  <2>1. \A k, j \in Inst, q \in Req : Reserves(k, j, q) => Reserves(k, j, q)'
    BY <1>e DEF Reserves, Reserving, TypeOK
  <2>2. \A k \in Inst : pc'[k] \in {"allocated", "send", "commit"}
                         => pre'[dst'[k]][cur'[k]] > 0
    BY <1>e DEF PreInv, TypeOK
  <2> QED
    BY <1>e, <2>1, <2>2 DEF PreInv, TypeOK
<1> QED
  BY <1>1, <1>2, <1>3, <1>4, <1>5, <1>6, <1>7, <1>8, <1>9

\* The last stage begins with the request that was removed.
LEMMA AfterRemovalIInv ==
  ASSUME IInv, NEW i \in Inst, AfterRemoval(i), place[i][cur[i]] = "detached"
  PROVE  IInv'
<1> USE DEF IInv
<1>r. PICK r \in Req : r = cur[i] /\ r \in arrived
  BY DEF AfterRemoval, AddLastStage, JobInv, Unassigned, TypeOK
<1>e. /\ pc[i] = "removed"
      /\ place[i][r] = "detached"
      /\ lastStage' = [lastStage EXCEPT ![i] = lastStage[i] \cup {r}]
      /\ pc' = [pc EXCEPT ![i] = "alloc"]
      /\ UNCHANGED <<arrived, place, stat, held, meta, eom, pre, free, dst,
           cur, todo, stage, num, last, busy>>
  BY <1>r DEF AfterRemoval, AddLastStage, blockVars, jobVars
<1>1. TypeOK'
  BY <1>e, <1>r DEF TypeOK, PCs
<1>2. OneToOne'
  BY <1>e, <1>r DEF OneToOne, TypeOK
<1>3. JobInv'
  BY <1>e, <1>r DEF JobInv, Unassigned, Removing, TypeOK
<1>4. PlaceInv'
  BY <1>e, <1>r DEF PlaceInv, LastSending, Sending, TypeOK, JobInv, Removing
<1>5. UniqueInv'
  BY <1>e, <1>r DEF UniqueInv, HandsOver, TypeOK
<1>6. KeptInv'
  <2>1. \A k \in Inst, q \in Req : Known(k, q) => Known(k, q)'
    BY <1>e, <1>r DEF Known, TypeOK
  <2>2. \A k \in Inst : pc'[k] = "committed" => Known(dst[k], cur[k])'
    <3> SUFFICES ASSUME NEW k \in Inst, pc'[k] = "committed"
                 PROVE  Known(dst[k], cur[k])'
      OBVIOUS
    <3>1. pc[k] = "committed" /\ cur[k] \in Req /\ dst[k] \in Inst /\ cur'[k] = cur[k]
      BY <1>e, <1>r DEF TypeOK, JobInv, Unassigned
    <3> QED
      BY <1>e, <1>r, <3>1 DEF KeptInv, Known, TypeOK
  <2>3. \A k \in Inst, q \in Req \ arrived : place'[k][q] = "none" /\ stat'[k][q] = "none"
    BY <1>e, <1>r DEF KeptInv, TypeOK
  <2> QED
    BY <1>e, <2>1, <2>2, <2>3 DEF KeptInv, Known, TypeOK
<1>7. CopyInv'
  BY <1>e DEF CopyInv
<1>8. StageInv'
  <2>1. \A k \in Inst : SentInv(k)'
    BY <1>e, <1>r DEF StageInv, SentInv, MidMigration, Sending, Removing,
         TypeOK
  <2>2. \A k \in Inst \ {i} : HealthInv(k)'
    BY <1>e, <1>r DEF StageInv, HealthInv, Healthy, ShouldAbort, LastSending,
         Sending, Removing, TypeOK
  <2>3. HealthInv(i)'
    BY <1>e, <1>r
       DEF StageInv, SentInv, HealthInv, Healthy, ShouldAbort, LastSending,
           Sending, Removing, MidMigration, TypeOK, JobInv
  <2> QED
    BY <2>1, <2>2, <2>3 DEF StageInv
<1>9. PreInv'
  <2>1. \A k, j \in Inst, q \in Req : Reserves(k, j, q) => Reserves(k, j, q)'
    BY <1>e DEF Reserves, Reserving, TypeOK
  <2>2. \A k \in Inst : pc'[k] \in {"allocated", "send", "commit"}
                         => pre'[dst'[k]][cur'[k]] > 0
    BY <1>e DEF PreInv, TypeOK
  <2> QED
    BY <1>e, <2>1, <2>2 DEF PreInv, TypeOK
<1> QED
  BY <1>1, <1>2, <1>3, <1>4, <1>5, <1>6, <1>7, <1>8, <1>9

\* The destination has the blocks of a waiting request.
LEMMA AllocatedWaitingIInv ==
  ASSUME IInv, NEW i \in Inst, AfterAllocated(i),
         stat[i][cur[i]] = "waiting_migrating"
  PROVE  IInv'
<1> USE DEF IInv
<1>r. PICK r \in Req : r = cur[i] /\ r \in arrived
  BY DEF AfterAllocated, JobInv, Unassigned, TypeOK
<1>l. last[i]
  BY DEF AfterAllocated, StageInv, HealthInv, Sending, TypeOK
<1>e. /\ pc[i] = "allocated" /\ last[i]
      /\ pc' = [pc EXCEPT ![i] = "commit"]
      /\ UNCHANGED <<arrived, place, stat, held, meta, eom, pre, free,
           lastStage, dst, cur, todo, stage, num, last, busy>>
  BY <1>r, <1>l DEF AfterAllocated, blockVars, jobVars
<1>1. TypeOK'
  BY <1>e, <1>r DEF TypeOK, PCs
<1>2. OneToOne'
  BY <1>e, <1>r DEF OneToOne, TypeOK
<1>3. JobInv'
  BY <1>e, <1>r DEF JobInv, Unassigned, Removing, TypeOK
<1>4. PlaceInv'
  BY <1>e, <1>r DEF PlaceInv, LastSending, Sending, TypeOK
<1>5. UniqueInv'
  BY <1>e, <1>r DEF UniqueInv, HandsOver, TypeOK
<1>6. KeptInv'
  <2>1. \A k \in Inst, q \in Req : Known(k, q) => Known(k, q)'
    BY <1>e, <1>r DEF Known, TypeOK
  <2>2. \A k \in Inst : pc'[k] = "committed" => Known(dst[k], cur[k])'
    <3> SUFFICES ASSUME NEW k \in Inst, pc'[k] = "committed"
                 PROVE  Known(dst[k], cur[k])'
      OBVIOUS
    <3>1. pc[k] = "committed" /\ cur[k] \in Req /\ dst[k] \in Inst /\ cur'[k] = cur[k]
      BY <1>e, <1>r DEF TypeOK, JobInv, Unassigned
    <3> QED
      BY <1>e, <1>r, <3>1 DEF KeptInv, Known, TypeOK
  <2>3. \A k \in Inst, q \in Req \ arrived : place'[k][q] = "none" /\ stat'[k][q] = "none"
    BY <1>e, <1>r DEF KeptInv, TypeOK
  <2> QED
    BY <1>e, <2>1, <2>2, <2>3 DEF KeptInv, Known, TypeOK
<1>7. CopyInv'
  BY <1>e DEF CopyInv
<1>8. StageInv'
  <2>1. \A k \in Inst : SentInv(k)'
    BY <1>e, <1>r DEF StageInv, SentInv, MidMigration, Sending, Removing,
         TypeOK
  <2>2. \A k \in Inst \ {i} : HealthInv(k)'
    BY <1>e, <1>r DEF StageInv, HealthInv, Healthy, ShouldAbort, LastSending,
         Sending, Removing, TypeOK
  <2>3. HealthInv(i)'
    BY <1>e, <1>r DEF StageInv, HealthInv, Healthy, ShouldAbort, LastSending,
         Sending, Removing, TypeOK
  <2> QED
    BY <2>1, <2>2, <2>3 DEF StageInv
<1>9. PreInv'
  <2>1. \A k, j \in Inst, q \in Req : Reserves(k, j, q) => Reserves(k, j, q)'
    BY <1>e DEF Reserves, Reserving, TypeOK
  <2>2. \A k \in Inst : pc'[k] \in {"allocated", "send", "commit"}
                         => pre'[dst'[k]][cur'[k]] > 0
    BY <1>e DEF PreInv, TypeOK
  <2> QED
    BY <1>e, <2>1, <2>2 DEF PreInv, TypeOK
<1> QED
  BY <1>1, <1>2, <1>3, <1>4, <1>5, <1>6, <1>7, <1>8, <1>9

\* The blocks of the stage are sent.
LEMMA AllocatedSendIInv ==
  ASSUME IInv, NEW i \in Inst, AfterAllocated(i),
         stat[i][cur[i]] # "waiting_migrating", ~ShouldAbort(i, cur[i])
  PROVE  IInv'
<1> USE DEF IInv
<1>r. PICK r \in Req : r = cur[i] /\ r \in arrived
  BY DEF AfterAllocated, JobInv, Unassigned, TypeOK
<1> DEFINE s == meta[i][r].sent + num[i]
           m == [meta[i][r] EXCEPT !.sent = s, !.preempted = FALSE]
<1>n. meta[i][r] \in Meta /\ s \in Nat
  BY DEF TypeOK, Meta
<1>m. /\ m \in Meta /\ m.size = meta[i][r].size /\ m.sent = s
      /\ ~m.preempted /\ m.finished = meta[i][r].finished
  BY <1>n, AddSent
<1>s. s = meta[i][r].sent + num[i]
  OBVIOUS
<1>f. meta' = [meta EXCEPT ![i][r] = m]
  BY <1>r DEF AfterAllocated
<1>g. pc' = [pc EXCEPT ![i] = "send"] /\ UNCHANGED <<stat, jobVars>>
  BY DEF AfterAllocated
<1>e. /\ pc[i] = "allocated" /\ ~ShouldAbort(i, r)
      /\ meta' = [meta EXCEPT ![i][r] = m]
      /\ pc' = [pc EXCEPT ![i] = "send"]
      /\ UNCHANGED <<arrived, place, stat, held, eom, pre, free, lastStage,
           dst, cur, todo, stage, num, last, busy>>
  BY <1>r, <1>f, <1>g DEF AfterAllocated, blockVars, jobVars
<1> HIDE DEF s, m
<1>1. TypeOK'
  <2>1. pc' \in [Inst -> PCs]
    BY <1>e DEF TypeOK, PCs
  <2> QED
    BY <1>e, <1>m, <2>1 DEF TypeOK
<1>2. OneToOne'
  BY <1>e, <1>r, <1>m DEF OneToOne, TypeOK
<1>3. JobInv'
  BY <1>e, <1>r, <1>m DEF JobInv, Unassigned, Removing, TypeOK
<1>4. PlaceInv'
  BY <1>e, <1>r, <1>m DEF PlaceInv, LastSending, Sending, TypeOK
<1>5. UniqueInv'
  BY <1>e, <1>r, <1>m DEF UniqueInv, HandsOver, TypeOK
<1>6. KeptInv'
  <2>1. \A k \in Inst, q \in Req : Known(k, q) => Known(k, q)'
    BY <1>e, <1>m, <1>r DEF Known, TypeOK
  <2>2. \A k \in Inst : pc'[k] = "committed" => Known(dst[k], cur[k])'
    <3> SUFFICES ASSUME NEW k \in Inst, pc'[k] = "committed"
                 PROVE  Known(dst[k], cur[k])'
      OBVIOUS
    <3>1. pc[k] = "committed" /\ cur[k] \in Req /\ dst[k] \in Inst /\ cur'[k] = cur[k]
      BY <1>e, <1>r DEF TypeOK, JobInv, Unassigned
    <3> QED
      BY <1>e, <1>r, <1>m, <3>1 DEF KeptInv, Known, TypeOK
  <2>3. \A k \in Inst, q \in Req \ arrived : place'[k][q] = "none" /\ stat'[k][q] = "none"
    BY <1>e, <1>r DEF KeptInv, TypeOK
  <2> QED
    BY <1>e, <2>1, <2>2, <2>3 DEF KeptInv, Known, TypeOK
<1>7. CopyInv'
  BY <1>e, <1>r, <1>m DEF CopyInv, TypeOK
<1>8. StageInv'
  <2>1. \A k \in Inst : SentInv(k)'
    BY <1>e, <1>r, <1>m DEF StageInv, SentInv, MidMigration, Sending,
         Removing, TypeOK
  <2>2. \A k \in Inst \ {i} : HealthInv(k)'
    BY <1>e, <1>r, <1>m DEF StageInv, HealthInv, Healthy, ShouldAbort,
         LastSending, Sending, Removing, TypeOK
  <2>3. HealthInv(i)'
    <3>1. Healthy(i, num[i]) \/ last[i]
      BY <1>e DEF StageInv, HealthInv
    <3>2. ~last[i] => place[i][r] = "running" /\ s < held[i][r]
      BY <1>e, <1>r, <1>s, <3>1 DEF Healthy
    <3>3. ~last[i] => stat[i][r] = "none"
      BY <1>e, <1>r DEF StageInv, HealthInv, Sending
    <3> QED
      BY <1>e, <1>r, <1>m, <1>n, <3>2, <3>3
         DEF HealthInv, Healthy, LastSending, Sending, Removing, TypeOK
  <2> QED
    BY <2>1, <2>2, <2>3 DEF StageInv
<1>9. PreInv'
  <2>1. \A k, j \in Inst, q \in Req : Reserves(k, j, q) => Reserves(k, j, q)'
    BY <1>e DEF Reserves, Reserving, TypeOK
  <2>2. \A k \in Inst : pc'[k] \in {"allocated", "send", "commit"}
                         => pre'[dst'[k]][cur'[k]] > 0
    BY <1>e DEF PreInv, TypeOK
  <2> QED
    BY <1>e, <2>1, <2>2 DEF PreInv, TypeOK
<1> QED
  BY <1>1, <1>2, <1>3, <1>4, <1>5, <1>6, <1>7, <1>8, <1>9

\* ABORTED_DST before the last stage.
LEMMA RefusedStageIInv ==
  ASSUME IInv, NEW i \in Inst, AfterRefused(i), ~last[i]
  PROVE  IInv'
<1> USE DEF IInv
<1>r. PICK r \in Req : r = cur[i] /\ r \in arrived
  BY DEF AfterRefused, QueueOf, JobInv, Unassigned, TypeOK
<1> DEFINE m == [meta[i][r] EXCEPT !.sent = 0, !.mig = FALSE, !.preempted = FALSE]
<1>n. meta[i][r] \in Meta
  BY DEF TypeOK
<1>m. /\ m \in Meta /\ m.size = meta[i][r].size /\ m.sent = 0
      /\ ~m.preempted /\ m.finished = meta[i][r].finished
  BY <1>n, ResetMeta
<1>v. PICK p \in {"next", "done"}, c \in Req \cup {NoReq}, T \in SUBSET arrived :
        /\ p = "next" => c \in arrived
        /\ pc' = [pc EXCEPT ![i] = p]
        /\ cur' = [cur EXCEPT ![i] = c]
        /\ todo' = [todo EXCEPT ![i] = T]
        /\ stage' = [stage EXCEPT ![i] = 0]
        /\ num' = [num EXCEPT ![i] = 0]
        /\ last' = [last EXCEPT ![i] = FALSE]
  <2>1. Advance(i, FALSE)
    BY DEF AfterRefused, QueueOf
  <2> QED
    BY <2>1, AdvanceEffect
<1>e. /\ pc[i] = "refused" /\ ~last[i]
      /\ meta' = [meta EXCEPT ![i][r] = m]
      /\ stat' = [stat EXCEPT ![i][r] = "none"]
      /\ UNCHANGED <<arrived, place, held, eom, pre, free, lastStage, dst,
           busy>>
  BY <1>r DEF AfterRefused, QueueOf, ResetSrc, blockVars
<1> HIDE DEF m
<1>1. TypeOK'
  <2>1. pc' \in [Inst -> PCs]
    BY <1>e, <1>v DEF TypeOK, PCs
  <2>2. /\ cur' \in [Inst -> Req \cup {NoReq}]
        /\ todo' \in [Inst -> SUBSET Req]
        /\ stage' \in [Inst -> Nat] /\ num' \in [Inst -> Nat]
        /\ last' \in [Inst -> BOOLEAN]
    BY <1>v DEF TypeOK
  <2>3. /\ stat' \in [Inst -> [Req -> Statuses]]
        /\ meta' \in [Inst -> [Req -> Meta]]
    BY <1>e, <1>m DEF TypeOK, Statuses
  <2> QED
    BY <1>e, <2>1, <2>2, <2>3 DEF TypeOK
<1>2. OneToOne'
  BY <1>e, <1>r, <1>v, <1>m DEF OneToOne, TypeOK
<1>3. JobInv'
  BY <1>e, <1>r, <1>v, <1>m DEF JobInv, Unassigned, Removing, TypeOK
<1>4. PlaceInv'
  BY <1>e, <1>r, <1>v, <1>m DEF PlaceInv, LastSending, Sending, TypeOK
<1>5. UniqueInv'
  BY <1>e, <1>r, <1>v, <1>m DEF UniqueInv, HandsOver, TypeOK
<1>6. KeptInv'
  <2>1. \A k \in Inst, q \in Req : Known(k, q) => Known(k, q)'
    BY <1>e, <1>r, <1>m DEF Known, TypeOK
  <2>2. \A k \in Inst : pc'[k] = "committed" => Known(dst[k], cur[k])'
    <3> SUFFICES ASSUME NEW k \in Inst, pc'[k] = "committed"
                 PROVE  Known(dst[k], cur[k])'
      OBVIOUS
    <3>1. pc[k] = "committed" /\ cur[k] \in Req /\ dst[k] \in Inst /\ cur'[k] = cur[k]
      BY <1>e, <1>r, <1>v DEF TypeOK, JobInv, Unassigned
    <3> QED
      BY <1>e, <1>r, <1>r, <1>m, <1>v, <3>1 DEF KeptInv, Known, TypeOK
  <2>3. \A k \in Inst, q \in Req \ arrived : place'[k][q] = "none" /\ stat'[k][q] = "none"
    BY <1>e, <1>r DEF KeptInv, TypeOK
  <2> QED
    BY <1>e, <2>1, <2>2, <2>3 DEF KeptInv, Known, TypeOK
<1>7. CopyInv'
  BY <1>e, <1>r, <1>v, <1>m DEF CopyInv, TypeOK, PlaceInv, LastSending
<1>8. StageInv'
  <2>1. \A k \in Inst : SentInv(k)'
    BY <1>e, <1>r, <1>v, <1>m DEF StageInv, SentInv, MidMigration, Sending,
         Removing, TypeOK
  <2>2. \A k \in Inst \ {i} : HealthInv(k)'
    BY <1>e, <1>r, <1>v, <1>m DEF StageInv, HealthInv, Healthy, ShouldAbort,
         LastSending, Sending, Removing, TypeOK
  <2>3. HealthInv(i)'
    BY <1>e, <1>r, <1>v, <1>m DEF StageInv, HealthInv, Healthy, ShouldAbort,
         LastSending, Sending, Removing, TypeOK
  <2> QED
    BY <2>1, <2>2, <2>3 DEF StageInv
<1>9. PreInv'
  <2>1. \A k, j \in Inst, q \in Req : Reserves(k, j, q) => Reserves(k, j, q)'
    BY <1>e, <1>v DEF Reserves, Reserving, TypeOK
  <2>2. \A k \in Inst : pc'[k] \in {"allocated", "send", "commit"}
                         => pre'[dst'[k]][cur'[k]] > 0
    BY <1>e, <1>v DEF PreInv, TypeOK
  <2> QED
    BY <1>e, <2>1, <2>2 DEF PreInv, TypeOK
<1> QED
  BY <1>1, <1>2, <1>3, <1>4, <1>5, <1>6, <1>7, <1>8, <1>9

\* ABORTED_DST in the last stage: the request goes back to its queue.
LEMMA RefusedLastIInv ==
  ASSUME IInv, NEW i \in Inst, AfterRefused(i), last[i]
  PROVE  IInv'
<1> USE DEF IInv
<1>r. PICK r \in Req : r = cur[i] /\ r \in arrived
  BY DEF AfterRefused, QueueOf, JobInv, Unassigned, TypeOK
<1> DEFINE m == [meta[i][r] EXCEPT !.sent = 0, !.mig = FALSE, !.preempted = FALSE]
<1>n. meta[i][r] \in Meta
  BY DEF TypeOK
<1>m. /\ m \in Meta /\ m.size = meta[i][r].size /\ m.sent = 0
      /\ ~m.preempted /\ m.finished = meta[i][r].finished
  BY <1>n, ResetMeta
<1>l. r \in lastStage[i] /\ place[i][r] = "detached"
  BY <1>r DEF AfterRefused, QueueOf, PlaceInv, LastSending, Sending
<1> DEFINE pl == IF stat[i][r] = "waiting_migrating" THEN "waiting" ELSE "running"
<1>w. \/ pl = "waiting"
      \/ pl = "running" /\ stat[i][r] # "waiting_migrating" /\ held[i][r] > 0
  BY <1>l DEF CopyInv
<1>v. PICK p \in {"next", "done"}, c \in Req \cup {NoReq}, T \in SUBSET arrived :
        /\ p = "next" => c \in arrived
        /\ pc' = [pc EXCEPT ![i] = p]
        /\ cur' = [cur EXCEPT ![i] = c]
        /\ todo' = [todo EXCEPT ![i] = T]
        /\ stage' = [stage EXCEPT ![i] = 0]
        /\ num' = [num EXCEPT ![i] = 0]
        /\ last' = [last EXCEPT ![i] = FALSE]
  <2>1. Advance(i, FALSE)
    BY <1>r, <1>l DEF AfterRefused, QueueOf
  <2> QED
    BY <2>1, AdvanceEffect
<1>e. /\ pc[i] = "refused" /\ last[i]
      /\ meta' = [meta EXCEPT ![i][r] = m]
      /\ stat' = [stat EXCEPT ![i][r] = "none"]
      /\ place' = [place EXCEPT ![i][r] = pl]
      /\ lastStage' = [lastStage EXCEPT ![i] = lastStage[i] \ {r}]
      /\ UNCHANGED <<arrived, held, eom, pre, free, dst, busy>>
  BY <1>r, <1>l DEF AfterRefused, QueueOf, ResetSrc, blockVars
<1> HIDE DEF m, pl
<1>1. TypeOK'
  <2>1. pc' \in [Inst -> PCs]
    BY <1>e, <1>v DEF TypeOK, PCs
  <2>2. /\ cur' \in [Inst -> Req \cup {NoReq}]
        /\ todo' \in [Inst -> SUBSET Req]
        /\ stage' \in [Inst -> Nat] /\ num' \in [Inst -> Nat]
        /\ last' \in [Inst -> BOOLEAN]
    BY <1>v DEF TypeOK
  <2>3. /\ stat' \in [Inst -> [Req -> Statuses]]
        /\ meta' \in [Inst -> [Req -> Meta]]
    BY <1>e, <1>m DEF TypeOK, Statuses
  <2>4. /\ place' \in [Inst -> [Req -> Places]]
        /\ lastStage' \in [Inst -> SUBSET Req]
    BY <1>e, <1>w DEF TypeOK, Places
  <2> QED
    BY <1>e, <2>1, <2>2, <2>3, <2>4 DEF TypeOK
<1>2. OneToOne'
  BY <1>e, <1>r, <1>v, <1>m, <1>l, <1>w DEF OneToOne, TypeOK
<1>3. JobInv'
  BY <1>e, <1>r, <1>v, <1>m, <1>l, <1>w DEF JobInv, Unassigned, Removing,
       TypeOK
<1>4. PlaceInv'
  BY <1>e, <1>r, <1>v, <1>m, <1>l, <1>w DEF PlaceInv, LastSending, Sending,
       TypeOK, JobInv
<1>5. UniqueInv'
  BY <1>e, <1>r, <1>v, <1>m, <1>l, <1>w DEF UniqueInv, HandsOver, TypeOK
<1>6. KeptInv'
  <2>1. \A k \in Inst, q \in Req : Known(k, q) => Known(k, q)'
    BY <1>e, <1>r, <1>m, <1>w DEF Known, TypeOK
  <2>2. \A k \in Inst : pc'[k] = "committed" => Known(dst[k], cur[k])'
    <3> SUFFICES ASSUME NEW k \in Inst, pc'[k] = "committed"
                 PROVE  Known(dst[k], cur[k])'
      OBVIOUS
    <3>1. pc[k] = "committed" /\ cur[k] \in Req /\ dst[k] \in Inst /\ cur'[k] = cur[k]
      BY <1>e, <1>r, <1>v DEF TypeOK, JobInv, Unassigned
    <3> QED
      BY <1>e, <1>r, <1>r, <1>m, <1>w, <1>v, <3>1 DEF KeptInv, Known, TypeOK
  <2>3. \A k \in Inst, q \in Req \ arrived : place'[k][q] = "none" /\ stat'[k][q] = "none"
    BY <1>e, <1>r DEF KeptInv, TypeOK
  <2> QED
    BY <1>e, <2>1, <2>2, <2>3 DEF KeptInv, Known, TypeOK
<1>7. CopyInv'
  BY <1>e, <1>r, <1>v, <1>m, <1>l, <1>w DEF CopyInv, TypeOK
<1>8. StageInv'
  <2>1. \A k \in Inst : SentInv(k)'
    BY <1>e, <1>r, <1>v, <1>m DEF StageInv, SentInv, MidMigration, Sending,
         Removing, TypeOK
  <2>2. \A k \in Inst \ {i} : HealthInv(k)'
    BY <1>e, <1>r, <1>v, <1>m DEF StageInv, HealthInv, Healthy, ShouldAbort,
         LastSending, Sending, Removing, TypeOK
  <2>3. HealthInv(i)'
    BY <1>e, <1>r, <1>v, <1>m DEF StageInv, HealthInv, Healthy, ShouldAbort,
         LastSending, Sending, Removing, TypeOK
  <2> QED
    BY <2>1, <2>2, <2>3 DEF StageInv
<1>9. PreInv'
  <2>1. \A k, j \in Inst, q \in Req : Reserves(k, j, q) => Reserves(k, j, q)'
    BY <1>e, <1>v DEF Reserves, Reserving, TypeOK
  <2>2. \A k \in Inst : pc'[k] \in {"allocated", "send", "commit"}
                         => pre'[dst'[k]][cur'[k]] > 0
    BY <1>e, <1>v DEF PreInv, TypeOK
  <2> QED
    BY <1>e, <2>1, <2>2 DEF PreInv, TypeOK
<1> QED
  BY <1>1, <1>2, <1>3, <1>4, <1>5, <1>6, <1>7, <1>8, <1>9

\* The blocks of the last stage are sent.
LEMMA SendLastIInv ==
  ASSUME IInv, NEW i \in Inst, SendBlocks(i), last[i]
  PROVE  IInv'
<1> USE DEF IInv
<1>r. PICK r \in Req : r = cur[i] /\ r \in arrived
  BY DEF SendBlocks, JobInv, Unassigned, TypeOK
<1>e. /\ pc[i] = "send" /\ last[i]
      /\ pc' = [pc EXCEPT ![i] = "commit"]
      /\ UNCHANGED <<arrived, place, stat, held, meta, eom, pre, free,
           lastStage, dst, cur, todo, stage, num, last, busy>>
  BY <1>r DEF SendBlocks, blockVars, jobVars
<1>1. TypeOK'
  BY <1>e, <1>r DEF TypeOK, PCs
<1>2. OneToOne'
  BY <1>e, <1>r DEF OneToOne, TypeOK
<1>3. JobInv'
  BY <1>e, <1>r DEF JobInv, Unassigned, Removing, TypeOK
<1>4. PlaceInv'
  BY <1>e, <1>r DEF PlaceInv, LastSending, Sending, TypeOK
<1>5. UniqueInv'
  BY <1>e, <1>r DEF UniqueInv, HandsOver, TypeOK
<1>6. KeptInv'
  <2>1. \A k \in Inst, q \in Req : Known(k, q) => Known(k, q)'
    BY <1>e, <1>r DEF Known, TypeOK
  <2>2. \A k \in Inst : pc'[k] = "committed" => Known(dst[k], cur[k])'
    <3> SUFFICES ASSUME NEW k \in Inst, pc'[k] = "committed"
                 PROVE  Known(dst[k], cur[k])'
      OBVIOUS
    <3>1. pc[k] = "committed" /\ cur[k] \in Req /\ dst[k] \in Inst /\ cur'[k] = cur[k]
      BY <1>e, <1>r DEF TypeOK, JobInv, Unassigned
    <3> QED
      BY <1>e, <1>r, <3>1 DEF KeptInv, Known, TypeOK
  <2>3. \A k \in Inst, q \in Req \ arrived : place'[k][q] = "none" /\ stat'[k][q] = "none"
    BY <1>e, <1>r DEF KeptInv, TypeOK
  <2> QED
    BY <1>e, <2>1, <2>2, <2>3 DEF KeptInv, Known, TypeOK
<1>7. CopyInv'
  BY <1>e DEF CopyInv
<1>8. StageInv'
  <2>1. \A k \in Inst : SentInv(k)'
    BY <1>e, <1>r DEF StageInv, SentInv, MidMigration, Sending, Removing,
         TypeOK
  <2>2. \A k \in Inst \ {i} : HealthInv(k)'
    BY <1>e, <1>r DEF StageInv, HealthInv, Healthy, ShouldAbort, LastSending,
         Sending, Removing, TypeOK
  <2>3. HealthInv(i)'
    BY <1>e, <1>r DEF StageInv, HealthInv, Healthy, ShouldAbort, LastSending,
         Sending, Removing, TypeOK
  <2> QED
    BY <2>1, <2>2, <2>3 DEF StageInv
<1>9. PreInv'
  <2>1. \A k, j \in Inst, q \in Req : Reserves(k, j, q) => Reserves(k, j, q)'
    BY <1>e DEF Reserves, Reserving, TypeOK
  <2>2. \A k \in Inst : pc'[k] \in {"allocated", "send", "commit"}
                         => pre'[dst'[k]][cur'[k]] > 0
    BY <1>e DEF PreInv, TypeOK
  <2> QED
    BY <1>e, <2>1, <2>2 DEF PreInv, TypeOK
<1> QED
  BY <1>1, <1>2, <1>3, <1>4, <1>5, <1>6, <1>7, <1>8, <1>9

\* The blocks of another stage are sent.
LEMMA SendStageIInv ==
  ASSUME IInv, NEW i \in Inst, SendBlocks(i), ~last[i], ~ShouldAbort(i, cur[i])
  PROVE  IInv'
<1> USE DEF IInv
<1>r. PICK r \in Req : r = cur[i] /\ r \in arrived
  BY DEF SendBlocks, JobInv, Unassigned, TypeOK
<1>e. /\ pc[i] = "send" /\ ~last[i]
      /\ pc' = [pc EXCEPT ![i] = "stage"]
      /\ UNCHANGED <<arrived, place, stat, held, meta, eom, pre, free,
           lastStage, dst, cur, todo, stage, num, last, busy>>
  BY <1>r DEF SendBlocks, blockVars, jobVars
<1>1. TypeOK'
  BY <1>e, <1>r DEF TypeOK, PCs
<1>2. OneToOne'
  BY <1>e, <1>r DEF OneToOne, TypeOK
<1>3. JobInv'
  BY <1>e, <1>r DEF JobInv, Unassigned, Removing, TypeOK
<1>4. PlaceInv'
  BY <1>e, <1>r DEF PlaceInv, LastSending, Sending, TypeOK
<1>5. UniqueInv'
  BY <1>e, <1>r DEF UniqueInv, HandsOver, TypeOK
<1>6. KeptInv'
  <2>1. \A k \in Inst, q \in Req : Known(k, q) => Known(k, q)'
    BY <1>e, <1>r DEF Known, TypeOK
  <2>2. \A k \in Inst : pc'[k] = "committed" => Known(dst[k], cur[k])'
    <3> SUFFICES ASSUME NEW k \in Inst, pc'[k] = "committed"
                 PROVE  Known(dst[k], cur[k])'
      OBVIOUS
    <3>1. pc[k] = "committed" /\ cur[k] \in Req /\ dst[k] \in Inst /\ cur'[k] = cur[k]
      BY <1>e, <1>r DEF TypeOK, JobInv, Unassigned
    <3> QED
      BY <1>e, <1>r, <3>1 DEF KeptInv, Known, TypeOK
  <2>3. \A k \in Inst, q \in Req \ arrived : place'[k][q] = "none" /\ stat'[k][q] = "none"
    BY <1>e, <1>r DEF KeptInv, TypeOK
  <2> QED
    BY <1>e, <2>1, <2>2, <2>3 DEF KeptInv, Known, TypeOK
<1>7. CopyInv'
  BY <1>e DEF CopyInv
<1>8. StageInv'
  <2>1. \A k \in Inst : SentInv(k)'
    BY <1>e, <1>r DEF StageInv, SentInv, MidMigration, Sending, Removing,
         TypeOK
  <2>2. \A k \in Inst \ {i} : HealthInv(k)'
    BY <1>e, <1>r DEF StageInv, HealthInv, Healthy, ShouldAbort, LastSending,
         Sending, Removing, TypeOK
  <2>3. HealthInv(i)'
    BY <1>e, <1>r DEF StageInv, HealthInv, Healthy, ShouldAbort, LastSending,
         Sending, Removing, TypeOK
  <2> QED
    BY <2>1, <2>2, <2>3 DEF StageInv
<1>9. PreInv'
  <2>1. \A k, j \in Inst, q \in Req : Reserves(k, j, q) => Reserves(k, j, q)'
    BY <1>e DEF Reserves, Reserving, TypeOK
  <2>2. \A k \in Inst : pc'[k] \in {"allocated", "send", "commit"}
                         => pre'[dst'[k]][cur'[k]] > 0
    BY <1>e DEF PreInv, TypeOK
  <2> QED
    BY <1>e, <2>1, <2>2 DEF PreInv, TypeOK
<1> QED
  BY <1>1, <1>2, <1>3, <1>4, <1>5, <1>6, <1>7, <1>8, <1>9

\* The source frees its copy of the request.
LEMMA AfterCommitIInv ==
  ASSUME IInv, NEW i \in Inst, AfterCommit(i)
  PROVE  IInv'
<1> USE DEF IInv
<1>r. PICK r \in Req : r = cur[i] /\ r \in arrived
  BY DEF AfterCommit, JobInv, Unassigned, TypeOK
<1> DEFINE m == NoMeta
<1>m. m \in Meta /\ m.sent = 0
  BY DEF NoMeta, NewMeta, Meta
<1>l. /\ r \in lastStage[i] /\ pc[i] = "committed" /\ Known(dst[i], r)
      /\ dst[i] \in Inst \ {i}
  BY <1>r DEF AfterCommit, PlaceInv, LastSending, Sending, JobInv, Removing,
       KeptInv, OneToOne, TypeOK
<1>v. PICK p \in {"next", "done"}, c \in Req \cup {NoReq}, T \in SUBSET arrived :
        /\ p = "next" => c \in arrived
        /\ pc' = [pc EXCEPT ![i] = p]
        /\ cur' = [cur EXCEPT ![i] = c]
        /\ todo' = [todo EXCEPT ![i] = T]
        /\ stage' = [stage EXCEPT ![i] = 0]
        /\ num' = [num EXCEPT ![i] = 0]
        /\ last' = [last EXCEPT ![i] = FALSE]
  <2>1. Advance(i, TRUE)
    BY <1>r, <1>l DEF AfterCommit
  <2> QED
    BY <2>1, AdvanceEffect
<1>e. /\ pc[i] = "committed"
      /\ free' = [free EXCEPT ![i] = free[i] + held[i][r]]
      /\ held' = [held EXCEPT ![i][r] = 0]
      /\ lastStage' = [lastStage EXCEPT ![i] = lastStage[i] \ {r}]
      /\ place' = [place EXCEPT ![i][r] = "none"]
      /\ stat' = [stat EXCEPT ![i][r] = "none"]
      /\ meta' = [meta EXCEPT ![i][r] = m]
      /\ UNCHANGED <<arrived, eom, pre, dst, busy>>
  BY <1>r, <1>l DEF AfterCommit
<1> HIDE DEF m
<1>1. TypeOK'
  <2>1. pc' \in [Inst -> PCs]
    BY <1>e, <1>v DEF TypeOK, PCs
  <2>2. /\ cur' \in [Inst -> Req \cup {NoReq}]
        /\ todo' \in [Inst -> SUBSET Req]
        /\ stage' \in [Inst -> Nat] /\ num' \in [Inst -> Nat]
        /\ last' \in [Inst -> BOOLEAN]
    BY <1>v DEF TypeOK
  <2>3. /\ stat' \in [Inst -> [Req -> Statuses]]
        /\ meta' \in [Inst -> [Req -> Meta]]
    BY <1>e, <1>m DEF TypeOK, Statuses
  <2>4. /\ place' \in [Inst -> [Req -> Places]]
        /\ lastStage' \in [Inst -> SUBSET Req]
    BY <1>e DEF TypeOK, Places
  <2>5. free' \in [Inst -> Nat] /\ held' \in [Inst -> [Req -> Nat]]
    BY <1>e DEF TypeOK
  <2> QED
    BY <1>e, <2>1, <2>2, <2>3, <2>4, <2>5 DEF TypeOK
<1>2. OneToOne'
  BY <1>e, <1>r, <1>v, <1>m, <1>l DEF OneToOne, TypeOK
<1>3. JobInv'
  BY <1>e, <1>r, <1>v, <1>m, <1>l DEF JobInv, Unassigned, Removing, TypeOK
<1>4. PlaceInv'
  BY <1>e, <1>r, <1>v, <1>m, <1>l DEF PlaceInv, LastSending, Sending, TypeOK
<1>5. UniqueInv'
  BY <1>e, <1>r, <1>v, <1>m, <1>l DEF UniqueInv, HandsOver, TypeOK
<1>6. KeptInv'
  <2>1. \A k \in Inst, q \in Req \ arrived : place'[k][q] = "none" /\ stat'[k][q] = "none"
    BY <1>e, <1>r DEF KeptInv, TypeOK
  <2>2. \A k \in Inst, q \in Req : Known(k, q) /\ ~(k = i /\ q = r) => Known(k, q)'
    BY <1>e, <1>m DEF Known, TypeOK
  <2>3. \A q \in arrived : \E k \in Inst : Known(k, q) /\ ~(k = i /\ q = r)
    BY <1>l, <1>r DEF KeptInv
  <2>4. \A q \in arrived' : \E k \in Inst : Known(k, q)'
    BY <1>e, <2>2, <2>3 DEF TypeOK
  <2>5. \A k \in Inst : pc'[k] = "committed" => Known(dst[k], cur[k])'
    <3> SUFFICES ASSUME NEW k \in Inst, pc'[k] = "committed"
                 PROVE  Known(dst[k], cur[k])'
      OBVIOUS
    <3>1. /\ k # i /\ pc[k] = "committed" /\ cur'[k] = cur[k] /\ dst[k] # i
          /\ cur[k] \in Req /\ dst[k] \in Inst
      BY <1>e, <1>v DEF TypeOK, JobInv, Unassigned, OneToOne
    <3> QED
      BY <1>e, <3>1 DEF KeptInv, Known, TypeOK
  <2> QED
    BY <1>e, <2>1, <2>4, <2>5 DEF KeptInv
<1>7. CopyInv'
  BY <1>e, <1>r, <1>v, <1>m, <1>l DEF CopyInv, TypeOK
<1>8. StageInv'
  <2>1. \A k \in Inst : SentInv(k)'
    BY <1>e, <1>r, <1>v, <1>m DEF StageInv, SentInv, MidMigration, Sending,
         Removing, TypeOK
  <2>2. \A k \in Inst \ {i} : HealthInv(k)'
    BY <1>e, <1>r, <1>v, <1>m DEF StageInv, HealthInv, Healthy, ShouldAbort,
         LastSending, Sending, Removing, TypeOK
  <2>3. HealthInv(i)'
    BY <1>e, <1>r, <1>v, <1>m DEF StageInv, HealthInv, Healthy, ShouldAbort,
         LastSending, Sending, Removing, TypeOK
  <2> QED
    BY <2>1, <2>2, <2>3 DEF StageInv
<1>9. PreInv'
  <2>1. \A k, j \in Inst, q \in Req : Reserves(k, j, q) => Reserves(k, j, q)'
    BY <1>e, <1>v DEF Reserves, Reserving, TypeOK
  <2>2. \A k \in Inst : pc'[k] \in {"allocated", "send", "commit"}
                         => pre'[dst'[k]][cur'[k]] > 0
    BY <1>e, <1>v DEF PreInv, TypeOK
  <2> QED
    BY <1>e, <2>1, <2>2 DEF PreInv, TypeOK
<1> QED
  BY <1>1, <1>2, <1>3, <1>4, <1>5, <1>6, <1>7, <1>8, <1>9

\* ABORTED_SRC: the destination frees what it had allocated.
LEMMA AfterAbortIInv ==
  ASSUME IInv, NEW i \in Inst, AfterAbort(i)
  PROVE  IInv'
<1> USE DEF IInv
<1>r. PICK r \in Req : r = cur[i] /\ r \in arrived
  BY DEF AfterAbort, JobInv, Unassigned, TypeOK
<1>v. PICK p \in {"next", "done"}, c \in Req \cup {NoReq}, T \in SUBSET arrived :
        /\ p = "next" => c \in arrived
        /\ pc' = [pc EXCEPT ![i] = p]
        /\ cur' = [cur EXCEPT ![i] = c]
        /\ todo' = [todo EXCEPT ![i] = T]
        /\ stage' = [stage EXCEPT ![i] = 0]
        /\ num' = [num EXCEPT ![i] = 0]
        /\ last' = [last EXCEPT ![i] = FALSE]
  <2>1. Advance(i, FALSE)
    BY DEF AfterAbort
  <2> QED
    BY <2>1, AdvanceEffect
<1>e. /\ pc[i] = "abort"
      /\ pre' = [pre EXCEPT ![dst[i]][r] = 0]
      /\ free' = [free EXCEPT ![dst[i]] = free[dst[i]] + pre[dst[i]][r]]
      /\ UNCHANGED <<arrived, place, stat, held, meta, eom, lastStage, dst,
           busy>>
  BY <1>r DEF AfterAbort, FreeDstPreAllocCache, queueVars
<1>1. TypeOK'
  <2>1. pc' \in [Inst -> PCs]
    BY <1>e, <1>v DEF TypeOK, PCs
  <2>2. /\ cur' \in [Inst -> Req \cup {NoReq}]
        /\ todo' \in [Inst -> SUBSET Req]
        /\ stage' \in [Inst -> Nat] /\ num' \in [Inst -> Nat]
        /\ last' \in [Inst -> BOOLEAN]
    BY <1>v DEF TypeOK
  <2>3. free' \in [Inst -> Nat] /\ pre' \in [Inst -> [Req -> Nat]]
    BY <1>e DEF TypeOK
  <2> QED
    BY <1>e, <2>1, <2>2, <2>3 DEF TypeOK
<1>2. OneToOne'
  BY <1>e, <1>r, <1>v DEF OneToOne, TypeOK
<1>3. JobInv'
  BY <1>e, <1>r, <1>v DEF JobInv, Unassigned, Removing, TypeOK
<1>4. PlaceInv'
  BY <1>e, <1>r, <1>v DEF PlaceInv, LastSending, Sending, TypeOK
<1>5. UniqueInv'
  BY <1>e, <1>r, <1>v DEF UniqueInv, HandsOver, TypeOK
<1>6. KeptInv'
  <2>1. \A k \in Inst, q \in Req : Known(k, q) => Known(k, q)'
    BY <1>e DEF Known, TypeOK
  <2>2. \A k \in Inst : pc'[k] = "committed" => Known(dst[k], cur[k])'
    <3> SUFFICES ASSUME NEW k \in Inst, pc'[k] = "committed"
                 PROVE  Known(dst[k], cur[k])'
      OBVIOUS
    <3>1. pc[k] = "committed" /\ cur[k] \in Req /\ dst[k] \in Inst /\ cur'[k] = cur[k]
      BY <1>e, <1>r, <1>v DEF TypeOK, JobInv, Unassigned
    <3> QED
      BY <1>e, <1>r, <1>v, <3>1 DEF KeptInv, Known, TypeOK
  <2>3. \A k \in Inst, q \in Req \ arrived : place'[k][q] = "none" /\ stat'[k][q] = "none"
    BY <1>e, <1>r DEF KeptInv, TypeOK
  <2> QED
    BY <1>e, <2>1, <2>2, <2>3 DEF KeptInv, Known, TypeOK
<1>7. CopyInv'
  BY <1>e DEF CopyInv
<1>8. StageInv'
  <2>1. \A k \in Inst : SentInv(k)'
    BY <1>e, <1>r, <1>v DEF StageInv, SentInv, MidMigration, Sending,
         Removing, TypeOK
  <2>2. \A k \in Inst \ {i} : HealthInv(k)'
    BY <1>e, <1>r, <1>v DEF StageInv, HealthInv, Healthy, ShouldAbort,
         LastSending, Sending, Removing, TypeOK
  <2>3. HealthInv(i)'
    BY <1>e, <1>r, <1>v DEF StageInv, HealthInv, Healthy, ShouldAbort,
         LastSending, Sending, Removing, TypeOK
  <2> QED
    BY <2>1, <2>2, <2>3 DEF StageInv
<1>9. PreInv'
  <2>1. \A k, j \in Inst, q \in Req :
          Reserves(k, j, q) /\ ~(j = dst[i] /\ q = cur[i]) => Reserves(k, j, q)'
    BY <1>e, <1>v DEF Reserves, Reserving, TypeOK
  <2>2. \A j \in Inst, q \in Req :
          pre'[j][q] > 0 => pre[j][q] > 0 /\ ~(j = dst[i] /\ q = cur[i])
    BY <1>e, <1>r, <1>v DEF TypeOK
  <2>3. \A k \in Inst \ {i} : pc[k] # "idle" => dst[k] # dst[i]
    BY <1>e DEF OneToOne, TypeOK
  <2>4. \A k \in Inst : pc'[k] \in {"allocated", "send", "commit"}
                         => pre'[dst'[k]][cur'[k]] > 0
    BY <1>e, <1>r, <1>v, <2>3 DEF PreInv, TypeOK
  <2> QED
    BY <2>1, <2>2, <2>4 DEF PreInv
<1> QED
  BY <1>1, <1>2, <1>3, <1>4, <1>5, <1>6, <1>7, <1>8, <1>9

----------------------------------------------------------------------------
(***************************************************************************)
(* Every step, and the theorems.                                           *)
(***************************************************************************)

\* The steps of the engine and of the clients of an instance.
LEMMA EngineIInv ==
  ASSUME IInv, NEW i \in Inst, EngineStep(i) \/ ClientStep(i)
  PROVE  IInv'
<1>1. PICK r \in Req :
        /\ Suspended(i)
        /\ \/ Admit(i, r) \/ Grow(i, r) \/ Preempt(i, r) \/ Finish(i, r)
           \/ FinishRemoved(i, r) \/ AddRequest(i, r) \/ AbortRequest(i, r)
  BY DEF EngineStep, ClientStep
<1>2. CASE Admit(i, r)
  BY <1>2, AdmitMigratedIInv, AdmitAllocatesIInv
<1>3. CASE Grow(i, r)
  BY <1>1, <1>3, GrowIInv
<1>4. CASE Preempt(i, r)
  BY <1>1, <1>4, PreemptIInv
<1>5. CASE Finish(i, r) \/ FinishRemoved(i, r) \/ AbortRequest(i, r)
  <2>1. /\ Retire(i, r)
        /\ Runnable(i, r) \/ (pc[i] = "removed" /\ cur[i] = r)
    BY <1>5 DEF Finish, FinishRemoved, AbortRequest, Runnable
  <2> QED
    BY <2>1, RetireIInv
<1>6. CASE AddRequest(i, r)
  BY <1>6, AddRequestIInv
<1> QED
  BY <1>1, <1>2, <1>3, <1>4, <1>5, <1>6

\* The steps of migrate_out that go on to a request, and the first one of it.
LEMMA BeginIInv ==
  ASSUME IInv, NEW i \in Inst, MigrateOut(i) \/ MigrateOutOneRequest(i)
  PROVE  IInv'
<1>1. CASE MigrateOut(i)
  <2>1. PICK D \in SUBSET Req : MigrateNone(i, D) \/ MigrateSome(i, D)
    BY <1>1 DEF MigrateOut
  <2>2. /\ pc[i] = "called"
        /\ UNCHANGED <<arrived, place, stat, blockVars, lastStage, dst, stage,
                       num, last, busy>>
    BY <1>1 DEF MigrateOut
  <2> QED
    BY <2>1, <2>2, MigrateNoneIInv, MigrateSomeIInv
<1>2. CASE MigrateOutOneRequest(i)
  <2>1. /\ pc[i] = "next"
        /\ UNCHANGED <<arrived, eom, blockVars, dst, busy>>
    BY <1>2 DEF MigrateOutOneRequest
  <2>2. CASE BeginOverLimit(i, cur[i])
    <3>1. cur[i] \in Req
      BY <2>1 DEF IInv, JobInv, Unassigned, TypeOK
    <3>2. /\ place[i][cur[i]] # "detached" /\ AbortSrc(i, cur[i])
          /\ UNCHANGED <<arrived, place, eom, blockVars, lastStage, dst, busy>>
      BY <2>1, <2>2 DEF BeginOverLimit
    <3> QED
      BY <2>1, <3>1, <3>2, AbortSrcIInv
  <2>3. CASE BeginRunning(i, cur[i])
    BY <2>1, <2>3, BeginRunningIInv
  <2>4. CASE BeginWaiting(i, cur[i])
    BY <2>1, <2>4, BeginWaitingIInv
  <2>5. CASE BeginSkipped(i, cur[i])
    BY <2>1, <2>5, BeginSkippedIInv
  <2> QED
    BY <1>2, <2>2, <2>3, <2>4, <2>5 DEF MigrateOutOneRequest
<1> QED
  BY <1>1, <1>2

\* The stages of a migration up to its end, the ABORTED_SRC exits included: a
\* request is never detached when one of them is taken.
LEMMA StageIInv ==
  ASSUME IInv, NEW i \in Inst,
         \/ StartStage(i) \/ RemoveRunningRequest(i) \/ AfterRemoval(i)
         \/ AfterAllocated(i) \/ SendBlocks(i)
  PROVE  IInv'
<1> DEFINE Rest == UNCHANGED <<arrived, place, eom, blockVars, lastStage, dst, busy>>
<1>1. CASE StartStage(i)
  <2>1. CASE stage[i] = MaxStages \/ ShouldAbort(i, cur[i])
    <3>1. pc[i] = "stage" /\ AbortSrc(i, cur[i]) /\ Rest
      BY <1>1, <2>1 DEF StartStage, StageNumBlocks, StagePC
    <3>2. cur[i] \in Req /\ place[i][cur[i]] # "detached"
      BY <3>1 DEF IInv, JobInv, PlaceInv, LastSending, Sending, Unassigned,
           TypeOK
    <3> QED
      BY <3>1, <3>2, AbortSrcIInv
  <2>2. CASE ~(stage[i] = MaxStages \/ ShouldAbort(i, cur[i]))
    BY <1>1, <2>2, StartStageIInv
  <2> QED
    BY <2>1, <2>2
<1>2. CASE RemoveRunningRequest(i)
  BY <1>2, RemoveRunningIInv, RemoveMissingIInv
<1>3. CASE AfterRemoval(i)
  <2>1. CASE place[i][cur[i]] # "detached"
    <3>1. pc[i] = "removed" /\ AbortSrc(i, cur[i]) /\ Rest
      BY <1>3, <2>1 DEF AfterRemoval, AddLastStage
    <3>2. cur[i] \in Req
      BY <3>1 DEF IInv, JobInv, Unassigned, TypeOK
    <3> QED
      BY <2>1, <3>1, <3>2, AbortSrcIInv
  <2> QED
    BY <1>3, <2>1, AfterRemovalIInv
<1>4. CASE AfterAllocated(i)
  <2>1. CASE stat[i][cur[i]] # "waiting_migrating" /\ ShouldAbort(i, cur[i])
    <3>1. pc[i] = "allocated" /\ AbortSrc(i, cur[i]) /\ Rest
      BY <1>4, <2>1 DEF AfterAllocated
    <3>2. cur[i] \in Req
      BY <3>1 DEF IInv, JobInv, Unassigned, TypeOK
    <3>3. ~last[i]
      <4> SUFFICES ASSUME last[i] PROVE FALSE
        OBVIOUS
      <4>1. LastSending(i)
        BY <3>1 DEF LastSending, Sending
      <4>2. place[i][cur[i]] = "detached" /\ ~meta[i][cur[i]].preempted
        BY <2>1, <4>1 DEF IInv, PlaceInv, StageInv, HealthInv
      <4>3. ~meta[i][cur[i]].finished
        BY <3>2, <4>2 DEF IInv, CopyInv
      <4> QED
        BY <2>1, <4>2, <4>3 DEF ShouldAbort
    <3>4. place[i][cur[i]] # "detached"
      BY <3>1, <3>2, <3>3 DEF IInv, PlaceInv, LastSending
    <3> QED
      BY <3>1, <3>2, <3>4, AbortSrcIInv
  <2> QED
    BY <1>4, <2>1, AllocatedWaitingIInv, AllocatedSendIInv
<1>5. CASE SendBlocks(i)
  <2>1. CASE ~last[i] /\ ShouldAbort(i, cur[i])
    <3>1. pc[i] = "send" /\ AbortSrc(i, cur[i]) /\ Rest
      BY <1>5, <2>1 DEF SendBlocks
    <3>2. cur[i] \in Req
      BY <3>1 DEF IInv, JobInv, Unassigned, TypeOK
    <3>3. place[i][cur[i]] # "detached"
      BY <2>1, <3>1, <3>2 DEF IInv, PlaceInv, LastSending
    <3> QED
      BY <3>1, <3>2, <3>3, AbortSrcIInv
  <2> QED
    BY <1>5, <2>1, SendLastIInv, SendStageIInv
<1> QED
  BY <1>1, <1>2, <1>3, <1>4, <1>5

\* Every step of the system, a stuttering step included, preserves the
\* invariant.
LEMMA NextIInv == IInv /\ [Next]_vars => IInv'
<1> SUFFICES ASSUME IInv, [Next]_vars PROVE IInv'
  OBVIOUS
<1>1. CASE UNCHANGED vars
  BY <1>1
     DEF vars, IInv, TypeOK, OneToOne, JobInv, PlaceInv, LastSending, UniqueInv,
         HandsOver, KeptInv, Known, CopyInv, StageInv, SentInv, HealthInv,
         Healthy, ShouldAbort, PreInv, Reserves
<1>2. CASE Next
  <2>1. PICK i \in Inst :
          \/ ClientStep(i) \/ EngineStep(i) \/ SrcStep(i) \/ CallStep(i)
          \/ MigrateDone(i) \/ \E j \in Inst : PushMigration(i, j)
    BY <1>2 DEF Next
  <2>2. CASE EngineStep(i) \/ ClientStep(i)
    BY <2>2, EngineIInv
  <2>3. CASE MigrateDone(i) \/ \E j \in Inst : PushMigration(i, j)
    BY <2>3, MigrateDoneIInv, PushMigrationIInv
  <2>4. CASE MigrateOut(i) \/ MigrateOutOneRequest(i)
    BY <2>4, BeginIInv
  <2>5. CASE \/ StartStage(i) \/ RemoveRunningRequest(i) \/ AfterRemoval(i)
             \/ AfterAllocated(i) \/ SendBlocks(i)
    BY <2>5, StageIInv
  <2>6. CASE AfterRefused(i)
    BY <2>6, RefusedStageIInv, RefusedLastIInv
  <2>7. CASE AfterCommit(i) \/ AfterAbort(i) \/ CommitDstRequest(i)
    BY <2>7, AfterCommitIInv, AfterAbortIInv, CommitDstRequestIInv
  <2>8. CASE MigrateInPreAlloc(i)
    <3>1. /\ pc[i] = "alloc"
          /\ UNCHANGED <<queueVars, held, lastStage, dst, jobVars, busy>>
          /\ PreAllocOK(i, dst[i], cur[i]) \/ PreAllocRefused(i, dst[i], cur[i])
      BY <2>8 DEF MigrateInPreAlloc
    <3> QED
      BY <3>1, PreAllocOKIInv, PreAllocRefusedIInv
  <2> QED
    BY <2>1, <2>2, <2>3, <2>4, <2>5, <2>6, <2>7, <2>8
       DEF SrcStep, CallStep, DstStep
<1> QED
  BY <1>1, <1>2

\* The inductive invariant holds in every reachable state: from the dispatch of
\* a request through every interleaving of engine steps, migrations and aborts.
THEOREM InductiveInvariant == Spec => []IInv
  BY InitIInv, NextIInv, PTL DEF Spec

\* Every variable keeps its type; in particular the number of free blocks, and
\* the number of blocks that a stage asks for, never become negative.
THEOREM TypeCorrect == Spec => []TypeOK
<1>1. IInv => TypeOK
  BY DEF IInv
<1> QED
  BY <1>1, InductiveInvariant, PTL

\* At most one engine can schedule a request, at every moment of a migration.
THEOREM SingleOwnerHolds == Spec => []SingleOwner
<1>1. IInv => SingleOwner
  <2> SUFFICES ASSUME IInv, NEW i \in Inst, NEW j \in Inst, NEW r \in Req,
                      Runnable(i, r), Runnable(j, r), i # j
               PROVE  FALSE
    BY DEF SingleOwner
  <2>1. HandsOver(i, j, r) \/ HandsOver(j, i, r)
    BY DEF IInv, UniqueInv, Runnable
  <2>2. ASSUME NEW k \in Inst, pc[k] = "committed", cur[k] = r
        PROVE  place[k][r] = "detached"
    BY <2>2 DEF IInv, JobInv, PlaceInv, LastSending, Sending
  <2> QED
    BY <2>1, <2>2 DEF HandsOver, Runnable
<1> QED
  BY <1>1, InductiveInvariant, PTL

\* A request that arrived is in a queue, in the last stage of a migration, or
\* finished: no exit of migrate_out forgets it.
THEOREM NotLostHolds == Spec => []NotLost
<1>1. IInv => NotLost
  <2> SUFFICES ASSUME IInv, NEW r \in arrived
               PROVE  \/ \E i \in Inst : Runnable(i, r) \/ InLastStage(i, r)
                      \/ \E i \in Inst : meta[i][r].finished
    BY DEF NotLost
  <2>1. r \in Req
    BY DEF IInv, TypeOK
  <2>2. PICK i \in Inst : Known(i, r)
    BY DEF IInv, KeptInv
  <2>3. CASE place[i][r] = "detached"
    <3>1. cur[i] = r /\ (pc[i] = "removed" \/ LastSending(i))
      BY <2>1, <2>3 DEF IInv, PlaceInv
    <3> QED
      BY <2>3, <3>1 DEF InLastStage, LastSending, Sending
  <2>4. CASE place[i][r] # "detached"
    BY <2>1, <2>2, <2>4 DEF IInv, TypeOK, Places, Known, Runnable
  <2> QED
    BY <2>3, <2>4
<1> QED
  BY <1>1, InductiveInvariant, PTL

\* migrate_out raises no exception: the destination has the pre-allocation that
\* commit_dst_request pops, and the source finds the request in
\* migrating_out_requests_last_stage.
THEOREM NoExceptionHolds == Spec => []NoException
<1>1. IInv => NoException
  BY DEF IInv, JobInv, NoException
<1> QED
  BY <1>1, InductiveInvariant, PTL

\* Every pre-allocation belongs to a migration that is under way.
THEOREM PreAllocOwnedHolds == Spec => []PreAllocOwned
<1>1. IInv => PreAllocOwned
  BY DEF IInv, PreInv, Reserves, Reserving, PreAllocOwned
<1> QED
  BY <1>1, InductiveInvariant, PTL

\* An instance takes part in at most one migration at a time.
THEOREM OneToOneHolds == Spec => []OneToOne
<1>1. IInv => OneToOne
  BY DEF IInv
<1> QED
  BY <1>1, InductiveInvariant, PTL

\* A running request has a block table, wherever it was migrated from.
THEOREM RunningHasBlocksHolds == Spec => []RunningHasBlocks
<1>1. IInv => RunningHasBlocks
  BY DEF IInv, CopyInv, RunningHasBlocks
<1> QED
  BY <1>1, InductiveInvariant, PTL

----------------------------------------------------------------------------
(***************************************************************************)
(* What cannot change under way is committed complete.                     *)
(***************************************************************************)

\* The coroutine of k, and the request it migrates, stay as they are.
SameJob(k) ==
  /\ pc'[k] = pc[k] /\ dst'[k] = dst[k] /\ cur'[k] = cur[k]
  /\ num'[k] = num[k] /\ last'[k] = last[k]
SameCopy(k, q) ==
  /\ place'[k][q] = place[k][q] /\ stat'[k][q] = stat[k][q] /\ held'[k][q] = held[k][q]
  /\ meta'[k][q].limited = meta[k][q].limited
  /\ meta'[k][q].size = meta[k][q].size /\ meta'[k][q].sent = meta[k][q].sent

\* The request under migration is one of the requests.
LEMMA CurReq ==
  IInv => \A k \in Inst : pc[k] \in MidMigration => cur[k] \in arrived /\ cur[k] \in Req
  BY DEF IInv, JobInv, Unassigned, MidMigration, Removing, Sending, TypeOK

\* A step that touches neither the coroutine of k, nor its request, nor the
\* pre-allocation made for it, leaves the stage of k whole.
LEMMA WholeKept ==
  ASSUME FrozenInv, NEW k \in Inst, SameJob(k), 
         pc[k] \in MidMigration => /\ SameCopy(k, cur[k])
                                   /\ pre'[dst[k]][cur[k]] = pre[dst[k]][cur[k]]
  PROVE  Whole(k)'
<1>1. CASE pc[k] \notin MidMigration
  BY <1>1 DEF SameJob, Whole, WaitingWhole, LimitedWhole, LastSending, MidMigration
<1>2. CASE pc[k] \in MidMigration
  <2>0. Whole(k)
    BY DEF FrozenInv
  <2>1. Answered(k) => Answered(k)'
    BY <1>2 DEF SameJob, Answered
  <2>2. WaitingWhole(k)'
    BY <1>2, <2>0, <2>1 DEF SameJob, SameCopy, WaitingWhole, LastSending, Whole
  <2>3. LimitedWhole(k)'
    <3>1. LimitedWhole(k)
      BY <2>0 DEF Whole
    <3> QED
      BY <1>2, <2>1, <3>1 DEF SameJob, SameCopy, LimitedWhole
  <2>4. (pc[k] \in Removing => stat[k][cur[k]] # "waiting_migrating")'
    BY <1>2, <2>0 DEF SameJob, SameCopy, Whole
  <2> QED
    BY <2>2, <2>3, <2>4 DEF Whole
<1> QED
  BY <1>1, <1>2

\* Outside of a migration there is nothing to be whole.
LEMMA WholeOutside ==
  ASSUME NEW k \in Inst, pc'[k] \notin MidMigration
  PROVE  Whole(k)'
  BY DEF Whole, WaitingWhole, LimitedWhole, LastSending, MidMigration

\* A step of the coroutine of i leaves the other coroutines alone: they have
\* other destinations.
LEMMA WholeElsewhere ==
  ASSUME IInv, FrozenInv, NEW i \in Inst, pc[i] # "idle",
         \A k \in Inst \ {i} : SameJob(k),
         \A k \in Inst \ {i, dst[i]} : \A q \in Req : SameCopy(k, q),
         \A j \in Inst \ {dst[i]} : pre'[j] = pre[j]
  PROVE  \A k \in Inst \ {i} : Whole(k)'
<1> SUFFICES ASSUME NEW k \in Inst \ {i} PROVE Whole(k)'
  OBVIOUS
<1>1. pc[k] \in MidMigration => k # dst[i] /\ dst[k] # dst[i] /\ dst[k] \in Inst
  BY DEF IInv, OneToOne, TypeOK, MidMigration, Removing, Sending
<1>2. pc[k] \in MidMigration => /\ SameCopy(k, cur[k])
                                /\ pre'[dst[k]][cur[k]] = pre[dst[k]][cur[k]]
  BY <1>1, CurReq
<1> QED
  BY <1>2, WholeKept

\* An arriving request is not the one under migration.
LEMMA AddRequestFrozen ==
  ASSUME IInv, FrozenInv, NEW i \in Inst, NEW r \in Req, AddRequest(i, r)
  PROVE  FrozenInv'
<1>1. PICK m : meta' = [meta EXCEPT ![i][r] = m]
  BY DEF AddRequest
<1>e. /\ r \notin arrived
      /\ place' = [place EXCEPT ![i][r] = "waiting"]
      /\ UNCHANGED <<stat, held, pre, pc, dst, cur, num, last>>
  BY DEF AddRequest, blockVars, jobVars
<1>2. \A k \in Inst : \A q \in Req \ {r} : SameCopy(k, q)
  BY <1>1, <1>e DEF IInv, TypeOK, SameCopy
<1>3. \A k \in Inst : SameJob(k)
  BY <1>e DEF SameJob
<1> QED
  BY <1>e, <1>2, <1>3, CurReq, WholeKept DEF FrozenInv

\* What an engine step does to one request: it is not the one under migration,
\* or that one may still change, or it ends.
LEMMA EngineFrozen ==
  ASSUME IInv, FrozenInv, NEW i \in Inst, NEW r \in Req,
         \A k \in Inst : /\ k # i \/ cur[i] # r => pc'[k] = pc[k]
                         /\ dst'[k] = dst[k] /\ cur'[k] = cur[k]
                         /\ num'[k] = num[k] /\ last'[k] = last[k],
         pre' = pre,
         \A k \in Inst, q \in Req : k # i \/ q # r => SameCopy(k, q),
         cur[i] = r => Whole(i)'
  PROVE  FrozenInv'
<1> SUFFICES ASSUME NEW k \in Inst PROVE Whole(k)'
  BY DEF FrozenInv
<1>1. CASE k = i /\ cur[i] = r
  BY <1>1
<1>2. CASE k # i \/ cur[i] # r
  BY <1>2, CurReq, WholeKept DEF SameJob
<1> QED
  BY <1>1, <1>2

\* A request in its last stage is in no queue, so that the engine cannot admit,
\* grow or preempt it.
LEMMA QueuedNotSending ==
  ASSUME IInv, FrozenInv, NEW i \in Inst, cur[i] \in Req, Runnable(i, cur[i])
  PROVE  /\ ~LastSending(i)
         /\ pc[i] \in MidMigration => stat[i][cur[i]] # "waiting_migrating"
<1>1. ~LastSending(i)
  BY DEF IInv, PlaceInv, Runnable
<1>2. pc[i] \in Sending \cup {"stage"} => stat[i][cur[i]] = "none"
  BY <1>1 DEF IInv, StageInv, HealthInv, LastSending, JobInv, TypeOK
<1> QED
  BY <1>1, <1>2 DEF FrozenInv, Whole, MidMigration

\* An admitted request is not in a migration, unless it may still change.
LEMMA AdmitFrozen ==
  ASSUME IInv, FrozenInv, NEW i \in Inst, NEW r \in Req, Admit(i, r)
  PROVE  FrozenInv'
<1>e. /\ place[i][r] = "waiting" /\ place' = [place EXCEPT ![i][r] = "running"]
      /\ \A k \in Inst, q \in Req : k # i \/ q # r =>
           stat'[k][q] = stat[k][q] /\ held'[k][q] = held[k][q]
      /\ stat'[i][r] # "waiting_migrating"
      /\ UNCHANGED <<meta, pre, pc, dst, cur, num, last>>
  BY DEF Admit, IInv, TypeOK, jobVars
<1>1. \A k \in Inst, q \in Req : k # i \/ q # r => SameCopy(k, q)
  BY <1>e DEF SameCopy, IInv, TypeOK
<1>2. cur[i] = r => Whole(i)'
  <2> SUFFICES ASSUME cur[i] = r PROVE Whole(i)'
    OBVIOUS
  <2>1. ~LastSending(i) /\ (pc[i] \in MidMigration => stat[i][r] # "waiting_migrating")
    BY <1>e, QueuedNotSending DEF Runnable
  <2>2. pc[i] \in MidMigration => ~meta[i][r].limited
    BY <1>e, <2>1 DEF FrozenInv, Whole, LimitedWhole
  <2> QED
    BY <1>e, <2>1, <2>2 DEF Whole, WaitingWhole, LimitedWhole, LastSending
<1> QED
  BY <1>e, <1>1, <1>2, EngineFrozen

\* A request that has done its expected steps does not grow.
LEMMA GrowFrozen ==
  ASSUME IInv, FrozenInv, NEW i \in Inst, NEW r \in Req, Grow(i, r)
  PROVE  FrozenInv'
<1>1. PICK n \in Nat : meta' = [meta EXCEPT ![i][r].size = n]
  <2>1. meta[i][r].size + 1 \in Nat
    BY DEF IInv, TypeOK, Meta
  <2> QED
    BY <2>1 DEF Grow
<1>h. \A k \in Inst, q \in Req : k # i \/ q # r => held'[k][q] = held[k][q]
  BY DEF Grow, IInv, TypeOK
<1>e. /\ place[i][r] = "running" /\ ~meta[i][r].limited
      /\ pc' = [pc EXCEPT ![i] = IF @ = "remove" /\ cur[i] = r THEN "removeStepped" ELSE @]
      /\ UNCHANGED <<place, stat, pre, dst, cur, num, last>>
  BY DEF Grow, StepTaken, jobVars
<1>2. \A k \in Inst, q \in Req : k # i \/ q # r => SameCopy(k, q)
  BY <1>1, <1>h, <1>e DEF SameCopy, IInv, TypeOK
<1>3. ~meta'[i][r].limited
  BY <1>1, <1>e DEF IInv, TypeOK, Meta
<1>4. cur[i] = r => Whole(i)'
  <2> SUFFICES ASSUME cur[i] = r PROVE Whole(i)'
    OBVIOUS
  <2>1. ~LastSending(i) /\ (pc[i] \in MidMigration => stat[i][r] # "waiting_migrating")
    BY <1>e, QueuedNotSending DEF Runnable
  <2> QED
    BY <1>e, <1>3, <2>1 DEF Whole, WaitingWhole, LimitedWhole, LastSending, Sending,
       MidMigration, Removing, IInv, TypeOK
<1>5. \A k \in Inst : k # i \/ cur[i] # r => pc'[k] = pc[k]
  BY <1>e DEF IInv, TypeOK
<1> QED
  BY <1>e, <1>2, <1>4, <1>5, EngineFrozen

\* A request that has done its expected steps is not preempted.
LEMMA PreemptFrozen ==
  ASSUME IInv, FrozenInv, NEW i \in Inst, NEW r \in Req, Preempt(i, r)
  PROVE  FrozenInv'
<1>e. /\ place[i][r] = "running" /\ ~meta[i][r].limited
      /\ place' = [place EXCEPT ![i][r] = "waiting"]
      /\ held' = [held EXCEPT ![i][r] = 0]
      /\ meta' = [meta EXCEPT ![i][r].preempted = TRUE]
      /\ pc' = [pc EXCEPT ![i] = IF @ = "remove" /\ cur[i] = r THEN "removeStepped" ELSE @]
      /\ UNCHANGED <<stat, pre, dst, cur, num, last>>
  BY DEF Preempt, StepTaken, jobVars
<1>2. \A k \in Inst, q \in Req : k # i \/ q # r => SameCopy(k, q)
  BY <1>e DEF SameCopy, IInv, TypeOK
<1>3. ~meta'[i][r].limited
  BY <1>e DEF IInv, TypeOK, Meta
<1>4. cur[i] = r => Whole(i)'
  <2> SUFFICES ASSUME cur[i] = r PROVE Whole(i)'
    OBVIOUS
  <2>1. ~LastSending(i) /\ (pc[i] \in MidMigration => stat[i][r] # "waiting_migrating")
    BY <1>e, QueuedNotSending DEF Runnable
  <2> QED
    BY <1>e, <1>3, <2>1 DEF Whole, WaitingWhole, LimitedWhole, LastSending, Sending,
       MidMigration, Removing, IInv, TypeOK
<1>5. \A k \in Inst : k # i \/ cur[i] # r => pc'[k] = pc[k]
  BY <1>e DEF IInv, TypeOK
<1> QED
  BY <1>e, <1>2, <1>4, <1>5, EngineFrozen

\* A request that ends is not committed any more.
LEMMA RetireFrozen ==
  ASSUME IInv, FrozenInv, NEW i \in Inst, NEW r \in Req, Retire(i, r),
         place[i][r] # "detached" \/ pc[i] = "removed"
  PROVE  FrozenInv'
<1>e. /\ place' = [place EXCEPT ![i][r] = "none"]
      /\ held' = [held EXCEPT ![i][r] = 0]
      /\ meta' = [meta EXCEPT ![i][r].finished = TRUE]
      /\ UNCHANGED <<stat, pre, pc, dst, cur, num, last>>
  BY DEF Retire, jobVars
<1>1. \A k \in Inst, q \in Req : k # i \/ q # r => SameCopy(k, q)
  BY <1>e DEF SameCopy, IInv, TypeOK
<1>2. meta'[i][r].limited = meta[i][r].limited /\ meta'[i][r].sent = meta[i][r].sent
  BY <1>e DEF IInv, TypeOK, Meta
<1>3. cur[i] = r => Whole(i)'
  <2> SUFFICES ASSUME cur[i] = r PROVE Whole(i)'
    OBVIOUS
  <2>1. ~LastSending(i)
    BY DEF IInv, PlaceInv, LastSending, Sending
  <2>2. Answered(i)' = Answered(i) /\ place'[i][r] = "none"
    BY <1>e DEF Answered, IInv, TypeOK
  <2>3. LimitedWhole(i)'
    BY <1>e, <1>2, <2>2 DEF FrozenInv, Whole, LimitedWhole
  <2> QED
    BY <1>e, <2>1, <2>3 DEF FrozenInv, Whole, WaitingWhole, LastSending
<1> QED
  BY <1>e, <1>1, <1>3, EngineFrozen

\* A step of the coroutine of i and of its destination: what is left to show
\* is that the stage of i stays whole.
LEMMA JobFrozen ==
  ASSUME IInv, FrozenInv, NEW i \in Inst, pc[i] # "idle",
         \A k \in Inst \ {i} : SameJob(k),
         \A k \in Inst \ {i, dst[i]} : \A q \in Req : SameCopy(k, q),
         \A j \in Inst \ {dst[i]} : pre'[j] = pre[j],
         Whole(i)'
  PROVE  FrozenInv'
  BY WholeElsewhere DEF FrozenInv

\* A step after which the coroutine of i is in no migration.
LEMMA EndFrozen ==
  ASSUME IInv, FrozenInv, NEW i \in Inst, pc'[i] \notin MidMigration, pre' = pre,
         \A k \in Inst \ {i} : SameJob(k),
         \A k \in Inst \ {i} : \A q \in Req : SameCopy(k, q)
  PROVE  FrozenInv'
<1>1. Whole(i)'
  BY WholeOutside
<1>2. \A k \in Inst \ {i} : Whole(k)'
  BY CurReq, WholeKept
<1> QED
  BY <1>1, <1>2 DEF FrozenInv

\* The coroutine's own variables are those of i.
LEMMA OtherJobs ==
  ASSUME IInv, NEW i \in Inst, NEW p, pc' = [pc EXCEPT ![i] = p],
         UNCHANGED <<dst, jobVars>>
  PROVE  pc'[i] = p /\ \A k \in Inst \ {i} : SameJob(k)
  BY DEF IInv, TypeOK, SameJob, jobVars

\* The manager's steps, and the choice of the requests.
LEMMA ManagerFrozen ==
  ASSUME IInv, FrozenInv, NEW i \in Inst,
         MigrateDone(i) \/ (\E j \in Inst : PushMigration(i, j)) \/ MigrateOut(i)
  PROVE  FrozenInv'
<1>1. pc'[i] \notin MidMigration /\ pre' = pre
  <2>1. PICK p \in {"idle", "called", "done", "next"} : pc' = [pc EXCEPT ![i] = p]
    BY DEF MigrateDone, PushMigration, MigrateOut, MigrateNone, MigrateSome
  <2> QED
    BY <2>1 DEF MigrateDone, PushMigration, MigrateOut, blockVars, MidMigration, Removing,
         Sending, IInv, TypeOK
<1>2. \A k \in Inst \ {i} : SameJob(k)
  BY ZenonT(30) DEF MigrateDone, PushMigration, MigrateOut, MigrateNone, MigrateSome, SameJob,
         jobVars, IInv, TypeOK
<1>3. \A k \in Inst \ {i} : meta'[k] = meta[k]
  BY DEF MigrateDone, PushMigration, MigrateOut, MigrateNone, MigrateSome, MarkMigrating,
         queueVars, IInv, TypeOK
<1>4. \A k \in Inst \ {i} : \A q \in Req : SameCopy(k, q)
  BY <1>3 DEF MigrateDone, PushMigration, MigrateOut, queueVars, blockVars, SameCopy
<1> QED
  BY <1>1, <1>2, <1>4, EndFrozen

\* ABORTED_SRC ends the migration.
LEMMA AbortSrcFrozen ==
  ASSUME IInv, FrozenInv, NEW i \in Inst, AbortSrc(i, cur[i]),
         UNCHANGED <<place, held, pre, dst>>
  PROVE  FrozenInv'
<1>1. pc'[i] = "abort" /\ \A k \in Inst \ {i} : SameJob(k)
  BY OtherJobs DEF AbortSrc
<1>2. \A k \in Inst \ {i} : meta'[k] = meta[k] /\ stat'[k] = stat[k]
  BY DEF AbortSrc, ResetSrc, IInv, TypeOK
<1>3. \A k \in Inst \ {i} : \A q \in Req : SameCopy(k, q)
  BY <1>2 DEF SameCopy
<1>4. pc'[i] \notin MidMigration
  BY <1>1 DEF MidMigration, Removing, Sending
<1> QED
  BY <1>1, <1>3, <1>4, EndFrozen

\* The coroutine goes on to the next request, or returns.
LEMMA AdvanceFrozen ==
  ASSUME IInv, FrozenInv, NEW i \in Inst, pc[i] # "idle", NEW g,
         Advance(i, g) \/ Raise(i),
         \A k \in Inst \ {i} : \A q \in Req : SameCopy(k, q),
         \A j \in Inst \ {dst[i]} : pre'[j] = pre[j],
         dst' = dst
  PROVE  FrozenInv'
<1>1. pc'[i] \notin MidMigration /\ \A k \in Inst \ {i} : SameJob(k)
  <2>1. CASE Raise(i)
    <3>1. pc' = [pc EXCEPT ![i] = "raised"] /\ UNCHANGED <<dst, jobVars>>
      BY <2>1 DEF Raise
    <3>2. pc'[i] = "raised" /\ \A k \in Inst \ {i} : SameJob(k)
      BY <3>1, OtherJobs
    <3> QED
      BY <3>2 DEF MidMigration, Removing, Sending
  <2>2. CASE Advance(i, g)
    <3>1. PICK p \in {"next", "done"}, c \in Req \cup {NoReq}, T \in SUBSET arrived :
             /\ pc' = [pc EXCEPT ![i] = p]
             /\ cur' = [cur EXCEPT ![i] = c]
             /\ num' = [num EXCEPT ![i] = 0]
             /\ last' = [last EXCEPT ![i] = FALSE]
      BY ZenonT(30), <2>2, AdvanceEffect
    <3> QED
      BY <3>1 DEF IInv, TypeOK, SameJob, MidMigration, Removing, Sending
  <2> QED
    BY <2>1, <2>2
<1>2. Whole(i)'
  BY <1>1, WholeOutside
<1> QED
  BY <1>1, <1>2, JobFrozen

\* A request that migrate_out goes on to has no pre-allocation yet.
LEMMA NothingReserved ==
  ASSUME IInv, NEW i \in Inst, pc[i] = "next"
  PROVE  pre[dst[i]][cur[i]] = 0 /\ meta[i][cur[i]].sent = 0 /\ cur[i] \in Req
<1>1. cur[i] \in Req /\ dst[i] \in Inst /\ pre[dst[i]][cur[i]] \in Nat
  BY ZenonT(30) DEF IInv, JobInv, Unassigned, TypeOK
<1>2. meta[i][cur[i]].sent = 0
  BY <1>1 DEF IInv, StageInv, SentInv, MidMigration, Removing, Sending
<1>3. ASSUME pre[dst[i]][cur[i]] > 0 PROVE FALSE
  <2>1. PICK k \in Inst : Reserves(k, dst[i], cur[i])
    BY <1>1, <1>3 DEF IInv, PreInv
  <2>2. k # i /\ pc[k] # "idle" /\ dst[k] = dst[i]
    BY <2>1 DEF Reserves, Reserving
  <2> QED
    BY <2>2 DEF IInv, OneToOne
<1> QED
  BY <1>1, <1>2, <1>3

\* The start of a migration.
LEMMA BeginFrozen ==
  ASSUME IInv, FrozenInv, NEW i \in Inst, MigrateOutOneRequest(i)
  PROVE  FrozenInv'
<1>e. pc[i] = "next" /\ UNCHANGED <<held, pre, dst>>
  BY DEF MigrateOutOneRequest, blockVars
<1>r. PICK r \in Req : r = cur[i] /\ pre[dst[i]][r] = 0 /\ meta[i][r].sent = 0
  BY <1>e, NothingReserved
<1>1. CASE BeginOverLimit(i, cur[i])
  BY <1>e, <1>1, AbortSrcFrozen DEF BeginOverLimit
<1>2. CASE BeginSkipped(i, cur[i])
  <2>1. \A k \in Inst \ {i} : \A q \in Req : SameCopy(k, q)
    BY <1>e, <1>2 DEF BeginSkipped, SameCopy
  <2> QED
    BY <1>e, <1>2, <2>1, AdvanceFrozen DEF BeginSkipped
<1>3. CASE BeginRunning(i, cur[i]) \/ BeginWaiting(i, cur[i])
  <2>1. PICK b \in BOOLEAN : meta' = [meta EXCEPT ![i][r].preempted = b]
    <3>1. (meta[i][r].preempted /\ meta[i][r].sent # 0) \in BOOLEAN
      OBVIOUS
    <3> QED
      BY <1>3, <1>r, <3>1 DEF BeginRunning, BeginWaiting, StartTime
  <2>2. /\ meta'[i][r].sent = 0 /\ meta'[i][r].size = meta[i][r].size
        /\ meta'[i][r].limited = meta[i][r].limited
        /\ \A k \in Inst \ {i} : meta'[k] = meta[k]
    BY <1>r, <2>1 DEF IInv, TypeOK, Meta
  <2>3. \A k \in Inst \ {i} : \A q \in Req : SameCopy(k, q)
    BY <1>e, <1>3, <2>2 DEF BeginRunning, BeginWaiting, SameCopy, IInv, TypeOK
  <2>4. \A k \in Inst \ {i} : SameJob(k)
    BY <1>e, <1>3 DEF BeginRunning, BeginWaiting, SameJob, jobVars, IInv, TypeOK
  <2>5. CASE BeginRunning(i, cur[i])
    <3>1. pc'[i] = "stage" /\ place'[i][r] = "running" /\ cur'[i] = r /\ dst'[i] = dst[i]
      BY <1>e, <1>r, <2>5 DEF BeginRunning, jobVars, IInv, TypeOK
    <3>2. Whole(i)'
      BY <1>e, <1>r, <2>2, <3>1
         DEF Whole, WaitingWhole, LimitedWhole, LastSending, Sending, Removing
    <3> QED
      BY <1>e, <2>3, <2>4, <3>2, JobFrozen
  <2>6. CASE BeginWaiting(i, cur[i])
    <3>1. /\ pc'[i] = "alloc" /\ num'[i] = meta[i][r].size
          /\ cur'[i] = r /\ dst'[i] = dst[i] /\ stat'[i][r] = "waiting_migrating"
      BY <1>e, <1>r, <2>6 DEF BeginWaiting, WaitingNumBlocks, IInv, TypeOK
    <3>2. Answered(i)'
      BY <1>e, <1>r, <3>1 DEF Answered
    <3>3. Whole(i)'
      BY <2>2, <3>1, <3>2 DEF Whole, WaitingWhole, LimitedWhole, Removing
    <3> QED
      BY <1>e, <2>3, <2>4, <3>3, JobFrozen
  <2> QED
    BY <1>3, <2>5, <2>6
<1> QED
  BY <1>1, <1>2, <1>3 DEF MigrateOutOneRequest

\* A request that has done its expected steps has one stage, the last one, for
\* all blocks it holds.
LEMMA StartStageFrozen ==
  ASSUME IInv, FrozenInv, NEW i \in Inst, StartStage(i)
  PROVE  FrozenInv'
<1>1. CASE stage[i] = MaxStages \/ ShouldAbort(i, cur[i])
  BY <1>1, AbortSrcFrozen DEF StartStage, blockVars
<1>2. CASE ~(stage[i] = MaxStages \/ ShouldAbort(i, cur[i]))
  <2> DEFINE r == cur[i]
             incremental == held[i][r] - meta[i][r].sent
             isLast == incremental <= LastStageMax \/ meta[i][r].limited
  <2>e. /\ pc[i] = "stage"
        /\ num' = [num EXCEPT ![i] = StageNumBlocks(isLast, incremental)]
        /\ last' = [last EXCEPT ![i] = isLast]
        /\ pc' = [pc EXCEPT ![i] = StagePC(isLast)]
        /\ UNCHANGED <<place, stat, held, meta, pre, dst, cur>>
    BY <1>2 DEF StartStage, blockVars
  <2>r. r \in Req /\ held[i][r] \in Nat /\ stat[i][r] = "none"
    BY ZenonT(30), <2>e DEF IInv, JobInv, Unassigned, TypeOK, StageInv, HealthInv
  <2>1. /\ pc'[i] \in {"remove", "alloc"} /\ cur'[i] = r
        /\ meta[i][r].limited => /\ pc'[i] = "remove" /\ last'[i]
                                 /\ num'[i] = incremental
    BY <2>e DEF StageNumBlocks, StagePC, IInv, TypeOK
  <2>2. meta[i][r].limited => /\ place[i][r] # "waiting" /\ meta[i][r].sent = 0
                              /\ pre[dst[i]][r] = 0
    BY <2>e, <2>r DEF FrozenInv, Whole, LimitedWhole, MidMigration
  <2>3. meta[i][r].limited => num'[i] = held[i][r] /\ Answered(i)'
    BY <2>e, <2>r, <2>1, <2>2 DEF Answered
  <2>4. Whole(i)'
    BY <2>e, <2>r, <2>1, <2>2, <2>3 DEF Whole, WaitingWhole, LimitedWhole
  <2>5. \A k \in Inst \ {i} : SameJob(k)
    BY <2>e DEF SameJob, IInv, TypeOK
  <2>6. \A k \in Inst : \A q \in Req : SameCopy(k, q)
    BY <2>e DEF SameCopy
  <2> QED
    BY <2>e, <2>4, <2>5, <2>6, JobFrozen
<1> QED
  BY <1>1, <1>2

\* What is known of a request in the hands of migrate_out.
LEMMA JobReq ==
  ASSUME IInv, NEW i \in Inst, pc[i] \in MidMigration \cup {"abort"}
  PROVE  /\ cur[i] \in Req /\ dst[i] \in Inst /\ dst[i] # i /\ pc[i] # "idle"
         /\ num[i] \in Nat /\ pre[dst[i]][cur[i]] \in Nat
<1>1. cur[i] \in Req /\ dst[i] \in Inst /\ pc[i] # "idle"
  BY DEF IInv, JobInv, Unassigned, MidMigration, Removing, Sending, TypeOK
<1> QED
  BY <1>1 DEF IInv, OneToOne, TypeOK

\* The request leaves its queue; its blocks stay.
LEMMA RemoveFrozen ==
  ASSUME IInv, FrozenInv, NEW i \in Inst, RemoveRunningRequest(i)
  PROVE  FrozenInv'
<1>e. /\ pc[i] \in {"remove", "removeStepped"} /\ pc' = [pc EXCEPT ![i] = "removed"]
      /\ UNCHANGED <<held, pre, meta, dst, jobVars>>
  BY DEF RemoveRunningRequest, blockVars
<1>m. pc[i] \in MidMigration
  BY <1>e DEF MidMigration, Removing
<1>r. PICK r \in Req : r = cur[i] /\ pc[i] # "idle"
  BY <1>m, JobReq
<1>1. pc'[i] = "removed" /\ \A k \in Inst \ {i} : SameJob(k)
  BY <1>e, OtherJobs
<1>2. \A k \in Inst \ {i} : \A q \in Req : SameCopy(k, q)
  BY <1>e DEF RemoveRunningRequest, SameCopy, IInv, TypeOK
<1>3. /\ stat'[i][r] # "waiting_migrating"
      /\ place[i][r] # "waiting" => place'[i][r] # "waiting"
      /\ place[i][r] = "none" => place'[i][r] = "none"
      /\ stat[i][r] # "waiting_migrating"
  <2>1. stat[i][r] # "waiting_migrating"
    BY <1>e, <1>r DEF FrozenInv, Whole, Removing
  <2> QED
    BY <1>r, <2>1 DEF RemoveRunningRequest, IInv, TypeOK
<1>4. Answered(i) => Answered(i)'
  BY <1>e, <1>1 DEF Answered, Removing, jobVars
<1>5. LimitedWhole(i)'
  <2>1. LimitedWhole(i)
    BY DEF FrozenInv, Whole
  <2> QED
    BY <1>e, <1>m, <1>r, <1>1, <1>3, <1>4, <2>1 DEF LimitedWhole, jobVars
<1>6. Whole(i)'
  BY <1>e, <1>r, <1>1, <1>3, <1>5 DEF Whole, WaitingWhole, LastSending, Sending, jobVars
<1> QED
  BY <1>e, <1>r, <1>1, <1>2, <1>6, JobFrozen

\* A stage of i goes on from one await to the next.
LEMMA GoOnFrozen ==
  ASSUME IInv, FrozenInv, NEW i \in Inst, NEW p, pc' = [pc EXCEPT ![i] = p],
         <<pc[i], p>> \in {<<"removed", "alloc">>, <<"allocated", "send">>,
                           <<"allocated", "commit">>, <<"send", "commit">>},
         p = "alloc" \/ last[i] \/ stat[i][cur[i]] # "waiting_migrating",
         \A k \in Inst : \A q \in Req :
           /\ meta'[k][q].limited = meta[k][q].limited
           /\ meta'[k][q].size = meta[k][q].size
           /\ k # i => meta'[k][q].sent = meta[k][q].sent,
         UNCHANGED <<place, stat, held, pre, dst, jobVars>>
  PROVE  FrozenInv'
<1>m. /\ pc[i] \in MidMigration /\ p \in Sending /\ p \in MidMigration /\ p # "stage"
      /\ p \notin Removing
  BY DEF MidMigration, Removing, Sending
<1>r. PICK r \in Req : r = cur[i] /\ pc[i] # "idle"
  BY <1>m, JobReq
<1>1. pc'[i] = p /\ \A k \in Inst \ {i} : SameJob(k)
  BY OtherJobs
<1>2. \A k \in Inst \ {i} : \A q \in Req : SameCopy(k, q)
  BY DEF SameCopy
<1>3. Answered(i) => Answered(i)'
  BY <1>1 DEF Answered, Removing, jobVars
<1>4. LimitedWhole(i)'
  <2>1. LimitedWhole(i)
    BY DEF FrozenInv, Whole
  <2> QED
    BY <1>m, <1>r, <1>1, <1>3, <2>1 DEF LimitedWhole, jobVars
<1>5. WaitingWhole(i)'
  <2>1. WaitingWhole(i) /\ (pc[i] = "removed" => stat[i][r] # "waiting_migrating")
    BY <1>r DEF FrozenInv, Whole, Removing
  <2> QED
    BY <1>m, <1>r, <1>1, <1>3, <2>1 DEF WaitingWhole, LastSending, Sending, jobVars
<1>6. Whole(i)'
  BY <1>m, <1>1, <1>4, <1>5 DEF Whole
<1> QED
  BY <1>r, <1>1, <1>2, <1>6, JobFrozen

\* The request is out of the queue, or the migration ends.
LEMMA AfterRemovalFrozen ==
  ASSUME IInv, FrozenInv, NEW i \in Inst, AfterRemoval(i)
  PROVE  FrozenInv'
<1>1. CASE place[i][cur[i]] = "detached"
  <2>1. /\ pc[i] = "removed" /\ pc' = [pc EXCEPT ![i] = "alloc"] /\ meta' = meta
        /\ UNCHANGED <<place, stat, held, pre, dst, jobVars>>
    BY <1>1 DEF AfterRemoval, blockVars
  <2> QED
    BY <2>1, GoOnFrozen
<1>2. CASE place[i][cur[i]] # "detached"
  BY <1>2, AbortSrcFrozen DEF AfterRemoval, blockVars
<1> QED
  BY <1>1, <1>2

\* The destination has reserved the blocks.
LEMMA AfterAllocatedFrozen ==
  ASSUME IInv, FrozenInv, NEW i \in Inst, AfterAllocated(i)
  PROVE  FrozenInv'
<1>e. pc[i] = "allocated" /\ UNCHANGED <<place, held, pre, dst>>
  BY DEF AfterAllocated, blockVars
<1>r. PICK r \in Req : r = cur[i]
  BY <1>e, JobReq DEF MidMigration, Sending
<1>1. CASE stat[i][r] = "waiting_migrating"
  <2>1. pc' = [pc EXCEPT ![i] = "commit"] /\ UNCHANGED <<stat, meta, jobVars>>
    BY <1>r, <1>1 DEF AfterAllocated
  <2>2. last[i]
    BY <1>e, <1>r, <1>1 DEF IInv, StageInv, HealthInv, Sending
  <2> QED
    BY <1>e, <2>1, <2>2, GoOnFrozen
<1>2. CASE stat[i][r] # "waiting_migrating" /\ ShouldAbort(i, r)
  BY <1>e, <1>r, <1>2, AbortSrcFrozen DEF AfterAllocated
<1>3. CASE stat[i][r] # "waiting_migrating" /\ ~ShouldAbort(i, r)
  <2>1. /\ meta' = [meta EXCEPT ![i][r] =
                       [@ EXCEPT !.sent = meta[i][r].sent + num[i], !.preempted = FALSE]]
        /\ pc' = [pc EXCEPT ![i] = "send"]
        /\ UNCHANGED <<stat, jobVars>>
    BY <1>r, <1>3 DEF AfterAllocated
  <2>2. \A k \in Inst : \A q \in Req :
           /\ meta'[k][q].limited = meta[k][q].limited
           /\ meta'[k][q].size = meta[k][q].size
           /\ k # i => meta'[k][q].sent = meta[k][q].sent
    BY <2>1 DEF IInv, TypeOK, Meta
  <2> QED
    BY <1>e, <1>r, <1>3, <2>1, <2>2, GoOnFrozen
<1> QED
  BY <1>1, <1>2, <1>3

\* Only a request that still runs on has another stage.
LEMMA SendBlocksFrozen ==
  ASSUME IInv, FrozenInv, NEW i \in Inst, SendBlocks(i)
  PROVE  FrozenInv'
<1>e. pc[i] = "send" /\ UNCHANGED <<place, held, pre, dst>>
  BY DEF SendBlocks, blockVars
<1>r. PICK r \in Req : r = cur[i] /\ pc[i] # "idle"
  BY <1>e, JobReq DEF MidMigration, Sending
<1>1. CASE last[i]
  <2>1. pc' = [pc EXCEPT ![i] = "commit"] /\ UNCHANGED <<stat, meta, jobVars>>
    BY <1>1 DEF SendBlocks
  <2> QED
    BY <1>e, <1>1, <2>1, GoOnFrozen
<1>2. CASE ~last[i] /\ ShouldAbort(i, r)
  BY <1>e, <1>r, <1>2, AbortSrcFrozen DEF SendBlocks
<1>3. CASE ~last[i] /\ ~ShouldAbort(i, r)
  <2>1. pc' = [pc EXCEPT ![i] = "stage"] /\ UNCHANGED <<stat, meta, jobVars>>
    BY <1>r, <1>3 DEF SendBlocks
  <2>2. pc'[i] = "stage" /\ \A k \in Inst \ {i} : SameJob(k)
    BY <1>e, <2>1, OtherJobs
  <2>3. stat[i][r] = "none" /\ ~meta[i][r].limited
    <3>1. stat[i][r] = "none"
      BY <1>e, <1>r, <1>3 DEF IInv, StageInv, HealthInv, Sending
    <3>2. LimitedWhole(i)
      BY DEF FrozenInv, Whole
    <3> QED
      BY <1>e, <1>r, <1>3, <3>1, <3>2 DEF LimitedWhole, MidMigration, Sending
  <2>4. Whole(i)'
    BY <1>r, <2>1, <2>2, <2>3
       DEF Whole, WaitingWhole, LimitedWhole, LastSending, Sending, Removing, jobVars
  <2>5. \A k \in Inst : \A q \in Req : SameCopy(k, q)
    BY <1>e, <2>1 DEF SameCopy
  <2> QED
    BY <1>e, <1>r, <2>2, <2>4, <2>5, JobFrozen
<1> QED
  BY <1>1, <1>2, <1>3

\* The destination answers with exactly the blocks of the one stage.
LEMMA PreAllocFrozen ==
  ASSUME IInv, FrozenInv, NEW i \in Inst, MigrateInPreAlloc(i)
  PROVE  FrozenInv'
<1>e. /\ pc[i] = "alloc" /\ UNCHANGED <<place, stat, meta, held, dst, jobVars>>
      /\ PreAllocOK(i, dst[i], cur[i]) \/ PreAllocRefused(i, dst[i], cur[i])
  BY DEF MigrateInPreAlloc, queueVars
<1>m. pc[i] \in MidMigration /\ pc[i] \in Sending
  BY <1>e DEF MidMigration, Sending
<1>r. PICK r \in Req : r = cur[i] /\ pc[i] # "idle" /\ num[i] \in Nat /\ dst[i] \in Inst
  BY <1>m, JobReq
<1>1. PICK p \in {"allocated", "refused"} :
        /\ pc' = [pc EXCEPT ![i] = p]
        /\ p = "allocated" => PreAllocOK(i, dst[i], r)
        /\ p = "refused" => PreAllocRefused(i, dst[i], r)
  BY <1>e, <1>r DEF PreAllocOK, PreAllocRefused
<1>n. PICK n : /\ pre' = [pre EXCEPT ![dst[i]][r] = n]
               /\ p = "allocated" => n >= num[i] /\ n = PreAllocLen(dst[i], r, num[i])
  <2>1. CASE p = "allocated"
    BY <1>1, <2>1 DEF PreAllocOK
  <2>2. CASE p = "refused"
    BY <1>1, <2>2 DEF PreAllocRefused
  <2> QED
    BY <1>1, <2>1, <2>2
<1>2. pc'[i] = p /\ \A k \in Inst \ {i} : SameJob(k)
  BY <1>e, <1>1, OtherJobs
<1>3. /\ pre'[dst[i]][r] = n /\ \A j \in Inst \ {dst[i]} : pre'[j] = pre[j]
      /\ dst'[i] = dst[i] /\ cur'[i] = r /\ num'[i] = num[i] /\ last'[i] = last[i]
  BY <1>e, <1>r, <1>n DEF IInv, TypeOK, jobVars
<1>4. Answered(i) => Answered(i)'
  <2>1. p = "allocated" /\ pre[dst[i]][r] = 0 => n = num[i]
    BY <1>r, <1>n DEF PreAllocLen
  <2> QED
    BY <1>e, <1>r, <1>2, <1>3, <2>1 DEF Answered, Removing
<1>5. WaitingWhole(i)' /\ LimitedWhole(i)'
  <2>1. WaitingWhole(i) /\ LimitedWhole(i)
    BY DEF FrozenInv, Whole
  <2>2. WaitingWhole(i)'
    BY <1>e, <1>m, <1>r, <1>2, <1>3, <1>4, <2>1 DEF WaitingWhole, LastSending
  <2>3. LimitedWhole(i)'
    BY <1>e, <1>m, <1>r, <1>2, <1>3, <1>4, <2>1 DEF LimitedWhole
  <2> QED
    BY <2>2, <2>3
<1>6. Whole(i)'
  BY <1>2, <1>5 DEF Whole, Removing
<1>7. \A k \in Inst : \A q \in Req : SameCopy(k, q)
  BY <1>e DEF SameCopy
<1> QED
  BY <1>r, <1>2, <1>3, <1>6, <1>7, JobFrozen

\* The commit is the destination's affair.
LEMMA CommitFrozen ==
  ASSUME IInv, FrozenInv, NEW i \in Inst, CommitDstRequest(i)
  PROVE  FrozenInv'
<1>e. pc[i] = "commit" /\ UNCHANGED <<dst, jobVars>>
  BY DEF CommitDstRequest
<1>m. pc[i] \in MidMigration /\ pc[i] \in Sending
  BY <1>e DEF MidMigration, Sending
<1>r. PICK r \in Req : r = cur[i] /\ pc[i] # "idle" /\ dst[i] \in Inst /\ dst[i] # i
  BY <1>m, JobReq
<1>1. PICK p \in {"raised", "committed"} : pc' = [pc EXCEPT ![i] = p]
  BY DEF CommitDstRequest
<1>2. pc'[i] = p /\ \A k \in Inst \ {i} : SameJob(k)
  BY <1>e, <1>1, OtherJobs
<1>3. /\ \A k \in Inst \ {dst[i]} : /\ place'[k] = place[k] /\ stat'[k] = stat[k]
                                    /\ held'[k] = held[k] /\ meta'[k] = meta[k]
      /\ \A j \in Inst \ {dst[i]} : pre'[j] = pre[j]
  <2>1. CASE pre[dst[i]][r] = 0
    BY <1>r, <2>1 DEF CommitDstRequest
  <2>2. CASE pre[dst[i]][r] # 0
    <3>1. /\ held' = [held EXCEPT ![dst[i]][r] = pre[dst[i]][r]]
          /\ meta' = [meta EXCEPT ![dst[i]][r] = NewMeta(meta[i][r].size, FALSE)]
          /\ pre' = [pre EXCEPT ![dst[i]][r] = 0]
      BY <1>r, <2>2 DEF CommitDstRequest
    <3>2. PICK a : place' = [place EXCEPT ![dst[i]][r] = a]
      BY <1>r, <2>2 DEF CommitDstRequest
    <3>3. PICK s : stat' = [stat EXCEPT ![dst[i]][r] = s]
      BY <1>r, <2>2 DEF CommitDstRequest
    <3> QED
      BY <1>r, <3>1, <3>2, <3>3 DEF IInv, TypeOK
  <2> QED
    BY <2>1, <2>2
<1>4. \A k \in Inst \ {i, dst[i]} : \A q \in Req : SameCopy(k, q)
  BY <1>3 DEF SameCopy
<1>5. Answered(i)'
  BY <1>2 DEF Answered, Removing
<1>6. WaitingWhole(i)' /\ LimitedWhole(i)'
  <2>1. WaitingWhole(i) /\ LimitedWhole(i)
    BY DEF FrozenInv, Whole
  <2>2. WaitingWhole(i)'
    BY <1>e, <1>m, <1>r, <1>2, <1>3, <1>5, <2>1 DEF WaitingWhole, LastSending, jobVars
  <2>3. LimitedWhole(i)'
    BY <1>e, <1>m, <1>r, <1>2, <1>3, <1>5, <2>1 DEF LimitedWhole, jobVars
  <2> QED
    BY <2>2, <2>3
<1>7. Whole(i)'
  BY <1>2, <1>6 DEF Whole, Removing
<1> QED
  BY <1>r, <1>2, <1>3, <1>4, <1>7, JobFrozen

\* The ends of a migration.
LEMMA EndsFrozen ==
  ASSUME IInv, FrozenInv, NEW i \in Inst,
         AfterRefused(i) \/ AfterCommit(i) \/ AfterAbort(i)
  PROVE  FrozenInv'
<1>1. pc[i] # "idle" /\ dst' = dst
  BY DEF AfterRefused, AfterCommit, AfterAbort
<1>2. \E g \in BOOLEAN : Advance(i, g) \/ Raise(i)
  BY DEF AfterRefused, AfterCommit, AfterAbort
<1>3. \A j \in Inst \ {dst[i]} : pre'[j] = pre[j]
  BY DEF AfterRefused, AfterCommit, AfterAbort, FreeDstPreAllocCache, blockVars,
         IInv, TypeOK
<1>4. \A k \in Inst \ {i} : /\ place'[k] = place[k] /\ stat'[k] = stat[k]
                            /\ held'[k] = held[k] /\ meta'[k] = meta[k]
  <2>1. CASE AfterRefused(i)
    BY <2>1 DEF AfterRefused, ResetSrc, blockVars, IInv, TypeOK
  <2>2. CASE AfterCommit(i)
    BY ZenonT(30), <2>2 DEF AfterCommit, IInv, TypeOK
  <2>3. CASE AfterAbort(i)
    BY <2>3 DEF AfterAbort, queueVars
  <2> QED
    BY <2>1, <2>2, <2>3
<1>5. \A k \in Inst \ {i} : \A q \in Req : SameCopy(k, q)
  BY <1>4 DEF SameCopy
<1> QED
  BY <1>1, <1>2, <1>3, <1>5, AdvanceFrozen

\* Every step keeps the stages whole.
LEMMA NextFrozen == IInv /\ FrozenInv /\ [Next]_vars => FrozenInv'
<1> SUFFICES ASSUME IInv, FrozenInv, [Next]_vars PROVE FrozenInv'
  OBVIOUS
<1>1. CASE UNCHANGED vars
  BY <1>1 DEF vars, FrozenInv, Whole, WaitingWhole, LimitedWhole, Answered, LastSending
<1>2. CASE Next
  <2>1. PICK i \in Inst :
          \/ ClientStep(i) \/ EngineStep(i) \/ SrcStep(i) \/ CallStep(i)
          \/ MigrateDone(i) \/ \E j \in Inst : PushMigration(i, j)
    BY <1>2 DEF Next
  <2>2. CASE EngineStep(i) \/ ClientStep(i)
    <3>1. PICK r \in Req :
            \/ Admit(i, r) \/ Grow(i, r) \/ Preempt(i, r) \/ Finish(i, r)
            \/ FinishRemoved(i, r) \/ AddRequest(i, r) \/ AbortRequest(i, r)
      BY <2>2 DEF EngineStep, ClientStep
    <3>2. CASE Finish(i, r) \/ FinishRemoved(i, r) \/ AbortRequest(i, r)
      <4>1. Retire(i, r) /\ (place[i][r] # "detached" \/ pc[i] = "removed")
        BY <3>2 DEF Finish, FinishRemoved, AbortRequest
      <4> QED
        BY <4>1, RetireFrozen
    <3> QED
      BY <3>1, <3>2, AdmitFrozen, GrowFrozen, PreemptFrozen, AddRequestFrozen
  <2>3. CASE MigrateDone(i) \/ (\E j \in Inst : PushMigration(i, j)) \/ MigrateOut(i)
    BY <2>3, ManagerFrozen
  <2>4. CASE \/ MigrateOutOneRequest(i) \/ StartStage(i) \/ RemoveRunningRequest(i)
             \/ AfterRemoval(i) \/ AfterAllocated(i) \/ SendBlocks(i)
    BY <2>4, BeginFrozen, StartStageFrozen, RemoveFrozen, AfterRemovalFrozen,
       AfterAllocatedFrozen, SendBlocksFrozen
  <2>5. CASE \/ AfterRefused(i) \/ AfterCommit(i) \/ AfterAbort(i)
             \/ CommitDstRequest(i) \/ MigrateInPreAlloc(i)
    BY <2>5, EndsFrozen, CommitFrozen, PreAllocFrozen
  <2> QED
    BY <2>1, <2>2, <2>3, <2>4, <2>5 DEF SrcStep, CallStep, DstStep
<1> QED
  BY <1>1, <1>2

\* What is committed is complete when it cannot change under way: a waiting
\* request finds blocks for all its tokens at the destination, a request that
\* has done its expected steps as many as it holds at the source.
THEOREM FrozenCommitCompleteHolds == Spec => []FrozenCommitComplete
<1>1. Init => FrozenInv
  BY DEF Init, FrozenInv, Whole, WaitingWhole, LimitedWhole, LastSending, MidMigration,
         Removing, Sending
<1>2. IInv /\ FrozenInv => FrozenCommitComplete
  <2> SUFFICES ASSUME IInv, FrozenInv, NEW i \in Inst, pc[i] = "commit"
               PROVE  /\ stat[i][cur[i]] = "waiting_migrating"
                           => pre[dst[i]][cur[i]] = meta[i][cur[i]].size
                      /\ stat[i][cur[i]] = "running_migrating" /\ meta[i][cur[i]].limited
                           => pre[dst[i]][cur[i]] = held[i][cur[i]]
    BY DEF FrozenCommitComplete
  <2>1. LastSending(i) /\ pc[i] \in MidMigration
    BY DEF IInv, JobInv, LastSending, Sending, MidMigration
  <2>2. WaitingWhole(i) /\ LimitedWhole(i)
    BY DEF FrozenInv, Whole
  <2>3. place[i][cur[i]] = "detached"
    BY <2>1 DEF IInv, PlaceInv
  <2> QED
    BY <2>1, <2>2, <2>3 DEF WaitingWhole, LimitedWhole, Answered
<1> QED
  BY <1>1, <1>2, NextFrozen, InductiveInvariant, PTL DEF Spec

----------------------------------------------------------------------------
(***************************************************************************)
(* is_migrating ends with the migration.                                   *)
(***************************************************************************)

\* A step that marks no request, and after which the marked ones are still
\* among those that migrate_out goes through.
LEMMA FlagKept ==
  ASSUME FlagInv, eom' = eom,
         \A k \in Inst, q \in Req : Marked(k, q)' =>
           /\ Marked(k, q) /\ stat'[k][q] \in {"none", stat[k][q]}
           /\ Listed(k, q) => Listed(k, q)'
  PROVE  FlagInv'
<1>1. ASSUME NEW k \in Inst, NEW q \in Req, Marked(k, q)'
      PROVE  stat'[k][q] = "none" /\ Listed(k, q)'
  BY <1>1 DEF FlagInv
<1> QED
  BY <1>1 DEF FlagInv

\* The same for a step of the coroutine of i within a migration.
LEMMA FlagMoves ==
  ASSUME IInv, FlagInv, NEW i \in Inst, NEW p, p \notin Unassigned, p # "abort",
         pc' = [pc EXCEPT ![i] = p], UNCHANGED <<eom, cur, todo>>,
         \A k \in Inst, q \in Req : Marked(k, q)' =>
           Marked(k, q) /\ stat'[k][q] \in {"none", stat[k][q]}
  PROVE  FlagInv'
<1>1. \A k \in Inst, q \in Req : Listed(k, q) => Listed(k, q)'
  BY DEF Listed, IInv, TypeOK
<1> QED
  BY <1>1, FlagKept

\* The engine marks no request.
LEMMA EngineFlag ==
  ASSUME IInv, FlagInv, NEW i \in Inst, NEW r \in Req,
         \/ Admit(i, r) \/ Grow(i, r) \/ Preempt(i, r) \/ AddRequest(i, r) \/ Retire(i, r)
  PROVE  FlagInv'
<1>t. UNCHANGED <<eom, cur, todo>>
  BY DEF Admit, Grow, Preempt, AddRequest, Retire, jobVars
<1>1. \A k \in Inst, q \in Req : Listed(k, q) => Listed(k, q)'
  <2>1. pc' = pc \/ (pc[i] = "remove" /\ pc' = [pc EXCEPT ![i] = "removeStepped"])
    <3>1. pc' = pc \/ StepTaken(i, r)
      BY DEF Admit, Grow, Preempt, AddRequest, Retire
    <3>2. CASE pc[i] = "remove" /\ cur[i] = r
      BY <3>1, <3>2 DEF StepTaken
    <3>3. CASE ~(pc[i] = "remove" /\ cur[i] = r)
      BY <3>1, <3>3 DEF StepTaken, IInv, TypeOK
    <3> QED
      BY <3>2, <3>3
  <2> QED
    BY <1>t, <2>1 DEF Listed, Unassigned, IInv, TypeOK
<1>2. \A k \in Inst, q \in Req : stat'[k][q] \in {"none", stat[k][q]}
  <2>1. stat' = stat \/ stat' = [stat EXCEPT ![i][r] = "none"]
    BY DEF Admit, Grow, Preempt, AddRequest, Retire
  <2>2. CASE stat' = stat
    BY <2>2
  <2>3. CASE stat' = [stat EXCEPT ![i][r] = "none"]
    BY <2>3 DEF IInv, TypeOK
  <2> QED
    BY <2>1, <2>2, <2>3
<1>3. \A k \in Inst, q \in Req : Marked(k, q)' => Marked(k, q)
  <2>1. CASE Admit(i, r)
    BY <2>1 DEF Admit, Marked, Runnable, IInv, TypeOK
  <2>2. CASE Grow(i, r)
    <3>1. PICK n : meta' = [meta EXCEPT ![i][r].size = n]
      BY <2>2 DEF Grow
    <3>2. \A k \in Inst, q \in Req : meta'[k][q].mig = meta[k][q].mig
      BY <3>1 DEF IInv, TypeOK, Meta
    <3> QED
      BY <2>2, <3>2 DEF Grow, Marked, Runnable
  <2>3. CASE Preempt(i, r)
    <3>1. \A k \in Inst, q \in Req : meta'[k][q].mig = meta[k][q].mig
      BY <2>3 DEF Preempt, IInv, TypeOK, Meta
    <3> QED
      BY <2>3, <3>1 DEF Preempt, Marked, Runnable, IInv, TypeOK
  <2>4. CASE AddRequest(i, r)
    <3>1. PICK b : meta' = [meta EXCEPT ![i][r] = NewMeta(b, Prefill # {})]
      BY <2>4 DEF AddRequest
    <3>2. /\ ~meta'[i][r].mig
          /\ \A k \in Inst, q \in Req : k # i \/ q # r => meta'[k][q] = meta[k][q]
      BY <3>1 DEF NewMeta, IInv, TypeOK
    <3> QED
      BY <2>4, <3>2 DEF AddRequest, Marked, Runnable, IInv, TypeOK
  <2>5. CASE Retire(i, r)
    <3>1. \A k \in Inst, q \in Req : k # i \/ q # r => meta'[k][q] = meta[k][q]
      BY <2>5 DEF Retire, IInv, TypeOK
    <3> QED
      BY <2>5, <3>1 DEF Retire, Marked, Runnable, IInv, TypeOK
  <2> QED
    BY <2>1, <2>2, <2>3, <2>4, <2>5
<1> QED
  BY <1>t, <1>1, <1>2, <1>3, FlagKept

\* The manager starts and ends a migration when no request of it is marked.
LEMMA ManagerFlag ==
  ASSUME IInv, FlagInv, NEW i \in Inst,
         MigrateDone(i) \/ \E j \in Inst : PushMigration(i, j)
  PROVE  FlagInv'
<1>1. /\ pc[i] \in Unassigned /\ UNCHANGED <<place, stat, meta, eom, cur, todo>>
      /\ \A k \in Inst \ {i} : pc'[k] = pc[k]
  BY DEF MigrateDone, PushMigration, Unassigned, queueVars, jobVars, IInv, TypeOK
<1>2. \A q \in Req : ~Marked(i, q)
  BY <1>1 DEF FlagInv, Listed
<1>3. \A k \in Inst, q \in Req : Marked(k, q)' = Marked(k, q)
  BY <1>1 DEF Marked, Runnable
<1>4. \A k \in Inst \ {i}, q \in Req : Listed(k, q) => Listed(k, q)'
  BY <1>1 DEF Listed
<1> QED
  BY <1>1, <1>2, <1>3, <1>4, FlagKept

\* With a policy that looks at running requests only, migrate_out marks
\* requests that are not in a last stage, and goes through all of them.
LEMMA ChosenRunning ==
  ASSUME Policy \in {"LCR", "LR", "SR"}, NEW i, NEW D, NEW c \in MigrateOutChoices(i, D)
  PROVE  \A r \in {c[1]} \cup c[2] : stat[i][r] = "none"
<1>1. /\ \A r \in Required(i, D) : stat[i][r] = "none"
      /\ \A r \in FilteredRunning(i, D) : stat[i][r] = "none"
  BY DEF Required, FilteredRunning
<1> HIDE DEF Required, FilteredRunning, FirstWaiting
<1>2. \/ \E r \in Required(i, D) : c = <<r, Required(i, D) \ {r}>>
      \/ \E r \in FilteredRunning(i, D) : c = <<r, {}>>
  BY DEF MigrateOutChoices
<1> QED
  BY <1>1, <1>2

\* So everything that migrate_out marks is in its loop.
LEMMA MigrateOutFlag ==
  ASSUME Policy \in {"LCR", "LR", "SR"}, IInv, FlagInv, NEW i \in Inst, MigrateOut(i)
  PROVE  FlagInv'
<1>e. pc[i] = "called" /\ UNCHANGED <<place, stat>>
  BY DEF MigrateOut
<1>n. \A q \in Req : ~Marked(i, q)
  BY <1>e DEF FlagInv, Listed, Unassigned
<1>1. PICK D \in SUBSET Req : MigrateNone(i, D) \/ MigrateSome(i, D)
  BY DEF MigrateOut
<1>2. CASE MigrateNone(i, D)
  <2>1. \A k \in Inst, q \in Req : Marked(k, q)' = Marked(k, q)
    BY <1>e, <1>2 DEF MigrateNone, Marked, Runnable
  <2>2. \A k \in Inst \ {i}, q \in Req : Listed(k, q) => Listed(k, q)'
    BY <1>2 DEF MigrateNone, Listed, IInv, TypeOK
  <2> QED
    BY <1>e, <1>n, <1>2, <2>1, <2>2, FlagKept DEF MigrateNone
<1>3. CASE MigrateSome(i, D)
  <2>1. PICK c \in MigrateOutChoices(i, D) :
          /\ MarkMigrating(i, {c[1]} \cup c[2])
          /\ cur' = [cur EXCEPT ![i] = c[1]]
          /\ todo' = [todo EXCEPT ![i] = c[2]]
          /\ eom' = eom
          /\ pc' = [pc EXCEPT ![i] = "next"]
    BY <1>3 DEF MigrateSome
  <2>2. \A r \in {c[1]} \cup c[2] : stat[i][r] = "none"
    BY ChosenRunning
  <2>3. /\ \A k \in Inst \ {i} : meta'[k] = meta[k]
        /\ \A q \in Req : q \notin {c[1]} \cup c[2] => meta'[i][q] = meta[i][q]
    BY <2>1 DEF MarkMigrating, IInv, TypeOK
  <2>4. ASSUME NEW k \in Inst \ {i}, NEW q \in Req, Marked(k, q)'
        PROVE  stat'[k][q] = "none" /\ Listed(k, q)'
    <3>1. Marked(k, q)
      BY <1>e, <2>3, <2>4 DEF Marked, Runnable
    <3>2. stat[k][q] = "none" /\ Listed(k, q)
      BY <3>1 DEF FlagInv
    <3> QED
      BY <1>e, <2>1, <3>2 DEF Listed, IInv, TypeOK
  <2>5. ASSUME NEW q \in Req, Marked(i, q)'
        PROVE  stat'[i][q] = "none" /\ Listed(i, q)'
    <3>1. q \in {c[1]} \cup c[2]
      BY <1>e, <1>n, <2>3, <2>5 DEF Marked, Runnable
    <3>2. pc'[i] = "next" /\ cur'[i] = c[1] /\ todo'[i] = c[2]
      BY <2>1 DEF IInv, TypeOK
    <3> QED
      BY <1>e, <2>2, <3>1, <3>2 DEF Listed, Unassigned
  <2> QED
    BY <2>1, <2>4, <2>5 DEF FlagInv
<1> QED
  BY <1>1, <1>2, <1>3

\* ABORTED_SRC unmarks the request.
LEMMA AbortSrcFlag ==
  ASSUME IInv, FlagInv, NEW i \in Inst, cur[i] \in Req, AbortSrc(i, cur[i]),
         UNCHANGED <<place, eom>>
  PROVE  FlagInv'
<1>r. PICK r \in Req : r = cur[i]
  OBVIOUS
<1>1. /\ ~meta'[i][r].mig
      /\ \A k \in Inst, q \in Req : k # i \/ q # r => meta'[k][q] = meta[k][q]
      /\ \A k \in Inst, q \in Req : stat'[k][q] \in {"none", stat[k][q]}
  BY <1>r DEF AbortSrc, ResetSrc, IInv, TypeOK, Meta
<1>2. \A k \in Inst, q \in Req : k # i \/ q # r => (Listed(k, q) => Listed(k, q)')
  BY <1>r DEF AbortSrc, jobVars, Listed, Unassigned, IInv, TypeOK
<1>3. \A k \in Inst, q \in Req : Marked(k, q)' => Marked(k, q) /\ (k # i \/ q # r)
  BY <1>1 DEF Marked, Runnable
<1> QED
  BY <1>1, <1>2, <1>3, FlagKept

\* The coroutine leaves a request that is not marked any more.
LEMMA AdvanceFlag ==
  ASSUME IInv, FlagInv, NEW i \in Inst, NEW g, Advance(i, g), eom' = eom,
         \A q \in Req : Marked(i, q)' => q # cur[i] \/ pc[i] = "abort",
         \A k \in Inst, q \in Req : Marked(k, q)' =>
           Marked(k, q) /\ stat'[k][q] \in {"none", stat[k][q]}
  PROVE  FlagInv'
<1>1. \A k \in Inst \ {i}, q \in Req : Listed(k, q) => Listed(k, q)'
  <2>1. \A k \in Inst \ {i} : pc'[k] = pc[k] /\ cur'[k] = cur[k] /\ todo'[k] = todo[k]
    BY DEF Advance, IInv, TypeOK
  <2> QED
    BY <2>1 DEF Listed
<1>2. ASSUME NEW q \in Req, Marked(i, q)', Listed(i, q)
      PROVE  Listed(i, q)'
  <2>1. q \in todo[i] /\ eom = {}
    BY <1>2 DEF Listed, FlagInv
  <2>2. PICK r \in todo[i] :
          /\ pc' = [pc EXCEPT ![i] = "next"]
          /\ cur' = [cur EXCEPT ![i] = r]
          /\ todo' = [todo EXCEPT ![i] = @ \ {r}]
    BY <2>1 DEF Advance
  <2> QED
    BY <2>1, <2>2 DEF Listed, Unassigned, IInv, TypeOK
<1> QED
  BY <1>1, <1>2, FlagKept

\* The stages of a migration: a request is marked when it is chosen and not
\* again, and unmarked when it is aborted.
LEMMA StageFlag ==
  ASSUME IInv, FlagInv, NEW i \in Inst,
         \/ MigrateOutOneRequest(i) \/ StartStage(i) \/ RemoveRunningRequest(i)
         \/ AfterRemoval(i) \/ AfterAllocated(i) \/ SendBlocks(i)
  PROVE  FlagInv'
<1>e. pc[i] \notin Unassigned /\ pc[i] # "abort" /\ eom' = eom
  BY DEF MigrateOutOneRequest, StartStage, RemoveRunningRequest, AfterRemoval,
         AfterAllocated, SendBlocks, Unassigned
<1>r. PICK r \in Req : r = cur[i]
  BY <1>e DEF IInv, JobInv, TypeOK
<1>1. CASE AbortSrc(i, r) /\ place' = place
  BY <1>e, <1>r, <1>1, AbortSrcFlag
<1>2. CASE BeginSkipped(i, r)
  <2>1. Advance(i, FALSE) /\ UNCHANGED <<place, stat, meta>>
    BY <1>2 DEF BeginSkipped
  <2>2. \A k \in Inst, q \in Req : Marked(k, q)' = Marked(k, q)
    BY <2>1 DEF Marked, Runnable
  <2>3. ~Marked(i, r)
    BY <1>2 DEF BeginSkipped, FlagInv, Marked, Runnable
  <2> QED
    BY <1>e, <1>r, <2>1, <2>2, <2>3, AdvanceFlag
<1>3. ASSUME NEW p \in {"stage", "alloc", "remove", "removed", "send", "commit"},
             pc' = [pc EXCEPT ![i] = p], UNCHANGED <<cur, todo>>,
             \A k \in Inst, q \in Req : meta'[k][q].mig = meta[k][q].mig,
             \A k \in Inst, q \in Req : k # i \/ q # r =>
               place'[k][q] = place[k][q] /\ stat'[k][q] = stat[k][q],
             place'[i][r] = "detached" \/ (place' = place /\ stat' = stat)
      PROVE  FlagInv'
  <2>1. \A k \in Inst, q \in Req : Marked(k, q)' =>
           Marked(k, q) /\ stat'[k][q] \in {"none", stat[k][q]}
    BY <1>3 DEF Marked, Runnable
  <2> QED
    BY <1>e, <1>3, <2>1, FlagMoves DEF Unassigned
<1>4. CASE BeginRunning(i, r) \/ BeginWaiting(i, r)
  <2>1. \A k \in Inst, q \in Req : meta'[k][q].mig = meta[k][q].mig
    <3>1. StartTime(i, r)
      BY <1>4 DEF BeginRunning, BeginWaiting
    <3> QED
      BY <3>1 DEF StartTime, IInv, TypeOK, Meta
  <2>2. CASE BeginRunning(i, r)
    BY <1>3, <2>1, <2>2 DEF BeginRunning, jobVars
  <2>3. CASE BeginWaiting(i, r)
    <3>1. \A k \in Inst, q \in Req : k # i \/ q # r =>
            place'[k][q] = place[k][q] /\ stat'[k][q] = stat[k][q]
      BY <2>3 DEF BeginWaiting, IInv, TypeOK
    <3>2. place'[i][r] = "detached"
      BY <2>3 DEF BeginWaiting, IInv, TypeOK
    <3> QED
      BY <1>3, <2>1, <2>3, <3>1, <3>2 DEF BeginWaiting
  <2> QED
    BY <1>4, <2>2, <2>3
<1>5. CASE MigrateOutOneRequest(i)
  BY <1>r, <1>1, <1>2, <1>4, <1>5 DEF MigrateOutOneRequest, BeginOverLimit
<1>6. CASE StartStage(i) /\ ~AbortSrc(i, r)
  <2>1. \E b \in BOOLEAN : pc' = [pc EXCEPT ![i] = StagePC(b)]
    <3>1. (held[i][r] - meta[i][r].sent <= LastStageMax \/ meta[i][r].limited) \in BOOLEAN
      OBVIOUS
    <3> QED
      BY <1>r, <1>6, <3>1 DEF StartStage
  <2>2. PICK p \in {"remove", "alloc"} : pc' = [pc EXCEPT ![i] = p]
    BY <2>1 DEF StagePC
  <2>3. UNCHANGED <<place, stat, meta, cur, todo>>
    BY <1>r, <1>6 DEF StartStage
  <2> QED
    BY <1>3, <2>2, <2>3
<1>7. CASE RemoveRunningRequest(i)
  <2>1. CASE place[i][r] = "running"
    <3>1. \A k \in Inst, q \in Req : k # i \/ q # r =>
            place'[k][q] = place[k][q] /\ stat'[k][q] = stat[k][q]
      BY <1>r, <1>7, <2>1 DEF RemoveRunningRequest, IInv, TypeOK
    <3>2. place'[i][r] = "detached"
      BY <1>r, <1>7, <2>1 DEF RemoveRunningRequest, IInv, TypeOK
    <3> QED
      BY <1>3, <1>7, <3>1, <3>2 DEF RemoveRunningRequest, jobVars
  <2>2. CASE place[i][r] # "running"
    BY <1>r, <1>3, <1>7, <2>2 DEF RemoveRunningRequest, jobVars
  <2> QED
    BY <2>1, <2>2
<1>8. CASE AfterRemoval(i) /\ ~AbortSrc(i, r)
  BY <1>r, <1>3, <1>8 DEF AfterRemoval, jobVars
<1>9. CASE AfterAllocated(i) /\ ~AbortSrc(i, r)
  <2>1. \A k \in Inst, q \in Req : meta'[k][q].mig = meta[k][q].mig
    <3>1. \/ meta' = meta
          \/ meta' = [meta EXCEPT ![i][r] = [@ EXCEPT !.sent = meta[i][r].sent + num[i],
                                                     !.preempted = FALSE]]
      BY <1>r, <1>9 DEF AfterAllocated
    <3>2. CASE meta' = meta
      BY <3>2
    <3>3. CASE meta' = [meta EXCEPT ![i][r] = [@ EXCEPT !.sent = meta[i][r].sent + num[i],
                                                       !.preempted = FALSE]]
      BY <3>3 DEF IInv, TypeOK, Meta
    <3> QED
      BY <3>1, <3>2, <3>3
  <2>2. PICK p \in {"commit", "send"} : pc' = [pc EXCEPT ![i] = p]
    BY <1>r, <1>9 DEF AfterAllocated
  <2>3. UNCHANGED <<place, stat, cur, todo>>
    BY <1>r, <1>9 DEF AfterAllocated, jobVars
  <2> QED
    BY <1>3, <2>1, <2>2, <2>3
<1>10. CASE SendBlocks(i) /\ ~AbortSrc(i, r)
  BY <1>r, <1>3, <1>10 DEF SendBlocks, jobVars
<1>11. StartStage(i) \/ AfterRemoval(i) \/ AfterAllocated(i) \/ SendBlocks(i)
         => place' = place
  BY DEF StartStage, AfterRemoval, AfterAllocated, SendBlocks
<1> QED
  BY <1>1, <1>5, <1>6, <1>7, <1>8, <1>9, <1>10, <1>11

\* The destination's side: the copy that arrives is not marked.
LEMMA DstFlag ==
  ASSUME IInv, FlagInv, NEW i \in Inst, DstStep(i)
  PROVE  FlagInv'
<1>1. CASE MigrateInPreAlloc(i)
  <2>1. UNCHANGED <<place, stat, meta, eom, cur, todo>>
    BY <1>1 DEF MigrateInPreAlloc, queueVars, jobVars
  <2>2. PICK p \in {"allocated", "refused"} : pc' = [pc EXCEPT ![i] = p]
    BY <1>1 DEF MigrateInPreAlloc, PreAllocOK, PreAllocRefused
  <2>3. \A k \in Inst, q \in Req : Marked(k, q)' = Marked(k, q)
    BY <2>1 DEF Marked, Runnable
  <2> QED
    BY <2>1, <2>2, <2>3, FlagMoves DEF Unassigned
<1>2. CASE CommitDstRequest(i)
  <2>e. pc[i] = "commit" /\ UNCHANGED <<eom, cur, todo>>
    BY <1>2 DEF CommitDstRequest, jobVars
  <2>r. PICK r \in Req : r = cur[i]
    BY <2>e DEF IInv, JobInv, Unassigned, TypeOK
  <2>j. PICK j \in Inst : j = dst[i]
    BY DEF IInv, TypeOK
  <2>1. PICK p \in {"raised", "committed"} : pc' = [pc EXCEPT ![i] = p]
    BY <1>2 DEF CommitDstRequest
  <2>2. CASE pre[j][r] = 0
    <3>1. \A k \in Inst, q \in Req : Marked(k, q)' = Marked(k, q)
      BY <1>2, <2>r, <2>j, <2>2 DEF CommitDstRequest, Marked, Runnable
    <3>2. stat' = stat
      BY <1>2, <2>r, <2>j, <2>2 DEF CommitDstRequest
    <3> QED
      BY <2>e, <2>1, <3>1, <3>2, FlagMoves DEF Unassigned
  <2>3. CASE pre[j][r] # 0
    <3>1. meta' = [meta EXCEPT ![j][r] = NewMeta(meta[i][r].size, FALSE)]
      BY <1>2, <2>r, <2>j, <2>3 DEF CommitDstRequest
    <3>2. PICK a : place' = [place EXCEPT ![j][r] = a]
      BY <1>2, <2>r, <2>j, <2>3 DEF CommitDstRequest
    <3>3. PICK s : stat' = [stat EXCEPT ![j][r] = s]
      BY <1>2, <2>r, <2>j, <2>3 DEF CommitDstRequest
    <3>4. /\ ~meta'[j][r].mig
          /\ \A k \in Inst, q \in Req : k # j \/ q # r =>
               /\ meta'[k][q] = meta[k][q] /\ place'[k][q] = place[k][q]
               /\ stat'[k][q] = stat[k][q]
      BY <3>1, <3>2, <3>3 DEF NewMeta, IInv, TypeOK
    <3>5. \A k \in Inst, q \in Req : Marked(k, q)' =>
             Marked(k, q) /\ stat'[k][q] \in {"none", stat[k][q]}
      BY <3>4 DEF Marked, Runnable
    <3> QED
      BY <2>e, <2>1, <3>5, FlagMoves DEF Unassigned
  <2> QED
    BY <2>2, <2>3
<1> QED
  BY <1>1, <1>2 DEF DstStep

\* The ends of a migration: the request is reset, or gone.
LEMMA EndsFlag ==
  ASSUME IInv, FlagInv, NEW i \in Inst,
         AfterRefused(i) \/ AfterCommit(i) \/ AfterAbort(i)
  PROVE  FlagInv'
<1>e. pc[i] \in {"refused", "committed", "abort"} /\ eom' = eom
  BY DEF AfterRefused, AfterCommit, AfterAbort, queueVars
<1>r. PICK r \in Req : r = cur[i]
  BY <1>e DEF IInv, JobInv, Unassigned, TypeOK
<1>l. pc[i] \in {"refused", "committed"} /\ last[i] => r \in lastStage[i]
  BY <1>e, <1>r DEF IInv, PlaceInv, LastSending, Sending
<1>1. CASE AfterAbort(i)
  <2>1. \A k \in Inst, q \in Req : Marked(k, q)' = Marked(k, q)
    BY <1>1 DEF AfterAbort, queueVars, Marked, Runnable
  <2>2. Advance(i, FALSE) /\ stat' = stat /\ pc[i] = "abort"
    BY <1>1 DEF AfterAbort, queueVars
  <2> QED
    BY <1>e, <2>1, <2>2, AdvanceFlag
<1>2. CASE AfterRefused(i)
  <2>1. ResetSrc(i, r) /\ Advance(i, FALSE)
    BY <1>l, <1>r, <1>2 DEF AfterRefused
  <2>2. \A k \in Inst, q \in Req : k # i \/ q # r => place'[k][q] = place[k][q]
    BY <1>r, <1>2 DEF AfterRefused, IInv, TypeOK
  <2>3. /\ ~meta'[i][r].mig
        /\ \A k \in Inst, q \in Req : k # i \/ q # r =>
             meta'[k][q] = meta[k][q] /\ stat'[k][q] = stat[k][q]
    BY <2>1 DEF ResetSrc, IInv, TypeOK, Meta
  <2>4. \A k \in Inst, q \in Req : Marked(k, q)' =>
           Marked(k, q) /\ stat'[k][q] = stat[k][q] /\ (k # i \/ q # r)
    BY <2>2, <2>3 DEF Marked, Runnable
  <2> QED
    BY <1>e, <1>r, <2>1, <2>4, AdvanceFlag
<1>3. CASE AfterCommit(i)
  <2>1. r \in lastStage[i]
    BY <1>l, <1>3 DEF AfterCommit, IInv, JobInv
  <2>2. /\ place' = [place EXCEPT ![i][r] = "none"]
        /\ stat' = [stat EXCEPT ![i][r] = "none"]
        /\ meta' = [meta EXCEPT ![i][r] = NoMeta]
        /\ Advance(i, TRUE)
    BY <1>r, <1>3, <2>1 DEF AfterCommit
  <2>3. /\ place'[i][r] = "none"
        /\ \A k \in Inst, q \in Req : k # i \/ q # r =>
             /\ meta'[k][q] = meta[k][q] /\ place'[k][q] = place[k][q]
             /\ stat'[k][q] = stat[k][q]
    BY <2>2 DEF IInv, TypeOK
  <2>4. \A k \in Inst, q \in Req : Marked(k, q)' =>
           Marked(k, q) /\ stat'[k][q] = stat[k][q] /\ (k # i \/ q # r)
    BY <2>3 DEF Marked, Runnable
  <2> QED
    BY <1>e, <1>r, <2>2, <2>4, AdvanceFlag
<1> QED
  BY <1>1, <1>2, <1>3

\* Every step leaves only the requests marked that migrate_out goes through.
LEMMA NextFlag ==
  ASSUME Policy \in {"LCR", "LR", "SR"}
  PROVE  IInv /\ FlagInv /\ [Next]_vars => FlagInv'
<1> SUFFICES ASSUME IInv, FlagInv, [Next]_vars PROVE FlagInv'
  OBVIOUS
<1>1. CASE UNCHANGED vars
  BY <1>1 DEF vars, FlagInv, Marked, Listed, Runnable
<1>2. CASE Next
  <2>1. PICK i \in Inst :
          \/ ClientStep(i) \/ EngineStep(i) \/ SrcStep(i) \/ CallStep(i)
          \/ MigrateDone(i) \/ \E j \in Inst : PushMigration(i, j)
    BY <1>2 DEF Next
  <2>2. CASE EngineStep(i) \/ ClientStep(i)
    <3>1. PICK r \in Req : \/ Admit(i, r) \/ Grow(i, r) \/ Preempt(i, r)
                           \/ AddRequest(i, r) \/ Retire(i, r)
      BY <2>2 DEF EngineStep, ClientStep, Finish, FinishRemoved, AbortRequest
    <3> QED
      BY <3>1, EngineFlag
  <2>3. CASE MigrateDone(i) \/ \E j \in Inst : PushMigration(i, j)
    BY <2>3, ManagerFlag
  <2>4. CASE MigrateOut(i)
    BY <2>4, MigrateOutFlag
  <2>5. CASE \/ MigrateOutOneRequest(i) \/ StartStage(i) \/ RemoveRunningRequest(i)
             \/ AfterRemoval(i) \/ AfterAllocated(i) \/ SendBlocks(i)
    BY <2>5, StageFlag
  <2>6. CASE AfterRefused(i) \/ AfterCommit(i) \/ AfterAbort(i) \/ DstStep(i)
    BY <2>6, EndsFlag, DstFlag
  <2> QED
    BY <2>1, <2>2, <2>3, <2>4, <2>5, <2>6 DEF SrcStep, CallStep
<1> QED
  BY <1>1, <1>2

\* is_migrating, which excludes a request from later migrations, ends with the
\* migration, whichever way that ends: no runnable request carries it while its
\* instance has no migrate_out.  For the policies that migrate running requests
\* only; with FCW and FCWSR the code leaves the flag on.
THEOREM MigratingFlagEndsHolds ==
  ASSUME Policy \in {"LCR", "LR", "SR"}
  PROVE  Spec => []MigratingFlagEnds
<1>1. Init => FlagInv
  BY DEF Init, FlagInv, Marked, Runnable
<1>2. FlagInv => MigratingFlagEnds
  BY DEF FlagInv, Marked, Listed, Unassigned, MigratingFlagEnds
<1>3. IInv /\ FlagInv /\ [Next]_vars => FlagInv'
  BY NextFlag
<1> QED
  BY <1>1, <1>2, <1>3, InductiveInvariant, PTL DEF Spec

----------------------------------------------------------------------------
(***************************************************************************)
(* The mapping.  The invariant makes the instance that serves or moves a   *)
(* request unique, so that the mapping is determined by it.                *)
(***************************************************************************)

\* A request is held by one instance, but for the two halves of its commit: who
\* serves it is the only one to do so, and nobody else moves it.
LEMMA HolderUnique ==
  ASSUME IInv, NEW r \in Req, NEW i \in Serving(r) \cup Moving(r),
         NEW j \in Serving(r) \cup Moving(r)
  PROVE  i = j
<1> SUFFICES ASSUME i # j PROVE FALSE
  OBVIOUS
<1>1. /\ i \in Inst /\ j \in Inst
      /\ place[i][r] # "none" /\ place[j][r] # "none"
  BY DEF Serving, Moving, Runnable
<1>2. HandsOver(i, j, r) \/ HandsOver(j, i, r)
  BY <1>1 DEF IInv, UniqueInv
<1>3. ASSUME NEW k \in Inst, pc[k] = "committed", cur[k] = r
      PROVE  k \notin Serving(r) \cup Moving(r)
  <2>1. place[k][r] = "detached"
    BY <1>3 DEF IInv, JobInv, PlaceInv, LastSending, Sending
  <2> QED
    BY <1>3, <2>1 DEF Serving, Moving, Runnable
<1> QED
  BY <1>1, <1>2, <1>3 DEF HandsOver

\* What the mapping is in each of the situations of a request.
ViewOf(r) ==
  /\ \A i \in Serving(r) : OwnerOf(r) = i /\ PhaseOf(r) = "served"
  /\ \A i \in Moving(r) \ Serving(r) : OwnerOf(r) = i /\ PhaseOf(r) = "moving"
  /\ Serving(r) = {} /\ Moving(r) = {}
       => /\ OwnerOf(r) = NoInst
          /\ PhaseOf(r) = IF r \in arrived THEN "ended" ELSE "new"

\* The mapping is as ViewOf says wherever the invariant holds.
LEMMA View == IInv => \A r \in Req : ViewOf(r)
<1> SUFFICES ASSUME IInv, NEW r \in Req PROVE ViewOf(r)
  OBVIOUS
<1>1. Serving(r) \cup Moving(r) # {} => r \in arrived
  BY DEF Serving, Moving, Runnable, IInv, KeptInv
<1>2. ASSUME NEW i \in Serving(r)
      PROVE  OwnerOf(r) = i /\ PhaseOf(r) = "served"
  <2>1. Serving(r) = {i}
    BY HolderUnique
  <2>2. (CHOOSE k \in Serving(r) : TRUE) = i
    BY <2>1
  <2> QED
    BY <1>1, <2>1, <2>2 DEF OwnerOf, PhaseOf
<1>3. ASSUME NEW i \in Moving(r) \ Serving(r)
      PROVE  OwnerOf(r) = i /\ PhaseOf(r) = "moving"
  <2>1. Serving(r) = {} /\ Moving(r) = {i}
    BY HolderUnique
  <2>2. (CHOOSE k \in Moving(r) : TRUE) = i
    BY <2>1
  <2> QED
    BY <1>1, <2>1, <2>2 DEF OwnerOf, PhaseOf
<1>4. Serving(r) = {} /\ Moving(r) = {}
        => /\ OwnerOf(r) = NoInst
           /\ PhaseOf(r) = IF r \in arrived THEN "ended" ELSE "new"
  BY DEF OwnerOf, PhaseOf
<1> QED
  BY <1>2, <1>3, <1>4 DEF ViewOf

\* And so it is after a step.
LEMMA ViewNext == (IInv => \A r \in Req : ViewOf(r))'
  BY View, PTL

\* A request whose holders stay the same keeps its owner and its phase.
LEMMA SameView ==
  ASSUME IInv, IInv', NEW r \in Req,
         Serving(r)' = Serving(r),
         Serving(r) # {} \/ Moving(r)' = Moving(r),
         arrived' = arrived \/ Serving(r) # {}
  PROVE  OwnerOf(r)' = OwnerOf(r) /\ PhaseOf(r)' = PhaseOf(r)
<1>1. ViewOf(r) /\ ViewOf(r)'
  BY View, ViewNext
<1>2. CASE Serving(r) # {}
  BY <1>1, <1>2 DEF ViewOf
<1>3. CASE Serving(r) = {} /\ Moving(r) # {}
  BY <1>1, <1>3 DEF ViewOf
<1>4. CASE Serving(r) = {} /\ Moving(r) = {}
  BY <1>1, <1>4 DEF ViewOf
<1> QED
  BY <1>2, <1>3, <1>4

\* The mapping as a whole.
AbsOwner == [r \in Req |-> OwnerOf(r)]
AbsPhase == [r \in Req |-> PhaseOf(r)]

\* A step that leaves the view of every request alone is a step that Ownership
\* does not see.
LEMMA Unseen ==
  ASSUME \A r \in Req : OwnerOf(r)' = OwnerOf(r) /\ PhaseOf(r)' = PhaseOf(r)
  PROVE  UNCHANGED Own!vars
<1>1. AbsOwner' = AbsOwner /\ AbsPhase' = AbsPhase
  BY DEF AbsOwner, AbsPhase
<1> QED
  BY <1>1 DEF Own!vars, AbsOwner, AbsPhase

\* A step that changes the view of one request changes Ownership there only.
LEMMA SeenAt ==
  ASSUME NEW r \in Req,
         \A q \in Req \ {r} : OwnerOf(q)' = OwnerOf(q) /\ PhaseOf(q)' = PhaseOf(q)
  PROVE  /\ AbsOwner' = [AbsOwner EXCEPT ![r] = OwnerOf(r)']
         /\ AbsPhase' = [AbsPhase EXCEPT ![r] = PhaseOf(r)']
  BY DEF AbsOwner, AbsPhase

----------------------------------------------------------------------------
(***************************************************************************)
(* The steps that Ownership sees: a request is accepted, ends, is taken    *)
(* out of service, returns, or is handed over.                             *)
(***************************************************************************)

\* AddRequest accepts a request that no instance knew.
LEMMA AddRequestAccepts ==
  ASSUME IInv, IInv', NEW i \in Inst, NEW r \in Req, AddRequest(i, r)
  PROVE  Own!Accept(r, i)
<1>e. /\ r \notin arrived /\ arrived' = arrived \cup {r}
      /\ place' = [place EXCEPT ![i][r] = "waiting"]
      /\ pc' = pc
  BY DEF AddRequest
<1>1. Serving(r) = {} /\ Moving(r) = {}
  BY <1>e DEF Serving, Moving, Runnable, IInv, KeptInv
<1>2. i \in Serving(r)'
  BY <1>e DEF Serving, Runnable, IInv, TypeOK
<1>3. \A q \in Req \ {r} : OwnerOf(q)' = OwnerOf(q) /\ PhaseOf(q)' = PhaseOf(q)
  <2> SUFFICES ASSUME NEW q \in Req \ {r}
               PROVE  OwnerOf(q)' = OwnerOf(q) /\ PhaseOf(q)' = PhaseOf(q)
    OBVIOUS
  <2>1. Serving(q)' = Serving(q) /\ Moving(q)' = Moving(q)
    BY <1>e DEF Serving, Moving, Runnable, IInv, TypeOK
  <2>2. ViewOf(q) /\ ViewOf(q)'
    BY View, ViewNext
  <2> QED
    BY <1>e, <2>1, <2>2 DEF ViewOf
<1>4. PhaseOf(r) = "new"
  BY <1>1, <1>e, View DEF ViewOf
<1>5. OwnerOf(r)' = i /\ PhaseOf(r)' = "served"
  BY <1>2, ViewNext DEF ViewOf
<1>6. /\ AbsOwner' = [AbsOwner EXCEPT ![r] = i]
      /\ AbsPhase' = [AbsPhase EXCEPT ![r] = "served"]
  BY <1>3, <1>5, SeenAt
<1> QED
  BY <1>4, <1>6 DEF Own!Accept, AbsOwner, AbsPhase

\* Finish, FinishRemoved and AbortRequest end a request that is served.
LEMMA RetireEnds ==
  ASSUME IInv, IInv', NEW i \in Inst, NEW r \in Req, Retire(i, r),
         i \in Serving(r)
  PROVE  Own!End(r)
<1>e. /\ arrived' = arrived /\ pc' = pc
      /\ place' = [place EXCEPT ![i][r] = "none"]
  BY DEF Retire
<1>1. Serving(r)' = {} /\ Moving(r)' = {}
  <2>1. \A k \in Inst \ {i} : k \notin Serving(r) /\ k \notin Moving(r)
    BY HolderUnique
  <2> QED
    BY <1>e, <2>1 DEF Serving, Moving, Runnable, IInv, TypeOK
<1>2. \A q \in Req \ {r} : OwnerOf(q)' = OwnerOf(q) /\ PhaseOf(q)' = PhaseOf(q)
  <2> SUFFICES ASSUME NEW q \in Req \ {r}
               PROVE  OwnerOf(q)' = OwnerOf(q) /\ PhaseOf(q)' = PhaseOf(q)
    OBVIOUS
  <2>1. Serving(q)' = Serving(q) /\ Moving(q)' = Moving(q)
    BY <1>e DEF Serving, Moving, Runnable, IInv, TypeOK
  <2> QED
    BY <1>e, <2>1, SameView
<1>3. PhaseOf(r) = "served"
  BY View DEF ViewOf
<1>4. OwnerOf(r)' = NoInst /\ PhaseOf(r)' = "ended"
  <2>1. r \in arrived'
    BY <1>e DEF Serving, Runnable, IInv, KeptInv
  <2> QED
    BY <1>1, <2>1, ViewNext DEF ViewOf
<1>5. /\ AbsOwner' = [AbsOwner EXCEPT ![r] = NoInst]
      /\ AbsPhase' = [AbsPhase EXCEPT ![r] = "ended"]
  BY <1>2, <1>4, SeenAt
<1> QED
  BY <1>3, <1>5 DEF Own!End, AbsOwner, AbsPhase

\* migrate_out takes a request out of service: a waiting one when it leaves the
\* queue, a running one once the output processor is through with it.
LEMMA LeavesService ==
  ASSUME IInv, IInv', NEW i \in Inst, NEW r \in Req, i \in Serving(r),
         place'[i][r] = "detached", pc'[i] = "alloc", arrived' = arrived,
         \A k \in Inst, q \in Req :
           k # i \/ q # r => place'[k][q] = place[k][q],
         \A k \in Inst \ {i} : pc'[k] = pc[k],
         \A q \in Req \ {r} : place[i][q] # "detached"
  PROVE  Own!Detach(r)
<1>1. Serving(r)' = {} /\ i \in Moving(r)'
  <2>1. \A k \in Inst \ {i} : k \notin Serving(r)
    BY HolderUnique
  <2> QED
    BY <2>1 DEF Serving, Moving, Runnable
<1>2. \A q \in Req \ {r} : OwnerOf(q)' = OwnerOf(q) /\ PhaseOf(q)' = PhaseOf(q)
  <2> SUFFICES ASSUME NEW q \in Req \ {r}
               PROVE  OwnerOf(q)' = OwnerOf(q) /\ PhaseOf(q)' = PhaseOf(q)
    OBVIOUS
  <2>1. Serving(q)' = Serving(q) /\ Moving(q)' = Moving(q)
    BY DEF Serving, Moving, Runnable
  <2> QED
    BY <2>1, SameView
<1>3. PhaseOf(r) = "served" /\ OwnerOf(r) = i
  BY View DEF ViewOf
<1>4. PhaseOf(r)' = "moving" /\ OwnerOf(r)' = i
  BY <1>1, ViewNext DEF ViewOf
<1>5. AbsOwner' = AbsOwner /\ AbsPhase' = [AbsPhase EXCEPT ![r] = "moving"]
  <2>1. /\ AbsOwner' = [AbsOwner EXCEPT ![r] = OwnerOf(r)']
        /\ AbsPhase' = [AbsPhase EXCEPT ![r] = PhaseOf(r)']
    BY <1>2, SeenAt
  <2>2. [AbsOwner EXCEPT ![r] = i] = AbsOwner
    BY <1>3 DEF AbsOwner
  <2> QED
    BY <1>4, <2>1, <2>2
<1> QED
  BY <1>3, <1>5 DEF Own!Detach, AbsOwner, AbsPhase

\* A request that the destination refuses in its last stage goes back into the
\* queue of its instance.
LEMMA RefusedReturns ==
  ASSUME IInv, IInv', NEW i \in Inst, AfterRefused(i), last[i]
  PROVE  Own!Return(cur[i])
<1>r. PICK r \in Req : r = cur[i] /\ r \in arrived /\ pc[i] = "refused"
  BY DEF AfterRefused, IInv, JobInv, Unassigned, TypeOK
<1>1. place[i][r] = "detached" /\ \A q \in Req \ {r} : place[i][q] # "detached"
  BY <1>r DEF IInv, PlaceInv, LastSending, Sending
<1>e. /\ arrived' = arrived
      /\ place' = [place EXCEPT ![i][r] = QueueOf(i, r)]
      /\ \A k \in Inst \ {i} : pc'[k] = pc[k]
  BY <1>r DEF AfterRefused, Raise, Advance, IInv, TypeOK
<1>2. i \in Moving(r) /\ i \notin Serving(r)
  BY <1>r, <1>1 DEF Serving, Moving, Runnable
<1>3. i \in Serving(r)'
  BY <1>e DEF Serving, Runnable, QueueOf, IInv, TypeOK
<1>4. \A q \in Req \ {r} : OwnerOf(q)' = OwnerOf(q) /\ PhaseOf(q)' = PhaseOf(q)
  <2> SUFFICES ASSUME NEW q \in Req \ {r}
               PROVE  OwnerOf(q)' = OwnerOf(q) /\ PhaseOf(q)' = PhaseOf(q)
    OBVIOUS
  <2>1. Serving(q)' = Serving(q) /\ Moving(q)' = Moving(q)
    BY <1>e, <1>1 DEF Serving, Moving, Runnable, IInv, TypeOK
  <2> QED
    BY <1>e, <2>1, SameView
<1>5. PhaseOf(r) = "moving" /\ OwnerOf(r) = i
  BY <1>2, View DEF ViewOf
<1>6. PhaseOf(r)' = "served" /\ OwnerOf(r)' = i
  BY <1>3, ViewNext DEF ViewOf
<1>7. AbsOwner' = AbsOwner /\ AbsPhase' = [AbsPhase EXCEPT ![r] = "served"]
  BY <1>4, <1>5, <1>6, SeenAt DEF AbsOwner
<1> QED
  BY <1>r, <1>5, <1>7 DEF Own!Return, AbsOwner, AbsPhase

\* commit_dst_request hands the request over: the destination has it in a queue
\* and the source does not move it any more.
LEMMA CommitHandsOver ==
  ASSUME IInv, IInv', NEW i \in Inst, CommitDstRequest(i)
  PROVE  Own!HandOver(cur[i], dst[i])
<1>r. PICK r \in Req, j \in Inst :
        r = cur[i] /\ j = dst[i] /\ r \in arrived /\ pc[i] = "commit"
  BY DEF CommitDstRequest, IInv, JobInv, Unassigned, TypeOK
<1>i. i # j /\ pre[j][r] # 0
  BY <1>r DEF IInv, OneToOne, PreInv
<1>1. place[i][r] = "detached" /\ \A q \in Req \ {r} : place[i][q] # "detached"
  BY <1>r DEF IInv, JobInv, PlaceInv, LastSending, Sending, Removing
<1>2. PICK p \in {"waiting", "running"} : place' = [place EXCEPT ![j][r] = p]
  BY <1>r, <1>i DEF CommitDstRequest
<1>e. arrived' = arrived /\ pc' = [pc EXCEPT ![i] = "committed"]
  BY <1>r, <1>i DEF CommitDstRequest
<1>3. i \in Moving(r) /\ i \notin Serving(r)
  BY <1>r, <1>1 DEF Serving, Moving, Runnable
<1>4. j \in Serving(r)'
  BY <1>2 DEF Serving, Runnable, IInv, TypeOK
<1>5. \A q \in Req \ {r} : OwnerOf(q)' = OwnerOf(q) /\ PhaseOf(q)' = PhaseOf(q)
  <2> SUFFICES ASSUME NEW q \in Req \ {r}
               PROVE  OwnerOf(q)' = OwnerOf(q) /\ PhaseOf(q)' = PhaseOf(q)
    OBVIOUS
  <2>1. Serving(q)' = Serving(q) /\ Moving(q)' = Moving(q)
    BY <1>e, <1>1, <1>2 DEF Serving, Moving, Runnable, IInv, TypeOK
  <2> QED
    BY <1>e, <2>1, SameView
<1>6. PhaseOf(r) = "moving" /\ OwnerOf(r) = i
  BY <1>3, View DEF ViewOf
<1>7. PhaseOf(r)' = "served" /\ OwnerOf(r)' = j
  BY <1>4, ViewNext DEF ViewOf
<1>8. /\ AbsOwner' = [AbsOwner EXCEPT ![r] = j]
      /\ AbsPhase' = [AbsPhase EXCEPT ![r] = "served"]
  BY <1>5, <1>7, SeenAt
<1> QED
  BY <1>r, <1>i, <1>6, <1>8 DEF Own!HandOver, AbsOwner, AbsPhase

----------------------------------------------------------------------------
(***************************************************************************)
(* The steps that Ownership does not see.                                  *)
(***************************************************************************)

\* The engine's steps on a request that stays where it is served.
LEMMA EngineUnseen ==
  ASSUME IInv, IInv', NEW i \in Inst, NEW r \in Req,
         Admit(i, r) \/ Grow(i, r) \/ Preempt(i, r)
  PROVE  UNCHANGED Own!vars
<1>1. PICK p \in {"waiting", "running"} : place' = [place EXCEPT ![i][r] = p]
  <2>1. CASE Grow(i, r)
    <3>1. place' = [place EXCEPT ![i][r] = "running"]
      BY <2>1 DEF Grow, IInv, TypeOK
    <3> QED
      BY <3>1
  <2> QED
    BY <2>1 DEF Admit, Preempt
<1>2. place[i][r] \in {"waiting", "running"} /\ arrived' = arrived
  BY DEF Admit, Grow, Preempt
<1>3. \A k \in Inst : /\ pc'[k] = "removed" <=> pc[k] = "removed"
                      /\ pc'[k] = "committed" <=> pc[k] = "committed"
  BY DEF Admit, Grow, Preempt, StepTaken, IInv, TypeOK
<1>4. \A q \in Req : Serving(q)' = Serving(q) /\ Moving(q)' = Moving(q)
  BY <1>1, <1>2, <1>3 DEF Serving, Moving, Runnable, IInv, TypeOK
<1> QED
  BY <1>2, <1>4, SameView, Unseen

\* The manager and the coroutine outside the last stage move no request between
\* queues; nor does the coroutine within it, but where the request leaves or
\* enters a queue.
LEMMA ControlUnseen ==
  ASSUME IInv, IInv', NEW i \in Inst, place' = place, arrived' = arrived,
         \A k \in Inst \ {i} : pc'[k] = pc[k],
         \/ {pc[i], pc'[i]} \cap {"removed", "committed"} = {}
         \/ \A q \in Req : place[i][q] # "detached"
  PROVE  UNCHANGED Own!vars
<1>1. \A q \in Req : Serving(q)' = Serving(q) /\ Moving(q)' = Moving(q)
  BY DEF Serving, Moving, Runnable
<1> QED
  BY <1>1, SameView, Unseen

\* A running request that leaves the queue is served until the output processor
\* is through with it.
LEMMA RemovalUnseen ==
  ASSUME IInv, IInv', NEW i \in Inst, RemoveRunningRequest(i)
  PROVE  UNCHANGED Own!vars
<1>r. PICK r \in Req : r = cur[i] /\ pc[i] \in {"remove", "removeStepped"}
  BY DEF RemoveRunningRequest, IInv, JobInv, Unassigned, TypeOK
<1>1. \A q \in Req : place[i][q] # "detached"
  BY <1>r DEF IInv, PlaceInv, LastSending, Sending
<1>e. arrived' = arrived /\ pc' = [pc EXCEPT ![i] = "removed"]
  BY DEF RemoveRunningRequest
<1>2. CASE place[i][r] = "running"
  <2>1. place' = [place EXCEPT ![i][r] = "detached"]
    BY <1>r, <1>2 DEF RemoveRunningRequest
  <2>2. \A q \in Req : Serving(q)' = Serving(q)
    BY <1>e, <1>1, <1>2, <2>1 DEF Serving, Runnable, IInv, TypeOK
  <2>3. \A q \in Req \ {r} : Moving(q)' = Moving(q)
    BY <1>e, <1>1, <2>1 DEF Moving, IInv, TypeOK
  <2>4. i \in Serving(r)
    BY <1>2 DEF Serving, Runnable
  <2> QED
    BY <1>e, <2>2, <2>3, <2>4, SameView, Unseen
<1>3. CASE place[i][r] # "running"
  <2>1. place' = place /\ \A k \in Inst \ {i} : pc'[k] = pc[k]
    BY <1>r, <1>e, <1>3 DEF RemoveRunningRequest, IInv, TypeOK
  <2> QED
    BY <1>e, <1>1, <2>1, ControlUnseen
<1> QED
  BY <1>2, <1>3

\* The source's half of a commit: the destination serves the request already.
LEMMA AfterCommitUnseen ==
  ASSUME IInv, IInv', NEW i \in Inst, AfterCommit(i)
  PROVE  UNCHANGED Own!vars
<1>r. PICK r \in Req : r = cur[i] /\ pc[i] = "committed"
  BY DEF AfterCommit, IInv, JobInv, Unassigned, TypeOK
<1>1. /\ place[i][r] = "detached" /\ r \in lastStage[i]
      /\ \A q \in Req \ {r} : place[i][q] # "detached"
  BY <1>r DEF IInv, JobInv, PlaceInv, LastSending, Sending
<1>e. /\ arrived' = arrived
      /\ place' = [place EXCEPT ![i][r] = "none"]
      /\ \A k \in Inst \ {i} : pc'[k] = pc[k]
  BY <1>r, <1>1 DEF AfterCommit, Advance, IInv, TypeOK
<1>2. \A q \in Req : Serving(q)' = Serving(q) /\ Moving(q)' = Moving(q)
  BY <1>r, <1>1, <1>e DEF Serving, Moving, Runnable, IInv, TypeOK
<1> QED
  BY <1>e, <1>2, SameView, Unseen

----------------------------------------------------------------------------
(***************************************************************************)
(* Every step, and the theorem.                                            *)
(***************************************************************************)

\* The steps of the engine and of the clients of an instance.
LEMMA EngineImplements ==
  ASSUME IInv, IInv', NEW i \in Inst, EngineStep(i) \/ ClientStep(i)
  PROVE  [Own!Next]_(Own!vars)
<1>1. PICK r \in Req :
        \/ Admit(i, r) \/ Grow(i, r) \/ Preempt(i, r) \/ Finish(i, r)
        \/ FinishRemoved(i, r) \/ AddRequest(i, r) \/ AbortRequest(i, r)
  BY DEF EngineStep, ClientStep
<1>2. CASE Admit(i, r) \/ Grow(i, r) \/ Preempt(i, r)
  BY <1>2, EngineUnseen
<1>3. CASE Finish(i, r) \/ FinishRemoved(i, r) \/ AbortRequest(i, r)
  <2>1. Retire(i, r) /\ i \in Serving(r)
    BY <1>3 DEF Finish, FinishRemoved, AbortRequest, Serving, Runnable
  <2>2. Own!End(r)
    BY <2>1, RetireEnds
  <2> QED
    BY <2>2 DEF Own!Next
<1>4. CASE AddRequest(i, r)
  <2>1. Own!Accept(r, i)
    BY <1>4, AddRequestAccepts
  <2> QED
    BY <2>1 DEF Own!Next
<1> QED
  BY <1>1, <1>2, <1>3, <1>4

\* migrate_out up to the first stage of a request: only a waiting request
\* leaves its queue here.
LEMMA BeginImplements ==
  ASSUME IInv, IInv', NEW i \in Inst, MigrateOut(i) \/ MigrateOutOneRequest(i)
  PROVE  [Own!Next]_(Own!vars)
<1>1. CASE MigrateOut(i)
  <2>p. PICK p \in {"done", "next"} : pc' = [pc EXCEPT ![i] = p]
    <3>1. PICK D \in SUBSET Req : MigrateNone(i, D) \/ MigrateSome(i, D)
      BY <1>1 DEF MigrateOut
    <3> QED
      BY <3>1 DEF MigrateNone, MigrateSome
  <2>1. /\ place' = place /\ arrived' = arrived /\ pc[i] = "called"
        /\ pc'[i] \in {"done", "next"}
        /\ \A k \in Inst \ {i} : pc'[k] = pc[k]
    BY <1>1, <2>p DEF MigrateOut, IInv, TypeOK
  <2>2. UNCHANGED Own!vars
    BY <2>1, ControlUnseen
  <2> QED
    BY <2>2
<1>2. CASE MigrateOutOneRequest(i)
  <2>r. PICK r \in Req : r = cur[i] /\ pc[i] = "next"
    BY <1>2 DEF MigrateOutOneRequest, IInv, JobInv, Unassigned, TypeOK
  <2>1. arrived' = arrived /\ \A q \in Req : place[i][q] # "detached"
    BY <1>2, <2>r DEF MigrateOutOneRequest, IInv, PlaceInv, LastSending, Sending
  <2>2. CASE BeginWaiting(i, r)
    <3>1. /\ place' = [place EXCEPT ![i][r] = "detached"]
          /\ pc' = [pc EXCEPT ![i] = "alloc"]
          /\ i \in Serving(r)
      BY <2>2 DEF BeginWaiting, Serving, Runnable
    <3>2. /\ place'[i][r] = "detached" /\ pc'[i] = "alloc"
          /\ \A k \in Inst, q \in Req :
               k # i \/ q # r => place'[k][q] = place[k][q]
          /\ \A k \in Inst \ {i} : pc'[k] = pc[k]
      BY <3>1 DEF IInv, TypeOK
    <3>3. Own!Detach(r)
      BY <2>1, <3>1, <3>2, LeavesService
    <3> QED
      BY <3>3 DEF Own!Next
  <2>3. CASE BeginRunning(i, r) \/ BeginOverLimit(i, r) \/ BeginSkipped(i, r)
    <3>1. place' = place /\ \A k \in Inst \ {i} : pc'[k] = pc[k]
      BY <2>3 DEF BeginRunning, BeginOverLimit, AbortSrc, BeginSkipped, Advance,
           IInv, TypeOK
    <3> QED
      BY <2>1, <3>1, ControlUnseen
  <2> QED
    BY <1>2, <2>r, <2>2, <2>3 DEF MigrateOutOneRequest
<1> QED
  BY <1>1, <1>2

\* The stages of a migration: only a running request that reached its last stage
\* and was not finished by the output processor leaves service here.
LEMMA StageImplements ==
  ASSUME IInv, IInv', NEW i \in Inst,
         StartStage(i) \/ AfterRemoval(i) \/ AfterAllocated(i) \/ SendBlocks(i)
  PROVE  [Own!Next]_(Own!vars)
<1>1. CASE StartStage(i)
  <2>1. /\ place' = place /\ arrived' = arrived /\ pc[i] = "stage"
        /\ pc'[i] \in {"abort", "remove", "alloc"}
        /\ \A k \in Inst \ {i} : pc'[k] = pc[k]
    BY <1>1 DEF StartStage, StagePC, AbortSrc, IInv, TypeOK
  <2> QED
    BY <2>1, ControlUnseen
<1>2. CASE AfterRemoval(i)
  <2>r. PICK r \in Req : r = cur[i] /\ pc[i] = "removed" /\ place' = place
    BY <1>2 DEF AfterRemoval, IInv, JobInv, Unassigned, TypeOK
  <2>1. /\ \A q \in Req \ {r} : place[i][q] # "detached"
        /\ arrived' = arrived /\ \A k \in Inst \ {i} : pc'[k] = pc[k]
    BY <1>2, <2>r DEF AfterRemoval, AbortSrc, IInv, PlaceInv, TypeOK
  <2>2. CASE place[i][r] = "detached"
    <3>1. pc'[i] = "alloc" /\ i \in Serving(r)
      BY <1>2, <2>r, <2>2 DEF AfterRemoval, Serving, IInv, TypeOK
    <3>2. Own!Detach(r)
      BY <2>r, <2>1, <2>2, <3>1, LeavesService
    <3> QED
      BY <3>2 DEF Own!Next
  <2>3. CASE place[i][r] # "detached"
    BY <2>r, <2>1, <2>3, ControlUnseen
  <2> QED
    BY <2>2, <2>3
<1>3. CASE AfterAllocated(i)
  <2>1. /\ place' = place /\ arrived' = arrived /\ pc[i] = "allocated"
        /\ pc'[i] \in {"commit", "abort", "send"}
        /\ \A k \in Inst \ {i} : pc'[k] = pc[k]
    BY <1>3 DEF AfterAllocated, AbortSrc, IInv, TypeOK
  <2> QED
    BY <2>1, ControlUnseen
<1>4. CASE SendBlocks(i)
  <2>1. /\ place' = place /\ arrived' = arrived /\ pc[i] = "send"
        /\ pc'[i] \in {"commit", "abort", "stage"}
        /\ \A k \in Inst \ {i} : pc'[k] = pc[k]
    BY <1>4 DEF SendBlocks, AbortSrc, IInv, TypeOK
  <2> QED
    BY <2>1, ControlUnseen
<1> QED
  BY <1>1, <1>2, <1>3, <1>4

\* The manager's steps, the answers of the destination and the ends of a
\* request's migration.
LEMMA EndImplements ==
  ASSUME IInv, IInv', NEW i \in Inst,
         \/ MigrateDone(i) \/ \E j \in Inst : PushMigration(i, j)
         \/ MigrateInPreAlloc(i) \/ AfterAbort(i) \/ AfterRefused(i)
         \/ AfterCommit(i) \/ CommitDstRequest(i)
  PROVE  [Own!Next]_(Own!vars)
<1>1. CASE MigrateDone(i) \/ \E j \in Inst : PushMigration(i, j)
  <2>1. /\ place' = place /\ arrived' = arrived /\ pc[i] \in {"done", "idle"}
        /\ pc'[i] \in {"idle", "called"}
        /\ \A k \in Inst \ {i} : pc'[k] = pc[k]
    BY <1>1 DEF MigrateDone, PushMigration, queueVars, IInv, TypeOK
  <2> QED
    BY <2>1, ControlUnseen
<1>2. CASE MigrateInPreAlloc(i)
  <2>1. /\ place' = place /\ arrived' = arrived /\ pc[i] = "alloc"
        /\ pc'[i] \in {"allocated", "refused"}
        /\ \A k \in Inst \ {i} : pc'[k] = pc[k]
    BY <1>2 DEF MigrateInPreAlloc, PreAllocOK, PreAllocRefused, queueVars, IInv,
         TypeOK
  <2> QED
    BY <2>1, ControlUnseen
<1>3. CASE AfterAbort(i)
  <2>1. /\ place' = place /\ arrived' = arrived /\ pc[i] = "abort"
        /\ pc'[i] \in {"next", "done"}
        /\ \A k \in Inst \ {i} : pc'[k] = pc[k]
    BY <1>3 DEF AfterAbort, Advance, queueVars, IInv, TypeOK
  <2> QED
    BY <2>1, ControlUnseen
<1>4. CASE AfterRefused(i)
  <2>r. cur[i] \in Req
    BY <1>4 DEF AfterRefused, IInv, JobInv, Unassigned, TypeOK
  <2>1. CASE last[i]
    <3>1. Own!Return(cur[i])
      BY <1>4, <2>1, RefusedReturns
    <3> QED
      BY <2>r, <3>1 DEF Own!Next, Own!Resume
  <2>2. CASE ~last[i]
    <3>1. /\ place' = place /\ arrived' = arrived /\ pc[i] = "refused"
          /\ pc'[i] \in {"next", "done"}
          /\ \A k \in Inst \ {i} : pc'[k] = pc[k]
      BY <1>4, <2>2 DEF AfterRefused, Advance, IInv, TypeOK
    <3> QED
      BY <3>1, ControlUnseen
  <2> QED
    BY <2>1, <2>2
<1>5. CASE AfterCommit(i)
  BY <1>5, AfterCommitUnseen
<1>6. CASE CommitDstRequest(i)
  <2>1. cur[i] \in Req /\ dst[i] \in Inst
    BY <1>6 DEF CommitDstRequest, IInv, JobInv, Unassigned, TypeOK
  <2>2. Own!HandOver(cur[i], dst[i])
    BY <1>6, CommitHandsOver
  <2> QED
    BY <2>1, <2>2 DEF Own!Next, Own!Resume
<1> QED
  BY <1>1, <1>2, <1>3, <1>4, <1>5, <1>6

\* Every step of live migration is a step of Ownership or leaves it as it is.
LEMMA NextImplements == IInv /\ IInv' /\ [Next]_vars => [Own!Next]_(Own!vars)
<1> SUFFICES ASSUME IInv, IInv', [Next]_vars PROVE [Own!Next]_(Own!vars)
  OBVIOUS
<1>1. CASE UNCHANGED vars
  <2>1. \A q \in Req : Serving(q)' = Serving(q) /\ Moving(q)' = Moving(q)
    BY <1>1 DEF vars, Serving, Moving, Runnable
  <2>2. arrived' = arrived
    BY <1>1 DEF vars
  <2> QED
    BY <2>1, <2>2, SameView, Unseen
<1>2. CASE Next
  <2>1. PICK i \in Inst :
          \/ ClientStep(i) \/ EngineStep(i) \/ SrcStep(i) \/ CallStep(i)
          \/ MigrateDone(i) \/ \E j \in Inst : PushMigration(i, j)
    BY <1>2 DEF Next
  <2>2. CASE EngineStep(i) \/ ClientStep(i)
    BY <2>2, EngineImplements
  <2>3. CASE MigrateOut(i) \/ MigrateOutOneRequest(i)
    BY <2>3, BeginImplements
  <2>4. CASE RemoveRunningRequest(i)
    BY <2>4, RemovalUnseen
  <2>5. CASE StartStage(i) \/ AfterRemoval(i) \/ AfterAllocated(i) \/ SendBlocks(i)
    BY <2>5, StageImplements
  <2>6. CASE \/ MigrateDone(i) \/ \E j \in Inst : PushMigration(i, j)
             \/ MigrateInPreAlloc(i) \/ AfterAbort(i) \/ AfterRefused(i)
             \/ AfterCommit(i) \/ CommitDstRequest(i)
    BY <2>6, EndImplements
  <2> QED
    BY <2>1, <2>2, <2>3, <2>4, <2>5, <2>6 DEF SrcStep, CallStep, DstStep
<1> QED
  BY <1>1, <1>2

\* No request is known anywhere at first.
LEMMA InitImplements == Init => Own!Init
<1> SUFFICES ASSUME Init PROVE Own!Init
  OBVIOUS
<1>1. \A r \in Req : Serving(r) = {} /\ Moving(r) = {} /\ r \notin arrived
  BY DEF Init, Serving, Moving, Runnable
<1>2. \A r \in Req : OwnerOf(r) = NoInst /\ PhaseOf(r) = "new"
  BY <1>1 DEF OwnerOf, PhaseOf
<1> QED
  BY <1>2 DEF Own!Init

\* Live migration implements Ownership but for its liveness: whatever engines,
\* clients, migrations and refusals do, a request is served by one instance at a
\* time, changes its instance in the single step of commit_dst_request, out of
\* the hands of the coroutine that moved it, and ends once, in service.
THEOREM OwnershipImplemented == Spec => Own!Init /\ [][Own!Next]_(Own!vars)
  BY InitImplements, NextImplements, InductiveInvariant, PTL DEF Spec

----------------------------------------------------------------------------
(***************************************************************************)
(* Sums over finite sets.                                                  *)
(***************************************************************************)

\* Induction on the natural numbers, for a set that contains 0 and with each
\* number the next one.
LEMMA SetInduction ==
  ASSUME NEW T \in SUBSET Nat, 0 \in T, \A n \in T : n + 1 \in T
  PROVE  \A n \in Nat : n \in T
<1>. DEFINE R == OpToRel(<, Nat)
            U == Nat \ T
<1>. SUFFICES ASSUME U # {} PROVE FALSE
  OBVIOUS
<1>1. IsWellFoundedOn(R, Nat)
  BY NatLessThanWellFounded
<1>2. \A m, n \in Nat : m < n => <<m, n>> \in R
  BY DEF OpToRel
<1>3. U \subseteq Nat /\ U # {}
  OBVIOUS
<1>4. PICK n \in U : \A m \in U : ~(<<m, n>> \in R)
  <2>. HIDE DEF R, U
  <2>. QED
    BY <1>1, <1>3, WFMin
<1>5. n \in Nat /\ n # 0
  OBVIOUS
<1>6. PICK m \in Nat : n = m + 1 /\ m < n
  BY <1>5
<1>7. m \in T
  BY <1>2, <1>4, <1>5, <1>6
<1>. QED
  BY <1>6, <1>7

\* Induction on the subsets of a finite set, for a set of them that contains the
\* empty one and with each one those with an element more.
LEMMA SubsetInduction ==
  ASSUME NEW S, IsFiniteSet(S), NEW P, {} \in P,
         \A U \in SUBSET S : \A x \in S \ U : U \in P => U \cup {x} \in P
  PROVE  \A U \in SUBSET S : U \in P
<1>. DEFINE T == {n \in Nat : \A U \in SUBSET S : Cardinality(U) = n => U \in P}
<1>1. \A U \in SUBSET S : IsFiniteSet(U) /\ Cardinality(U) \in Nat
  BY FS_Subset, FS_CardinalityType
<1>2. 0 \in T
  BY <1>1, FS_EmptySet
<1>3. ASSUME NEW n \in T PROVE n + 1 \in T
  <2>1. n \in Nat
    OBVIOUS
  <2>2. ASSUME NEW U \in SUBSET S, Cardinality(U) = n + 1 PROVE U \in P
    <3>1. U # {}
      BY <1>1, <2>1, <2>2, FS_EmptySet
    <3>2. PICK x \in U : TRUE
      BY <3>1
    <3>3. Cardinality(U \ {x}) = n
      BY <1>1, <2>1, <2>2, FS_RemoveElement
    <3>4. U \ {x} \in P /\ x \in S \ (U \ {x})
      BY <3>3
    <3>5. (U \ {x}) \cup {x} \in P
      BY <3>4
    <3>6. (U \ {x}) \cup {x} = U
      OBVIOUS
    <3>. QED
      BY <3>5, <3>6
  <2>. QED
    BY <2>1, <2>2
<1>4. \A n \in Nat : n \in T
  <2>1. T \in SUBSET Nat
    OBVIOUS
  <2>. HIDE DEF T
  <2>. QED
    BY <1>2, <1>3, <2>1, SetInduction
<1>. QED
  BY <1>1, <1>4

\* The element a fold takes first, and its equation for a set s.
Picked(s) == CHOOSE x \in s : TRUE
SumStep(f, g, s) == IF s = {} THEN 0 ELSE f[Picked(s)] + g[s \ {Picked(s)}]
IsSum(f, g, S) == g = [s \in SUBSET S |-> SumStep(f, g, s)]

\* The sum of a function over its domain, as Functions defines it with a fold, is
\* the value that IsSum describes.
LEMMA SumIsFold ==
  ASSUME NEW f, NEW S
  PROVE  SumFunctionOnSet(f, S) = (CHOOSE g : IsSum(f, g, S))[S]
BY DEF SumFunctionOnSet, FoldFunctionOnSet, MapThenFoldSet, IsSum, SumStep, Picked

UpTo(S, n) == {s \in SUBSET S : Cardinality(s) <= n}

\* Every step of the fold leaves a smaller set.
LEMMA PickedSmaller ==
  ASSUME NEW S, IsFiniteSet(S), NEW s \in SUBSET S, s # {}
  PROVE  /\ Picked(s) \in s /\ s \ {Picked(s)} \in SUBSET S
         /\ Cardinality(s) \in Nat
         /\ Cardinality(s \ {Picked(s)}) \in Nat
         /\ Cardinality(s \ {Picked(s)}) = Cardinality(s) - 1
<1>1. Picked(s) \in s
  BY DEF Picked
<1>2. IsFiniteSet(s)
  BY FS_Subset
<1>3. /\ IsFiniteSet(s \ {Picked(s)})
      /\ Cardinality(s \ {Picked(s)}) = Cardinality(s) - 1
  BY <1>1, <1>2, FS_RemoveElement
<1>. QED
  BY <1>1, <1>2, <1>3, FS_CardinalityType

\* Only the empty set has no more than 0 elements, and a set of n elements is
\* one of at most n + 1.
LEMMA UpToSteps ==
  ASSUME NEW S, IsFiniteSet(S)
  PROVE  /\ \A s \in UpTo(S, 0) : s = {}
         /\ \A n \in Nat : UpTo(S, n) \subseteq UpTo(S, n + 1)
         /\ UpTo(S, Cardinality(S)) = SUBSET S
         /\ Cardinality(S) \in Nat
<1>1. \A s \in SUBSET S : IsFiniteSet(s) /\ Cardinality(s) \in Nat
  BY FS_Subset, FS_CardinalityType
<1>2. \A s \in UpTo(S, 0) : s = {}
  BY <1>1, FS_EmptySet DEF UpTo
<1>3. \A n \in Nat : UpTo(S, n) \subseteq UpTo(S, n + 1)
  BY <1>1 DEF UpTo
<1>4. UpTo(S, Cardinality(S)) = SUBSET S
  BY FS_Subset DEF UpTo
<1>. QED
  BY <1>1, <1>2, <1>3, <1>4

\* The recursive function that the sum over a finite set is defined by exists:
\* the one for the sets of at most n elements gives the one for n + 1.
LEMMA SumExists ==
  ASSUME NEW f, NEW S, IsFiniteSet(S)
  PROVE  \E g : IsSum(f, g, S)
<1>. DEFINE T == {n \in Nat : \E g : g = [s \in UpTo(S, n) |-> SumStep(f, g, s)]}
<1>1. 0 \in T
  <2>. DEFINE g == [s \in UpTo(S, 0) |-> 0]
  <2>1. g = [s \in UpTo(S, 0) |-> SumStep(f, g, s)]
    BY UpToSteps DEF SumStep
  <2>. QED
    BY <2>1
<1>2. ASSUME NEW n \in T PROVE n + 1 \in T
  <2>0. n \in Nat
    OBVIOUS
  <2>1. PICK g : g = [s \in UpTo(S, n) |-> SumStep(f, g, s)]
    OBVIOUS
  <2>. DEFINE h == [s \in UpTo(S, n + 1) |-> SumStep(f, g, s)]
  <2>2. \A s \in UpTo(S, n) : s \in UpTo(S, n + 1)
    BY <2>0, UpToSteps
  <2>3. \A s \in UpTo(S, n) : h[s] = g[s]
    BY <2>1, <2>2
  <2>4. ASSUME NEW s \in UpTo(S, n + 1) PROVE SumStep(f, h, s) = SumStep(f, g, s)
    <3>1. CASE s = {}
      BY <3>1 DEF SumStep
    <3>2. CASE s # {}
      <4>1. s \ {Picked(s)} \in UpTo(S, n)
        BY <2>0, <3>2, PickedSmaller DEF UpTo
      <4>2. h[s \ {Picked(s)}] = g[s \ {Picked(s)}]
        BY <2>3, <4>1
      <4>. HIDE DEF h
      <4>. QED
        BY <3>2, <4>2 DEF SumStep
    <3>. QED
      BY <3>1, <3>2
  <2>. HIDE DEF h
  <2>5. h = [s \in UpTo(S, n + 1) |-> SumStep(f, g, s)]
    BY DEF h
  <2>6. h = [s \in UpTo(S, n + 1) |-> SumStep(f, h, s)]
    BY <2>4, <2>5
  <2>7. \E k : k = [s \in UpTo(S, n + 1) |-> SumStep(f, k, s)]
    BY <2>6
  <2>. QED
    BY <2>0, <2>7
<1>3. Cardinality(S) \in T
  <2>1. T \in SUBSET Nat
    OBVIOUS
  <2>. HIDE DEF T
  <2>. QED
    BY <1>1, <1>2, <2>1, SetInduction, UpToSteps
<1>4. PICK g : g = [s \in UpTo(S, Cardinality(S)) |-> SumStep(f, g, s)]
  BY <1>3
<1>5. IsSum(f, g, S)
  BY <1>4, UpToSteps DEF IsSum
<1>. QED
  BY <1>5

\* The functions for a set and for a part of it agree.
LEMMA SumAgrees ==
  ASSUME NEW f, NEW S, IsFiniteSet(S), NEW U \in SUBSET S,
         NEW g, IsSum(f, g, S), NEW h, IsSum(f, h, U)
  PROVE  h[U] = g[U]
<1>0. IsFiniteSet(U)
  BY FS_Subset
<1>. DEFINE T == {n \in Nat : \A s \in UpTo(U, n) : h[s] = g[s]}
<1>1. \A s \in SUBSET U : h[s] = SumStep(f, h, s) /\ g[s] = SumStep(f, g, s)
  BY DEF IsSum
<1>2. 0 \in T
  <2>1. \A s \in UpTo(U, 0) : s = {} /\ s \in SUBSET U
    BY <1>0, UpToSteps DEF UpTo
  <2>. QED
    BY <1>1, <2>1 DEF SumStep
<1>3. ASSUME NEW n \in T PROVE n + 1 \in T
  <2>1. n \in Nat
    OBVIOUS
  <2>2. ASSUME NEW s \in UpTo(U, n + 1) PROVE h[s] = g[s]
    <3>1. s \in SUBSET U
      BY DEF UpTo
    <3>2. CASE s = {}
      BY <1>1, <3>1, <3>2 DEF SumStep
    <3>3. CASE s # {}
      <4>1. s \ {Picked(s)} \in UpTo(U, n)
        BY <1>0, <2>1, <3>1, <3>3, PickedSmaller DEF UpTo
      <4>2. h[s \ {Picked(s)}] = g[s \ {Picked(s)}]
        BY <4>1
      <4>. QED
        BY <1>1, <3>1, <3>3, <4>2 DEF SumStep
    <3>. QED
      BY <3>2, <3>3
  <2>. QED
    BY <2>1, <2>2
<1>4. Cardinality(U) \in T
  <2>1. T \in SUBSET Nat
    OBVIOUS
  <2>. HIDE DEF T
  <2>. QED
    BY <1>0, <1>2, <1>3, <2>1, SetInduction, UpToSteps
<1>5. U \in UpTo(U, Cardinality(U))
  BY <1>0, UpToSteps
<1>. QED
  BY <1>4, <1>5

\* A sum over a part of a finite set, by the function for the whole set.
LEMMA SumOfPart ==
  ASSUME NEW f, NEW S, IsFiniteSet(S), NEW g, IsSum(f, g, S), NEW U \in SUBSET S
  PROVE  SumFunctionOnSet(f, U) = g[U]
<1>1. IsFiniteSet(U)
  BY FS_Subset
<1>. DEFINE h == CHOOSE k : IsSum(f, k, U)
<1>2. IsSum(f, h, U)
  BY <1>1, SumExists
<1>3. SumFunctionOnSet(f, U) = h[U]
  BY SumIsFold
<1>. HIDE DEF h
<1>. QED
  BY <1>2, <1>3, SumAgrees

\* The sum over nothing.
LEMMA SumEmpty ==
  ASSUME NEW f
  PROVE  SumFunctionOnSet(f, {}) = 0
<1>1. IsFiniteSet({})
  BY FS_EmptySet
<1>2. PICK g : IsSum(f, g, {})
  BY <1>1, SumExists
<1>3. g[{}] = 0
  BY <1>2 DEF IsSum, SumStep
<1>. QED
  BY <1>1, <1>2, <1>3, SumOfPart

Splits(f, S) ==
  \A U \in SUBSET S : \A x \in S \ U :
    /\ SumFunctionOnSet(f, U) \in Int
    /\ SumFunctionOnSet(f, U \cup {x}) = f[x] + SumFunctionOnSet(f, U)

\* A sum of integers is one, and any element can be taken out of it, whatever the
\* order of the fold.
LEMMA SumTake ==
  ASSUME NEW S, IsFiniteSet(S), NEW f \in [S -> Int]
  PROVE  /\ SumFunctionOnSet(f, S) \in Int
         /\ Splits(f, S)
         /\ \A U \in SUBSET S : \A x \in U :
              /\ SumFunctionOnSet(f, U) \in Int
              /\ SumFunctionOnSet(f, U \ {x}) \in Int
              /\ SumFunctionOnSet(f, U) = f[x] + SumFunctionOnSet(f, U \ {x})
<1>1. PICK g : IsSum(f, g, S)
  BY SumExists
<1>2. \A s \in SUBSET S : g[s] = SumStep(f, g, s)
  BY <1>1 DEF IsSum
<1>. DEFINE Good(s) == g[s] \in Int /\ \A x \in s : g[s] = f[x] + g[s \ {x}]
            T == {n \in Nat : \A s \in UpTo(S, n) : Good(s)}
<1>3. 0 \in T
  <2>1. \A s \in UpTo(S, 0) : s = {} /\ s \in SUBSET S
    BY UpToSteps DEF UpTo
  <2>2. g[{}] = 0
    BY <1>2 DEF SumStep
  <2>3. ASSUME NEW s \in UpTo(S, 0) PROVE Good(s)
    <3>1. s = {} /\ g[s] = 0
      BY <2>1, <2>2
    <3>. QED
      BY <3>1
  <2>. QED
    BY <2>3
<1>4. ASSUME NEW n \in T PROVE n + 1 \in T
  <2>1. n \in Nat
    OBVIOUS
  <2>2. ASSUME NEW s \in UpTo(S, n + 1) PROVE Good(s)
    <3>1. s \in SUBSET S /\ Cardinality(s) <= n + 1
      BY DEF UpTo
    <3>2. CASE s = {}
      <4>1. g[s] = 0
        BY <1>2, <3>1, <3>2 DEF SumStep
      <4>. QED
        BY <3>2, <4>1
    <3>3. CASE s # {}
      <4>1. PICK c : c = Picked(s)
        OBVIOUS
      <4>2. c \in s /\ g[s] = f[c] + g[s \ {c}]
        BY <1>2, <3>1, <3>3, <4>1, PickedSmaller DEF SumStep
      <4>3. \A x \in s : s \ {x} \in UpTo(S, n)
        <5>1. IsFiniteSet(s) /\ Cardinality(s) \in Nat
          BY <3>1, FS_Subset, FS_CardinalityType
        <5>2. ASSUME NEW x \in s PROVE s \ {x} \in UpTo(S, n)
          <6>1. /\ IsFiniteSet(s \ {x})
                /\ Cardinality(s \ {x}) = Cardinality(s) - 1
            BY <5>1, FS_RemoveElement
          <6>2. Cardinality(s \ {x}) <= n
            BY <2>1, <3>1, <5>1, <6>1
          <6>. QED
            BY <3>1, <6>2 DEF UpTo
        <5>. QED
          BY <5>2
      <4>4. \A x \in s : Good(s \ {x})
        BY <4>3
      <4>5. g[s] \in Int
        BY <3>1, <4>2, <4>4
      <4>6. ASSUME NEW x \in s, x # c PROVE g[s] = f[x] + g[s \ {x}]
        <5>1. g[s \ {c}] = f[x] + g[(s \ {c}) \ {x}]
          BY <4>2, <4>4, <4>6
        <5>2. g[s \ {x}] = f[c] + g[(s \ {x}) \ {c}]
          BY <4>2, <4>4, <4>6
        <5>3. PICK u : u = (s \ {c}) \ {x} /\ u = (s \ {x}) \ {c}
          OBVIOUS
        <5>4. g[u] \in Int
          <6>1. u \in UpTo(S, n)
            <7>1. IsFiniteSet(s \ {c}) /\ Cardinality(s \ {c}) \in Nat
              BY <3>1, FS_Subset, FS_CardinalityType
            <7>2. Cardinality(u) = Cardinality(s \ {c}) - 1
              BY SMTT(30), <4>6, <5>3, <7>1, FS_RemoveElement
            <7>3. Cardinality(s \ {c}) <= n
              BY <4>2, <4>3 DEF UpTo
            <7>4. u \in SUBSET S
              BY <3>1, <5>3
            <7>5. Cardinality(u) <= n
              BY <2>1, <7>1, <7>2, <7>3
            <7>. QED
              BY <7>4, <7>5 DEF UpTo
          <6>. QED
            BY <6>1
        <5>5. f[x] \in Int /\ f[c] \in Int
          BY <3>1, <4>2
        <5>6. PICK a \in Int, b \in Int, k \in Int : a = f[x] /\ b = f[c] /\ k = g[u]
          BY <5>4, <5>5
        <5>7. g[s \ {c}] = a + k /\ g[s \ {x}] = b + k
          BY <5>1, <5>2, <5>3, <5>6
        <5>8. g[s] = b + (a + k)
          BY <4>2, <5>6, <5>7
        <5>9. b + (a + k) = a + (b + k)
          OBVIOUS
        <5>. QED
          BY <5>6, <5>7, <5>8, <5>9
      <4>. QED
        BY <4>2, <4>5, <4>6
    <3>. QED
      BY <3>2, <3>3
  <2>. QED
    BY <2>1, <2>2
<1>5. Cardinality(S) \in T
  <2>1. T \in SUBSET Nat
    OBVIOUS
  <2>. HIDE DEF T
  <2>. QED
    BY <1>3, <1>4, <2>1, SetInduction, UpToSteps
<1>6. \A s \in SUBSET S : Good(s)
  BY <1>5, UpToSteps
<1>7. \A U \in SUBSET S : SumFunctionOnSet(f, U) = g[U]
  BY <1>1, SumOfPart
<1>8. Splits(f, S)
  <2>1. SUFFICES ASSUME NEW U \in SUBSET S, NEW x \in S \ U
                 PROVE  g[U] \in Int /\ g[U \cup {x}] = f[x] + g[U]
    BY <1>7 DEF Splits
  <2>2. U \cup {x} \in SUBSET S /\ x \in U \cup {x} /\ (U \cup {x}) \ {x} = U
    OBVIOUS
  <2>3. Good(U) /\ Good(U \cup {x})
    BY <1>6, <2>2
  <2>4. g[U \cup {x}] = f[x] + g[(U \cup {x}) \ {x}]
    BY <2>2, <2>3
  <2>. QED
    BY <2>2, <2>3, <2>4
<1>. QED
  BY <1>6, <1>7, <1>8

\* Two functions that agree on a set have the same sum over it.
LEMMA SumSame ==
  ASSUME NEW S, IsFiniteSet(S), NEW f \in [S -> Int], NEW g \in [S -> Int],
         NEW U \in SUBSET S, \A x \in U : f[x] = g[x]
  PROVE  SumFunctionOnSet(f, U) = SumFunctionOnSet(g, U)
<1>. DEFINE P == {V \in SUBSET U : SumFunctionOnSet(f, V) = SumFunctionOnSet(g, V)}
<1>1. {} \in P
  BY SumEmpty
<1>2. ASSUME NEW V \in SUBSET U, NEW x \in U \ V, V \in P PROVE V \cup {x} \in P
  <2>1. V \in SUBSET S /\ x \in S \ V
    OBVIOUS
  <2>4. Splits(f, S) /\ Splits(g, S)
    BY SumTake
  <2>2. /\ SumFunctionOnSet(f, V \cup {x}) = f[x] + SumFunctionOnSet(f, V)
        /\ SumFunctionOnSet(g, V \cup {x}) = g[x] + SumFunctionOnSet(g, V)
    BY <2>1, <2>4 DEF Splits
  <2>3. SumFunctionOnSet(f, V) = SumFunctionOnSet(g, V)
    BY <1>2
  <2>. QED
    BY <2>2, <2>3
<1>3. IsFiniteSet(U)
  BY FS_Subset
<1>. HIDE DEF P
<1>4. U \in P
  BY SMTT(30), <1>1, <1>2, <1>3, SubsetInduction
<1>. QED
  BY <1>4 DEF P

\* The sum of a function that changes at one point.
LEMMA SumPoint ==
  ASSUME NEW S, IsFiniteSet(S), NEW f \in [S -> Int], NEW g \in [S -> Int],
         NEW x \in S, \A y \in S \ {x} : g[y] = f[y]
  PROVE  /\ SumFunction(f) \in Int
         /\ SumFunction(g) = SumFunction(f) - f[x] + g[x]
<1>1. /\ SumFunctionOnSet(f, S) = f[x] + SumFunctionOnSet(f, S \ {x})
      /\ SumFunctionOnSet(f, S \ {x}) \in Int
      /\ SumFunctionOnSet(f, S) \in Int
  BY SumTake
<1>2. /\ SumFunctionOnSet(g, S) = g[x] + SumFunctionOnSet(g, S \ {x})
      /\ SumFunctionOnSet(g, S) \in Int
  BY SumTake
<1>3. SumFunctionOnSet(g, S \ {x}) = SumFunctionOnSet(f, S \ {x})
  BY SumSame
<1>4. f[x] \in Int /\ g[x] \in Int
  OBVIOUS
<1>5. SumFunction(f) = SumFunctionOnSet(f, S) /\ SumFunction(g) = SumFunctionOnSet(g, S)
  BY DEF SumFunction
<1>. QED
  BY <1>1, <1>2, <1>3, <1>4, <1>5

\* The sum of the sums of two functions.
LEMMA SumPlus ==
  ASSUME NEW S, IsFiniteSet(S), NEW f \in [S -> Int], NEW g \in [S -> Int],
         NEW h \in [S -> Int], \A x \in S : h[x] = f[x] + g[x]
  PROVE  /\ SumFunction(f) \in Int /\ SumFunction(g) \in Int
         /\ SumFunction(h) = SumFunction(f) + SumFunction(g)
<1>. DEFINE P == {V \in SUBSET S : SumFunctionOnSet(h, V)
                    = SumFunctionOnSet(f, V) + SumFunctionOnSet(g, V)}
<1>1. {} \in P
  BY SumEmpty
<1>2. ASSUME NEW V \in SUBSET S, NEW x \in S \ V, V \in P PROVE V \cup {x} \in P
  <2>1. Splits(f, S) /\ Splits(g, S) /\ Splits(h, S)
    BY SumTake
  <2>2. /\ SumFunctionOnSet(f, V \cup {x}) = f[x] + SumFunctionOnSet(f, V)
        /\ SumFunctionOnSet(f, V) \in Int
    BY <2>1 DEF Splits
  <2>3. /\ SumFunctionOnSet(g, V \cup {x}) = g[x] + SumFunctionOnSet(g, V)
        /\ SumFunctionOnSet(g, V) \in Int
    BY <2>1 DEF Splits
  <2>4. SumFunctionOnSet(h, V \cup {x}) = h[x] + SumFunctionOnSet(h, V)
    BY <2>1 DEF Splits
  <2>5. SumFunctionOnSet(h, V) = SumFunctionOnSet(f, V) + SumFunctionOnSet(g, V)
    BY <1>2
  <2>6. f[x] \in Int /\ g[x] \in Int /\ h[x] = f[x] + g[x]
    OBVIOUS
  <2>. QED
    BY <2>2, <2>3, <2>4, <2>5, <2>6
<1>3. S \in P
  <2>. HIDE DEF P
  <2>. QED
    BY <1>1, <1>2, SubsetInduction
<1>4. SumFunctionOnSet(f, S) \in Int /\ SumFunctionOnSet(g, S) \in Int
  BY SumTake
<1>. QED
  BY <1>3, <1>4 DEF SumFunction

\* A function that is 0 everywhere adds up to 0.
LEMMA SumZero ==
  ASSUME NEW S, IsFiniteSet(S), NEW f \in [S -> Int], \A x \in S : f[x] = 0
  PROVE  SumFunction(f) = 0
<1>1. SumFunction(f) \in Int /\ SumFunction(f) = SumFunction(f) + SumFunction(f)
  BY SumPlus
<1>. QED
  BY SMTT(30), <1>1

(***************************************************************************)
(* What survives crashes: the invariant CrashInv.                          *)
(***************************************************************************)

\* What LocalInv(k) speaks of is unchanged.
Untouched(k) ==
  /\ pc'[k] = pc[k] /\ cur'[k] = cur[k] /\ last'[k] = last[k]
  /\ place'[k] = place[k] /\ stat'[k] = stat[k] /\ held'[k] = held[k]
  /\ lastStage'[k] = lastStage[k] /\ meta'[k] = meta[k]

\* A step leaves the local invariant of the other instances alone.
LEMMA LocalKept ==
  ASSUME NEW k \in Inst, LocalInv(k), Untouched(k), arrived \subseteq arrived'
  PROVE  LocalInv(k)'
BY DEF LocalInv, CallInv, LastStageInv, HeldInv, SoundInv, Sharing, LastSending,
       Sending, Removing, Unassigned, Untouched

\* At the end of the first half of a commit two instances have the request; a
\* step that leaves "committed" must leave one of them without it.
HandOverKept(i) ==
  pc[i] = "committed" =>
    \/ pc'[i] = "committed" /\ cur'[i] = cur[i]
    \/ place'[i][cur[i]] = "none"
    \/ place[dst[i]][cur[i]] = "none"

\* A step of one instance, which starts and ends no migration and adds no
\* request to a queue.
LEMMA LocalStep ==
  ASSUME CrashInv, ShapeInv', NEW i \in Inst, LocalInv(i)',
         \A k \in Inst \ {i} : Untouched(k),
         arrived' = arrived, dst' = dst, busy' = busy,
         pc[i] = "idle" => pc'[i] = "idle",
         \A r \in Req : place[i][r] = "none" => place'[i][r] = "none",
         HandOverKept(i)
  PROVE  CrashInv'
<1>1. \A k \in Inst : LocalInv(k)'
  BY LocalKept DEF CrashInv
<1>2. \A k \in Inst : pc[k] = "idle" => pc'[k] = "idle"
  BY DEF Untouched
<1>3. OneToOne'
  BY <1>2 DEF CrashInv, OneToOne
<1>4. \A k \in Inst, r \in Req : place'[k][r] # "none" => place[k][r] # "none"
  BY DEF Untouched
<1>5. ASSUME NEW k \in Inst, NEW j \in Inst, NEW r \in Req, k # j, HandsOver(k, j, r),
             place'[k][r] # "none", place'[j][r] # "none"
      PROVE  HandsOver(k, j, r)'
  <2>1. pc[k] = "committed" /\ cur[k] = r /\ dst[k] = j
    BY <1>5 DEF HandsOver
  <2>2. CASE k = i
    <3>1. place[j][r] # "none"
      BY <1>4, <1>5
    <3>2. pc'[k] = "committed" /\ cur'[k] = cur[k]
      BY <1>5, <2>1, <2>2, <3>1 DEF HandOverKept
    <3>. QED
      BY <2>1, <3>2 DEF HandsOver
  <2>3. CASE k # i
    BY <2>1, <2>3 DEF HandsOver, Untouched
  <2>. QED
    BY <2>2, <2>3
<1>6. UniqueInv'
  <2>1. SUFFICES ASSUME NEW k \in Inst, NEW j \in Inst, NEW r \in Req, k # j,
                        place'[k][r] # "none", place'[j][r] # "none"
                 PROVE  HandsOver(k, j, r)' \/ HandsOver(j, k, r)'
    BY DEF UniqueInv
  <2>2. place[k][r] # "none" /\ place[j][r] # "none"
    BY <1>4, <2>1
  <2>3. HandsOver(k, j, r) \/ HandsOver(j, k, r)
    BY <2>1, <2>2 DEF CrashInv, UniqueInv
  <2>. QED
    BY <1>5, <2>1, <2>3
<1>. QED
  BY <1>1, <1>3, <1>6 DEF CrashInv

(***************************************************************************)
(* The engine and its clients.                                             *)
(***************************************************************************)

\* A new request of the client: it was nowhere before.
LEMMA AddRequestCrash ==
  ASSUME CrashInv, NEW i \in Inst, NEW r \in Req, AddRequest(i, r)
  PROVE  CrashInv'
<1>b. PICK b \in 1..MaxBlocks, l \in BOOLEAN :
        meta' = [meta EXCEPT ![i][r] = NewMeta(b, l)]
  BY DEF AddRequest
<1>. DEFINE m == NewMeta(b, l)
<1>m. m \in AnyMeta /\ ~m.finished /\ ~m.preempted
  BY BlocksAssumption DEF NewMeta, AnyMeta
<1>e. /\ r \notin arrived
      /\ m \in AnyMeta /\ ~m.finished /\ ~m.preempted
      /\ arrived' = arrived \cup {r}
      /\ place' = [place EXCEPT ![i][r] = "waiting"]
      /\ meta' = [meta EXCEPT ![i][r] = m]
      /\ UNCHANGED <<stat, held, eom, pre, free, lastStage, pc, dst, cur,
           todo, stage, num, last, busy>>
  BY <1>b, <1>m DEF AddRequest, blockVars, jobVars
<1>. HIDE DEF m
<1>0. ShapeInv /\ OneToOne /\ UniqueInv /\ \A k \in Inst : LocalInv(k)
  BY DEF CrashInv
<1>1. ShapeInv'
  BY <1>0, <1>e DEF ShapeInv, Places
<1>2. OneToOne'
  BY <1>0, <1>e DEF OneToOne
<1>3. \A k \in Inst : place[k][r] = "none"
  BY <1>0, <1>e DEF LocalInv, SoundInv
<1>4. UniqueInv'
  BY <1>0, <1>3, <1>e DEF UniqueInv, HandsOver, ShapeInv
<1>5. \A k \in Inst \ {i} : LocalInv(k)'
  BY <1>0, <1>e, LocalKept DEF Untouched, ShapeInv
<1>6. LocalInv(i)'
  <2>1. LocalInv(i)
    BY <1>0
  <2>2. /\ ~meta'[i][r].finished /\ ~meta'[i][r].preempted
        /\ place'[i][r] = "waiting" /\ r \in arrived'
    BY <1>0, <1>e DEF ShapeInv
  <2>3. \A q \in Req \ {r} : place'[i][q] = place[i][q] /\ meta'[i][q] = meta[i][q]
    BY <1>0, <1>e DEF ShapeInv
  <2>4. CallInv(i)'
    BY <1>3, <1>e, <2>1, <2>2, <2>3 DEF LocalInv, CallInv, LastStageInv, Sharing,
       LastSending, Sending, Removing, Unassigned
  <2>5. LastStageInv(i)'
    BY <1>0, <1>3, <1>e, <2>1, <2>2, <2>3 DEF LocalInv, LastStageInv, ShapeInv
  <2>6. HeldInv(i)'
    BY <1>3, <1>e, <2>1, <2>2, <2>3 DEF LocalInv, HeldInv
  <2>7. SoundInv(i)'
    BY <1>3, <1>e, <2>1, <2>2, <2>3 DEF LocalInv, SoundInv, CallInv, LastStageInv,
       LastSending, Sending, Removing, Unassigned
  <2>. QED
    BY <2>4, <2>5, <2>6, <2>7 DEF LocalInv
<1>. QED
  BY <1>1, <1>2, <1>4, <1>5, <1>6 DEF CrashInv
\* What the engine does to one copy of a request.
LEMMA EngineLocal ==
  ASSUME NEW i \in Inst, NEW r \in Req, LocalInv(i),
         \/ Runnable(i, r)
         \/ place[i][r] = "detached" /\ pc[i] = "removed" /\ cur[i] = r,
         \A q \in Req \ {r} :
           /\ place'[i][q] = place[i][q] /\ stat'[i][q] = stat[i][q]
           /\ held'[i][q] = held[i][q] /\ meta'[i][q] = meta[i][q],
         arrived' = arrived, cur'[i] = cur[i], last'[i] = last[i],
         lastStage'[i] = lastStage[i], lastStage[i] \subseteq Req,
         place'[i][r] \in {"none", "waiting", "running"},
         stat'[i][r] \in {"none", stat[i][r]},
         place'[i][r] # "none" => ~meta'[i][r].finished,
         place'[i][r] # "running" => held'[i][r] = 0,
         \/ pc'[i] = pc[i]
         \/ pc[i] = "remove" /\ cur[i] = r /\ pc'[i] = "removeStepped",
         place'[i][r] = "running" =>
           /\ meta'[i][r].preempted = meta[i][r].preempted
           /\ pc[i] = "removeStepped" /\ cur[i] = r => place[i][r] = "running",
         pc'[i] = "remove" /\ cur[i] = r => meta'[i][r].preempted = meta[i][r].preempted
  PROVE  LocalInv(i)'
<1>1. r \in arrived
  BY DEF LocalInv, SoundInv, Runnable
<1>2. r \notin lastStage[i]
  BY DEF LocalInv, LastStageInv, CallInv, Runnable
<1>3. CallInv(i)'
  BY <1>2 DEF LocalInv, CallInv, LastStageInv, Sharing, LastSending, Sending,
       Removing, Unassigned
<1>4. LastStageInv(i)'
  BY <1>2 DEF LocalInv, LastStageInv, Runnable
<1>5. HeldInv(i)'
  BY DEF LocalInv, HeldInv
<1>6. SoundInv(i)'
  BY <1>1, <1>2 DEF LocalInv, SoundInv, CallInv, LastStageInv, LastSending, Sending,
       Removing, Unassigned
<1>. QED
  BY <1>3, <1>4, <1>5, <1>6 DEF LocalInv

\* The parts of the invariant that the proofs below use.
LEMMA CrashParts ==
  ASSUME CrashInv
  PROVE  ShapeInv /\ OneToOne /\ UniqueInv /\ \A k \in Inst : LocalInv(k)
BY DEF CrashInv

\* The engine gives blocks to a waiting request and runs it.
LEMMA AdmitCrash ==
  ASSUME CrashInv, NEW i \in Inst, NEW r \in Req, Admit(i, r)
  PROVE  CrashInv'
<1>0. ShapeInv /\ LocalInv(i)
  BY CrashParts
<1>e. /\ place[i][r] = "waiting" /\ ~(pc[i] = "removeStepped" /\ cur[i] = r)
      /\ place' = [place EXCEPT ![i][r] = "running"]
      /\ UNCHANGED <<arrived, meta, eom, pre, lastStage, pc, dst, cur, todo, stage,
                     num, last, busy>>
  BY DEF Admit, CanStep, jobVars
<1>s. \E s \in {"none", stat[i][r]} : stat' = [stat EXCEPT ![i][r] = s]
  BY <1>0 DEF Admit, ShapeInv
<1>h. \E h \in Int, f \in Int : /\ held' = [held EXCEPT ![i][r] = h]
                                /\ free' = [free EXCEPT ![i] = f]
  <2>1. CASE stat[i][r] = "waiting_migrating"
    <3>1. held' = [held EXCEPT ![i][r] = held[i][r]] /\ free' = [free EXCEPT ![i] = free[i]]
      BY <1>0, <2>1 DEF Admit, ShapeInv
    <3>. QED
      BY ZenonT(30), <1>0, <3>1 DEF ShapeInv
  <2>2. CASE stat[i][r] # "waiting_migrating"
    <3>1. meta[i][r].size \in Int /\ free[i] \in Int
      BY <1>0 DEF ShapeInv, AnyMeta
    <3>. QED
      BY <2>2, <3>1 DEF Admit
  <2>. QED
    BY <2>1, <2>2
<1>t. stat[i][r] \in Statuses /\ "none" \in Statuses
  BY <1>0 DEF ShapeInv, Statuses
<1>p. PICK s \in Statuses : stat' = [stat EXCEPT ![i][r] = s]
  BY <1>s, <1>t
<1>f. PICK h \in Int, f \in Int : /\ held' = [held EXCEPT ![i][r] = h]
                                  /\ free' = [free EXCEPT ![i] = f]
  BY <1>h
<1>1. ShapeInv'
  BY <1>0, <1>e, <1>p, <1>f DEF ShapeInv, Places
<1>2. \A k \in Inst \ {i} : Untouched(k)
  BY <1>0, <1>e, <1>s, <1>h DEF Untouched, ShapeInv
<1>3. /\ \A q \in Req \ {r} :
           /\ place'[i][q] = place[i][q] /\ stat'[i][q] = stat[i][q]
           /\ held'[i][q] = held[i][q] /\ meta'[i][q] = meta[i][q]
      /\ place'[i][r] = "running" /\ stat'[i][r] \in {"none", stat[i][r]}
  BY <1>0, <1>e, <1>s, <1>h DEF ShapeInv
<1>4. ~meta[i][r].finished
  BY <1>0, <1>e DEF LocalInv, SoundInv
<1>5. LocalInv(i)'
  BY <1>0, <1>e, <1>3, <1>4, EngineLocal DEF Runnable, ShapeInv
<1>. QED
  BY <1>1, <1>2, <1>3, <1>5, <1>e, LocalStep DEF HandOverKept

\* The fields of the attributes that a step sets.
LEMMA AnySize ==
  ASSUME NEW m \in AnyMeta, NEW b \in Int
  PROVE  /\ [m EXCEPT !.size = b] \in AnyMeta
         /\ [m EXCEPT !.size = b].preempted = m.preempted
         /\ [m EXCEPT !.size = b].finished = m.finished
BY DEF AnyMeta

\* A copy stays a copy when its preemption is noted.
LEMMA AnyPreempted ==
  ASSUME NEW m \in AnyMeta, NEW b \in BOOLEAN
  PROVE  /\ [m EXCEPT !.preempted = b] \in AnyMeta
         /\ [m EXCEPT !.preempted = b].preempted = b
         /\ [m EXCEPT !.preempted = b].finished = m.finished
BY DEF AnyMeta

\* A copy stays a copy when it is finished.
LEMMA AnyFinished ==
  ASSUME NEW m \in AnyMeta
  PROVE  /\ [m EXCEPT !.finished = TRUE] \in AnyMeta
         /\ [m EXCEPT !.finished = TRUE].preempted = m.preempted
BY DEF AnyMeta

\* The engine completes a step of the request, with what the step does to it.
LEMMA SteppedCrash ==
  ASSUME CrashInv, NEW i \in Inst, NEW r \in Req, NEW p \in {"waiting", "running"},
         NEW h \in Int, NEW f \in Int, NEW m \in AnyMeta,
         place[i][r] = "running", CanStep(i, r), StepTaken(i, r),
         place' = [place EXCEPT ![i][r] = p], held' = [held EXCEPT ![i][r] = h],
         free' = [free EXCEPT ![i] = f], meta' = [meta EXCEPT ![i][r] = m],
         m.finished = meta[i][r].finished,
         p = "running" => m.preempted = meta[i][r].preempted,
         p = "waiting" => h = 0,
         UNCHANGED <<arrived, stat, eom, pre, lastStage, dst, cur, todo, stage, num,
                     last, busy>>
  PROVE  CrashInv'
<1>0. ShapeInv /\ LocalInv(i)
  BY CrashParts
<1>e. /\ ~(pc[i] = "removeStepped" /\ cur[i] = r)
      /\ pc' = [pc EXCEPT ![i] = IF pc[i] = "remove" /\ cur[i] = r
                                 THEN "removeStepped" ELSE pc[i]]
  BY DEF CanStep, StepTaken
<1>1. ShapeInv'
  BY <1>0, <1>e DEF ShapeInv, Places, PCs
<1>2. \A k \in Inst \ {i} : Untouched(k)
  BY <1>0, <1>e DEF Untouched, ShapeInv
<1>3. /\ \A q \in Req \ {r} :
           /\ place'[i][q] = place[i][q] /\ stat'[i][q] = stat[i][q]
           /\ held'[i][q] = held[i][q] /\ meta'[i][q] = meta[i][q]
      /\ place'[i][r] = p /\ held'[i][r] = h /\ meta'[i][r] = m
      /\ stat'[i][r] = stat[i][r]
  BY <1>0, <1>e DEF ShapeInv
<1>p. /\ pc'[i] = pc[i] \/ (pc[i] = "remove" /\ cur[i] = r /\ pc'[i] = "removeStepped")
      /\ pc'[i] = "remove" => cur[i] # r
  BY <1>0, <1>e DEF ShapeInv
<1>4. ~m.finished
  BY <1>0 DEF LocalInv, SoundInv
<1>5. LocalInv(i)'
  BY ZenonT(30), <1>0, <1>3, <1>4, <1>e, <1>p, EngineLocal DEF Runnable, ShapeInv
<1>. QED
  BY <1>1, <1>2, <1>3, <1>5, <1>p, LocalStep DEF HandOverKept

\* The engine gives a running request one more block.
LEMMA GrowCrash ==
  ASSUME CrashInv, NEW i \in Inst, NEW r \in Req, Grow(i, r)
  PROVE  CrashInv'
<1>0. ShapeInv
  BY CrashParts
<1>1. meta[i][r] \in AnyMeta /\ held[i][r] \in Int /\ free[i] \in Int
  BY <1>0 DEF ShapeInv
<1>2. meta[i][r].size \in Int
  BY <1>1 DEF AnyMeta
<1>. DEFINE size == meta[i][r].size + 1
            need == IF size > held[i][r] THEN size - held[i][r] ELSE 0
            m == [meta[i][r] EXCEPT !.size = size]
<1>3. /\ place[i][r] = "running" /\ CanStep(i, r) /\ StepTaken(i, r)
      /\ meta' = [meta EXCEPT ![i][r] = m]
      /\ held' = [held EXCEPT ![i][r] = held[i][r] + need]
      /\ free' = [free EXCEPT ![i] = free[i] - need]
      /\ UNCHANGED <<arrived, place, stat, eom, pre, lastStage, dst, cur, todo, stage,
                     num, last, busy>>
  BY DEF Grow, jobVars
<1>4. size \in Int /\ held[i][r] + need \in Int /\ free[i] - need \in Int
  BY <1>1, <1>2
<1>5. /\ m \in AnyMeta /\ m.preempted = meta[i][r].preempted
      /\ m.finished = meta[i][r].finished
  BY <1>1, <1>4, AnySize
<1>6. place' = [place EXCEPT ![i][r] = "running"]
  BY <1>0, <1>3 DEF ShapeInv
<1>. HIDE DEF size, need, m
<1>. QED
  BY <1>3, <1>4, <1>5, <1>6, SteppedCrash

\* A preempted request gives its blocks back and waits; only the engine's own
\* queue holds it, so that no migration has it in its last stage.
LEMMA PreemptCrash ==
  ASSUME CrashInv, NEW i \in Inst, NEW r \in Req, Preempt(i, r)
  PROVE  CrashInv'
<1>0. ShapeInv
  BY CrashParts
<1>1. meta[i][r] \in AnyMeta /\ held[i][r] \in Int /\ free[i] \in Int
  BY <1>0 DEF ShapeInv
<1>. DEFINE m == [meta[i][r] EXCEPT !.preempted = TRUE]
            f == free[i] + held[i][r]
<1>3. /\ place[i][r] = "running" /\ CanStep(i, r) /\ StepTaken(i, r)
      /\ place' = [place EXCEPT ![i][r] = "waiting"]
      /\ meta' = [meta EXCEPT ![i][r] = m]
      /\ held' = [held EXCEPT ![i][r] = 0]
      /\ free' = [free EXCEPT ![i] = f]
      /\ UNCHANGED <<arrived, stat, eom, pre, lastStage, dst, cur, todo, stage,
                     num, last, busy>>
  BY DEF Preempt, jobVars
<1>4. f \in Int
  BY <1>1
<1>5. m \in AnyMeta /\ m.finished = meta[i][r].finished
  BY <1>1, AnyPreempted
<1>. HIDE DEF m, f
<1>6. PICK h \in Int, p \in {"waiting", "running"} : h = 0 /\ p = "waiting"
  OBVIOUS
<1>7. place' = [place EXCEPT ![i][r] = p] /\ held' = [held EXCEPT ![i][r] = h]
  BY <1>3, <1>6
<1>. QED
  BY <1>3, <1>4, <1>5, <1>6, <1>7, SteppedCrash

\* A finished or aborted request is forgotten together with its blocks.
LEMMA RetireCrash ==
  ASSUME CrashInv, NEW i \in Inst, NEW r \in Req, Retire(i, r),
         \/ Runnable(i, r)
         \/ place[i][r] = "detached" /\ pc[i] = "removed" /\ cur[i] = r
  PROVE  CrashInv'
<1>0. ShapeInv /\ LocalInv(i)
  BY CrashParts
<1>1. meta[i][r] \in AnyMeta /\ held[i][r] \in Int /\ free[i] \in Int
  BY <1>0 DEF ShapeInv
<1>. DEFINE m == [meta[i][r] EXCEPT !.finished = TRUE]
            f == free[i] + held[i][r]
<1>3. /\ place' = [place EXCEPT ![i][r] = "none"]
      /\ meta' = [meta EXCEPT ![i][r] = m]
      /\ held' = [held EXCEPT ![i][r] = 0]
      /\ free' = [free EXCEPT ![i] = f]
      /\ UNCHANGED <<arrived, stat, eom, pre, lastStage, pc, dst, cur, todo, stage,
                     num, last, busy>>
  BY DEF Retire, jobVars
<1>4. f \in Int /\ m \in AnyMeta /\ m.preempted = meta[i][r].preempted
  BY <1>1, AnyFinished
<1>. HIDE DEF m, f
<1>5. ShapeInv'
  BY <1>0, <1>3, <1>4 DEF ShapeInv, Places
<1>6. \A k \in Inst \ {i} : Untouched(k)
  BY <1>0, <1>3 DEF Untouched, ShapeInv
<1>7. /\ \A q \in Req \ {r} :
           /\ place'[i][q] = place[i][q] /\ stat'[i][q] = stat[i][q]
           /\ held'[i][q] = held[i][q] /\ meta'[i][q] = meta[i][q]
      /\ place'[i][r] = "none" /\ held'[i][r] = 0 /\ meta'[i][r] = m
      /\ stat'[i][r] = stat[i][r]
  BY <1>0, <1>3 DEF ShapeInv
<1>8. LocalInv(i)'
  BY ZenonT(30), <1>0, <1>3, <1>4, <1>7, EngineLocal DEF ShapeInv
<1>. QED
  BY <1>3, <1>5, <1>6, <1>7, <1>8, LocalStep DEF HandOverKept

(***************************************************************************)
(* The manager and the destination.                                        *)
(***************************************************************************)

\* A new migration is one of two instances that take part in no other.
LEMMA PushMigrationCrash ==
  ASSUME CrashInv, NEW i \in Inst, NEW j \in Inst, PushMigration(i, j)
  PROVE  CrashInv'
<1>0. ShapeInv /\ OneToOne /\ UniqueInv /\ \A k \in Inst : LocalInv(k)
  BY CrashParts
<1>e. /\ i # j /\ ~busy[i] /\ ~busy[j] /\ pc[i] = "idle"
      /\ busy' = [busy EXCEPT ![i] = TRUE, ![j] = TRUE]
      /\ dst' = [dst EXCEPT ![i] = j]
      /\ pc' = [pc EXCEPT ![i] = "called"]
      /\ UNCHANGED <<arrived, place, stat, meta, eom, held, pre, free, lastStage, cur,
                     todo, stage, num, last>>
  BY DEF PushMigration, PairOK, NotMigrating, queueVars, blockVars, jobVars
<1>1. ShapeInv'
  BY <1>0, <1>e DEF ShapeInv, PCs
<1>2. OneToOne'
  <2>1. ASSUME NEW k \in Inst, pc'[k] # "idle"
        PROVE  dst'[k] # k /\ busy'[k] /\ busy'[dst'[k]]
    BY <1>0, <1>e, <2>1 DEF OneToOne, ShapeInv
  <2>2. ASSUME NEW k \in Inst, NEW l \in Inst, k # l,
               pc'[k] # "idle", pc'[l] # "idle"
        PROVE  dst'[k] # dst'[l] /\ dst'[k] # l
    BY <1>0, <1>e, <2>2 DEF OneToOne, ShapeInv
  <2>. QED
    BY <2>1, <2>2 DEF OneToOne
<1>3. UniqueInv'
  BY <1>0, <1>e DEF UniqueInv, HandsOver, ShapeInv
<1>4. \A k \in Inst \ {i} : LocalInv(k)'
  BY <1>0, <1>e, LocalKept DEF Untouched, ShapeInv
<1>5. LocalInv(i)'
  BY <1>0, <1>e DEF LocalInv, CallInv, LastStageInv, HeldInv, SoundInv, Sharing,
       LastSending, Sending, Removing, Unassigned, ShapeInv
<1>. QED
  BY <1>1, <1>2, <1>3, <1>4, <1>5 DEF CrashInv

\* The end of a migration frees the pair.
LEMMA ReleaseCrash ==
  ASSUME CrashInv, NEW i \in Inst, pc[i] \in {"done", "raised"}, ShapeInv',
         busy' = [busy EXCEPT ![i] = FALSE, ![dst[i]] = FALSE],
         dst' = [dst EXCEPT ![i] = i], pc' = [pc EXCEPT ![i] = "idle"],
         \A k \in Inst \ {i} : cur'[k] = cur[k] /\ last'[k] = last[k],
         UNCHANGED <<arrived, place, stat, meta, held, lastStage>>
  PROVE  CrashInv'
<1>0. ShapeInv /\ OneToOne /\ UniqueInv /\ \A k \in Inst : LocalInv(k)
  BY CrashParts
<1>2. OneToOne'
  <2>1. ASSUME NEW k \in Inst, pc'[k] # "idle"
        PROVE  dst'[k] # k /\ busy'[k] /\ busy'[dst'[k]]
    <3>1. k # i /\ pc[k] # "idle" /\ dst'[k] = dst[k]
      BY <1>0, <2>1 DEF ShapeInv
    <3>2. dst[k] # i /\ dst[k] # dst[i] /\ dst[i] # k /\ dst[k] # k
      BY <1>0, <3>1 DEF OneToOne
    <3>3. busy[k] /\ busy[dst[k]]
      BY <1>0, <3>1 DEF OneToOne
    <3>4. \A l \in Inst : l # i /\ l # dst[i] => busy'[l] = busy[l]
      BY <1>0 DEF ShapeInv
    <3>5. dst[k] \in Inst
      BY <1>0 DEF ShapeInv
    <3>. QED
      BY <3>1, <3>2, <3>3, <3>4, <3>5
  <2>2. ASSUME NEW k \in Inst, NEW l \in Inst, k # l,
               pc'[k] # "idle", pc'[l] # "idle"
        PROVE  dst'[k] # dst'[l] /\ dst'[k] # l
    BY <1>0, <2>2 DEF OneToOne, ShapeInv
  <2>. QED
    BY <2>1, <2>2 DEF OneToOne
<1>3. UniqueInv'
  BY <1>0 DEF UniqueInv, HandsOver, ShapeInv
<1>4. \A k \in Inst \ {i} : LocalInv(k)'
  BY <1>0, LocalKept DEF Untouched, ShapeInv
<1>5. LocalInv(i)'
  BY <1>0 DEF LocalInv, CallInv, LastStageInv, HeldInv, SoundInv, Sharing,
       LastSending, Sending, Removing, Unassigned, ShapeInv
<1>. QED
  BY <1>2, <1>3, <1>4, <1>5 DEF CrashInv

\* The answer of migrate_out ends the migration of the pair.
LEMMA MigrateDoneCrash ==
  ASSUME CrashInv, NEW i \in Inst, MigrateDone(i)
  PROVE  CrashInv'
<1>0. ShapeInv
  BY CrashParts
<1>e. /\ pc[i] = "done"
      /\ busy' = [busy EXCEPT ![i] = FALSE, ![dst[i]] = FALSE]
      /\ dst' = [dst EXCEPT ![i] = i]
      /\ pc' = [pc EXCEPT ![i] = "idle"]
      /\ UNCHANGED <<arrived, place, stat, meta, eom, held, pre, free, lastStage, cur,
                     todo, stage, num, last>>
  BY DEF MigrateDone, queueVars, blockVars, jobVars
<1>1. ShapeInv'
  BY <1>0, <1>e DEF ShapeInv, PCs
<1>. QED
  BY <1>1, <1>e, ReleaseCrash

\* migrate_in_pre_alloc, with either answer.
LEMMA PreAllocCrash ==
  ASSUME CrashInv, NEW i \in Inst, MigrateInPreAlloc(i)
  PROVE  CrashInv'
<1>0. ShapeInv /\ LocalInv(i)
  BY CrashParts
<1>1. PICK r \in Req, j \in Inst : r = cur[i] /\ j = dst[i] /\ pc[i] = "alloc"
  BY <1>0 DEF MigrateInPreAlloc, LocalInv, CallInv, Unassigned, ShapeInv
<1>n. pre[j][r] \in Int /\ free[j] \in Int /\ num[i] \in Int
  BY <1>0 DEF ShapeInv
<1>l. PreAllocLen(j, r, num[i]) \in Int
  BY <1>n DEF PreAllocLen
<1>e. /\ \E p \in Int : pre' = [pre EXCEPT ![j][r] = p]
      /\ \E f \in Int : free' = [free EXCEPT ![j] = f]
      /\ \E a \in {"allocated", "refused"} : pc' = [pc EXCEPT ![i] = a]
  <2>1. CASE PreAllocOK(i, j, r)
    <3>1. /\ PreAllocLen(j, r, num[i]) \in Int
          /\ (free[j] + pre[j][r]) - PreAllocLen(j, r, num[i]) \in Int
      BY <1>l, <1>n
    <3>. QED
      BY <2>1, <3>1 DEF PreAllocOK
  <2>2. CASE PreAllocRefused(i, j, r)
    <3>1. 0 \in Int /\ free[j] + pre[j][r] \in Int
      BY <1>n
    <3>. QED
      BY <2>2, <3>1 DEF PreAllocRefused
  <2>. QED
    BY <1>1, <2>1, <2>2 DEF MigrateInPreAlloc
<1>p. PICK p \in Int, f \in Int, a \in {"allocated", "refused"} :
        /\ pre' = [pre EXCEPT ![j][r] = p]
        /\ free' = [free EXCEPT ![j] = f]
        /\ pc' = [pc EXCEPT ![i] = a]
  BY <1>e
<1>u. UNCHANGED <<arrived, place, stat, meta, eom, held, lastStage, dst, cur, todo,
                  stage, num, last, busy>>
  BY DEF MigrateInPreAlloc, queueVars, jobVars
<1>2. ShapeInv'
  BY <1>0, <1>p, <1>u DEF ShapeInv, PCs
<1>3. \A k \in Inst \ {i} : Untouched(k)
  BY <1>0, <1>p, <1>u DEF Untouched, ShapeInv
<1>a. pc'[i] = a
  BY <1>0, <1>p DEF ShapeInv
<1>4. LocalInv(i)'
  BY <1>0, <1>1, <1>a, <1>u DEF LocalInv, CallInv, LastStageInv, HeldInv, SoundInv,
       Sharing, LastSending, Sending, Removing, Unassigned
<1>. QED
  BY <1>1, <1>2, <1>3, <1>4, <1>a, <1>u, LocalStep DEF HandOverKept

\* The coroutine ends with an exception; from "committed" only when its
\* destination does not have the request.
LEMMA RaiseCrash ==
  ASSUME CrashInv, NEW i \in Inst, pc[i] # "idle", Raise(i),
         pc[i] # "removed",
         pc[i] = "committed" => place[dst[i]][cur[i]] = "none",
         UNCHANGED <<arrived, place, stat, meta, eom, held, pre, free, lastStage, dst,
                     busy>>
  PROVE  CrashInv'
<1>0. ShapeInv /\ LocalInv(i)
  BY CrashParts
<1>e. /\ pc' = [pc EXCEPT ![i] = "raised"]
      /\ UNCHANGED <<cur, todo, stage, num, last>>
  BY DEF Raise, jobVars
<1>2. ShapeInv'
  BY <1>0, <1>e DEF ShapeInv, PCs
<1>3. \A k \in Inst \ {i} : Untouched(k)
  BY <1>0, <1>e DEF Untouched, ShapeInv
<1>a. pc'[i] = "raised"
  BY <1>0, <1>e DEF ShapeInv
<1>4. LocalInv(i)'
  BY <1>0, <1>a, <1>e DEF LocalInv, CallInv, LastStageInv, HeldInv, SoundInv,
       Sharing, LastSending, Sending, Removing, Unassigned
<1>. QED
  BY <1>2, <1>3, <1>4, <1>a, <1>e, LocalStep DEF HandOverKept

\* The destination gets its copy: it had none, since nobody but the source has
\* the request, and it takes part in no migration of its own.
LEMMA CommitCrash ==
  ASSUME CrashInv, NEW i \in Inst, CommitDstRequest(i)
  PROVE  CrashInv'
<1>0. ShapeInv /\ OneToOne /\ UniqueInv /\ \A k \in Inst : LocalInv(k)
  BY CrashParts
<1>1. PICK r \in Req, j \in Inst : r = cur[i] /\ j = dst[i] /\ pc[i] = "commit"
  BY <1>0 DEF CommitDstRequest, LocalInv, CallInv, Unassigned, ShapeInv
<1>u. UNCHANGED <<arrived, eom, free, lastStage, dst, cur, todo, stage, num, last, busy>>
  BY DEF CommitDstRequest, jobVars
<1>2. CASE pre[j][r] = 0
  <2>1. /\ pc' = [pc EXCEPT ![i] = "raised"]
        /\ UNCHANGED <<place, stat, held, meta, pre>>
    BY <1>1, <1>2 DEF CommitDstRequest
  <2>2. Raise(i)
    BY <1>u, <2>1 DEF Raise, jobVars
  <2>. QED
    BY <1>1, <1>u, <2>1, <2>2, RaiseCrash
<1>3. CASE pre[j][r] # 0
  <2>. DEFINE m == NewMeta(meta[i][r].size, FALSE)
  <2>1. m \in AnyMeta /\ ~m.finished /\ ~m.preempted
    <3>1. meta[i][r].size \in Int
      BY <1>0 DEF ShapeInv, AnyMeta
    <3>. QED
      BY <3>1 DEF NewMeta, AnyMeta
  <2>. HIDE DEF m
  <2>2. /\ pc' = [pc EXCEPT ![i] = "committed"]
        /\ held' = [held EXCEPT ![j][r] = pre[j][r]]
        /\ pre' = [pre EXCEPT ![j][r] = 0]
        /\ meta' = [meta EXCEPT ![j][r] = m]
    BY <1>1, <1>3 DEF CommitDstRequest, m
  <2>3. \/ /\ place' = [place EXCEPT ![j][r] = "waiting"]
           /\ stat' = [stat EXCEPT ![j][r] = "waiting_migrating"]
        \/ /\ place' = [place EXCEPT ![j][r] = "running"]
           /\ stat' = [stat EXCEPT ![j][r] = "none"]
    BY <1>1, <1>3 DEF CommitDstRequest
  <2>4. PICK p \in {"waiting", "running"}, s \in {"none", "waiting_migrating"} :
          /\ place' = [place EXCEPT ![j][r] = p]
          /\ stat' = [stat EXCEPT ![j][r] = s]
          /\ p = "waiting" => s = "waiting_migrating"
    BY <2>3
  <2>n. pre[j][r] \in Int
    BY <1>0 DEF ShapeInv
  <2>5. ShapeInv'
    BY <1>0, <1>u, <2>1, <2>2, <2>4, <2>n DEF ShapeInv, Places, Statuses, PCs
  <2>6. /\ i # j /\ pc[j] = "idle"
        /\ \A k \in Inst : pc[k] # "idle" /\ k # i => dst[k] # j
    BY <1>0, <1>1 DEF OneToOne
  <2>7. /\ r \in lastStage[i] /\ place[i][r] = "detached" /\ r \in arrived
        /\ last[i] /\ stat[i][r] \in {"running_migrating", "waiting_migrating"}
    BY <1>0, <1>1 DEF LocalInv, CallInv, LastStageInv, SoundInv, LastSending, Sending
  <2>8. \A k \in Inst \ {i} : place[k][r] = "none"
    BY <1>0, <1>1, <2>7 DEF UniqueInv, HandsOver, OneToOne
  <2>9. OneToOne'
    <3>1. \A k \in Inst : pc'[k] # "idle" => pc[k] # "idle"
      BY <1>0, <1>1, <2>2 DEF ShapeInv
    <3>. QED
      BY <1>0, <1>u, <3>1 DEF OneToOne
  <2>10. UniqueInv'
    <3>1. HandsOver(i, j, r)'
      BY <1>0, <1>1, <1>u, <2>2 DEF HandsOver, ShapeInv
    <3>2. \A k, l \in Inst, q \in Req : HandsOver(k, l, q) => HandsOver(k, l, q)'
      BY <1>0, <1>1, <1>u, <2>2 DEF HandsOver, ShapeInv
    <3>3. /\ \A k \in Inst \ {j}, q \in Req : place'[k][q] = place[k][q]
          /\ \A q \in Req \ {r} : place'[j][q] = place[j][q]
      BY <1>0, <2>4 DEF ShapeInv
    <3>4. SUFFICES ASSUME NEW k \in Inst, NEW l \in Inst, NEW q \in Req, k # l,
                          place'[k][q] # "none", place'[l][q] # "none"
                   PROVE  HandsOver(k, l, q)' \/ HandsOver(l, k, q)'
      BY DEF UniqueInv
    <3>5. CASE q = r
      <4>1. k \in {i, j} /\ l \in {i, j}
        BY <2>8, <3>3, <3>4, <3>5
      <4>. QED
        BY <3>1, <3>4, <3>5, <4>1
    <3>6. CASE q # r
      <4>1. place[k][q] # "none" /\ place[l][q] # "none"
        BY <3>3, <3>4, <3>6
      <4>2. HandsOver(k, l, q) \/ HandsOver(l, k, q)
        BY <1>0, <3>4, <4>1 DEF UniqueInv
      <4>. QED
        BY <3>2, <4>2
    <3>. QED
      BY <3>5, <3>6
  <2>11. \A k \in Inst \ {i, j} : LocalInv(k)'
    <3>1. \A k \in Inst \ {i, j} : Untouched(k)
      BY <1>0, <1>u, <2>2, <2>4 DEF Untouched, ShapeInv
    <3>. QED
      BY <1>0, <1>u, <3>1, LocalKept
  <2>12. LocalInv(i)'
    <3>1. pc'[i] = "committed" /\ place'[i] = place[i] /\ stat'[i] = stat[i]
          /\ held'[i] = held[i] /\ meta'[i] = meta[i]
      BY <1>0, <2>2, <2>4, <2>6 DEF ShapeInv
    <3>. QED
      BY <1>0, <1>1, <1>u, <2>7, <3>1 DEF LocalInv, CallInv, LastStageInv, HeldInv,
         SoundInv, Sharing, LastSending, Sending, Removing, Unassigned
  <2>13. LocalInv(j)'
    <3>1. /\ pc'[j] = "idle" /\ place'[j][r] = p /\ stat'[j][r] = s /\ meta'[j][r] = m
          /\ \A q \in Req \ {r} :
               /\ place'[j][q] = place[j][q] /\ stat'[j][q] = stat[j][q]
               /\ held'[j][q] = held[j][q] /\ meta'[j][q] = meta[j][q]
      BY <1>0, <2>2, <2>4, <2>6 DEF ShapeInv
    <3>2. CallInv(j)'
      BY <3>1 DEF CallInv, Sharing, LastSending, Sending, Removing, Unassigned
    <3>3. LastStageInv(j)'
      <4>1. r \notin lastStage[j] /\ lastStage[j] \subseteq Req
        BY <1>0, <2>6, <2>8 DEF LocalInv, LastStageInv, ShapeInv
      <4>. QED
        BY <1>0, <1>u, <2>6, <3>1, <4>1 DEF LocalInv, LastStageInv
    <3>4. HeldInv(j)'
      BY <1>0, <2>4, <3>1 DEF LocalInv, HeldInv
    <3>5. SoundInv(j)'
      BY <1>0, <1>u, <2>1, <2>7, <3>1 DEF LocalInv, SoundInv, LastSending, Sending
    <3>. QED
      BY <3>2, <3>3, <3>4, <3>5 DEF LocalInv
  <2>. QED
    BY <2>5, <2>9, <2>10, <2>11, <2>12, <2>13 DEF CrashInv
<1>. QED
  BY <1>2, <1>3

(***************************************************************************)
(* The source.                                                             *)
(***************************************************************************)

\* Where migrate_out has no request in hand.
OffHand == {"idle", "called", "next", "abort", "done", "raised"}

\* A step that touches no copy, to a place where no request is in hand.
LEMMA IdleLocal ==
  ASSUME NEW i \in Inst, LocalInv(i), pc[i] # "removed", pc'[i] \in OffHand,
         pc'[i] \in {"next", "abort"} => cur'[i] \in Req,
         arrived' = arrived, place'[i] = place[i], stat'[i] = stat[i],
         held'[i] = held[i], lastStage'[i] = lastStage[i],
         \A r \in Req : meta'[i][r].finished = meta[i][r].finished
  PROVE  LocalInv(i)'
BY DEF LocalInv, CallInv, LastStageInv, HeldInv, SoundInv, Sharing, LastSending,
       Sending, Removing, Unassigned, OffHand

\* A step that gives the request in hand back, or drops its copy.
LEMMA DropLocal ==
  ASSUME NEW i \in Inst, LocalInv(i), NEW r \in Req, r = cur[i], pc'[i] \in OffHand,
         pc'[i] \in {"next", "abort"} => cur'[i] \in Req,
         \A q \in Req \ {r} :
           /\ place'[i][q] = place[i][q] /\ stat'[i][q] = stat[i][q]
           /\ held'[i][q] = held[i][q] /\ meta'[i][q] = meta[i][q],
         arrived' = arrived, lastStage'[i] = lastStage[i] \ {r},
         lastStage[i] \subseteq Req,
         place'[i][r] # "detached",
         place'[i][r] # "none" => place[i][r] # "none",
         place'[i][r] # "none" => meta'[i][r].finished = meta[i][r].finished,
         place'[i][r] \in {"none", "waiting"} => held'[i][r] = 0
  PROVE  LocalInv(i)'
<1>1. CallInv(i)'
  BY DEF CallInv, Sharing, LastSending, Sending, Removing, Unassigned, OffHand
<1>2. LastStageInv(i)'
  BY DEF LocalInv, LastStageInv, OffHand
<1>3. HeldInv(i)'
  BY DEF LocalInv, HeldInv
<1>4. SoundInv(i)'
  BY DEF LocalInv, SoundInv, LastSending, Sending, OffHand
<1>. QED
  BY <1>1, <1>2, <1>3, <1>4 DEF LocalInv

\* At the end of _migrate_out_one_request the local variables are reset and the
\* loop goes on with a request of its list, or migrate_out returns.
LEMMA AdvanceJob ==
  ASSUME ShapeInv, NEW i \in Inst, NEW g, Advance(i, g)
  PROVE  \E p \in {"next", "done"}, c \in Req \cup {NoReq}, T \in SUBSET Req :
           /\ p = "next" => c \in Req
           /\ pc' = [pc EXCEPT ![i] = p]
           /\ cur' = [cur EXCEPT ![i] = c]
           /\ todo' = [todo EXCEPT ![i] = T]
           /\ num' = [num EXCEPT ![i] = 0]
           /\ last' = [last EXCEPT ![i] = FALSE]
<1>1. CASE todo[i] = {} \/ (~g /\ cur[i] \in eom)
  BY <1>1 DEF Advance
<1>2. CASE ~(todo[i] = {} \/ (~g /\ cur[i] \in eom))
  <2>1. PICK r \in todo[i] :
          /\ pc' = [pc EXCEPT ![i] = "next"]
          /\ cur' = [cur EXCEPT ![i] = r]
          /\ todo' = [todo EXCEPT ![i] = todo[i] \ {r}]
    BY <1>2 DEF Advance
  <2>2. r \in Req /\ todo[i] \ {r} \in SUBSET Req
    BY DEF ShapeInv
  <2>. QED
    BY <2>1, <2>2 DEF Advance
<1>. QED
  BY <1>1, <1>2

\* The set of requests that the migration policy chooses from.
LEMMA ChoicesReq ==
  ASSUME NEW i \in Inst, NEW D \in SUBSET Req, NEW c \in MigrateOutChoices(i, D)
  PROVE  c[1] \in Req /\ c[2] \in SUBSET Req
<1>1. /\ Required(i, D) \subseteq Req /\ FirstWaiting(i, D) \subseteq Req
      /\ FilteredRunning(i, D) \subseteq Req
  BY DEF Required, FirstWaiting, FilteredRunning, Running, Waiting
<1>2. \/ \E r \in Required(i, D) : c = <<r, Required(i, D) \ {r}>>
      \/ \E w \in FirstWaiting(i, D) : c = <<w, {}>>
      \/ \E w \in FirstWaiting(i, D), r \in FilteredRunning(i, D) : c = <<w, {r}>>
      \/ \E r \in FilteredRunning(i, D) : c = <<r, {}>>
  BY DEF MigrateOutChoices
<1>. QED
  BY <1>1, <1>2

\* migrate_out picks its requests, which are in the queues of its instance.
LEMMA MigrateOutCrash ==
  ASSUME CrashInv, NEW i \in Inst, MigrateOut(i)
  PROVE  CrashInv'
<1>0. ShapeInv /\ LocalInv(i)
  BY CrashParts
<1>e. /\ pc[i] = "called"
      /\ UNCHANGED <<arrived, place, stat, held, pre, free, lastStage, dst, stage, num,
                     last, busy>>
  BY DEF MigrateOut, blockVars
<1>1. PICK D \in SUBSET Req : MigrateNone(i, D) \/ MigrateSome(i, D)
  BY DEF MigrateOut
<1>2. CASE MigrateNone(i, D)
  <2>1. pc' = [pc EXCEPT ![i] = "done"] /\ UNCHANGED <<meta, eom, cur, todo>>
    BY <1>2 DEF MigrateNone
  <2>2. ShapeInv'
    BY <1>0, <1>e, <2>1 DEF ShapeInv, PCs
  <2>3. pc'[i] = "done" /\ \A k \in Inst \ {i} : Untouched(k)
    BY <1>0, <1>e, <2>1 DEF Untouched, ShapeInv
  <2>4. LocalInv(i)'
    BY <1>0, <1>e, <2>1, <2>3, IdleLocal DEF OffHand
  <2>. QED
    BY <1>e, <2>1, <2>2, <2>3, <2>4, LocalStep DEF HandOverKept
<1>3. CASE MigrateSome(i, D)
  <2>1. PICK c \in MigrateOutChoices(i, D) :
          /\ MarkMigrating(i, {c[1]} \cup c[2])
          /\ cur' = [cur EXCEPT ![i] = c[1]]
          /\ todo' = [todo EXCEPT ![i] = c[2]]
          /\ pc' = [pc EXCEPT ![i] = "next"]
    BY <1>3 DEF MigrateSome
  <2>2. c[1] \in Req /\ c[2] \in SUBSET Req
    BY ChoicesReq
  <2>. DEFINE M == [q \in Req |-> IF q \in {c[1]} \cup c[2]
                                  THEN [meta[i][q] EXCEPT !.mig = TRUE] ELSE meta[i][q]]
  <2>3. M \in [Req -> AnyMeta] /\ \A q \in Req : M[q].finished = meta[i][q].finished
    <3>1. \A q \in Req : meta[i][q] \in AnyMeta
      BY <1>0 DEF ShapeInv
    <3>2. \A m \in AnyMeta : /\ [m EXCEPT !.mig = TRUE] \in AnyMeta
                             /\ [m EXCEPT !.mig = TRUE].finished = m.finished
      BY DEF AnyMeta
    <3>. QED
      BY <3>1, <3>2
  <2>4. meta' = [meta EXCEPT ![i] = M]
    BY <2>1 DEF MarkMigrating
  <2>. HIDE DEF M
  <2>5. ShapeInv'
    BY <1>0, <1>e, <2>1, <2>2, <2>3, <2>4 DEF ShapeInv, PCs
  <2>6. \A k \in Inst \ {i} : Untouched(k)
    BY <1>0, <1>e, <2>1, <2>4 DEF Untouched, ShapeInv
  <2>7. pc'[i] = "next" /\ cur'[i] = c[1] /\ meta'[i] = M
    BY <1>0, <2>1, <2>4 DEF ShapeInv
  <2>8. LocalInv(i)'
    BY <1>0, <1>e, <2>2, <2>3, <2>7, IdleLocal DEF OffHand
  <2>. QED
    BY <1>e, <2>5, <2>6, <2>8, LocalStep DEF HandOverKept
<1>. QED
  BY <1>1, <1>2, <1>3

\* A copy stays a copy when its migration is reset.
LEMMA AnyReset ==
  ASSUME NEW m \in AnyMeta
  PROVE  LET n == [m EXCEPT !.sent = 0, !.mig = FALSE, !.preempted = FALSE]
         IN  n \in AnyMeta /\ n.finished = m.finished
<1>1. \A n \in AnyMeta : /\ [n EXCEPT !.sent = 0] \in AnyMeta
                         /\ [n EXCEPT !.sent = 0].finished = n.finished
  BY DEF AnyMeta
<1>2. \A n \in AnyMeta : /\ [n EXCEPT !.mig = FALSE] \in AnyMeta
                         /\ [n EXCEPT !.mig = FALSE].finished = n.finished
  BY DEF AnyMeta
<1>3. PICK n \in AnyMeta : n = [m EXCEPT !.sent = 0] /\ n.finished = m.finished
  BY <1>1
<1>4. PICK k \in AnyMeta : k = [n EXCEPT !.mig = FALSE] /\ k.finished = m.finished
  BY <1>2, <1>3
<1>5. [m EXCEPT !.sent = 0, !.mig = FALSE, !.preempted = FALSE]
        = [k EXCEPT !.preempted = FALSE]
  BY <1>3, <1>4
<1>. QED
  BY <1>4, <1>5, AnyPreempted

\* A copy stays a copy when more of its blocks were sent.
LEMMA AnySent ==
  ASSUME NEW m \in AnyMeta, NEW b \in Int
  PROVE  LET n == [m EXCEPT !.sent = b, !.preempted = FALSE]
         IN  n \in AnyMeta /\ n.finished = m.finished /\ ~n.preempted
BY DEF AnyMeta

\* ABORTED_SRC: the request is not in its last stage.
LEMMA AbortSrcCrash ==
  ASSUME CrashInv, NEW i \in Inst, NEW r \in Req, r = cur[i], AbortSrc(i, r),
         pc[i] \notin {"idle", "committed"}, place[i][r] # "detached",
         stat[i][r] # "waiting_migrating",
         UNCHANGED <<arrived, place, eom, held, pre, free, lastStage, dst, busy>>
  PROVE  CrashInv'
<1>0. ShapeInv /\ LocalInv(i)
  BY CrashParts
<1>. DEFINE m == [meta[i][r] EXCEPT !.sent = 0, !.mig = FALSE, !.preempted = FALSE]
<1>1. m \in AnyMeta /\ m.finished = meta[i][r].finished
  <2>1. meta[i][r] \in AnyMeta
    BY <1>0 DEF ShapeInv
  <2>. QED
    BY <2>1, AnyReset
<1>e. /\ meta' = [meta EXCEPT ![i][r] = m]
      /\ stat' = [stat EXCEPT ![i][r] = "none"]
      /\ pc' = [pc EXCEPT ![i] = "abort"]
      /\ UNCHANGED <<cur, todo, stage, num, last>>
  BY DEF AbortSrc, ResetSrc, jobVars
<1>. HIDE DEF m
<1>2. ShapeInv'
  BY <1>0, <1>1, <1>e DEF ShapeInv, PCs, Statuses
<1>3. \A k \in Inst \ {i} : Untouched(k)
  BY <1>0, <1>e DEF Untouched, ShapeInv
<1>4. r \notin lastStage[i] /\ lastStage[i] \subseteq Req
  BY <1>0 DEF LocalInv, LastStageInv, ShapeInv
<1>5. /\ pc'[i] = "abort" /\ meta'[i][r] = m
      /\ \A q \in Req \ {r} : stat'[i][q] = stat[i][q] /\ meta'[i][q] = meta[i][q]
  BY <1>0, <1>e DEF ShapeInv
<1>6. place[i][r] \in {"none", "waiting"} => held[i][r] = 0
  BY <1>0 DEF LocalInv, HeldInv
<1>7. LocalInv(i)'
  BY <1>0, <1>1, <1>4, <1>5, <1>6, <1>e, DropLocal DEF OffHand
<1>. QED
  BY <1>2, <1>3, <1>7, LocalStep DEF HandOverKept

\* A step with the request in hand that leaves its queue and its list alone.
LEMMA HandLocal ==
  ASSUME NEW i \in Inst, LocalInv(i), NEW r \in Req, r = cur[i], cur'[i] = r,
         \A q \in Req \ {r} : meta'[i][q] = meta[i][q],
         arrived' = arrived, lastStage'[i] = lastStage[i], lastStage[i] \subseteq Req,
         place'[i] = place[i], stat'[i] = stat[i], held'[i] = held[i],
         meta'[i][r].finished = meta[i][r].finished,
         pc[i] # "removed", CallInv(i)',
         pc'[i] \in MidMigration /\ pc'[i] # "stage" => ~meta'[i][r].preempted \/ ~last'[i]
  PROVE  LocalInv(i)'
<1>1. LastStageInv(i)'
  BY DEF LocalInv, LastStageInv
<1>2. HeldInv(i)'
  BY DEF LocalInv, HeldInv
<1>3. SoundInv(i)'
  <2>1. CallInv(i)' /\ cur'[i] = r
    OBVIOUS
  <2>2. pc'[i] \in Removing => last'[i]
    BY <2>1 DEF CallInv
  <2>. QED
    BY <2>1, <2>2 DEF LocalInv, SoundInv, LastSending, Sending, Removing, MidMigration
<1>. QED
  BY <1>1, <1>2, <1>3 DEF LocalInv

\* The migration of a running request begins.
LEMMA BeginRunningCrash ==
  ASSUME CrashInv, NEW i \in Inst, NEW r \in Req, r = cur[i], pc[i] = "next",
         BeginRunning(i, r), UNCHANGED <<arrived, eom, held, pre, free, dst, busy>>
  PROVE  CrashInv'
<1>0. ShapeInv /\ LocalInv(i)
  BY CrashParts
<1>. DEFINE b == meta[i][r].preempted /\ meta[i][r].sent # 0
            m == [meta[i][r] EXCEPT !.preempted = b]
<1>1. m \in AnyMeta /\ m.finished = meta[i][r].finished
  <2>1. meta[i][r] \in AnyMeta /\ b \in BOOLEAN
    BY <1>0 DEF ShapeInv
  <2>. HIDE DEF b
  <2>. QED
    BY <2>1, AnyPreempted
<1>e. /\ place[i][r] = "running" /\ stat[i][r] = "none"
      /\ meta' = [meta EXCEPT ![i][r] = m]
      /\ pc' = [pc EXCEPT ![i] = "stage"]
      /\ UNCHANGED <<place, stat, lastStage, cur, todo, stage, num, last>>
  BY DEF BeginRunning, StartTime, jobVars
<1>. HIDE DEF m
<1>2. ShapeInv'
  BY <1>0, <1>1, <1>e DEF ShapeInv, PCs
<1>3. \A k \in Inst \ {i} : Untouched(k)
  BY <1>0, <1>e DEF Untouched, ShapeInv
<1>5. /\ pc'[i] = "stage" /\ meta'[i][r] = m /\ lastStage[i] \subseteq Req
      /\ \A q \in Req \ {r} : meta'[i][q] = meta[i][q]
  BY <1>0, <1>e DEF ShapeInv
<1>6. CallInv(i)'
  BY <1>0, <1>5, <1>e DEF CallInv, Sharing, LastSending, Sending, Removing, Unassigned
<1>7. LocalInv(i)'
  BY <1>0, <1>1, <1>5, <1>6, <1>e, HandLocal
<1>. QED
  BY <1>2, <1>3, <1>7, <1>e, LocalStep DEF HandOverKept

\* The migration of a waiting request begins: it is in its last stage at once.
LEMMA BeginWaitingCrash ==
  ASSUME CrashInv, NEW i \in Inst, NEW r \in Req, r = cur[i], pc[i] = "next",
         BeginWaiting(i, r), UNCHANGED <<arrived, eom, held, pre, free, dst, busy>>
  PROVE  CrashInv'
<1>0. ShapeInv /\ LocalInv(i)
  BY CrashParts
<1>. DEFINE b == meta[i][r].preempted /\ meta[i][r].sent # 0
            m == [meta[i][r] EXCEPT !.preempted = b]
<1>1. m \in AnyMeta /\ m.finished = meta[i][r].finished
  <2>1. meta[i][r] \in AnyMeta /\ b \in BOOLEAN
    BY <1>0 DEF ShapeInv
  <2>. HIDE DEF b
  <2>. QED
    BY <2>1, AnyPreempted
<1>n. PICK n \in Int : n = meta[i][r].size
  BY <1>0 DEF ShapeInv, AnyMeta
<1>e. /\ place[i][r] = "waiting" /\ stat[i][r] = "none"
      /\ place' = [place EXCEPT ![i][r] = "detached"]
      /\ stat' = [stat EXCEPT ![i][r] = "waiting_migrating"]
      /\ meta' = [meta EXCEPT ![i][r] = m]
      /\ lastStage' = [lastStage EXCEPT ![i] = lastStage[i] \cup {r}]
      /\ num' = [num EXCEPT ![i] = n]
      /\ last' = [last EXCEPT ![i] = TRUE]
      /\ pc' = [pc EXCEPT ![i] = "alloc"]
      /\ UNCHANGED <<cur, todo, stage>>
  BY <1>n DEF BeginWaiting, StartTime, AddLastStage, WaitingNumBlocks
<1>. HIDE DEF m
<1>2. ShapeInv'
  BY <1>0, <1>1, <1>e DEF ShapeInv, PCs, Places, Statuses
<1>3. \A k \in Inst \ {i} : Untouched(k)
  BY <1>0, <1>e DEF Untouched, ShapeInv
<1>5. /\ pc'[i] = "alloc" /\ meta'[i][r] = m /\ last'[i] /\ lastStage[i] \subseteq Req
      /\ place'[i][r] = "detached" /\ stat'[i][r] = "waiting_migrating"
      /\ lastStage'[i] = lastStage[i] \cup {r}
      /\ \A q \in Req \ {r} : /\ meta'[i][q] = meta[i][q] /\ place'[i][q] = place[i][q]
                              /\ stat'[i][q] = stat[i][q]
  BY <1>0, <1>e DEF ShapeInv
<1>6. CallInv(i)'
  BY <1>5, <1>e DEF CallInv, Sharing, LastSending, Sending, Removing, Unassigned
<1>7. LastStageInv(i)'
  BY <1>0, <1>5 DEF LocalInv, LastStageInv
<1>8. HeldInv(i)'
  BY <1>0, <1>5, <1>e DEF LocalInv, HeldInv
<1>9. SoundInv(i)'
  BY <1>0, <1>1, <1>5, <1>e DEF LocalInv, SoundInv
<1>10. LocalInv(i)'
  BY <1>6, <1>7, <1>8, <1>9 DEF LocalInv
<1>11. \A q \in Req : place[i][q] = "none" => place'[i][q] = "none"
  BY <1>5, <1>e
<1>. QED
  BY <1>2, <1>3, <1>10, <1>11, <1>e, LocalStep DEF HandOverKept

\* The loop goes on without a change of any copy.
LEMMA AdvanceCrash ==
  ASSUME CrashInv, NEW i \in Inst, NEW g, Advance(i, g),
         pc[i] \notin {"idle", "removed", "committed"},
         UNCHANGED <<arrived, place, stat, meta, eom, held, lastStage, dst, busy>>,
         pre' \in [Inst -> [Req -> Int]], free' \in [Inst -> Int]
  PROVE  CrashInv'
<1>0. ShapeInv /\ LocalInv(i)
  BY CrashParts
<1>1. PICK p \in {"next", "done"}, c \in Req \cup {NoReq}, T \in SUBSET Req :
        /\ p = "next" => c \in Req
        /\ pc' = [pc EXCEPT ![i] = p]
        /\ cur' = [cur EXCEPT ![i] = c]
        /\ todo' = [todo EXCEPT ![i] = T]
        /\ num' = [num EXCEPT ![i] = 0]
        /\ last' = [last EXCEPT ![i] = FALSE]
  BY <1>0, AdvanceJob
<1>2. ShapeInv'
  BY <1>0, <1>1 DEF ShapeInv, PCs
<1>3. \A k \in Inst \ {i} : Untouched(k)
  BY <1>0, <1>1 DEF Untouched, ShapeInv
<1>4. pc'[i] = p /\ cur'[i] = c
  BY <1>0, <1>1 DEF ShapeInv
<1>5. LocalInv(i)'
  BY <1>0, <1>1, <1>4, IdleLocal DEF OffHand
<1>. QED
  BY <1>2, <1>3, <1>5, LocalStep DEF HandOverKept

\* migrate_out goes on to its next request, or ends.
LEMMA BeginCrash ==
  ASSUME CrashInv, NEW i \in Inst, MigrateOutOneRequest(i)
  PROVE  CrashInv'
<1>0. ShapeInv /\ LocalInv(i)
  BY CrashParts
<1>1. PICK r \in Req : r = cur[i] /\ pc[i] = "next"
  BY <1>0 DEF MigrateOutOneRequest, LocalInv, CallInv, Unassigned
<1>u. UNCHANGED <<arrived, eom, held, pre, free, dst, busy>>
  BY DEF MigrateOutOneRequest, blockVars
<1>2. CASE BeginRunning(i, r)
  BY <1>1, <1>2, <1>u, BeginRunningCrash
<1>3. CASE BeginWaiting(i, r)
  BY <1>1, <1>3, <1>u, BeginWaitingCrash
<1>4. CASE BeginOverLimit(i, r)
  <2>1. /\ place[i][r] = "waiting" /\ stat[i][r] = "none" /\ AbortSrc(i, r)
        /\ UNCHANGED <<place, lastStage>>
    BY <1>4 DEF BeginOverLimit
  <2>. QED
    BY <1>1, <1>u, <2>1, AbortSrcCrash
<1>5. CASE BeginSkipped(i, r)
  <2>1. Advance(i, FALSE) /\ UNCHANGED <<place, stat, meta, lastStage>>
    BY <1>5 DEF BeginSkipped
  <2>2. pre' \in [Inst -> [Req -> Int]] /\ free' \in [Inst -> Int]
    BY <1>0, <1>u DEF ShapeInv
  <2>. QED
    BY <1>1, <1>u, <2>1, <2>2, AdvanceCrash
<1>. QED
  BY <1>1, <1>2, <1>3, <1>4, <1>5 DEF MigrateOutOneRequest

\* A stage begins: it stops for an aborted request, or chooses what to send.
LEMMA StartStageCrash ==
  ASSUME CrashInv, NEW i \in Inst, StartStage(i)
  PROVE  CrashInv'
<1>0. ShapeInv /\ LocalInv(i)
  BY CrashParts
<1>1. PICK r \in Req : r = cur[i] /\ pc[i] = "stage"
  BY <1>0 DEF StartStage, LocalInv, CallInv, Unassigned
<1>u. UNCHANGED <<arrived, place, eom, held, pre, free, lastStage, dst, busy>>
  BY DEF StartStage, blockVars
<1>s. place[i][r] # "detached" /\ stat[i][r] = "none"
  BY <1>0, <1>1 DEF LocalInv, CallInv, Sharing
<1>2. CASE stage[i] = MaxStages \/ ShouldAbort(i, r)
  <2>1. AbortSrc(i, r)
    BY <1>1, <1>2 DEF StartStage
  <2>. QED
    BY <1>1, <1>s, <1>u, <2>1, AbortSrcCrash
<1>3. CASE ~(stage[i] = MaxStages \/ ShouldAbort(i, r))
  <2>n. held[i][r] \in Int /\ meta[i][r].sent \in Int
    BY <1>0 DEF ShapeInv, AnyMeta
  <2>. DEFINE b == held[i][r] - meta[i][r].sent <= LastStageMax \/ meta[i][r].limited
  <2>1. b \in BOOLEAN
    OBVIOUS
  <2>m. PICK n : n = StageNumBlocks(b, held[i][r] - meta[i][r].sent)
    OBVIOUS
  <2>2. n \in Int
    BY <2>m, <2>n DEF StageNumBlocks
  <2>e. /\ num' = [num EXCEPT ![i] = n]
        /\ last' = [last EXCEPT ![i] = b]
        /\ pc' = [pc EXCEPT ![i] = StagePC(b)]
        /\ UNCHANGED <<stat, meta, cur, todo>>
    BY <1>1, <1>3, <2>m DEF StartStage
  <2>. HIDE DEF b
  <2>3. PICK p \in {"remove", "alloc"} : p = StagePC(b) /\ (b => p = "remove")
                                          /\ (~b => p = "alloc")
    BY DEF StagePC
  <2>4. ShapeInv'
    BY <1>0, <1>u, <2>1, <2>2, <2>3, <2>e DEF ShapeInv, PCs
  <2>5. \A k \in Inst \ {i} : Untouched(k)
    BY <1>0, <1>u, <2>e DEF Untouched, ShapeInv
  <2>6. pc'[i] = p /\ last'[i] = b /\ lastStage[i] \subseteq Req
    BY <1>0, <2>3, <2>e DEF ShapeInv
  <2>7. CallInv(i)'
    <3>1. CASE b
      BY <1>1, <1>s, <1>u, <2>3, <2>6, <2>e, <3>1 DEF CallInv, Sharing, LastSending,
         Sending, Removing, Unassigned
    <3>2. CASE ~b
      BY <1>1, <1>s, <1>u, <2>3, <2>6, <2>e, <3>2 DEF CallInv, Sharing, LastSending,
         Sending, Removing, Unassigned
    <3>. QED
      BY <3>1, <3>2
  <2>8. ~meta[i][r].preempted
    BY <1>3 DEF ShouldAbort
  <2>9. LocalInv(i)'
    BY <1>0, <1>1, <1>u, <2>6, <2>7, <2>8, <2>e, HandLocal
  <2>. QED
    BY <1>1, <1>u, <2>4, <2>5, <2>9, LocalStep DEF HandOverKept
<1>. QED
  BY <1>2, <1>3

\* remove_running_request takes the request out of the running queue, at once or
\* after the step of the engine that is under way.
LEMMA RemoveRunningCrash ==
  ASSUME CrashInv, NEW i \in Inst, RemoveRunningRequest(i)
  PROVE  CrashInv'
<1>0. ShapeInv /\ LocalInv(i)
  BY CrashParts
<1>1. PICK r \in Req : r = cur[i] /\ pc[i] \in {"remove", "removeStepped"}
  BY <1>0 DEF RemoveRunningRequest, LocalInv, CallInv, Unassigned
<1>u. /\ pc' = [pc EXCEPT ![i] = "removed"]
      /\ UNCHANGED <<arrived, meta, eom, held, pre, free, lastStage, dst, cur, todo, stage,
                     num, last, busy>>
  BY DEF RemoveRunningRequest, blockVars, jobVars
<1>s. place[i][r] # "detached" /\ stat[i][r] = "none" /\ last[i]
  BY <1>0, <1>1 DEF LocalInv, CallInv, Sharing, Removing
<1>l. r \notin lastStage[i] /\ lastStage[i] \subseteq Req
  BY <1>0, <1>s DEF LocalInv, LastStageInv, ShapeInv
<1>p. PICK p \in Places, s \in Statuses :
        /\ place' = [place EXCEPT ![i][r] = p] /\ stat' = [stat EXCEPT ![i][r] = s]
        /\ \/ place[i][r] = "running" /\ p = "detached" /\ s = "running_migrating"
           \/ place[i][r] # "running" /\ p = place[i][r] /\ s = stat[i][r]
  <2>1. CASE place[i][r] = "running"
    <3>1. place' = [place EXCEPT ![i][r] = "detached"]
          /\ stat' = [stat EXCEPT ![i][r] = "running_migrating"]
      BY <1>1, <2>1 DEF RemoveRunningRequest
    <3>. QED
      BY <2>1, <3>1 DEF Places, Statuses
  <2>2. CASE place[i][r] # "running"
    <3>1. place' = place /\ stat' = stat
      BY <1>1, <2>2 DEF RemoveRunningRequest
    <3>2. /\ place' = [place EXCEPT ![i][r] = place[i][r]]
          /\ stat' = [stat EXCEPT ![i][r] = stat[i][r]]
          /\ place[i][r] \in Places /\ stat[i][r] \in Statuses
      BY <1>0, <3>1 DEF ShapeInv
    <3>. QED
      BY <2>2, <3>2
  <2>. QED
    BY <2>1, <2>2
<1>2. ShapeInv'
  BY <1>0, <1>u, <1>p DEF ShapeInv, PCs
<1>3. \A k \in Inst \ {i} : Untouched(k)
  BY <1>0, <1>u, <1>p DEF Untouched, ShapeInv
<1>4. /\ pc'[i] = "removed" /\ place'[i][r] = p /\ stat'[i][r] = s
      /\ \A q \in Req \ {r} : place'[i][q] = place[i][q] /\ stat'[i][q] = stat[i][q]
  BY <1>0, <1>u, <1>p DEF ShapeInv
<1>5. CallInv(i)'
  BY <1>1, <1>s, <1>l, <1>u, <1>p, <1>4 DEF CallInv, Sharing, LastSending, Sending,
     Removing, Unassigned
<1>6. LastStageInv(i)'
  BY <1>0, <1>1, <1>l, <1>u, <1>4 DEF LocalInv, LastStageInv
<1>7. HeldInv(i)'
  BY <1>0, <1>u, <1>s, <1>p, <1>4 DEF LocalInv, HeldInv
<1>8. SoundInv(i)'
  BY <1>0, <1>1, <1>u, <1>s, <1>p, <1>4 DEF LocalInv, SoundInv, LastSending, Sending
<1>9. LocalInv(i)'
  BY <1>5, <1>6, <1>7, <1>8 DEF LocalInv
<1>10. \A q \in Req : place[i][q] = "none" => place'[i][q] = "none"
  BY <1>4, <1>p
<1>. QED
  BY <1>1, <1>2, <1>3, <1>9, <1>10, <1>u, LocalStep DEF HandOverKept

\* The last stage goes on with the request that was removed, or without it.
LEMMA AfterRemovalCrash ==
  ASSUME CrashInv, NEW i \in Inst, AfterRemoval(i)
  PROVE  CrashInv'
<1>0. ShapeInv /\ LocalInv(i)
  BY CrashParts
<1>1. PICK r \in Req : r = cur[i] /\ pc[i] = "removed"
  BY <1>0 DEF AfterRemoval, LocalInv, CallInv, Unassigned
<1>u. UNCHANGED <<arrived, place, eom, held, pre, free, dst, busy>>
  BY DEF AfterRemoval, blockVars
<1>s. /\ last[i] /\ r \notin lastStage[i] /\ stat[i][r] # "waiting_migrating"
      /\ place[i][r] = "detached" => stat[i][r] = "running_migrating"
  BY <1>0, <1>1 DEF LocalInv, CallInv, Removing
<1>2. CASE place[i][r] = "detached"
  <2>e. /\ lastStage' = [lastStage EXCEPT ![i] = lastStage[i] \cup {r}]
        /\ pc' = [pc EXCEPT ![i] = "alloc"]
        /\ UNCHANGED <<stat, meta, cur, todo, stage, num, last>>
    BY <1>1, <1>2 DEF AfterRemoval, AddLastStage, jobVars
  <2>2. ShapeInv'
    BY <1>0, <1>u, <2>e DEF ShapeInv, PCs
  <2>3. \A k \in Inst \ {i} : Untouched(k)
    BY <1>0, <1>u, <2>e DEF Untouched, ShapeInv
  <2>4. pc'[i] = "alloc" /\ lastStage'[i] = lastStage[i] \cup {r}
    BY <1>0, <2>e DEF ShapeInv
  <2>5. CallInv(i)'
    BY <1>1, <1>s, <1>u, <2>e, <2>4 DEF CallInv, Sharing, LastSending, Sending,
       Removing, Unassigned
  <2>6. LastStageInv(i)'
    BY <1>0, <1>1, <1>2, <1>s, <1>u, <2>e, <2>4 DEF LocalInv, LastStageInv
  <2>7. HeldInv(i)'
    BY <1>0, <1>u, <2>e DEF LocalInv, HeldInv
  <2>8. SoundInv(i)'
    BY <1>0, <1>1, <1>2, <1>u, <2>e, <2>4 DEF LocalInv, SoundInv
  <2>9. LocalInv(i)'
    BY <2>5, <2>6, <2>7, <2>8 DEF LocalInv
  <2>. QED
    BY <1>1, <1>u, <2>2, <2>3, <2>9, <2>e, LocalStep DEF HandOverKept
<1>3. CASE place[i][r] # "detached"
  <2>1. AbortSrc(i, r) /\ UNCHANGED lastStage
    BY <1>1, <1>3 DEF AfterRemoval
  <2>. QED
    BY <1>1, <1>3, <1>s, <1>u, <2>1, AbortSrcCrash
<1>. QED
  BY <1>2, <1>3

\* Before the answer of a pre-allocation is taken up a request in its last stage
\* is neither finished nor preempted, so that it is not aborted at the source.
LEMMA LastNotAborted ==
  ASSUME NEW i \in Inst, LocalInv(i), NEW r \in Req, r = cur[i], LastSending(i),
         stat[i][r] # "waiting_migrating"
  PROVE  ~ShouldAbort(i, r)
BY DEF LocalInv, CallInv, LastStageInv, SoundInv, ShouldAbort

\* The destination has given the blocks: they are sent unless the request aborts.
LEMMA AfterAllocatedCrash ==
  ASSUME CrashInv, NEW i \in Inst, AfterAllocated(i)
  PROVE  CrashInv'
<1>0. ShapeInv /\ LocalInv(i)
  BY CrashParts
<1>1. PICK r \in Req : r = cur[i] /\ pc[i] = "allocated"
  BY <1>0 DEF AfterAllocated, LocalInv, CallInv, Unassigned
<1>u. UNCHANGED <<arrived, place, eom, held, pre, free, lastStage, dst, busy>>
  BY DEF AfterAllocated, blockVars
<1>s. /\ ~last[i] => place[i][r] # "detached" /\ stat[i][r] = "none"
      /\ last[i] => r \in lastStage[i]
      /\ lastStage[i] \subseteq Req
  BY <1>0, <1>1 DEF LocalInv, CallInv, Sharing, LastSending, Sending, ShapeInv
<1>2. CASE stat[i][r] = "waiting_migrating"
  <2>e. /\ pc' = [pc EXCEPT ![i] = "commit"]
        /\ UNCHANGED <<stat, meta, cur, todo, stage, num, last>>
    BY <1>1, <1>2 DEF AfterAllocated, jobVars
  <2>2. ShapeInv'
    BY <1>0, <1>u, <2>e DEF ShapeInv, PCs
  <2>3. \A k \in Inst \ {i} : Untouched(k)
    BY <1>0, <1>u, <2>e DEF Untouched, ShapeInv
  <2>4. pc'[i] = "commit"
    BY <1>0, <2>e DEF ShapeInv
  <2>5. LocalInv(i)'
    BY <1>0, <1>1, <1>2, <1>s, <1>u, <2>e, <2>4 DEF LocalInv, CallInv, LastStageInv,
       HeldInv, SoundInv, Sharing, LastSending, Sending, Removing, Unassigned
  <2>. QED
    BY <1>1, <1>u, <2>2, <2>3, <2>4, <2>5, <2>e, LocalStep DEF HandOverKept
<1>3. CASE stat[i][r] # "waiting_migrating" /\ ShouldAbort(i, r)
  <2>1. AbortSrc(i, r)
    BY <1>1, <1>3 DEF AfterAllocated
  <2>2. ~last[i]
    BY <1>0, <1>1, <1>3, LastNotAborted DEF LastSending, Sending
  <2>. QED
    BY <1>1, <1>3, <1>s, <1>u, <2>1, <2>2, AbortSrcCrash
<1>4. CASE stat[i][r] # "waiting_migrating" /\ ~ShouldAbort(i, r)
  <2>. DEFINE m == [meta[i][r] EXCEPT !.sent = meta[i][r].sent + num[i],
                                      !.preempted = FALSE]
  <2>1. m \in AnyMeta /\ m.finished = meta[i][r].finished /\ ~m.preempted
    <3>1. meta[i][r] \in AnyMeta /\ num[i] \in Int
      BY <1>0 DEF ShapeInv
    <3>2. meta[i][r].sent + num[i] \in Int
      BY <3>1 DEF AnyMeta
    <3>. QED
      BY <3>1, <3>2, AnySent
  <2>e. /\ meta' = [meta EXCEPT ![i][r] = m]
        /\ pc' = [pc EXCEPT ![i] = "send"]
        /\ UNCHANGED <<stat, cur, todo, stage, num, last>>
    BY <1>1, <1>4 DEF AfterAllocated, jobVars
  <2>. HIDE DEF m
  <2>2. ShapeInv'
    BY <1>0, <1>u, <2>1, <2>e DEF ShapeInv, PCs
  <2>3. \A k \in Inst \ {i} : Untouched(k)
    BY <1>0, <1>u, <2>e DEF Untouched, ShapeInv
  <2>4. /\ pc'[i] = "send" /\ meta'[i][r] = m
        /\ \A q \in Req \ {r} : meta'[i][q] = meta[i][q]
    BY <1>0, <2>e DEF ShapeInv
  <2>5. CallInv(i)'
    BY <1>1, <1>s, <1>u, <2>e, <2>4 DEF CallInv, Sharing, LastSending, Sending,
       Removing, Unassigned
  <2>6. LocalInv(i)'
    BY <1>0, <1>1, <1>s, <1>u, <2>1, <2>e, <2>4, <2>5, HandLocal
  <2>. QED
    BY <1>1, <1>u, <2>2, <2>3, <2>4, <2>6, LocalStep DEF HandOverKept
<1>. QED
  BY <1>2, <1>3, <1>4

\* The blocks of a stage were sent.
LEMMA SendBlocksCrash ==
  ASSUME CrashInv, NEW i \in Inst, SendBlocks(i)
  PROVE  CrashInv'
<1>0. ShapeInv /\ LocalInv(i)
  BY CrashParts
<1>1. PICK r \in Req : r = cur[i] /\ pc[i] = "send"
  BY <1>0 DEF SendBlocks, LocalInv, CallInv, Unassigned
<1>u. UNCHANGED <<arrived, place, eom, held, pre, free, lastStage, dst, busy>>
  BY DEF SendBlocks, blockVars
<1>s. /\ ~last[i] => place[i][r] # "detached" /\ stat[i][r] = "none"
      /\ last[i] => r \in lastStage[i]
      /\ lastStage[i] \subseteq Req
  BY <1>0, <1>1 DEF LocalInv, CallInv, Sharing, LastSending, Sending, ShapeInv
<1>2. CASE last[i] \/ ~ShouldAbort(i, r)
  <2>e. PICK p \in {"commit", "stage"} :
          /\ pc' = [pc EXCEPT ![i] = p]
          /\ last[i] => p = "commit"
          /\ ~last[i] => p = "stage"
          /\ UNCHANGED <<stat, meta, cur, todo, stage, num, last>>
    BY <1>1, <1>2 DEF SendBlocks, jobVars
  <2>2. ShapeInv'
    BY <1>0, <1>u, <2>e DEF ShapeInv, PCs
  <2>3. \A k \in Inst \ {i} : Untouched(k)
    BY <1>0, <1>u, <2>e DEF Untouched, ShapeInv
  <2>4. pc'[i] = p
    BY <1>0, <2>e DEF ShapeInv
  <2>5. LocalInv(i)'
    BY <1>0, <1>1, <1>s, <1>u, <2>e, <2>4 DEF LocalInv, CallInv, LastStageInv,
       HeldInv, SoundInv, Sharing, LastSending, Sending, Removing, Unassigned
  <2>. QED
    BY <1>1, <1>u, <2>2, <2>3, <2>4, <2>5, <2>e, LocalStep DEF HandOverKept
<1>3. CASE ~last[i] /\ ShouldAbort(i, r)
  <2>1. AbortSrc(i, r)
    BY <1>1, <1>3 DEF SendBlocks
  <2>. QED
    BY <1>1, <1>3, <1>s, <1>u, <2>1, AbortSrcCrash
<1>. QED
  BY <1>2, <1>3

\* The destination has refused: the request goes back to its queue.
LEMMA AfterRefusedCrash ==
  ASSUME CrashInv, NEW i \in Inst, AfterRefused(i)
  PROVE  CrashInv'
<1>0. ShapeInv /\ LocalInv(i)
  BY CrashParts
<1>1. PICK r \in Req : r = cur[i] /\ pc[i] = "refused"
  BY <1>0 DEF AfterRefused, LocalInv, CallInv, Unassigned
<1>u. UNCHANGED <<arrived, eom, held, pre, free, dst, busy>>
  BY DEF AfterRefused, blockVars
<1>s. /\ ~last[i] => /\ place[i][r] # "detached" /\ stat[i][r] = "none"
                     /\ r \notin lastStage[i]
      /\ last[i] => r \in lastStage[i]
      /\ lastStage[i] \subseteq Req
  BY <1>0, <1>1 DEF LocalInv, CallInv, LastStageInv, Sharing, LastSending, Sending,
     ShapeInv
<1>a. ResetSrc(i, r) /\ Advance(i, FALSE)
  BY <1>1, <1>s DEF AfterRefused
<1>. DEFINE m == [meta[i][r] EXCEPT !.sent = 0, !.mig = FALSE, !.preempted = FALSE]
<1>m. m \in AnyMeta /\ m.finished = meta[i][r].finished
  <2>1. meta[i][r] \in AnyMeta
    BY <1>0 DEF ShapeInv
  <2>. QED
    BY <2>1, AnyReset
<1>r. /\ meta' = [meta EXCEPT ![i][r] = m]
      /\ stat' = [stat EXCEPT ![i][r] = "none"]
  BY <1>a DEF ResetSrc
<1>. HIDE DEF m
<1>2. PICK p \in {"next", "done"}, c \in Req \cup {NoReq}, T \in SUBSET Req :
        /\ p = "next" => c \in Req
        /\ pc' = [pc EXCEPT ![i] = p]
        /\ cur' = [cur EXCEPT ![i] = c]
        /\ todo' = [todo EXCEPT ![i] = T]
        /\ num' = [num EXCEPT ![i] = 0]
        /\ last' = [last EXCEPT ![i] = FALSE]
  BY <1>0, <1>a, AdvanceJob
<1>q. PICK q \in Places :
        /\ place' = [place EXCEPT ![i][r] = q]
        /\ lastStage' = [lastStage EXCEPT ![i] = lastStage[i] \ {r}]
        /\ q # "detached" /\ (q # "none" => place[i][r] # "none")
        /\ q \in {"none", "waiting"} => held[i][r] = 0
  <2>1. CASE last[i]
    <3>1. /\ place' = [place EXCEPT ![i][r] = QueueOf(i, r)]
          /\ lastStage' = [lastStage EXCEPT ![i] = lastStage[i] \ {r}]
      BY <1>1, <2>1 DEF AfterRefused
    <3>2. place[i][r] = "detached"
      BY <1>0, <1>s, <2>1 DEF LocalInv, LastStageInv
    <3>3. QueueOf(i, r) = "waiting" => held[i][r] = 0
      BY <1>0, <3>2 DEF LocalInv, HeldInv, QueueOf
    <3>4. QueueOf(i, r) \in {"waiting", "running"}
      BY DEF QueueOf
    <3>. QED
      BY <3>1, <3>2, <3>3, <3>4 DEF Places
  <2>2. CASE ~last[i]
    <3>1. place' = place /\ lastStage' = lastStage
      BY <1>1, <2>2 DEF AfterRefused
    <3>2. /\ place' = [place EXCEPT ![i][r] = place[i][r]] /\ place[i][r] \in Places
          /\ lastStage' = [lastStage EXCEPT ![i] = lastStage[i]]
      BY <1>0, <3>1 DEF ShapeInv
    <3>3. lastStage[i] \ {r} = lastStage[i]
      BY <1>s, <2>2
    <3>4. place[i][r] \in {"none", "waiting"} => held[i][r] = 0
      BY <1>0, <1>s, <2>2 DEF LocalInv, HeldInv
    <3>5. lastStage' = [lastStage EXCEPT ![i] = lastStage[i] \ {r}]
      BY <3>2, <3>3
    <3>. QED
      BY <1>s, <2>2, <3>2, <3>4, <3>5
  <2>. QED
    BY <2>1, <2>2
<1>3. ShapeInv'
  BY <1>0, <1>m, <1>r, <1>u, <1>2, <1>q DEF ShapeInv, PCs, Statuses
<1>4. \A k \in Inst \ {i} : Untouched(k)
  BY <1>0, <1>r, <1>u, <1>2, <1>q DEF Untouched, ShapeInv
<1>5. /\ pc'[i] = p /\ cur'[i] = c /\ place'[i][r] = q /\ meta'[i][r] = m
      /\ lastStage'[i] = lastStage[i] \ {r}
      /\ \A x \in Req \ {r} : /\ place'[i][x] = place[i][x] /\ stat'[i][x] = stat[i][x]
                              /\ held'[i][x] = held[i][x] /\ meta'[i][x] = meta[i][x]
  BY <1>0, <1>r, <1>u, <1>2, <1>q DEF ShapeInv
<1>6. LocalInv(i)'
  BY <1>0, <1>1, <1>m, <1>s, <1>u, <1>2, <1>q, <1>5, DropLocal DEF OffHand
<1>7. \A x \in Req : place[i][x] = "none" => place'[i][x] = "none"
  BY <1>5, <1>q
<1>. QED
  BY <1>1, <1>u, <1>3, <1>4, <1>6, <1>7, LocalStep DEF HandOverKept

\* The source forgets the request that its destination has committed.
LEMMA AfterCommitCrash ==
  ASSUME CrashInv, NEW i \in Inst, AfterCommit(i)
  PROVE  CrashInv'
<1>0. ShapeInv /\ LocalInv(i)
  BY CrashParts
<1>1. PICK r \in Req : r = cur[i] /\ pc[i] = "committed"
  BY <1>0 DEF AfterCommit, LocalInv, CallInv, Unassigned
<1>s. r \in lastStage[i] /\ lastStage[i] \subseteq Req
  BY <1>0, <1>1 DEF LocalInv, CallInv, LastSending, Sending, Removing, ShapeInv
<1>n. PICK f \in Int : f = free[i] + held[i][r]
  BY <1>0 DEF ShapeInv
<1>e. /\ free' = [free EXCEPT ![i] = f]
      /\ held' = [held EXCEPT ![i][r] = 0]
      /\ lastStage' = [lastStage EXCEPT ![i] = lastStage[i] \ {r}]
      /\ place' = [place EXCEPT ![i][r] = "none"]
      /\ stat' = [stat EXCEPT ![i][r] = "none"]
      /\ meta' = [meta EXCEPT ![i][r] = NoMeta]
      /\ Advance(i, TRUE)
      /\ UNCHANGED <<arrived, eom, pre, dst, busy>>
  BY <1>1, <1>n, <1>s DEF AfterCommit
<1>2. PICK p \in {"next", "done"}, c \in Req \cup {NoReq}, T \in SUBSET Req :
        /\ p = "next" => c \in Req
        /\ pc' = [pc EXCEPT ![i] = p]
        /\ cur' = [cur EXCEPT ![i] = c]
        /\ todo' = [todo EXCEPT ![i] = T]
        /\ num' = [num EXCEPT ![i] = 0]
        /\ last' = [last EXCEPT ![i] = FALSE]
  BY <1>0, <1>e, AdvanceJob
<1>m. NoMeta \in AnyMeta
  BY DEF NoMeta, NewMeta, AnyMeta
<1>3. ShapeInv'
  BY <1>0, <1>m, <1>e, <1>2 DEF ShapeInv, PCs, Statuses, Places
<1>4. \A k \in Inst \ {i} : Untouched(k)
  BY <1>0, <1>e, <1>2 DEF Untouched, ShapeInv
<1>5. /\ pc'[i] = p /\ cur'[i] = c /\ place'[i][r] = "none" /\ held'[i][r] = 0
      /\ lastStage'[i] = lastStage[i] \ {r}
      /\ \A x \in Req \ {r} : /\ place'[i][x] = place[i][x] /\ stat'[i][x] = stat[i][x]
                              /\ held'[i][x] = held[i][x] /\ meta'[i][x] = meta[i][x]
  BY <1>0, <1>e, <1>2 DEF ShapeInv
<1>6. LocalInv(i)'
  BY <1>0, <1>1, <1>s, <1>e, <1>2, <1>5, DropLocal DEF OffHand
<1>7. \A x \in Req : place[i][x] = "none" => place'[i][x] = "none"
  BY <1>5
<1>. QED
  BY <1>1, <1>e, <1>3, <1>4, <1>5, <1>6, <1>7, LocalStep DEF HandOverKept

\* The destination has freed the pre-allocation of an aborted migration.
LEMMA AfterAbortCrash ==
  ASSUME CrashInv, NEW i \in Inst, AfterAbort(i)
  PROVE  CrashInv'
<1>0. ShapeInv /\ LocalInv(i)
  BY CrashParts
<1>1. PICK r \in Req, j \in Inst : r = cur[i] /\ j = dst[i] /\ pc[i] = "abort"
  BY <1>0 DEF AfterAbort, LocalInv, CallInv, Unassigned, ShapeInv
<1>2. /\ Advance(i, FALSE)
      /\ UNCHANGED <<arrived, place, stat, meta, eom, held, lastStage, dst, busy>>
      /\ pre' = [pre EXCEPT ![j][r] = 0]
      /\ free' = [free EXCEPT ![j] = free[j] + pre[j][r]]
  BY <1>1 DEF AfterAbort, FreeDstPreAllocCache, queueVars
<1>3. pre' \in [Inst -> [Req -> Int]] /\ free' \in [Inst -> Int]
  BY <1>0, <1>2 DEF ShapeInv
<1>. QED
  BY <1>1, <1>2, <1>3, AdvanceCrash

\* Every step of a live migration keeps the invariant, crash or none.
LEMMA StepCrash ==
  ASSUME CrashInv, NEW i \in Inst,
         \/ ClientStep(i) \/ EngineStep(i) \/ SrcStep(i) \/ CallStep(i)
         \/ MigrateDone(i) \/ \E j \in Inst : PushMigration(i, j)
  PROVE  CrashInv'
<1>1. CASE ClientStep(i)
  <2>1. PICK r \in Req : AddRequest(i, r) \/ AbortRequest(i, r)
    BY <1>1 DEF ClientStep
  <2>2. CASE AddRequest(i, r)
    BY <2>2, AddRequestCrash
  <2>3. CASE AbortRequest(i, r)
    BY <2>3, RetireCrash DEF AbortRequest, Runnable
  <2>. QED
    BY <2>1, <2>2, <2>3
<1>2. CASE EngineStep(i)
  <2>1. PICK r \in Req : \/ Admit(i, r) \/ Grow(i, r) \/ Preempt(i, r)
                         \/ Finish(i, r) \/ FinishRemoved(i, r)
    BY <1>2 DEF EngineStep
  <2>2. CASE Admit(i, r)
    BY <2>2, AdmitCrash
  <2>3. CASE Grow(i, r)
    BY <2>3, GrowCrash
  <2>4. CASE Preempt(i, r)
    BY <2>4, PreemptCrash
  <2>5. CASE Finish(i, r)
    BY <2>5, RetireCrash DEF Finish, Runnable
  <2>6. CASE FinishRemoved(i, r)
    BY <2>6, RetireCrash DEF FinishRemoved
  <2>. QED
    BY <2>1, <2>2, <2>3, <2>4, <2>5, <2>6
<1>3. CASE SrcStep(i)
  BY <1>3, MigrateOutCrash, BeginCrash, StartStageCrash, RemoveRunningCrash,
     AfterRemovalCrash, AfterAllocatedCrash, AfterRefusedCrash, AfterCommitCrash
     DEF SrcStep
<1>4. CASE CallStep(i)
  BY <1>4, PreAllocCrash, CommitCrash, SendBlocksCrash, AfterAbortCrash
     DEF CallStep, DstStep
<1>5. CASE MigrateDone(i)
  BY <1>5, MigrateDoneCrash
<1>6. CASE \E j \in Inst : PushMigration(i, j)
  BY <1>6, PushMigrationCrash
<1>. QED
  BY <1>1, <1>2, <1>3, <1>4, <1>5, <1>6

\* No instance has a request at first.
LEMMA InitCrash == Init => CrashInv
<1>. SUFFICES ASSUME Init PROVE CrashInv
  OBVIOUS
<1>1. NoMeta \in AnyMeta /\ ~NoMeta.finished
  BY DEF NoMeta, NewMeta, AnyMeta
<1>n. TotalBlocks \in Int
  BY BlocksAssumption
<1>2. ShapeInv
  BY <1>1, <1>n DEF Init, ShapeInv, Places, Statuses, PCs
<1>3. OneToOne /\ UniqueInv
  BY DEF Init, OneToOne, UniqueInv
<1>4. ASSUME NEW i \in Inst PROVE LocalInv(i)
  BY <1>1 DEF Init, LocalInv, CallInv, LastStageInv, HeldInv, SoundInv, Sharing,
     LastSending, Sending, Removing, Unassigned
<1>. QED
  BY <1>2, <1>3, <1>4 DEF CrashInv

\* A step that leaves what the invariant speaks of unchanged.
LEMMA StutterCrash ==
  ASSUME CrashInv, UNCHANGED vars
  PROVE  CrashInv'
<1>0. ShapeInv /\ OneToOne /\ UniqueInv /\ \A k \in Inst : LocalInv(k)
  BY CrashParts
<1>u. UNCHANGED <<arrived, place, stat, held, meta, eom, pre, free, lastStage, pc, dst,
                  cur, todo, stage, num, last, busy>>
  BY DEF vars
<1>1. ShapeInv'
  BY <1>0, <1>u DEF ShapeInv
<1>2. OneToOne' /\ UniqueInv'
  BY <1>0, <1>u DEF OneToOne, UniqueInv, HandsOver
<1>3. \A k \in Inst : LocalInv(k)'
  BY <1>0, <1>u, LocalKept DEF Untouched
<1>. QED
  BY <1>1, <1>2, <1>3 DEF CrashInv

\* The invariant holds in particular while no instance crashes (migrate_out and
\* commit_dst_request of LiveMigration).
THEOREM CrashInvHolds == Spec => []CrashInv
<1>1. CrashInv /\ [Next]_vars => CrashInv'
  <2>. SUFFICES ASSUME CrashInv, [Next]_vars PROVE CrashInv'
    OBVIOUS
  <2>1. CASE Next
    BY <2>1, StepCrash DEF Next
  <2>2. CASE UNCHANGED vars
    BY <2>2, StutterCrash
  <2>. QED
    BY <2>1, <2>2
<1>. QED
  BY <1>1, InitCrash, PTL DEF Spec

(***************************************************************************)
(* The blocks.                                                             *)
(***************************************************************************)

\* What one request gives to or takes from the free blocks keeps their sum.
LEMMA Balance ==
  ASSUME NEW f \in Int, NEW s \in Int, NEW x \in Int, NEW y \in Int, NEW z \in Int,
         f + y = z + x
  PROVE  f + (s - x + y) = z + s
OBVIOUS

\* A step that changes the table or the pre-allocation of one request on one
\* instance, and the free blocks of the instance by as much.
LEMMA BlocksMoved ==
  ASSUME ShapeInv, BlocksConserved, NEW j \in Inst, NEW r \in Req,
         NEW h \in Int, NEW p \in Int, NEW f \in Int,
         held' = [held EXCEPT ![j][r] = h], pre' = [pre EXCEPT ![j][r] = p],
         free' = [free EXCEPT ![j] = f],
         f + (h + p) = free[j] + (held[j][r] + pre[j][r])
  PROVE  BlocksConserved'
<1>1. ASSUME NEW k \in Inst, k # j
      PROVE  (free[k] + SumFunction(BlocksOf(k)) = TotalBlocks)'
  <2>1. free'[k] = free[k] /\ held'[k] = held[k] /\ pre'[k] = pre[k]
    BY <1>1 DEF ShapeInv
  <2>2. BlocksOf(k)' = BlocksOf(k)
    BY <2>1 DEF BlocksOf
  <2>3. free[k] + SumFunction(BlocksOf(k)) = TotalBlocks
    BY DEF BlocksConserved
  <2>4. free'[k] + SumFunction(BlocksOf(k)') = TotalBlocks
    BY <2>1, <2>2, <2>3
  <2>. QED
    BY <2>4
<1>2. free'[j] + SumFunction(BlocksOf(j)') = TotalBlocks
  <2>0. PICK b, c : b = BlocksOf(j) /\ c = BlocksOf(j)'
    OBVIOUS
  <2>1. b \in [Req -> Int] /\ b[r] = held[j][r] + pre[j][r]
    BY <2>0 DEF BlocksOf, ShapeInv
  <2>2. /\ free'[j] = f /\ held'[j][r] = h /\ pre'[j][r] = p
        /\ \A q \in Req \ {r} : held'[j][q] = held[j][q] /\ pre'[j][q] = pre[j][q]
    BY DEF ShapeInv
  <2>3. \A q \in Req : held'[j][q] \in Int /\ pre'[j][q] \in Int
    BY <2>2 DEF ShapeInv
  <2>4. c \in [Req -> Int] /\ c[r] = h + p
    BY <2>0, <2>2, <2>3 DEF BlocksOf
  <2>5. \A q \in Req \ {r} : c[q] = b[q]
    BY <2>0, <2>2 DEF BlocksOf
  <2>6. SumFunction(b) \in Int /\ SumFunction(c) = SumFunction(b) - b[r] + c[r]
    BY <2>1, <2>4, <2>5, ReqAssumption, SumPoint
  <2>7. free[j] + SumFunction(b) = TotalBlocks /\ free[j] \in Int
    BY <2>0 DEF BlocksConserved, ShapeInv
  <2>8. held[j][r] + pre[j][r] \in Int /\ h + p \in Int
    BY DEF ShapeInv
  <2>9. PICK s \in Int, x \in Int, y \in Int, z \in Int :
          /\ s = SumFunction(b) /\ x = held[j][r] + pre[j][r] /\ y = h + p /\ z = free[j]
    BY <2>6, <2>7, <2>8
  <2>10. SumFunction(c) = s - x + y /\ f + y = z + x /\ z + s = TotalBlocks
    BY <2>1, <2>4, <2>6, <2>7, <2>9
  <2>11. f + (s - x + y) = TotalBlocks
    BY <2>10, Balance
  <2>. QED
    BY <2>0, <2>2, <2>10, <2>11
<1>. QED
  BY <1>1, <1>2 DEF BlocksConserved

\* The three ways in which a step does that: it leaves the pre-allocation alone,
\* it leaves the table alone, it leaves both.
LEMMA TableMoved ==
  ASSUME ShapeInv, BlocksConserved, NEW j \in Inst, NEW r \in Req, NEW h \in Int,
         NEW f \in Int, held' = [held EXCEPT ![j][r] = h], pre' = pre,
         free' = [free EXCEPT ![j] = f], f + h = free[j] + held[j][r]
  PROVE  BlocksConserved'
<1>1. PICK p \in Int, x \in Int, y \in Int : p = pre[j][r] /\ x = free[j] /\ y = held[j][r]
  BY DEF ShapeInv
<1>2. pre' = [pre EXCEPT ![j][r] = p]
  BY <1>1 DEF ShapeInv
<1>3. f + (h + p) = x + (y + p)
  BY <1>1
<1>. QED
  BY <1>1, <1>2, <1>3, BlocksMoved

\* The case of TableMoved for a pre-allocation.
LEMMA PreMoved ==
  ASSUME ShapeInv, BlocksConserved, NEW j \in Inst, NEW r \in Req, NEW p \in Int,
         NEW f \in Int, pre' = [pre EXCEPT ![j][r] = p], held' = held,
         free' = [free EXCEPT ![j] = f], f + p = free[j] + pre[j][r]
  PROVE  BlocksConserved'
<1>1. PICK h \in Int, x \in Int, y \in Int : h = held[j][r] /\ x = free[j] /\ y = pre[j][r]
  BY DEF ShapeInv
<1>2. held' = [held EXCEPT ![j][r] = h]
  BY <1>1 DEF ShapeInv
<1>3. f + (h + p) = x + (h + y)
  BY <1>1
<1>. QED
  BY <1>1, <1>2, <1>3, BlocksMoved

\* A step that moves no block keeps every sum.
LEMMA BlocksKept ==
  ASSUME BlocksConserved, UNCHANGED <<held, pre, free>>
  PROVE  BlocksConserved'
<1>1. ASSUME NEW k \in Inst
      PROVE  free'[k] + SumFunction(BlocksOf(k)') = TotalBlocks
  <2>1. free[k] + SumFunction(BlocksOf(k)) = TotalBlocks
    BY DEF BlocksConserved
  <2>2. BlocksOf(k)' = BlocksOf(k)
    BY DEF BlocksOf
  <2>. QED
    BY <2>1, <2>2
<1>. QED
  BY <1>1 DEF BlocksConserved

\* The block table of a request that leaves goes back to the free blocks.
LEMMA RetireBlocks ==
  ASSUME ShapeInv, BlocksConserved, NEW i \in Inst, NEW r \in Req,
         held' = [held EXCEPT ![i][r] = 0], pre' = pre,
         free' = [free EXCEPT ![i] = free[i] + held[i][r]]
  PROVE  BlocksConserved'
<1>1. PICK f \in Int, h \in Int : f = free[i] + held[i][r] /\ h = 0
  BY DEF ShapeInv
<1>2. f + h = free[i] + held[i][r]
  BY <1>1
<1>. QED
  BY <1>1, <1>2, TableMoved

\* The engine takes the blocks it gives to a request from the free ones.
LEMMA EngineBlocks ==
  ASSUME CrashInv, BlocksConserved, NEW i \in Inst, EngineStep(i) \/ ClientStep(i)
  PROVE  BlocksConserved'
<1>0. ShapeInv /\ LocalInv(i)
  BY CrashParts
<1>1. PICK r \in Req :
        \/ Admit(i, r) \/ Grow(i, r) \/ Preempt(i, r) \/ Finish(i, r)
        \/ FinishRemoved(i, r) \/ AddRequest(i, r) \/ AbortRequest(i, r)
  BY DEF EngineStep, ClientStep
<1>n. PICK x \in Int, y \in Int, z \in Int :
        x = free[i] /\ y = held[i][r] /\ z = meta[i][r].size
  BY <1>0 DEF ShapeInv, AnyMeta
<1>2. CASE Admit(i, r)
  <2>1. CASE stat[i][r] = "waiting_migrating"
    BY <1>2, <2>1, BlocksKept DEF Admit
  <2>2. CASE stat[i][r] # "waiting_migrating"
    <3>1. place[i][r] = "waiting" /\ held[i][r] = 0
      BY <1>0, <1>2, <2>2 DEF Admit, LocalInv, HeldInv
    <3>2. /\ free' = [free EXCEPT ![i] = x - z]
          /\ held' = [held EXCEPT ![i][r] = z] /\ pre' = pre
      BY <1>2, <1>n, <2>2 DEF Admit
    <3>3. x - z \in Int /\ (x - z) + z = free[i] + held[i][r]
      BY <1>n, <3>1
    <3>. QED
      BY <1>0, <3>2, <3>3, TableMoved
  <2>. QED
    BY <2>1, <2>2
<1>3. CASE Grow(i, r)
  <2>. DEFINE size == meta[i][r].size + 1
              need == IF size > held[i][r] THEN size - held[i][r] ELSE 0
  <2>1. /\ free' = [free EXCEPT ![i] = free[i] - need]
        /\ held' = [held EXCEPT ![i][r] = held[i][r] + need] /\ pre' = pre
    BY <1>3 DEF Grow
  <2>2. need \in Int
    BY <1>n
  <2>. HIDE DEF need
  <2>3. /\ free[i] - need \in Int /\ held[i][r] + need \in Int
        /\ (free[i] - need) + (held[i][r] + need) = free[i] + held[i][r]
    BY <1>n, <2>2
  <2>. QED
    BY <1>0, <2>1, <2>3, TableMoved
<1>4. CASE Preempt(i, r)
  BY <1>0, <1>4, RetireBlocks DEF Preempt
<1>5. CASE Finish(i, r) \/ FinishRemoved(i, r) \/ AbortRequest(i, r)
  <2>1. Retire(i, r)
    BY <1>5 DEF Finish, FinishRemoved, AbortRequest
  <2>. QED
    BY <1>0, <2>1, RetireBlocks DEF Retire
<1>6. CASE AddRequest(i, r)
  BY <1>6, BlocksKept DEF AddRequest, blockVars
<1>. QED
  BY <1>1, <1>2, <1>3, <1>4, <1>5, <1>6

\* migrate_out moves no block, except when it frees the table it handed over.
LEMMA SrcBlocks ==
  ASSUME CrashInv, BlocksConserved, NEW i \in Inst, SrcStep(i)
  PROVE  BlocksConserved'
<1>0. ShapeInv /\ LocalInv(i)
  BY CrashParts
<1>1. CASE AfterCommit(i)
  <2>1. PICK r \in Req : r = cur[i]
    BY <1>0, <1>1 DEF AfterCommit, LocalInv, CallInv, Unassigned
  <2>2. /\ free' = [free EXCEPT ![i] = free[i] + held[i][r]]
        /\ held' = [held EXCEPT ![i][r] = 0] /\ pre' = pre
    BY <1>1, <2>1 DEF AfterCommit
  <2>. QED
    BY <1>0, <2>2, RetireBlocks
<1>2. CASE ~AfterCommit(i)
  <2>1. UNCHANGED blockVars
    BY <1>2 DEF SrcStep, MigrateOut, MigrateOutOneRequest, StartStage,
       RemoveRunningRequest, AfterRemoval, AfterAllocated, AfterRefused
  <2>. QED
    BY <2>1, BlocksKept DEF blockVars
<1>. QED
  BY <1>1, <1>2

\* pre_alloc, free_dst_pre_alloc_cache and commit_dst_request move blocks between
\* the free ones, the pre-allocation and the block table of one request.
LEMMA CallBlocks ==
  ASSUME CrashInv, BlocksConserved, NEW i \in Inst, CallStep(i)
  PROVE  BlocksConserved'
<1>0. ShapeInv /\ OneToOne /\ UniqueInv /\ \A k \in Inst : LocalInv(k)
  BY CrashParts
<1>1. PICK r \in Req, j \in Inst : r = cur[i] /\ j = dst[i]
  BY <1>0 DEF CallStep, DstStep, MigrateInPreAlloc, CommitDstRequest, SendBlocks,
     AfterAbort, LocalInv, CallInv, Unassigned, ShapeInv
<1>n. PICK x \in Int, y \in Int, n \in Int : x = free[j] /\ y = pre[j][r] /\ n = num[i]
  BY <1>0 DEF ShapeInv
<1>r. ASSUME pre' = [pre EXCEPT ![j][r] = 0], held' = held,
             free' = [free EXCEPT ![j] = free[j] + pre[j][r]]
      PROVE  BlocksConserved'
  <2>1. x + y \in Int /\ 0 \in Int /\ (x + y) + 0 = free[j] + pre[j][r]
    BY <1>n
  <2>2. free' = [free EXCEPT ![j] = x + y]
    BY <1>n, <1>r
  <2>. QED
    BY <1>0, <1>r, <2>1, <2>2, PreMoved
<1>2. CASE MigrateInPreAlloc(i)
  <2>h. held' = held
    BY <1>2 DEF MigrateInPreAlloc
  <2>1. CASE PreAllocOK(i, j, r)
    <3>1. PICK l \in Int : l = PreAllocLen(j, r, num[i])
      BY <1>n DEF PreAllocLen
    <3>2. /\ pre' = [pre EXCEPT ![j][r] = l]
          /\ free' = [free EXCEPT ![j] = (x + y) - l]
      BY <1>n, <2>1, <3>1 DEF PreAllocOK
    <3>3. (x + y) - l \in Int /\ ((x + y) - l) + l = x + y
      OBVIOUS
    <3>. QED
      BY <1>0, <1>n, <2>h, <3>2, <3>3, PreMoved
  <2>2. CASE PreAllocRefused(i, j, r)
    BY <1>r, <2>h, <2>2 DEF PreAllocRefused
  <2>. QED
    BY <1>1, <1>2, <2>1, <2>2 DEF MigrateInPreAlloc
<1>3. CASE CommitDstRequest(i)
  <2>u. free' = free /\ pc[i] = "commit"
    BY <1>3 DEF CommitDstRequest
  <2>1. CASE pre[j][r] = 0
    <3>1. held' = held /\ pre' = pre
      BY <1>1, <1>3, <2>1 DEF CommitDstRequest
    <3>. QED
      BY <2>u, <3>1, BlocksKept
  <2>2. CASE pre[j][r] # 0
    <3>1. held' = [held EXCEPT ![j][r] = y] /\ pre' = [pre EXCEPT ![j][r] = 0]
      BY <1>1, <1>3, <1>n, <2>2 DEF CommitDstRequest
    <3>2. free' = [free EXCEPT ![j] = x]
      BY <1>0, <1>n, <2>u DEF ShapeInv
    <3>3. place[j][r] = "none"
      <4>1. r \in lastStage[i] /\ place[i][r] = "detached"
        BY <1>0, <1>1, <2>u DEF LocalInv, CallInv, LastStageInv, LastSending, Sending,
           Removing
      <4>2. i # j
        BY <1>0, <1>1, <2>u DEF OneToOne
      <4>. QED
        BY <1>0, <1>1, <2>u, <4>1, <4>2 DEF UniqueInv, HandsOver, OneToOne
    <3>4. held[j][r] = 0
      BY <1>0, <3>3 DEF LocalInv, HeldInv
    <3>5. 0 \in Int /\ x + (y + 0) = free[j] + (held[j][r] + pre[j][r])
      BY <1>n, <3>4
    <3>. QED
      BY <1>0, <3>1, <3>2, <3>5, BlocksMoved
  <2>. QED
    BY <2>1, <2>2
<1>4. CASE SendBlocks(i)
  BY <1>4, BlocksKept DEF SendBlocks, blockVars
<1>5. CASE AfterAbort(i)
  <2>1. /\ pre' = [pre EXCEPT ![j][r] = 0] /\ held' = held
        /\ free' = [free EXCEPT ![j] = free[j] + pre[j][r]]
    BY <1>1, <1>5 DEF AfterAbort, FreeDstPreAllocCache
  <2>. QED
    BY <1>r, <2>1
<1>. QED
  BY <1>2, <1>3, <1>4, <1>5 DEF CallStep, DstStep

\* No step of a live migration loses a block.
LEMMA StepBlocks ==
  ASSUME CrashInv, BlocksConserved, NEW i \in Inst,
         \/ ClientStep(i) \/ EngineStep(i) \/ SrcStep(i) \/ CallStep(i)
         \/ MigrateDone(i) \/ \E j \in Inst : PushMigration(i, j)
  PROVE  BlocksConserved'
<1>1. CASE MigrateDone(i) \/ \E j \in Inst : PushMigration(i, j)
  BY <1>1, BlocksKept DEF MigrateDone, PushMigration, blockVars
<1>. QED
  BY <1>1, EngineBlocks, SrcBlocks, CallBlocks

\* All blocks are free at first.
LEMMA InitBlocks == Init => BlocksConserved
<1>. SUFFICES ASSUME Init, NEW i \in Inst
              PROVE  free[i] + SumFunction(BlocksOf(i)) = TotalBlocks
  BY DEF BlocksConserved
<1>1. PICK b : b = BlocksOf(i)
  OBVIOUS
<1>2. b \in [Req -> Int] /\ \A r \in Req : b[r] = 0
  BY <1>1 DEF Init, BlocksOf
<1>3. SumFunction(b) = 0
  BY <1>2, ReqAssumption, SumZero
<1>4. free[i] = TotalBlocks /\ TotalBlocks \in Int
  BY BlocksAssumption DEF Init
<1>. QED
  BY <1>1, <1>3, <1>4

\* No KV block is lost or counted twice.
THEOREM BlocksConservedHolds == Spec => []BlocksConserved
<1>1. CrashInv /\ BlocksConserved /\ [Next]_vars => BlocksConserved'
  <2>. SUFFICES ASSUME CrashInv, BlocksConserved, [Next]_vars PROVE BlocksConserved'
    OBVIOUS
  <2>1. CASE Next
    BY <2>1, StepBlocks DEF Next
  <2>2. CASE UNCHANGED vars
    BY <2>2, BlocksKept DEF vars
  <2>. QED
    BY <2>1, <2>2
<1>. QED
  BY <1>1, InitBlocks, CrashInvHolds, PTL DEF Spec

(***************************************************************************)
(* Crashes and the manager's error handling.                               *)
(***************************************************************************)

\* A dead instance has no copies; what its migration had in hand is lost.
LEMMA CrashCrash ==
  ASSUME CrashInv, NEW i \in Inst, Crash(i)
  PROVE  CrashInv'
<1>0. ShapeInv /\ LocalInv(i)
  BY CrashParts
<1>. DEFINE M == [r \in Req |-> [NoMeta EXCEPT !.finished = meta[i][r].finished]]
<1>m. M \in [Req -> AnyMeta]
  <2>1. NoMeta \in AnyMeta
    BY DEF NoMeta, NewMeta, AnyMeta
  <2>2. \A b \in BOOLEAN : [NoMeta EXCEPT !.finished = b] \in AnyMeta
    BY <2>1 DEF AnyMeta
  <2>3. \A r \in Req : meta[i][r].finished \in BOOLEAN
    BY <1>0 DEF ShapeInv, AnyMeta
  <2>. QED
    BY <2>2, <2>3
<1>n. TotalBlocks \in Int
  BY BlocksAssumption
<1>p. PICK p \in {"idle", "raised"} :
        pc' = [pc EXCEPT ![i] = p] /\ (pc[i] = "idle" => p = "idle")
  BY DEF Crash
<1>e. /\ place' = [place EXCEPT ![i] = [r \in Req |-> "none"]]
      /\ stat' = [stat EXCEPT ![i] = [r \in Req |-> "none"]]
      /\ held' = [held EXCEPT ![i] = [r \in Req |-> 0]]
      /\ pre' = [pre EXCEPT ![i] = [r \in Req |-> 0]]
      /\ meta' = [meta EXCEPT ![i] = M]
      /\ free' = [free EXCEPT ![i] = TotalBlocks]
      /\ lastStage' = [lastStage EXCEPT ![i] = {}]
      /\ cur' = [cur EXCEPT ![i] = NoReq]
      /\ todo' = [todo EXCEPT ![i] = {}]
      /\ num' = [num EXCEPT ![i] = 0]
      /\ last' = [last EXCEPT ![i] = FALSE]
      /\ UNCHANGED <<arrived, eom, dst, busy>>
  BY DEF Crash, NoJob
<1>. HIDE DEF M
<1>1. ShapeInv'
  BY <1>0, <1>m, <1>n, <1>p, <1>e DEF ShapeInv, PCs, Places, Statuses
<1>2. \A k \in Inst \ {i} : Untouched(k)
  BY <1>0, <1>p, <1>e DEF Untouched, ShapeInv
<1>3. /\ pc'[i] = p /\ lastStage'[i] = {}
      /\ \A r \in Req : place'[i][r] = "none" /\ held'[i][r] = 0
  BY <1>0, <1>p, <1>e DEF ShapeInv
<1>4. LocalInv(i)'
  BY <1>3 DEF LocalInv, CallInv, LastStageInv, HeldInv, SoundInv, Sharing, LastSending,
     Sending, Removing, Unassigned
<1>5. pc[i] = "committed" => cur[i] \in Req
  BY <1>0 DEF LocalInv, CallInv, Unassigned
<1>. QED
  BY <1>1, <1>2, <1>3, <1>4, <1>5, <1>p, <1>e, LocalStep DEF HandOverKept

\* A call that raises leaves the queues and the lists as they are.
LEMMA CallFailsCrash ==
  ASSUME CrashInv, DeadInv, NEW i \in Inst, CallFails(i)
  PROVE  CrashInv'
<1>0. ShapeInv /\ LocalInv(i)
  BY CrashParts
<1>1. /\ ~alive[dst[i]] /\ Raise(i)
      /\ pc[i] \in {"next", "alloc", "allocated", "refused", "send", "commit",
                    "committed", "abort"}
      /\ UNCHANGED <<arrived, place, stat, meta, eom, held, pre, free, lastStage,
                     dst, busy>>
  BY DEF CallFails, queueVars, blockVars
<1>2. cur[i] \in Req /\ dst[i] \in Inst
  BY <1>0, <1>1 DEF LocalInv, CallInv, Unassigned, ShapeInv
<1>3. place[dst[i]][cur[i]] = "none"
  BY <1>1, <1>2 DEF DeadInv
<1>. QED
  BY <1>1, <1>3, RaiseCrash

\* So does the call of a source that is dead.
LEMMA CallDeadCrash ==
  ASSUME CrashInv, NEW i \in Inst, CallDead(i)
  PROVE  CrashInv'
<1>1. /\ Raise(i) /\ pc[i] = "called"
      /\ UNCHANGED <<arrived, place, stat, meta, eom, held, pre, free, lastStage,
                     dst, busy>>
  BY DEF CallDead, queueVars, blockVars
<1>. QED
  BY <1>1, RaiseCrash

\* The error callback ends the migration of the pair; its request stays in the list
\* of the last stage.
LEMMA ErrorCallbackCrash ==
  ASSUME CrashInv, NEW i \in Inst, ErrorCallback(i)
  PROVE  CrashInv'
<1>0. ShapeInv
  BY CrashParts
<1>e. /\ pc[i] = "raised"
      /\ busy' = [busy EXCEPT ![i] = FALSE, ![dst[i]] = FALSE]
      /\ pc' = [pc EXCEPT ![i] = "idle"]
      /\ dst' = [dst EXCEPT ![i] = i]
      /\ cur' = [cur EXCEPT ![i] = NoReq]
      /\ todo' = [todo EXCEPT ![i] = {}]
      /\ num' = [num EXCEPT ![i] = 0]
      /\ last' = [last EXCEPT ![i] = FALSE]
      /\ UNCHANGED <<arrived, place, stat, meta, eom, held, pre, free, lastStage>>
  BY DEF ErrorCallback, NoJob, queueVars, blockVars
<1>b. busy' \in [Inst -> BOOLEAN] /\ dst' \in [Inst -> Inst]
  BY <1>0, <1>e DEF ShapeInv
<1>j. /\ pc' \in [Inst -> PCs] /\ cur' \in [Inst -> Req \cup {NoReq}]
      /\ todo' \in [Inst -> SUBSET Req] /\ num' \in [Inst -> Int]
      /\ last' \in [Inst -> BOOLEAN]
  BY <1>0, <1>e DEF ShapeInv, PCs
<1>1. ShapeInv'
  BY <1>0, <1>b, <1>e, <1>j DEF ShapeInv
<1>2. \A k \in Inst \ {i} : cur'[k] = cur[k] /\ last'[k] = last[k]
  BY <1>0, <1>e DEF ShapeInv
<1>. QED
  BY <1>1, <1>2, <1>e, ReleaseCrash

\* clear_migration_states of the source, when the list of the last stage has no
\* request of a migration that goes on.
LEMMA RequeueCrash ==
  ASSUME CrashInv, NEW i \in Inst, RequeueLastStage(i), ~TakesNewer(i),
         UNCHANGED <<arrived, stat, meta, eom, held, pre, free, pc, dst, cur, todo, stage,
                     num, last, busy>>
  PROVE  CrashInv'
<1>0. ShapeInv /\ LocalInv(i)
  BY CrashParts
<1>. DEFINE P == [r \in Req |-> IF r \notin lastStage[i] THEN place[i][r]
                                ELSE IF stat[i][r] = "running_migrating" THEN "running"
                                ELSE "waiting"]
<1>p. /\ P \in [Req -> Places]
      /\ \A r \in Req \ lastStage[i] : P[r] = place[i][r]
      /\ \A r \in Req : r \in lastStage[i] =>
           /\ P[r] \in {"waiting", "running"}
           /\ stat[i][r] = "running_migrating" => P[r] = "running"
  BY <1>0 DEF ShapeInv, Places
<1>e. place' = [place EXCEPT ![i] = P] /\ lastStage' = [lastStage EXCEPT ![i] = {}]
  BY DEF RequeueLastStage
<1>. HIDE DEF P
<1>1. ShapeInv'
  BY <1>0, <1>p, <1>e DEF ShapeInv
<1>2. \A k \in Inst \ {i} : Untouched(k)
  BY <1>0, <1>e DEF Untouched, ShapeInv
<1>3. place'[i] = P /\ lastStage'[i] = {}
  BY <1>0, <1>e DEF ShapeInv
<1>4. ~LastSending(i)
  BY <1>0 DEF LocalInv, CallInv, TakesNewer, LastSending, Sending
<1>5. \A r \in Req : r \in lastStage[i] =>
        /\ place[i][r] = "detached"
        /\ stat[i][r] \in {"running_migrating", "waiting_migrating"}
  BY <1>0 DEF LocalInv, LastStageInv
<1>6. pc[i] = "removed" \/ Sharing(i) => cur[i] \in Req \ lastStage[i]
  BY <1>0, <1>5 DEF LocalInv, CallInv, Sharing, Unassigned, Sending
<1>7. CallInv(i)'
  BY <1>0, <1>3, <1>4, <1>6, <1>p DEF LocalInv, CallInv, Sharing, LastSending
<1>8. LastStageInv(i)'
  BY <1>0, <1>3, <1>p DEF LocalInv, LastStageInv
<1>9. HeldInv(i)'
  BY <1>0, <1>3, <1>5, <1>p DEF LocalInv, HeldInv
<1>10. SoundInv(i)'
  <2>1. \A r \in Req : P[r] # "none" => r \in arrived /\ ~meta[i][r].finished
    BY <1>0, <1>5, <1>p DEF LocalInv, SoundInv
  <2>2. pc[i] \in {"remove", "removeStepped", "removed"} => P[cur[i]] = place[i][cur[i]]
    BY <1>6, <1>p DEF Sharing
  <2>. QED
    BY <1>0, <1>3, <1>4, <2>1, <2>2 DEF LocalInv, SoundInv, LastSending
<1>11. LocalInv(i)'
  BY <1>7, <1>8, <1>9, <1>10 DEF LocalInv
<1>12. \A r \in Req : place[i][r] = "none" => place'[i][r] = "none"
  BY <1>3, <1>5, <1>p
<1>. QED
  BY <1>1, <1>2, <1>11, <1>12, LocalStep DEF HandOverKept

\* clear_migration_states of the destination frees all that is pre-allocated.
LEMMA FreeAllShape ==
  ASSUME ShapeInv, NEW j \in Inst
  PROVE  SumFunction(pre[j]) \in Int
<1>1. pre[j] \in [Req -> Int]
  BY DEF ShapeInv
<1>2. SumFunctionOnSet(pre[j], Req) \in Int
  BY <1>1, ReqAssumption, SumTake
<1>. QED
  BY <1>1, <1>2 DEF SumFunction

\* Freeing every pre-allocation disturbs no request.
LEMMA FreeAllCrash ==
  ASSUME CrashInv, NEW j \in Inst, FreeAllPreAlloc(j),
         UNCHANGED <<arrived, place, stat, meta, eom, held, lastStage, pc, dst, cur, todo,
                     stage, num, last, busy>>
  PROVE  CrashInv'
<1>0. ShapeInv /\ OneToOne /\ UniqueInv /\ \A k \in Inst : LocalInv(k)
  BY CrashParts
<1>1. PICK f \in Int : f = free[j] + SumFunction(pre[j])
  BY <1>0, FreeAllShape DEF ShapeInv
<1>2. /\ pre' = [pre EXCEPT ![j] = [r \in Req |-> 0]]
      /\ free' = [free EXCEPT ![j] = f]
  BY <1>1 DEF FreeAllPreAlloc
<1>3. ShapeInv'
  BY <1>0, <1>2 DEF ShapeInv
<1>4. OneToOne' /\ UniqueInv'
  BY <1>0 DEF OneToOne, UniqueInv, HandsOver
<1>5. \A k \in Inst : LocalInv(k)'
  BY <1>0, LocalKept DEF Untouched
<1>. QED
  BY <1>3, <1>4, <1>5 DEF CrashInv

\* Freeing every pre-allocation gives back exactly the blocks they held.
LEMMA FreeAllBlocks ==
  ASSUME ShapeInv, BlocksConserved, NEW j \in Inst, FreeAllPreAlloc(j), held' = held
  PROVE  BlocksConserved'
<1>1. ASSUME NEW k \in Inst, k # j
      PROVE  free'[k] + SumFunction(BlocksOf(k)') = TotalBlocks
  <2>1. free'[k] = free[k] /\ pre'[k] = pre[k]
    BY <1>1 DEF ShapeInv, FreeAllPreAlloc
  <2>2. BlocksOf(k)' = BlocksOf(k)
    BY <2>1 DEF BlocksOf
  <2>3. free[k] + SumFunction(BlocksOf(k)) = TotalBlocks
    BY DEF BlocksConserved
  <2>. QED
    BY <2>1, <2>2, <2>3
<1>2. free'[j] + SumFunction(BlocksOf(j)') = TotalBlocks
  <2>0. PICK b, c, p, h : b = BlocksOf(j) /\ c = BlocksOf(j)' /\ p = pre[j] /\ h = held[j]
    OBVIOUS
  <2>1. /\ p \in [Req -> Int] /\ h \in [Req -> Int]
        /\ b \in [Req -> Int] /\ \A r \in Req : b[r] = h[r] + p[r]
    BY <2>0 DEF ShapeInv, BlocksOf
  <2>2. c \in [Req -> Int] /\ \A r \in Req : c[r] = h[r]
    BY <2>0, <2>1 DEF BlocksOf, FreeAllPreAlloc, ShapeInv
  <2>3. c = h
    BY <2>1, <2>2
  <2>4. /\ SumFunction(h) \in Int /\ SumFunction(p) \in Int
        /\ SumFunction(b) = SumFunction(h) + SumFunction(p)
    BY <2>1, ReqAssumption, SumPlus
  <2>5. free[j] + SumFunction(b) = TotalBlocks /\ free[j] \in Int
    BY <2>0 DEF BlocksConserved, ShapeInv
  <2>6. free'[j] = free[j] + SumFunction(p)
    BY <2>0 DEF FreeAllPreAlloc, ShapeInv
  <2>. QED
    BY <2>0, <2>3, <2>4, <2>5, <2>6
<1>. QED
  BY <1>1, <1>2 DEF BlocksConserved

\* A dead instance counts as empty.
LEMMA CrashBlocks ==
  ASSUME ShapeInv, BlocksConserved, NEW i \in Inst, Crash(i)
  PROVE  BlocksConserved'
<1>1. ASSUME NEW k \in Inst, k # i
      PROVE  free'[k] + SumFunction(BlocksOf(k)') = TotalBlocks
  <2>1. free'[k] = free[k] /\ pre'[k] = pre[k] /\ held'[k] = held[k]
    BY <1>1 DEF ShapeInv, Crash
  <2>2. BlocksOf(k)' = BlocksOf(k)
    BY <2>1 DEF BlocksOf
  <2>3. free[k] + SumFunction(BlocksOf(k)) = TotalBlocks
    BY DEF BlocksConserved
  <2>. QED
    BY <2>1, <2>2, <2>3
<1>2. free'[i] + SumFunction(BlocksOf(i)') = TotalBlocks
  <2>0. PICK b : b = BlocksOf(i)'
    OBVIOUS
  <2>1. free'[i] = TotalBlocks /\ \A r \in Req : held'[i][r] = 0 /\ pre'[i][r] = 0
    BY DEF ShapeInv, Crash
  <2>2. b \in [Req -> Int] /\ \A r \in Req : b[r] = 0
    BY <2>0, <2>1 DEF BlocksOf
  <2>3. SumFunction(b) = 0
    BY <2>2, ReqAssumption, SumZero
  <2>. QED
    BY <2>0, <2>1, <2>3, BlocksAssumption
<1>. QED
  BY <1>1, <1>2 DEF BlocksConserved

(***************************************************************************)
(* Every step of FaultSpec.                                                *)
(***************************************************************************)

\* A step of instance i adds requests to its own queues, and a commit to those
\* of its destination.
LEMMA PlacesElsewhere ==
  ASSUME ShapeInv, NEW i \in Inst, NEW k \in Inst,
         \/ k # i /\ (EngineStep(i) \/ ClientStep(i) \/ SrcStep(i))
         \/ k # dst[i] /\ CallStep(i)
         \/ MigrateDone(i)
         \/ \E j \in Inst : PushMigration(i, j)
  PROVE  place'[k] = place[k]
<1>p. place \in [Inst -> [Req -> Places]]
  BY DEF ShapeInv
<1>1. CASE k # i /\ EngineStep(i)
  BY <1>p, <1>1 DEF EngineStep, Admit, Grow, Preempt, Finish, FinishRemoved, Retire
<1>2. CASE k # i /\ ClientStep(i)
  BY <1>p, <1>2 DEF ClientStep, AddRequest, AbortRequest, Retire
<1>3. CASE k # i /\ SrcStep(i)
  <2>1. CASE MigrateOut(i) \/ StartStage(i) \/ AfterRemoval(i) \/ AfterAllocated(i)
    BY <2>1 DEF MigrateOut, StartStage, AfterRemoval, AfterAllocated
  <2>2. CASE MigrateOutOneRequest(i)
    BY <1>p, <1>3, <2>2 DEF MigrateOutOneRequest, BeginRunning, BeginWaiting,
       BeginOverLimit, BeginSkipped
  <2>3. CASE RemoveRunningRequest(i) \/ AfterRefused(i) \/ AfterCommit(i)
    BY <1>p, <1>3, <2>3 DEF RemoveRunningRequest, AfterRefused, AfterCommit
  <2>. QED
    BY <1>3, <2>1, <2>2, <2>3 DEF SrcStep
<1>4. CASE k # dst[i] /\ CallStep(i)
  <2>1. CASE MigrateInPreAlloc(i) \/ SendBlocks(i) \/ AfterAbort(i)
    BY <2>1 DEF MigrateInPreAlloc, SendBlocks, AfterAbort, queueVars
  <2>2. CASE CommitDstRequest(i)
    BY <1>p, <1>4, <2>2 DEF CommitDstRequest
  <2>. QED
    BY <1>4, <2>1, <2>2 DEF CallStep, DstStep
<1>5. CASE MigrateDone(i) \/ \E j \in Inst : PushMigration(i, j)
  BY <1>5 DEF MigrateDone, PushMigration, queueVars
<1>. QED
  BY <1>1, <1>2, <1>3, <1>4, <1>5

\* No step of a live migration puts a request into a queue of a dead instance.
LEMMA LiveDead ==
  ASSUME CrashInv, DeadInv, NEW i \in Inst, LiveStep(i), known \subseteq Inst
  PROVE  DeadInv'
<1>0. ShapeInv
  BY CrashParts
<1>1. alive' = alive
  BY DEF LiveStep, faultVars
<1>2. ASSUME NEW k \in Inst, ~alive[k] PROVE place'[k] = place[k]
  <2>1. CASE alive[i] /\ (EngineStep(i) \/ SrcStep(i) \/ ClientStep(i))
    BY <1>0, <1>2, <2>1, PlacesElsewhere
  <2>2. CASE alive[i] /\ alive[dst[i]] /\ CallStep(i)
    BY <1>0, <1>2, <2>2, PlacesElsewhere
  <2>3. CASE MigrateDone(i) \/ \E j \in Inst : PushMigration(i, j)
    BY <1>0, <2>3, PlacesElsewhere
  <2>. QED
    BY <2>1, <2>2, <2>3 DEF LiveStep
<1>. QED
  BY <1>1, <1>2 DEF DeadInv

\* The destination of a migration is an instance.
LEMMA DstKept ==
  ASSUME dst \in [Inst -> Inst], known \subseteq Inst, [FaultNext]_allVars
  PROVE  dst' \in [Inst -> Inst]
<1>1. CASE dst' = dst
  BY <1>1
<1>2. ASSUME NEW i \in Inst, NEW j \in Inst, dst' = [dst EXCEPT ![i] = j]
      PROVE  dst' \in [Inst -> Inst]
  BY <1>2
<1>3. ASSUME NEW i \in Inst, LiveStep(i)
      PROVE  dst' = dst \/ \E j \in Inst : dst' = [dst EXCEPT ![i] = j]
  <2>1. CASE EngineStep(i)
    BY <2>1 DEF EngineStep, Admit, Grow, Preempt, Finish, FinishRemoved, Retire
  <2>2. CASE ClientStep(i)
    BY <2>2 DEF ClientStep, AddRequest, AbortRequest, Retire
  <2>3. CASE SrcStep(i)
    BY <2>3 DEF SrcStep, MigrateOut, MigrateOutOneRequest, StartStage,
       RemoveRunningRequest, AfterRemoval, AfterAllocated, AfterRefused, AfterCommit
  <2>4. CASE CallStep(i)
    BY <2>4 DEF CallStep, DstStep, MigrateInPreAlloc, CommitDstRequest, SendBlocks,
       AfterAbort
  <2>5. CASE MigrateDone(i)
    BY <2>5 DEF MigrateDone
  <2>6. ASSUME NEW j \in known, PushMigration(i, j)
        PROVE  \E k \in Inst : dst' = [dst EXCEPT ![i] = k]
    BY <2>6 DEF PushMigration
  <2>. QED
    BY <1>3, <2>1, <2>2, <2>3, <2>4, <2>5, <2>6 DEF LiveStep
<1>4. ASSUME NEW i \in Inst,
             \/ Crash(i) \/ CallFails(i) \/ CallDead(i) \/ ErrorCallback(i)
             \/ DetectDead(i)
      PROVE  dst' = dst \/ dst' = [dst EXCEPT ![i] = i]
  BY <1>4 DEF Crash, CallFails, CallDead, ErrorCallback, DetectDead, vars
<1>5. ASSUME NEW t \in tasks,
             \/ CheckInstanceError(t) \/ ClearMigrateOut(t) \/ ClearMigrateIn(t)
             \/ ScaleDownDead(t)
      PROVE  dst' = dst
  BY <1>5 DEF CheckInstanceError, ClearMigrateOut, ClearMigrateIn, ScaleDownDead, vars
<1>6. CASE UNCHANGED allVars
  BY <1>6 DEF allVars, vars
<1>7. CASE FaultNext
  <2>1. CASE \E i \in Inst : LiveStep(i)
    <3>1. PICK i \in Inst : LiveStep(i)
      BY <2>1
    <3>. QED
      BY <1>1, <1>2, <1>3, <3>1
  <2>2. CASE FaultStep
    <3>1. CASE \E i \in Inst : \/ Crash(i) \/ CallFails(i) \/ CallDead(i)
                               \/ ErrorCallback(i) \/ DetectDead(i)
      BY <1>1, <1>2, <1>4, <3>1
    <3>2. CASE \E t \in tasks : \/ CheckInstanceError(t) \/ ClearMigrateOut(t)
                                \/ ClearMigrateIn(t) \/ ScaleDownDead(t)
      BY <1>1, <1>5, <3>2
    <3>. QED
      BY <2>2, <3>1, <3>2 DEF FaultStep
  <2>. QED
    BY <1>7, <2>1, <2>2 DEF FaultNext
<1>. QED
  BY <1>1, <1>6, <1>7

\* The types of the variables that the faults add.
LEMMA FaultTypeKept ==
  ASSUME FaultTypeOK, dst \in [Inst -> Inst], [FaultNext]_allVars
  PROVE  FaultTypeOK'
<1>0. /\ alive \in [Inst -> BOOLEAN] /\ known \subseteq Inst
      /\ tasks \subseteq Tasks /\ victims \subseteq Req /\ late \in BOOLEAN
  BY DEF FaultTypeOK
<1>1. ASSUME NEW i \in Inst, Crash(i) PROVE FaultTypeOK'
  BY <1>0, <1>1 DEF Crash, FaultTypeOK
<1>2. ASSUME NEW i \in Inst, CallFails(i) \/ CallDead(i) \/ LiveStep(i)
      PROVE  FaultTypeOK'
  BY <1>0, <1>2 DEF CallFails, CallDead, LiveStep, faultVars, FaultTypeOK
<1>3. ASSUME NEW i \in Inst, ErrorCallback(i) PROVE FaultTypeOK'
  <2>1. dst[i] \in Inst
    OBVIOUS
  <2>2. [src |-> i, dst |-> dst[i], at |-> "check", err |-> {}] \in Tasks
    BY <2>1 DEF Tasks
  <2>. QED
    BY <1>0, <1>3, <2>2 DEF ErrorCallback, FaultTypeOK
<1>4. ASSUME NEW i \in Inst, DetectDead(i) PROVE FaultTypeOK'
  BY <1>0, <1>4 DEF DetectDead, FaultTypeOK
<1>5. ASSUME NEW t \in tasks, CheckInstanceError(t) PROVE FaultTypeOK'
  <2>1. t \in Tasks
    BY <1>0
  <2>. DEFINE u == [t EXCEPT !.at = "clearSrc", !.err = {i \in {t.src, t.dst} : ~alive[i]}]
  <2>2. {i \in {t.src, t.dst} : ~alive[i]} \subseteq Inst
    BY <2>1 DEF Tasks
  <2>3. u \in Tasks
    BY <2>1, <2>2 DEF Tasks
  <2>4. tasks' \subseteq tasks \cup {u}
    BY <1>5 DEF CheckInstanceError
  <2>. HIDE DEF u
  <2>. QED
    BY <1>0, <1>5, <2>3, <2>4 DEF CheckInstanceError, FaultTypeOK
<1>6. ASSUME NEW t \in tasks, NEW a \in {"clearDst", "scaleDown"}, Goto(t, a)
      PROVE  tasks' \subseteq Tasks
  <2>1. t \in Tasks
    BY <1>0
  <2>2. [t EXCEPT !.at = a] \in Tasks
    BY <2>1 DEF Tasks
  <2>. QED
    BY <1>0, <1>6, <2>2 DEF Goto
<1>7. ASSUME NEW t \in tasks, ClearMigrateOut(t) PROVE FaultTypeOK'
  <2>1. tasks' \subseteq Tasks
    BY <1>6, <1>7 DEF ClearMigrateOut
  <2>2. late' \in BOOLEAN
    BY <1>0, <1>7 DEF ClearMigrateOut
  <2>. QED
    BY <1>0, <1>7, <2>1, <2>2 DEF ClearMigrateOut, FaultTypeOK
<1>8. ASSUME NEW t \in tasks, ClearMigrateIn(t) PROVE FaultTypeOK'
  <2>1. tasks' \subseteq Tasks
    BY <1>6, <1>8 DEF ClearMigrateIn
  <2>. QED
    BY <1>0, <1>8, <2>1 DEF ClearMigrateIn, FaultTypeOK
<1>9. ASSUME NEW t \in tasks, ScaleDownDead(t) PROVE FaultTypeOK'
  BY <1>0, <1>9 DEF ScaleDownDead, FaultTypeOK
<1>10. CASE UNCHANGED allVars
  BY <1>0, <1>10 DEF allVars, faultVars, FaultTypeOK
<1>. QED
  BY <1>1, <1>2, <1>3, <1>4, <1>5, <1>7, <1>8, <1>9, <1>10 DEF FaultNext, FaultStep

\* late is never taken back.
LEMMA LateStays ==
  ASSUME [FaultNext]_allVars, late
  PROVE  late'
<1>1. ASSUME NEW i \in Inst,
             \/ Crash(i) \/ CallFails(i) \/ CallDead(i) \/ ErrorCallback(i)
             \/ DetectDead(i) \/ LiveStep(i)
      PROVE  late'
  BY <1>1 DEF Crash, CallFails, CallDead, ErrorCallback, DetectDead, LiveStep, faultVars
<1>2. ASSUME NEW t \in tasks,
             \/ CheckInstanceError(t) \/ ClearMigrateIn(t) \/ ScaleDownDead(t)
      PROVE  late'
  BY <1>2 DEF CheckInstanceError, ClearMigrateIn, ScaleDownDead
<1>3. ASSUME NEW t \in tasks, ClearMigrateOut(t) PROVE late'
  <2>1. late' = late \/ late' = (late \/ TakesNewer(t.src))
    BY <1>3 DEF ClearMigrateOut
  <2>. QED
    BY <2>1
<1>4. CASE UNCHANGED allVars
  BY <1>4 DEF allVars, faultVars
<1>. QED
  BY <1>1, <1>2, <1>3, <1>4 DEF FaultNext, FaultStep

\* Each step of the error handling keeps the invariants and the blocks, as long
\* as no clean-up takes a request from a newer migration.
LEMMA FaultStepCrash ==
  ASSUME FaultTypeOK, CrashInv, DeadInv, ~late', [FaultNext]_allVars
  PROVE  CrashInv' /\ DeadInv' /\ (BlocksConserved => BlocksConserved')
<1>t. /\ alive \in [Inst -> BOOLEAN] /\ known \subseteq Inst /\ tasks \subseteq Tasks
      /\ \A t \in tasks : t.src \in Inst /\ t.dst \in Inst
  BY DEF FaultTypeOK, Tasks
<1>s. ShapeInv
  BY CrashParts
<1>l. ~late
  BY LateStays
<1>k. ASSUME UNCHANGED <<alive, place>> PROVE DeadInv'
  BY <1>k DEF DeadInv
<1>v. ASSUME UNCHANGED vars, UNCHANGED alive
      PROVE  CrashInv' /\ DeadInv' /\ (BlocksConserved => BlocksConserved')
  <2>1. CrashInv'
    BY <1>v, StutterCrash
  <2>2. UNCHANGED <<place, held, pre, free>>
    BY <1>v DEF vars
  <2>. QED
    BY <1>k, <1>v, <2>1, <2>2, BlocksKept
<1>1. ASSUME NEW i \in Inst, Crash(i)
      PROVE  CrashInv' /\ DeadInv' /\ (BlocksConserved => BlocksConserved')
  <2>1. CrashInv'
    BY <1>1, CrashCrash
  <2>2. BlocksConserved => BlocksConserved'
    BY <1>1, <1>s, CrashBlocks
  <2>3. DeadInv'
    <3>1. /\ alive' = [alive EXCEPT ![i] = FALSE]
          /\ place' = [place EXCEPT ![i] = [r \in Req |-> "none"]]
      BY <1>1 DEF Crash
    <3>. QED
      BY <1>s, <1>t, <3>1 DEF DeadInv, ShapeInv
  <2>. QED
    BY <2>1, <2>2, <2>3
<1>2. ASSUME NEW i \in Inst, CallFails(i) \/ CallDead(i) \/ ErrorCallback(i)
      PROVE  CrashInv' /\ DeadInv' /\ (BlocksConserved => BlocksConserved')
  <2>1. CrashInv'
    BY <1>2, CallFailsCrash, CallDeadCrash, ErrorCallbackCrash
  <2>2. UNCHANGED <<place, held, pre, free, alive>>
    BY <1>2 DEF CallFails, CallDead, ErrorCallback, queueVars, blockVars, faultVars
  <2>. QED
    BY <1>k, <2>1, <2>2, BlocksKept
<1>3. ASSUME NEW i \in Inst, DetectDead(i)
      PROVE  CrashInv' /\ DeadInv' /\ (BlocksConserved => BlocksConserved')
  BY <1>3, <1>v DEF DetectDead
<1>4. ASSUME NEW t \in tasks, CheckInstanceError(t) \/ ScaleDownDead(t)
      PROVE  CrashInv' /\ DeadInv' /\ (BlocksConserved => BlocksConserved')
  BY <1>4, <1>v DEF CheckInstanceError, ScaleDownDead
<1>5. ASSUME NEW t \in tasks, ClearMigrateOut(t)
      PROVE  CrashInv' /\ DeadInv' /\ (BlocksConserved => BlocksConserved')
  <2>0. PICK i \in Inst : i = t.src
    BY <1>t
  <2>u. UNCHANGED <<arrived, stat, meta, eom, held, pre, free, pc, dst, cur, todo, stage,
                    num, last, busy, alive>>
    BY <1>5 DEF ClearMigrateOut, blockVars, jobVars
  <2>1. CASE i \notin t.err /\ alive[i] /\ i \in known
    <3>1. RequeueLastStage(i) /\ late' = (late \/ TakesNewer(i))
      BY <1>5, <2>0, <2>1 DEF ClearMigrateOut
    <3>2. CrashInv'
      BY <2>u, <3>1, RequeueCrash
    <3>3. \A k \in Inst : ~alive[k] => place'[k] = place[k]
      BY <1>s, <2>1, <3>1 DEF RequeueLastStage, ShapeInv
    <3>4. DeadInv'
      BY <2>u, <3>3 DEF DeadInv
    <3>. QED
      BY <2>u, <3>2, <3>4, BlocksKept
  <2>2. CASE ~(i \notin t.err /\ alive[i] /\ i \in known)
    <3>1. UNCHANGED <<place, lastStage>>
      BY <1>5, <2>0, <2>2 DEF ClearMigrateOut
    <3>2. UNCHANGED vars
      BY <2>u, <3>1 DEF vars
    <3>. QED
      BY <1>v, <2>u, <3>2
  <2>. QED
    BY <2>1, <2>2
<1>6. ASSUME NEW t \in tasks, ClearMigrateIn(t)
      PROVE  CrashInv' /\ DeadInv' /\ (BlocksConserved => BlocksConserved')
  <2>0. PICK j \in Inst : j = t.dst
    BY <1>t
  <2>u. UNCHANGED <<arrived, place, stat, meta, eom, held, lastStage, pc, dst, cur, todo,
                    stage, num, last, busy, alive>>
    BY <1>6 DEF ClearMigrateIn, queueVars, jobVars
  <2>1. CASE j \notin t.err /\ alive[j] /\ j \in known
    <3>1. FreeAllPreAlloc(j)
      BY <1>6, <2>0, <2>1 DEF ClearMigrateIn
    <3>2. CrashInv'
      BY <2>u, <3>1, FreeAllCrash
    <3>3. BlocksConserved => BlocksConserved'
      BY <1>s, <2>u, <3>1, FreeAllBlocks
    <3>. QED
      BY <1>k, <2>u, <3>2, <3>3
  <2>2. CASE ~(j \notin t.err /\ alive[j] /\ j \in known)
    <3>1. UNCHANGED <<pre, free>>
      BY <1>6, <2>0, <2>2 DEF ClearMigrateIn
    <3>2. UNCHANGED vars
      BY <2>u, <3>1 DEF vars
    <3>. QED
      BY <1>v, <2>u, <3>2
  <2>. QED
    BY <2>1, <2>2
<1>7. ASSUME NEW i \in Inst, LiveStep(i)
      PROVE  CrashInv' /\ DeadInv' /\ (BlocksConserved => BlocksConserved')
  <2>1. \/ ClientStep(i) \/ EngineStep(i) \/ SrcStep(i) \/ CallStep(i)
        \/ MigrateDone(i) \/ \E j \in Inst : PushMigration(i, j)
    BY <1>7, <1>t DEF LiveStep
  <2>2. CrashInv' /\ (BlocksConserved => BlocksConserved')
    BY <2>1, StepCrash, StepBlocks
  <2>3. DeadInv'
    BY <1>7, <1>t, LiveDead
  <2>. QED
    BY <2>2, <2>3
<1>8. CASE UNCHANGED allVars
  BY <1>8, <1>v DEF allVars, faultVars
<1>. QED
  BY <1>1, <1>2, <1>3, <1>4, <1>5, <1>6, <1>7, <1>8 DEF FaultNext, FaultStep

\* FaultInv is inductive: until a clean-up takes a request from a newer migration
\* the invariant survives every crash, exception and clean-up.
LEMMA FaultInvInductive ==
  /\ FaultInit => FaultInv /\ BlocksConserved
  /\ FaultInv /\ [FaultNext]_allVars => FaultInv'
  /\ FaultInv /\ (late \/ BlocksConserved) /\ [FaultNext]_allVars
       => (late \/ BlocksConserved)'
<1>1. FaultInit => FaultInv /\ BlocksConserved
  <2>. SUFFICES ASSUME FaultInit PROVE FaultInv /\ BlocksConserved
    OBVIOUS
  <2>1. CrashInv /\ BlocksConserved
    BY InitCrash, InitBlocks DEF FaultInit
  <2>2. FaultTypeOK /\ DeadInv
    BY DEF FaultInit, FaultTypeOK, DeadInv
  <2>3. dst \in [Inst -> Inst]
    BY DEF FaultInit, Init
  <2>. QED
    BY <2>1, <2>2, <2>3 DEF FaultInv
<1>2. ASSUME FaultInv, [FaultNext]_allVars
      PROVE  FaultInv' /\ ((late \/ BlocksConserved) => (late \/ BlocksConserved)')
  <2>1. FaultTypeOK /\ dst \in [Inst -> Inst] /\ known \subseteq Inst
    BY <1>2 DEF FaultInv, FaultTypeOK
  <2>2. FaultTypeOK' /\ dst' \in [Inst -> Inst]
    BY <1>2, <2>1, FaultTypeKept, DstKept
  <2>3. CASE late'
    BY <2>2, <2>3 DEF FaultInv
  <2>4. CASE ~late'
    <3>1. ~late
      BY <1>2, <2>4, LateStays
    <3>2. CrashInv /\ DeadInv
      BY <1>2, <3>1 DEF FaultInv
    <3>3. CrashInv' /\ DeadInv' /\ (BlocksConserved => BlocksConserved')
      BY <1>2, <2>1, <2>4, <3>2, FaultStepCrash
    <3>. QED
      BY <2>2, <3>1, <3>3 DEF FaultInv
  <2>. QED
    BY <2>3, <2>4
<1>. QED
  BY <1>1, <1>2

\* The inductive invariant of MigrationFaults: what a crash of an instance at any
\* moment of a migration, the exceptions it raises (migrate_out) and the clean-up
\* (migrate_done_callback, clear_migration_states) leave intact.
THEOREM FaultInvHolds == FaultSpec => []FaultInv
BY FaultInvInductive, PTL DEF FaultSpec

\* No crash and no clean-up (free_dst_pre_alloc_cache without a request) loses a
\* block of any instance, for any number of instances, requests, crashes and
\* callbacks, unless clear_migration_states took a request from a newer migration.
THEOREM LiveBlocksConservedHolds == FaultSpec => []LiveBlocksConserved
<1>1. FaultInv /\ (late \/ BlocksConserved) => LiveBlocksConserved
  BY DEF FaultInv, LiveBlocksConserved
<1>2. FaultInit => late \/ BlocksConserved
  BY FaultInvInductive
<1>3. FaultSpec => [](late \/ BlocksConserved)
  BY <1>2, FaultInvInductive, FaultInvHolds, PTL DEF FaultSpec
<1>. QED
  BY <1>1, <1>3, FaultInvHolds, PTL

\* No crash and no clean-up leaves a request with two owners, unless
\* clear_migration_states took a request from a newer migration, which
\* migrate_done_callback lets start before it cleans up.
THEOREM SingleOwnerUnlessLateHolds == FaultSpec => []SingleOwnerUnlessLate
<1>1. FaultInv => SingleOwnerUnlessLate
  <2>. SUFFICES ASSUME FaultInv, ~late PROVE SingleOwner
    BY DEF SingleOwnerUnlessLate
  <2>0. ShapeInv /\ UniqueInv /\ \A k \in Inst : LocalInv(k)
    BY CrashParts DEF FaultInv
  <2>1. SUFFICES ASSUME NEW i \in Inst, NEW j \in Inst, NEW r \in Req,
                        Runnable(i, r), Runnable(j, r), i # j
                 PROVE  FALSE
    BY DEF SingleOwner
  <2>2. ASSUME NEW k \in Inst, pc[k] = "committed", cur[k] = r PROVE ~Runnable(k, r)
    BY <2>0, <2>2 DEF LocalInv, CallInv, LastStageInv, LastSending, Sending, Removing,
       Runnable
  <2>3. HandsOver(i, j, r) \/ HandsOver(j, i, r)
    BY <2>0, <2>1 DEF UniqueInv, Runnable
  <2>. QED
    BY <2>1, <2>2, <2>3 DEF HandsOver
<1>. QED
  BY <1>1, FaultInvHolds, PTL
=============================================================================
