-------------------------- MODULE LiveMigrationInv --------------------------
(***************************************************************************)
(* The inductive invariant of LiveMigration.  TLC checks it beside the     *)
(* properties; LiveMigrationProofs proves that it is inductive and what    *)
(* follows from it.                                                        *)
(***************************************************************************)
EXTENDS LiveMigration

\* Where migrate_out works on a request, and where a request that is in its
\* last stage belongs to the coroutine and to no queue.
Unassigned == {"idle", "called", "done"}
Sending == {"alloc", "allocated", "refused", "send", "commit", "committed"}
Removing == {"remove", "removeStepped", "removed"}
MidMigration == {"stage"} \cup Removing \cup Sending
LastSending(i) == pc[i] \in Sending /\ last[i]

\* The local variables of migrate_out.
JobInv ==
  \A i \in Inst :
    /\ pc[i] # "raised"
    /\ pc[i] \notin Unassigned => cur[i] \in arrived
    /\ todo[i] \subseteq arrived
    /\ pc[i] \in Unassigned \cup {"next", "stage"} => ~last[i]
    /\ pc[i] \in Removing \cup {"commit", "committed"} => last[i]

\* A request is out of the queues exactly in the last stage of its migration.
PlaceInv ==
  \A i \in Inst :
    /\ \A r \in Req : place[i][r] = "detached"
                        => cur[i] = r /\ (pc[i] = "removed" \/ LastSending(i))
    /\ LastSending(i) => place[i][cur[i]] = "detached" /\ cur[i] \in lastStage[i]

\* Two instances hold a request only between the two halves of its commit.
HandsOver(i, j, r) == pc[i] = "committed" /\ cur[i] = r /\ dst[i] = j
UniqueInv ==
  \A i, j \in Inst, r \in Req :
    i # j /\ place[i][r] # "none" /\ place[j][r] # "none"
      => HandsOver(i, j, r) \/ HandsOver(j, i, r)

\* What arrived is held somewhere or was finished there.
Known(i, r) == place[i][r] # "none" \/ meta[i][r].finished
KeptInv ==
  /\ \A i \in Inst, r \in Req \ arrived : place[i][r] = "none" /\ stat[i][r] = "none"
  /\ \A r \in arrived : \E i \in Inst : Known(i, r)
  /\ \A i \in Inst : pc[i] = "committed" => Known(dst[i], cur[i])

\* What the copy of a request looks like in each queue.
CopyInv ==
  \A i \in Inst, r \in Req :
    /\ place[i][r] # "none" => meta[i][r].size > 0 /\ ~meta[i][r].finished
    /\ place[i][r] = "running" => stat[i][r] = "none" /\ held[i][r] > 0
    /\ place[i][r] = "waiting"
         => /\ stat[i][r] # "running_migrating"
            /\ stat[i][r] = "waiting_migrating" => held[i][r] > 0
    /\ place[i][r] = "detached" /\ stat[i][r] # "waiting_migrating"
         => held[i][r] > 0

\* Blocks are sent for the request under migration only, there is always one
\* left to send, and a preemption is noticed before the request is detached.
Healthy(i, n) ==
  \/ ShouldAbort(i, cur[i])
  \/ place[i][cur[i]] = "running" /\ meta[i][cur[i]].sent + n < held[i][cur[i]]
SentInv(i) ==
  \A r \in Req : meta[i][r].sent # 0 => cur[i] = r /\ pc[i] \in MidMigration
HealthInv(i) ==
  /\ pc[i] = "stage" => Healthy(i, 0)
  /\ pc[i] \in Removing \cup {"alloc", "allocated"} => num[i] > 0
  /\ pc[i] \in {"alloc", "allocated"} /\ ~last[i] => Healthy(i, num[i])
  /\ pc[i] = "send" /\ ~last[i] => Healthy(i, 0)
  /\ pc[i] \in Sending \cup {"stage"} /\ ~last[i] => stat[i][cur[i]] = "none"
  /\ pc[i] = "remove" => ~meta[i][cur[i]].preempted
  /\ pc[i] = "removeStepped" /\ place[i][cur[i]] = "running"
       => ~meta[i][cur[i]].preempted
  /\ pc[i] = "removed" /\ place[i][cur[i]] = "detached"
       => ~meta[i][cur[i]].preempted
  /\ LastSending(i) /\ stat[i][cur[i]] # "waiting_migrating"
       => ~meta[i][cur[i]].preempted
StageInv == \A i \in Inst : SentInv(i) /\ HealthInv(i)

\* A pre-allocation belongs to the one migration into its instance.
Reserving == {"stage", "remove", "removeStepped", "removed", "alloc",
              "allocated", "send", "commit", "abort"}
Reserves(i, j, r) == dst[i] = j /\ cur[i] = r /\ pc[i] \in Reserving
PreInv ==
  /\ \A j \in Inst, r \in Req :
       pre[j][r] > 0 => \E i \in Inst : Reserves(i, j, r)
  /\ \A i \in Inst : pc[i] \in {"allocated", "send", "commit"}
                       => pre[dst[i]][cur[i]] > 0

\* The invariant that Init establishes and every step preserves.  It holds all
\* that the last stage of a migration relies on: who owns the request, that the
\* request is still healthy, and that the destination has its blocks.
IInv ==
  /\ TypeOK /\ OneToOne /\ JobInv /\ PlaceInv /\ UniqueInv /\ KeptInv
  /\ CopyInv /\ StageInv /\ PreInv

\* What cannot change under way is complete: the stage of a waiting request has
\* the blocks of all its tokens; a request that has done its expected steps is
\* sent in one stage, with all blocks it holds, and its engine leaves it alone.
Answered(i) ==
  /\ pc[i] \in Removing \cup {"alloc"} => pre[dst[i]][cur[i]] = 0
  /\ pc[i] \in {"allocated", "send", "commit"} => pre[dst[i]][cur[i]] = num[i]
WaitingWhole(i) ==
  LastSending(i) /\ stat[i][cur[i]] = "waiting_migrating"
    => num[i] = meta[i][cur[i]].size /\ Answered(i)
LimitedWhole(i) ==
  pc[i] \in MidMigration /\ meta[i][cur[i]].limited
  /\ stat[i][cur[i]] # "waiting_migrating" =>
    /\ place[i][cur[i]] # "waiting"
    /\ pc[i] = "stage" => meta[i][cur[i]].sent = 0 /\ pre[dst[i]][cur[i]] = 0
    /\ pc[i] # "stage" => /\ last[i] /\ Answered(i)
                          /\ place[i][cur[i]] # "none" => num[i] = held[i][cur[i]]
Whole(i) ==
  /\ WaitingWhole(i) /\ LimitedWhole(i)
  /\ pc[i] \in Removing => stat[i][cur[i]] # "waiting_migrating"
FrozenInv == \A i \in Inst : Whole(i)

\* Only requests that migrate_out still goes through are marked as migrating:
\* the one under migration until it is reset, and those after it.
Marked(i, r) == Runnable(i, r) /\ meta[i][r].mig
Listed(i, r) ==
  pc[i] \notin Unassigned /\ (r \in todo[i] \/ (r = cur[i] /\ pc[i] # "abort"))
FlagInv ==
  /\ eom = {}
  /\ \A i \in Inst, r \in Req : Marked(i, r) => stat[i][r] = "none" /\ Listed(i, r)

\* What survives crashes of instances and the exceptions they raise: enough for
\* the owners of requests and for the blocks.  Counts are any integers here.
AnyMeta == [size : Int, sent : Int, mig : BOOLEAN, preempted : BOOLEAN,
            limited : BOOLEAN, finished : BOOLEAN]
ShapeInv ==
  /\ arrived \subseteq Req
  /\ place \in [Inst -> [Req -> Places]] /\ stat \in [Inst -> [Req -> Statuses]]
  /\ meta \in [Inst -> [Req -> AnyMeta]]
  /\ held \in [Inst -> [Req -> Int]] /\ pre \in [Inst -> [Req -> Int]]
  /\ free \in [Inst -> Int] /\ num \in [Inst -> Int]
  /\ lastStage \in [Inst -> SUBSET Req] /\ pc \in [Inst -> PCs]
  /\ dst \in [Inst -> Inst] /\ cur \in [Inst -> Req \cup {NoReq}]
  /\ todo \in [Inst -> SUBSET Req]
  /\ last \in [Inst -> BOOLEAN] /\ busy \in [Inst -> BOOLEAN]

\* Where migrate_out works on a request that its engine may run meanwhile.
Sharing(i) ==
  pc[i] \in {"stage", "remove", "removeStepped"} \/ (pc[i] \in Sending /\ ~last[i])
CallInv(i) ==
  /\ pc[i] \notin Unassigned \cup {"raised"} => cur[i] \in Req
  /\ pc[i] \in Removing \cup {"commit", "committed"} => last[i]
  /\ Sharing(i) => place[i][cur[i]] # "detached" /\ stat[i][cur[i]] = "none"
  /\ pc[i] = "removed" =>
       /\ cur[i] \notin lastStage[i] /\ stat[i][cur[i]] # "waiting_migrating"
       /\ place[i][cur[i]] = "detached" => stat[i][cur[i]] = "running_migrating"
  /\ LastSending(i) => cur[i] \in lastStage[i]

\* The list of the last stage has the requests that are in no queue; their
\* status is the one that clear_migration_states asserts.
LastStageInv(i) ==
  /\ \A r \in Req : place[i][r] = "detached"
                      => r \in lastStage[i] \/ (pc[i] = "removed" /\ cur[i] = r)
  /\ \A r \in lastStage[i] :
       /\ place[i][r] = "detached"
       /\ stat[i][r] \in {"running_migrating", "waiting_migrating"}

\* Only an engine that runs a request, or has just handed it over, holds blocks.
HeldInv(i) ==
  \A r \in Req :
    /\ place[i][r] = "none" => held[i][r] = 0
    /\ place[i][r] = "waiting" /\ stat[i][r] # "waiting_migrating" => held[i][r] = 0
    /\ place[i][r] = "detached" /\ stat[i][r] = "waiting_migrating" => held[i][r] = 0

\* A request in its last stage is neither finished nor preempted.
SoundInv(i) ==
  /\ \A r \in Req : place[i][r] # "none" => r \in arrived /\ ~meta[i][r].finished
  /\ pc[i] = "remove" => ~meta[i][cur[i]].preempted
  /\ pc[i] = "removeStepped" /\ place[i][cur[i]] = "running"
       => ~meta[i][cur[i]].preempted
  /\ pc[i] = "removed" /\ place[i][cur[i]] = "detached"
       => ~meta[i][cur[i]].preempted
  /\ LastSending(i) /\ stat[i][cur[i]] = "running_migrating"
       => ~meta[i][cur[i]].preempted

LocalInv(i) == CallInv(i) /\ LastStageInv(i) /\ HeldInv(i) /\ SoundInv(i)
CrashInv == ShapeInv /\ OneToOne /\ UniqueInv /\ \A i \in Inst : LocalInv(i)
=============================================================================
