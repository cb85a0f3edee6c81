------------------------ MODULE LiveMigrationOwnership ------------------------
(***************************************************************************)
(* LiveMigration implements Ownership: a request is served by the engine   *)
(* that has it in a queue or still processes the outputs of its last step, *)
(* and is being moved while migrate_out holds it and the destination has   *)
(* not committed it.                                                       *)
(***************************************************************************)
EXTENDS LiveMigrationInv

CONSTANT NoInst

ASSUME NoInstAssumption == NoInst \notin Inst

Serving(r) ==
  {i \in Inst : Runnable(i, r) \/ (place[i][r] = "detached" /\ pc[i] = "removed")}
Moving(r) == {i \in Inst : place[i][r] = "detached" /\ pc[i] # "committed"}

OwnerOf(r) ==
  IF Serving(r) # {} THEN CHOOSE i \in Serving(r) : TRUE
  ELSE IF Moving(r) # {} THEN CHOOSE i \in Moving(r) : TRUE
  ELSE NoInst

PhaseOf(r) ==
  IF r \notin arrived THEN "new"
  ELSE IF Serving(r) # {} THEN "served"
  ELSE IF Moving(r) # {} THEN "moving"
  ELSE "ended"

Own == INSTANCE Ownership WITH
  owner <- [r \in Req |-> OwnerOf(r)], phase <- [r \in Req |-> PhaseOf(r)]

\* Through stages, refusals, preemptions, completions and aborts a request is
\* handed over in one step, ends only in service and is never left in between:
\* migrate_out, migrate_in_pre_alloc and commit_dst_request implement Ownership.
ImplementsOwnership == Own!Spec
=============================================================================
