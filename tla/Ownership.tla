------------------------------ MODULE Ownership ------------------------------
(***************************************************************************)
(* What live migration promises about requests: an accepted request is     *)
(* served by one instance at a time, may be taken out of service to be     *)
(* moved, then returns to its instance or is handed over to another one in *)
(* one step, and ends only in service, once.                               *)
(***************************************************************************)
CONSTANTS Inst, Req, NoInst

VARIABLES
  owner,   \* owner[r]: the instance that serves r or moves it
  phase    \* phase[r]: "new", "served", "moving" or "ended"

vars == <<owner, phase>>

Init ==
  /\ owner = [r \in Req |-> NoInst]
  /\ phase = [r \in Req |-> "new"]

Accept(r, i) ==
  /\ phase[r] = "new"
  /\ owner' = [owner EXCEPT ![r] = i]
  /\ phase' = [phase EXCEPT ![r] = "served"]

Detach(r) ==
  /\ phase[r] = "served"
  /\ phase' = [phase EXCEPT ![r] = "moving"]
  /\ UNCHANGED owner

Return(r) ==
  /\ phase[r] = "moving"
  /\ phase' = [phase EXCEPT ![r] = "served"]
  /\ UNCHANGED owner

HandOver(r, j) ==
  /\ phase[r] = "moving" /\ owner[r] # j
  /\ owner' = [owner EXCEPT ![r] = j]
  /\ phase' = [phase EXCEPT ![r] = "served"]

End(r) ==
  /\ phase[r] = "served"
  /\ owner' = [owner EXCEPT ![r] = NoInst]
  /\ phase' = [phase EXCEPT ![r] = "ended"]

Resume(r) == Return(r) \/ \E j \in Inst : HandOver(r, j)

Next ==
  \E r \in Req : (\E i \in Inst : Accept(r, i)) \/ Detach(r) \/ Resume(r) \/ End(r)

\* A request that is being moved gets back into service.
Spec == Init /\ [][Next]_vars /\ \A r \in Req : WF_vars(Resume(r))
=============================================================================
