-------------------------- MODULE RequestRoutingProofs --------------------------
(***************************************************************************)
(* Proofs about RequestRouting: a request cancelled while it waits for its *)
(* P/D roles is never submitted, and the counters of the fallback of the   *)
(* API server are those of its unsettled requests, for any number of       *)
(* Llumlets, requests, deaths and Manager crashes.                         *)
(***************************************************************************)
EXTENDS RequestRouting, FiniteSetTheorems, TLAPS

\* The plan of a request that Manager.generate submits or books.
PlanInv ==
  /\ plan \in [Req -> Seq(Inst)]
  /\ cancelled \subseteq Req
  /\ \A r \in Req :
       gen[r] \in {"first", "second", "book", "cleanup"} => Len(plan[r]) \in 1..2

\* Manager.generate runs for a client that awaits it, and a request that waits
\* for its roles is in the loop of generate.
StageInv ==
  /\ \A r \in Req : gen[r] # "none" => call[r] = "mgr"
  /\ \A r \in waiting : gen[r] = "wait"

\* A request that was cancelled no longer waits and never leaves the loop but to
\* return.
CancelInv ==
  PD => \A r \in cancelled : r \notin waiting /\ gen[r] \in {"none", "wait"}

\* As long as the Manager has not failed, no call has left it, and a request
\* runs nowhere before it is dispatched.
CalmInv ==
  crashes = 0 =>
    /\ mgrUp
    /\ \A r \in Req :
         /\ call[r] \in {"idle", "mgr", "done"}
         /\ call[r] = "idle" \/ gen[r] = "wait" \/ (PD /\ r \in cancelled)
              => \A i \in Inst : active[i][r] = "no"

\* A request that is about to be generated again holds no entry on a Llumlet the
\* server still counts on; the entry of one that the server aborts is gone; the
\* awaited Llumlet is the one of the entry, or the one that is called to abort.
EntryInv ==
  \A r \in Req :
    /\ call[r] \in {"idle", "mgr", "error", "retry"} => fallback[r] \notin own
    /\ closing[r] \in own
         => /\ fallback[r] = NoInst
            /\ call[r] = "done" \/ (call[r] = "inst" /\ target[r] = closing[r])
    /\ call[r] = "inst" => target[r] \in Inst /\ fallback[r] \in {target[r], NoInst}

\* Every counter is the number of requests with an entry, or being aborted.
CountInv == \A i \in own : count[i] = Cardinality(Users(i))

\* An entry on a live Llumlet is a request that is there, apart from the two
\* cases FallbackCounted names; its outputs are not suppressed, and the stream of
\* a request exists from its first generate on.
ThereInv ==
  \A r \in Req :
    /\ call[r] # "idle" => stream[r] # "none"
    /\ \A i \in own : fallback[r] = i =>
         /\ call[r] = "done" => active[i][r] # "mute"
         /\ i \in alive => \/ target[r] = i \/ active[i][r] # "no"
                           \/ r \in cut \/ stream[r] = "finished"

\* The inductive invariant.
IInv ==
  /\ TypeOK /\ PlanInv /\ StageInv /\ CancelInv /\ CalmInv /\ EntryInv
  /\ CountInv /\ ThereInv

-------------------------------------------------------------------------------
(* Counting                                                                    *)

\* Sets of requests have a size, that one more or one less request changes by
\* one (the counters of LlumnixClientVLLM).
LEMMA ReqSets ==
  /\ \A S \in SUBSET Req : Cardinality(S) \in Nat
  /\ \A S \in SUBSET Req : \A r \in Req :
       r \notin S => Cardinality(S \cup {r}) = Cardinality(S) + 1
  /\ \A S \in SUBSET Req : \A r \in S :
       Cardinality(S) > 0 /\ Cardinality(S \ {r}) = Cardinality(S) - 1
<1>1. IsFiniteSet(Req)
  BY RoutingAssumption
<1>2. \A S \in SUBSET Req : IsFiniteSet(S)
  BY <1>1, FS_Subset
<1>3. \A S \in SUBSET Req : Cardinality(S) \in Nat
  BY <1>2, FS_CardinalityType
<1>4. ASSUME NEW S \in SUBSET Req, NEW r \in Req, r \notin S
      PROVE  Cardinality(S \cup {r}) = Cardinality(S) + 1
  BY <1>2, <1>4, FS_AddElement
<1>5. ASSUME NEW S \in SUBSET Req, NEW r \in S
      PROVE  Cardinality(S) > 0 /\ Cardinality(S \ {r}) = Cardinality(S) - 1
  <2>1. Cardinality(S \ {r}) = Cardinality(S) - 1
    BY <1>2, FS_RemoveElement
  <2>2. Cardinality(S) \in Nat /\ Cardinality(S \ {r}) \in Nat
    BY <1>3
  <2>. QED
    BY <2>1, <2>2
<1>. QED
  BY <1>3, <1>4, <1>5

\* A step that changes no entry and no counter keeps the counters exact, when
\* the server does not take on a Llumlet.
LEMMA CountKept ==
  ASSUME CountInv, own' \subseteq own,
         UNCHANGED <<count, fallback, closing>>
  PROVE  CountInv'
BY DEF CountInv, Users

\* A step that leaves the entries, the streams and the Llumlets' requests alone,
\* and at most goes on with a request the Manager had, keeps the entries real.
LEMMA ThereKept ==
  ASSUME ThereInv, EntryInv, own' \subseteq own, alive' \subseteq alive,
         UNCHANGED <<active, stream, target, fallback, cut>>,
         \A r \in Req : call'[r] = call[r] \/ call[r] \in {"mgr", "error"}
  PROVE  ThereInv'
BY DEF ThereInv, EntryInv

\* Forgetting Llumlet i keeps the other counters.
LEMMA CountForgotten ==
  ASSUME CountInv, TypeOK, NEW i \in Inst, own' = own \ {i},
         count' = [count EXCEPT ![i] = 0], UNCHANGED <<fallback, closing>>
  PROVE  CountInv'
<1>1. \A j \in own' : count'[j] = count[j] /\ j \in own
  BY DEF TypeOK
<1>2. \A j \in own : Users(j)' = Users(j)
  BY DEF Users
<1>. QED
  BY <1>1, <1>2, Zenon DEF CountInv

\* One more entry, on Llumlet i, for a request that was counted nowhere.
LEMMA CountUp ==
  ASSUME CountInv, TypeOK, NEW r \in Req, NEW i \in own,
         fallback[r] \notin own, closing[r] \notin own, own' = own,
         count' = [count EXCEPT ![i] = @ + 1],
         fallback' = [fallback EXCEPT ![r] = i], closing' = closing
  PROVE  CountInv'
<1>. SUFFICES ASSUME NEW j \in own PROVE count'[j] = Cardinality(Users(j)')
  BY DEF CountInv, Users
<1>1. count[j] = Cardinality(Users(j)) /\ j \in Inst /\ NoInst \notin Inst /\ i \in Inst
  BY RoutingAssumption DEF CountInv, Users, TypeOK
<1>2. r \notin Users(j) /\ Users(j) \in SUBSET Req
  BY <1>1 DEF Users
<1>3. CASE j = i
  <2>1. Users(j)' = Users(j) \cup {r}
    BY <1>1, <1>3 DEF Users, TypeOK
  <2>2. Cardinality(Users(j)') = Cardinality(Users(j)) + 1
    BY <1>2, <2>1, ReqSets
  <2>. QED
    BY <1>1, <1>3, <2>2 DEF TypeOK
<1>4. CASE j # i
  <2>1. Users(j)' = Users(j)
    BY <1>1, <1>2, <1>4 DEF Users, TypeOK
  <2>. QED
    BY <1>1, <1>4, <2>1 DEF TypeOK
<1>. QED
  BY <1>3, <1>4

\* One entry less, on Llumlet i, which is counted down (Discount).
LEMMA CountDown ==
  ASSUME CountInv, TypeOK, NEW r \in Req, NEW i \in Inst \cup {NoInst},
         r \in Users(i), Discount(i), own' = own,
         \A j \in own : Users(j)' = IF j = i THEN Users(j) \ {r} ELSE Users(j)
  PROVE  CountInv'
<1>. SUFFICES ASSUME NEW j \in own PROVE count'[j] = Cardinality(Users(j)')
  BY DEF CountInv, Users
<1>1. count[j] = Cardinality(Users(j)) /\ j \in Inst /\ count[j] \in Nat
  BY RoutingAssumption DEF CountInv, Users, TypeOK
<1>2. Users(j) \in SUBSET Req
  BY DEF Users
<1>3. CASE j = i
  <2>1. Users(j)' = Users(j) \ {r} /\ r \in Users(j)
    BY <1>3
  <2>2. Cardinality(Users(j)') = Cardinality(Users(j)) - 1 /\ Cardinality(Users(j)) > 0
    BY <1>2, <2>1, ReqSets
  <2>. QED
    BY <1>1, <1>3, <2>2 DEF TypeOK, Discount
<1>4. CASE j # i
  <2>1. Users(j)' = Users(j)
    BY <1>4
  <2>. QED
    BY <1>1, <1>4, <2>1 DEF TypeOK, Discount
<1>. QED
  BY <1>3, <1>4

\* Manager.generate plans one or two registered Llumlets.
LEMMA PlansShort ==
  ASSUME TypeOK, NEW p \in Plans
  PROVE  p \in Seq(Inst) /\ Len(p) \in 1..2
<1>1. CASE \E a \in Inst, b \in Inst : p = <<a, b>>
  BY <1>1
<1>2. CASE \E a \in Inst : p = <<a>>
  BY <1>2
<1>3. (\E a \in Inst, b \in Inst : p = <<a, b>>) \/ (\E a \in Inst : p = <<a>>)
  BY DEF TypeOK, Plans
<1>. QED
  BY <1>1, <1>2, <1>3

\* Every request starts without a call, an entry or a counter
\* (LlumnixClientVLLM.__init__, Manager.__init__).
LEMMA InitInv == Init => IInv
<1>. SUFFICES ASSUME Init PROVE IInv
  OBVIOUS
<1>1. TypeOK
  <2>1. /\ alive \subseteq Inst /\ known \subseteq Inst /\ own \subseteq Own
        /\ active \in [Inst -> [Req -> {"no", "mute", "loud"}]]
        /\ aborts \subseteq Inst \X Req \X Kinds /\ cut \subseteq Req
    BY DEF Init
  <2>2. /\ call \in [Req -> {"idle", "mgr", "error", "inst", "retry", "done"}]
        /\ stream \in [Req -> {"none", "open", "finished"}]
        /\ count \in [Inst -> Nat] /\ fallback \in [Req -> Inst \cup {NoInst}]
        /\ target \in [Req -> Inst \cup {NoInst}]
        /\ closing \in [Req -> Inst \cup {NoInst}]
        /\ leaving \in [Req -> {"no", "call", "raised", "error", "done"}]
        /\ gen \in [Req -> {"none", "wait", "first", "second", "book", "cleanup"}]
    BY DEF Init
  <2>3. \A r \in Req : gen[r] = "none"
    BY DEF Init
  <2>4. /\ waiting \subseteq Req /\ routes \in [Req -> SUBSET Inst]
        /\ asked \subseteq Inst /\ snap \subseteq Inst \X Req
        /\ {deaths, crashes} \subseteq Nat
    BY DEF Init
  <2>5. {mgrUp, mgrAvail, recon} \subseteq BOOLEAN
    BY Zenon DEF Init
  <2>. QED
    BY <2>1, <2>2, <2>3, <2>4, <2>5 DEF TypeOK
<1>2. PlanInv /\ StageInv /\ CancelInv /\ CalmInv /\ EntryInv /\ ThereInv
  BY RoutingAssumption
  DEF Init, PlanInv, StageInv, CancelInv, CalmInv, EntryInv, ThereInv
<1>3. CountInv
  <2>1. \A i \in own : Users(i) = {}
    BY RoutingAssumption DEF Init, Users
  <2>2. Cardinality({}) = 0
    BY FS_EmptySet
  <2>3. \A i \in own : count[i] = 0
    BY RoutingAssumption DEF Init
  <2>. QED
    BY <2>1, <2>2, <2>3 DEF CountInv
<1>. QED
  BY <1>1, <1>2, <1>3 DEF IInv

-------------------------------------------------------------------------------
(* The steps                                                                   *)

\* A request that is generated, or generated again, is counted on no Llumlet of
\* the server and, before the first failure of the Manager, runs nowhere.
LEMMA GenerateStep ==
  ASSUME IInv, NEW r \in Req, Generate(r)
  PROVE  IInv'
<1>1. TypeOK'
  <2>1. /\ call' \in [Req -> {"idle", "mgr", "error", "inst", "retry", "done"}]
        /\ stream' \in [Req -> {"none", "open", "finished"}]
        /\ gen' \in [Req -> {"none", "wait", "first", "second", "book", "cleanup"}]
        /\ waiting' \subseteq Req
    BY SMTT(30) DEF IInv, TypeOK, Generate, Enter
  <2>2. \A s \in Req : gen'[s] \in {"none", "wait"} \/ gen'[s] = gen[s]
    BY DEF IInv, TypeOK, Generate, Enter
  <2>3. UNCHANGED <<llumlets, mgrAvail, own, count, fallback, target, leaving, closing, mgrUp, known,
                    plan, routes, recon, asked, snap, cut, deaths, crashes>>
    BY DEF Generate
  <2>. QED
    BY <2>1, <2>2, <2>3 DEF IInv, TypeOK, llumlets
<1>2. PlanInv'
  BY DEF IInv, TypeOK, PlanInv, Generate, Enter
<1>3. StageInv'
  BY RoutingAssumption DEF IInv, TypeOK, StageInv, Generate, Enter
<1>4. CancelInv'
  <2>1. SUFFICES ASSUME PD, NEW s \in cancelled'
                 PROVE  s \notin waiting' /\ gen'[s] \in {"none", "wait"}
    BY DEF CancelInv
  <2>2. s \in cancelled /\ s # r /\ s \in Req
    BY DEF IInv, PlanInv, Generate
  <2>3. s \notin waiting /\ gen[s] \in {"none", "wait"}
    BY <2>1, <2>2 DEF IInv, CancelInv
  <2>. QED
    BY <2>2, <2>3 DEF IInv, TypeOK, Generate, Enter
<1>5. CalmInv'
  BY DEF IInv, TypeOK, CalmInv, Generate, Enter, llumlets
<1>6. EntryInv'
  BY DEF IInv, TypeOK, EntryInv, Generate
<1>7. CountInv'
  BY CountKept DEF IInv, Generate
<1>8. ThereInv'
  <2>1. UNCHANGED <<alive, active, own, target, fallback, cut>>
    BY DEF Generate, llumlets
  <2>2. \A s \in Req : s # r => call'[s] = call[s] /\ stream'[s] = stream[s]
    BY DEF IInv, TypeOK, Generate
  <2>3. stream'[r] = "open" /\ fallback[r] \notin own
    BY DEF IInv, TypeOK, EntryInv, Generate
  <2>. QED
    BY <2>1, <2>2, <2>3 DEF IInv, ThereInv
<1>. QED
  BY <1>1, <1>2, <1>3, <1>4, <1>5, <1>6, <1>7, <1>8 DEF IInv

\* The first failure of the Manager gives the request up.
LEMMA FirstErrorStep ==
  ASSUME IInv, NEW r \in Req, FirstError(r)
  PROVE  IInv'
<1>1. TypeOK'
  BY DEF IInv, TypeOK, FirstError, llumlets, mgr, hist
<1>2. PlanInv'
  BY DEF IInv, PlanInv, FirstError, mgr, hist
<1>3. StageInv'
  BY DEF IInv, StageInv, FirstError, mgr
<1>4. CancelInv'
  BY DEF IInv, CancelInv, FirstError, mgr, hist
<1>5. CalmInv'
  BY DEF IInv, CalmInv, FirstError, hist
<1>6. EntryInv'
  BY DEF IInv, EntryInv, FirstError
<1>7. CountInv'
  BY CountKept DEF IInv, FirstError
<1>8. ThereInv'
  BY ThereKept DEF IInv, FirstError, llumlets, hist, mgr
<1>. QED
  BY <1>1, <1>2, <1>3, <1>4, <1>5, <1>6, <1>7, <1>8 DEF IInv

\* The fallback adds one entry and one to the counter of its Llumlet.
LEMMA FallBackStep ==
  ASSUME IInv, NEW r \in Req, FallBack(r)
  PROVE  IInv'
<1>1. TypeOK'
  <2>1. UNCHANGED <<llumlets, stream, mgrAvail, own, leaving, closing, mgr, hist>>
    BY DEF FallBack
  <2>2. call' \in [Req -> {"idle", "mgr", "error", "inst", "retry", "done"}]
    BY DEF IInv, TypeOK, FallBack
  <2>3. count' \in [Inst -> Nat]
    <3>1. count' = count \/ \E i \in own : count' = [count EXCEPT ![i] = @ + 1]
      BY DEF FallBack
    <3>2. count \in [Inst -> Nat] /\ own \subseteq Inst
      BY RoutingAssumption DEF IInv, TypeOK
    <3>. QED
      BY <3>1, <3>2
  <2>4. /\ fallback' \in [Req -> Inst \cup {NoInst}]
        /\ target' \in [Req -> Inst \cup {NoInst}]
    <3>1. \/ UNCHANGED <<fallback, target>>
          \/ \E i \in Inst : /\ fallback' = [fallback EXCEPT ![r] = i]
                             /\ target' = [target EXCEPT ![r] = i]
      BY RoutingAssumption DEF IInv, TypeOK, FallBack
    <3>2. fallback \in [Req -> Inst \cup {NoInst}] /\ target \in [Req -> Inst \cup {NoInst}]
      BY DEF IInv, TypeOK
    <3>. QED
      BY <3>1, <3>2
  <2>. QED
    BY <2>1, <2>2, <2>3, <2>4 DEF IInv, TypeOK, llumlets, mgr, hist
<1>2. PlanInv'
  BY DEF IInv, PlanInv, FallBack, mgr, hist
<1>3. StageInv'
  BY DEF IInv, TypeOK, StageInv, FallBack, mgr
<1>4. CancelInv'
  BY DEF IInv, CancelInv, FallBack, mgr, hist
<1>5. CalmInv'
  BY DEF IInv, CalmInv, FallBack, hist
<1>6. EntryInv'
  BY RoutingAssumption DEF IInv, TypeOK, EntryInv, FallBack
<1>7. CountInv'
  <2>1. fallback[r] \notin own /\ closing[r] \notin own
    BY DEF IInv, EntryInv, FallBack
  <2>2. own' = own /\ closing' = closing
    BY DEF FallBack
  <2>3. CASE UNCHANGED <<count, fallback>>
    BY <2>2, <2>3, CountKept DEF IInv
  <2>4. CASE \E i \in own : /\ count' = [count EXCEPT ![i] = @ + 1]
                            /\ fallback' = [fallback EXCEPT ![r] = i]
    BY <2>1, <2>2, <2>4, CountUp DEF IInv
  <2>. QED
    BY <2>3, <2>4 DEF FallBack
<1>8. ThereInv'
  <2>1. UNCHANGED <<alive, active, stream, own, cut>>
    BY DEF FallBack, llumlets, hist
  <2>2. \A s \in Req : s # r => UNCHANGED <<call[s], fallback[s], target[s]>>
    BY DEF IInv, TypeOK, FallBack
  <2>3. call[r] # "idle" /\ call'[r] # "done" /\ fallback[r] \notin own
    BY DEF IInv, TypeOK, EntryInv, FallBack
  <2>4. fallback'[r] = fallback[r] \/ fallback'[r] = target'[r]
    BY DEF IInv, TypeOK, FallBack
  <2>. QED
    BY <2>1, <2>2, <2>3, <2>4 DEF IInv, ThereInv
<1>. QED
  BY <1>1, <1>2, <1>3, <1>4, <1>5, <1>6, <1>7, <1>8 DEF IInv

\* A fallback Llumlet that is dead is forgotten with its counter, so the entries
\* that still name it no longer count.
LEMMA FallbackAnswersStep ==
  ASSUME IInv, NEW r \in Req, FallbackAnswers(r)
  PROVE  IInv'
<1>1. TypeOK'
  <2>1. UNCHANGED <<alive, aborts, stream, mgrAvail, fallback, leaving, closing, mgr, cancelled, deaths,
                    crashes>>
    BY DEF FallbackAnswers
  <2>2. target[r] \in Inst
    BY DEF IInv, EntryInv, FallbackAnswers
  <2>3. call' \in [Req -> {"idle", "mgr", "error", "inst", "retry", "done"}]
    <3>1. PICK v \in {"retry", "done"} : call' = [call EXCEPT ![r] = v]
      BY DEF FallbackAnswers
    <3>. QED
      BY <3>1 DEF IInv, TypeOK
  <2>4. count' \in [Inst -> Nat] /\ own' \subseteq Own /\ cut' \subseteq Req
    BY DEF IInv, TypeOK, FallbackAnswers
  <2>5. active' \in [Inst -> [Req -> {"no", "mute", "loud"}]]
    <3>1. active' = active \/ active' = [active EXCEPT ![target[r]][r] = "loud"]
      BY DEF FallbackAnswers
    <3>2. active \in [Inst -> [Req -> {"no", "mute", "loud"}]]
      BY DEF IInv, TypeOK
    <3>3. CASE active' = active
      BY <3>2, <3>3
    <3>4. CASE active' = [active EXCEPT ![target[r]][r] = "loud"]
      BY <2>2, <3>2, <3>4
    <3>. QED
      BY <3>1, <3>3, <3>4
  <2>6. target' \in [Req -> Inst \cup {NoInst}]
    BY DEF IInv, TypeOK, FallbackAnswers
  <2>. QED
    BY <2>1, <2>3, <2>4, <2>5, <2>6 DEF IInv, TypeOK, mgr
<1>2. PlanInv'
  BY DEF IInv, PlanInv, FallbackAnswers, mgr, hist
<1>3. StageInv'
  BY DEF IInv, TypeOK, StageInv, FallbackAnswers, mgr
<1>4. CancelInv'
  BY DEF IInv, CancelInv, FallbackAnswers, mgr, hist
<1>5. CalmInv'
  BY DEF IInv, CalmInv, FallbackAnswers, hist
<1>6. EntryInv'
  BY RoutingAssumption DEF IInv, TypeOK, EntryInv, FallbackAnswers
<1>7. CountInv'
  <2>1. target[r] \in Inst
    BY DEF IInv, EntryInv, FallbackAnswers
  <2>2. fallback' = fallback /\ closing' = closing
    BY DEF FallbackAnswers
  <2>3. CASE target[r] \in alive
    BY <2>2, <2>3, CountKept DEF IInv, FallbackAnswers
  <2>4. CASE target[r] \notin alive
    BY <2>1, <2>2, <2>4, CountForgotten DEF IInv, FallbackAnswers
  <2>. QED
    BY <2>3, <2>4
<1>8. ThereInv'
  <2>1. UNCHANGED <<alive, stream, fallback>> /\ target[r] \in Inst
    BY DEF IInv, EntryInv, FallbackAnswers
  <2>2. /\ \A s \in Req : s # r => UNCHANGED <<call[s], target[s]>>
        /\ \A s \in Req, j \in Inst : s # r => active'[j][s] = active[j][s]
        /\ \A s \in Req : s # r /\ s \in cut => s \in cut'
    BY <2>1 DEF IInv, TypeOK, FallbackAnswers
  <2>3. own' \subseteq own /\ own' \subseteq Inst
    BY RoutingAssumption DEF IInv, TypeOK, FallbackAnswers
  <2>4. call[r] = "inst" /\ fallback[r] \in {target[r], NoInst} /\ NoInst \notin Inst
    BY RoutingAssumption DEF IInv, EntryInv, FallbackAnswers
  <2>5. CASE target[r] \in alive
    <3>1. active'[target[r]][r] = "loud"
      BY <2>1, <2>5 DEF IInv, TypeOK, FallbackAnswers
    <3>. QED
      BY <2>1, <2>2, <2>3, <2>4, <3>1 DEF IInv, ThereInv
  <2>6. CASE target[r] \notin alive
    <3>1. target[r] \notin own'
      BY <2>6 DEF FallbackAnswers
    <3>. QED
      BY <2>1, <2>2, <2>3, <2>4, <3>1 DEF IInv, ThereInv
  <2>. QED
    BY <2>5, <2>6
<1>. QED
  BY <1>1, <1>2, <1>3, <1>4, <1>5, <1>6, <1>7, <1>8 DEF IInv

\* An abort that meets the request in the loop of generate cancels it there; no
\* half of it was submitted before.
LEMMA AbortByManagerStep ==
  ASSUME IInv, NEW r \in Req, AbortByManager(r)
  PROVE  IInv'
<1>1. TypeOK'
  <2>1. aborts' \subseteq Inst \X Req \X Kinds
    BY DEF IInv, TypeOK, AbortByManager, CallManager, Kinds
  <2>2. leaving' \in [Req -> {"no", "call", "raised", "error", "done"}]
    BY DEF IInv, TypeOK, AbortByManager
  <2>. QED
    BY <2>1, <2>2 DEF IInv, TypeOK, AbortByManager, CallManager
<1>2. PlanInv'
  BY DEF IInv, PlanInv, AbortByManager, CallManager
<1>3. StageInv'
  BY DEF IInv, StageInv, AbortByManager, CallManager
<1>4. CancelInv'
  BY DEF IInv, StageInv, CancelInv, AbortByManager, CallManager
<1>5. CalmInv'
  BY DEF IInv, StageInv, CalmInv, AbortByManager, CallManager
<1>6. EntryInv'
  BY DEF IInv, EntryInv, AbortByManager, CallManager
<1>7. CountInv'
  BY CountKept DEF IInv, AbortByManager, CallManager
<1>8. ThereInv'
  BY ThereKept DEF IInv, AbortByManager
<1>. QED
  BY <1>1, <1>2, <1>3, <1>4, <1>5, <1>6, <1>7, <1>8 DEF IInv

\* The cancellation of a stream does the same.
LEMMA CancelStreamStep ==
  ASSUME IInv, NEW r \in Req, CancelStream(r)
  PROVE  IInv'
<1>1. TypeOK'
  <2>1. aborts' \subseteq Inst \X Req \X Kinds
    BY DEF IInv, TypeOK, CancelStream, CallManager, Kinds
  <2>2. leaving' \in [Req -> {"no", "call", "raised", "error", "done"}]
    BY DEF IInv, TypeOK, CancelStream
  <2>. QED
    BY <2>1, <2>2 DEF IInv, TypeOK, CancelStream, CallManager
<1>2. PlanInv'
  BY DEF IInv, PlanInv, CancelStream, CallManager
<1>3. StageInv'
  BY DEF IInv, StageInv, CancelStream, CallManager
<1>4. CancelInv'
  BY DEF IInv, StageInv, CancelInv, CancelStream, CallManager
<1>5. CalmInv'
  BY DEF IInv, StageInv, CalmInv, CancelStream, CallManager
<1>6. EntryInv'
  BY DEF IInv, EntryInv, CancelStream, CallManager
<1>7. CountInv'
  BY CountKept DEF IInv, CancelStream, CallManager
<1>8. ThereInv'
  BY ThereKept DEF IInv, CancelStream
<1>. QED
  BY <1>1, <1>2, <1>3, <1>4, <1>5, <1>6, <1>7, <1>8 DEF IInv

\* The answer of the Manager leaves the entry and the counter as they are.
LEMMA AbortReturnsStep ==
  ASSUME IInv, NEW r \in Req, AbortReturns(r)
  PROVE  IInv'
<1>1. TypeOK'
  BY DEF IInv, TypeOK, AbortReturns, llumlets, mgr, hist
<1>2. PlanInv'
  BY DEF IInv, PlanInv, AbortReturns, mgr, hist
<1>3. StageInv'
  BY DEF IInv, StageInv, AbortReturns, mgr
<1>4. CancelInv'
  BY DEF IInv, CancelInv, AbortReturns, mgr, hist
<1>5. CalmInv'
  BY DEF IInv, CalmInv, AbortReturns, llumlets, mgr, hist
<1>6. EntryInv'
  BY DEF IInv, EntryInv, AbortReturns
<1>7. CountInv'
  BY CountKept DEF IInv, AbortReturns
<1>8. ThereInv'
  BY ThereKept DEF IInv, AbortReturns, llumlets, hist
<1>. QED
  BY <1>1, <1>2, <1>3, <1>4, <1>5, <1>6, <1>7, <1>8 DEF IInv

\* An abort without the Manager pops the entry, and the request stays counted
\* until its Llumlet has answered.
LEMMA AbortByServerStep ==
  ASSUME IInv, NEW r \in Req, AbortByServer(r)
  PROVE  IInv'
<1>1. TypeOK'
  <2>1. UNCHANGED <<llumlets, call, stream, mgrAvail, own, count, target, mgr, hist>>
    BY DEF AbortByServer
  <2>2. /\ fallback' \in [Req -> Inst \cup {NoInst}]
        /\ closing' \in [Req -> Inst \cup {NoInst}]
        /\ leaving' \in [Req -> {"no", "call", "raised", "error", "done"}]
    BY DEF IInv, TypeOK, AbortByServer
  <2>. QED
    BY <2>1, <2>2 DEF IInv, TypeOK, llumlets, mgr, hist
<1>2. PlanInv'
  BY DEF IInv, PlanInv, AbortByServer, mgr, hist
<1>3. StageInv'
  BY DEF IInv, StageInv, AbortByServer, mgr
<1>4. CancelInv'
  BY DEF IInv, CancelInv, AbortByServer, mgr, hist
<1>5. CalmInv'
  BY DEF IInv, CalmInv, AbortByServer, llumlets, mgr, hist
<1>6. EntryInv'
  BY RoutingAssumption DEF IInv, TypeOK, EntryInv, AbortByServer
<1>7. CountInv'
  <2>1. (closing[r] \in own => fallback[r] = NoInst) /\ NoInst \notin own
    BY RoutingAssumption DEF IInv, TypeOK, EntryInv
  <2>2. \A i \in own : Users(i)' = Users(i)
    BY <2>1 DEF IInv, TypeOK, AbortByServer, Users
  <2>3. own' = own /\ count' = count
    BY DEF AbortByServer
  <2>. QED
    BY <2>2, <2>3 DEF IInv, CountInv, Users
<1>8. ThereInv'
  <2>1. UNCHANGED <<alive, active, call, stream, own, target, cut>>
    BY DEF AbortByServer, llumlets, hist
  <2>2. \A s \in Req : fallback'[s] = IF s = r THEN NoInst ELSE fallback[s]
    BY DEF IInv, TypeOK, AbortByServer
  <2>3. NoInst \notin own
    BY RoutingAssumption DEF IInv, TypeOK
  <2>. QED
    BY <2>1, <2>2, <2>3 DEF IInv, ThereInv
<1>. QED
  BY <1>1, <1>2, <1>3, <1>4, <1>5, <1>6, <1>7, <1>8 DEF IInv

\* The answer to the server's own abort counts the request out.
LEMMA ServerAbortAnsweredStep ==
  ASSUME IInv, NEW r \in Req, ServerAbortAnswered(r)
  PROVE  IInv'
<1>0. PICK i \in Inst : i = closing[r]
  BY DEF IInv, TypeOK, ServerAbortAnswered
<1>. /\ active' = [active EXCEPT ![i][r] = "no"]
     /\ closing' = [closing EXCEPT ![r] = NoInst]
     /\ Discount(i)
     /\ UNCHANGED <<alive, aborts, call, stream, mgrAvail, own, fallback, target, leaving,
                    mgr, hist>>
  BY <1>0 DEF ServerAbortAnswered
<1>1. TypeOK'
  <2>1. active' \in [Inst -> [Req -> {"no", "mute", "loud"}]]
    BY DEF IInv, TypeOK
  <2>2. closing' \in [Req -> Inst \cup {NoInst}]
    BY DEF IInv, TypeOK
  <2>3. count' \in [Inst -> Nat]
    BY DEF IInv, TypeOK, Discount
  <2>. QED
    BY <2>1, <2>2, <2>3 DEF IInv, TypeOK, mgr, hist
<1>2. PlanInv'
  BY DEF IInv, PlanInv, mgr, hist
<1>3. StageInv'
  BY DEF IInv, StageInv, mgr
<1>4. CancelInv'
  BY DEF IInv, CancelInv, mgr, hist
<1>5. CalmInv'
  BY DEF IInv, TypeOK, CalmInv, mgr, hist
<1>6. EntryInv'
  BY RoutingAssumption DEF IInv, TypeOK, EntryInv
<1>7. CountInv'
  <2>1. CASE i \in own
    <3>1. fallback[r] = NoInst /\ NoInst \notin own /\ r \in Users(i)
      BY <1>0, <2>1, RoutingAssumption DEF IInv, TypeOK, EntryInv, Users
    <3>2. \A h \in own : Users(h)' = IF h = i THEN Users(h) \ {r} ELSE Users(h)
      BY <1>0, <3>1 DEF IInv, TypeOK, Users
    <3>. QED
      BY <3>1, <3>2, CountDown DEF IInv
  <2>2. CASE i \notin own
    <3>1. NoInst \notin own /\ count' = count
      BY <2>2, RoutingAssumption DEF IInv, TypeOK, Discount
    <3>2. \A h \in own : Users(h)' = Users(h)
      BY <1>0, <2>2, <3>1 DEF IInv, TypeOK, Users
    <3>. QED
      BY <3>1, <3>2 DEF IInv, CountInv
  <2>. QED
    BY <2>1, <2>2
<1>8. ThereInv'
  <2>1. i \in own => fallback[r] = NoInst
    BY <1>0 DEF IInv, EntryInv
  <2>2. NoInst \notin own /\ own \subseteq Inst
    BY RoutingAssumption DEF IInv, TypeOK
  <2>3. \A s \in Req, j \in Inst :
          active'[j][s] = IF j = i /\ s = r THEN "no" ELSE active[j][s]
    BY DEF IInv, TypeOK
  <2>. QED
    BY <2>1, <2>2, <2>3 DEF IInv, ThereInv, hist
<1>. QED
  BY <1>1, <1>2, <1>3, <1>4, <1>5, <1>6, <1>7, <1>8 DEF IInv

\* Only a request that still waits is dispatched, so it was not cancelled.
LEMMA DispatchStep ==
  ASSUME IInv, NEW r \in Req, Dispatch(r)
  PROVE  IInv'
<1>1. TypeOK'
  <2>1. PICK p \in Plans : plan' = [plan EXCEPT ![r] = p]
    BY DEF Dispatch
  <2>2. p \in Seq(Inst) /\ Len(p) \in 1..2
    BY <2>1, PlansShort DEF IInv
  <2>3. Range(p) \subseteq Inst
    BY <2>2 DEF Range
  <2>4. UNCHANGED <<llumlets, client, mgrUp, known, routes, recon, asked, snap, hist>>
    BY DEF Dispatch
  <2>5. /\ gen' \in [Req -> {"none", "wait", "first", "second", "book", "cleanup"}]
        /\ waiting' \subseteq Req
        /\ \A s \in Req : s # r => gen'[s] = gen[s]
    BY DEF IInv, TypeOK, Dispatch
  <2>6. plan'[r] = p /\ \A s \in Req : s # r => plan'[s] = plan[s]
    BY <2>1 DEF IInv, PlanInv
  <2>. QED
    BY <2>2, <2>3, <2>4, <2>5, <2>6 DEF IInv, TypeOK, llumlets, client, hist
<1>2. PlanInv'
  <2>1. PICK p \in Plans : plan' = [plan EXCEPT ![r] = p]
    BY DEF Dispatch
  <2>2. p \in Seq(Inst) /\ Len(p) \in 1..2
    BY <2>1, PlansShort DEF IInv
  <2>. QED
    BY <2>1, <2>2 DEF IInv, TypeOK, PlanInv, Dispatch, hist
<1>3. StageInv'
  BY DEF IInv, StageInv, Dispatch, client
<1>4. CancelInv'
  BY DEF IInv, CancelInv, Dispatch, hist
<1>5. CalmInv'
  BY DEF IInv, CalmInv, Dispatch, llumlets, client, hist
<1>6. EntryInv'
  BY DEF IInv, EntryInv, Dispatch, client
<1>7. CountInv'
  BY CountKept DEF IInv, Dispatch, client
<1>8. ThereInv'
  BY ThereKept DEF IInv, Dispatch, client, llumlets, hist
<1>. QED
  BY <1>1, <1>2, <1>3, <1>4, <1>5, <1>6, <1>7, <1>8 DEF IInv

\* A cancelled request leaves the loop of generate without a plan.
LEMMA CancelSeenStep ==
  ASSUME IInv, NEW r \in Req, CancelSeen(r)
  PROVE  IInv'
<1>1. TypeOK'
  BY DEF IInv, TypeOK, CancelSeen, Returns, llumlets, hist
<1>2. PlanInv'
  BY DEF IInv, PlanInv, CancelSeen, Returns, hist
<1>3. StageInv'
  BY DEF IInv, TypeOK, StageInv, CancelSeen, Returns
<1>4. CancelInv'
  BY DEF IInv, CancelInv, CancelSeen, Returns, hist
<1>5. CalmInv'
  BY DEF IInv, CalmInv, CancelSeen, Returns, llumlets, hist
<1>6. EntryInv'
  BY DEF IInv, EntryInv, CancelSeen, Returns
<1>7. CountInv'
  BY CountKept DEF IInv, CancelSeen
<1>8. ThereInv'
  <2>1. call[r] = "mgr"
    BY DEF IInv, StageInv, CancelSeen
  <2>. QED
    BY <2>1, ThereKept DEF IInv, TypeOK, CancelSeen, Returns, llumlets, hist
<1>. QED
  BY <1>1, <1>2, <1>3, <1>4, <1>5, <1>6, <1>7, <1>8 DEF IInv

\* A Llumlet accepts a half of a request that was dispatched, hence not cancelled.
LEMMA AcceptStep ==
  ASSUME IInv, NEW r \in Req, Accept(r)
  PROVE  IInv'
<1>1. TypeOK'
  BY DEF IInv, TypeOK, Accept, client, hist
<1>2. PlanInv'
  BY DEF IInv, PlanInv, Accept, hist
<1>3. StageInv'
  BY DEF IInv, StageInv, Accept, client
<1>4. CancelInv'
  BY DEF IInv, CancelInv, Accept, hist
<1>5. CalmInv'
  <2>1. UNCHANGED <<call, mgrUp, cancelled, crashes>>
    BY DEF Accept, client, hist
  <2>2. \A s \in Req : s # r => gen'[s] = gen[s] /\ \A i \in Inst : active'[i][s] = active[i][s]
    BY DEF IInv, TypeOK, PlanInv, Accept
  <2>3. call[r] = "mgr" /\ gen'[r] # "wait" /\ ~(PD /\ r \in cancelled)
    BY DEF IInv, TypeOK, StageInv, CancelInv, Accept
  <2>. QED
    BY <2>1, <2>2, <2>3 DEF IInv, CalmInv
<1>6. EntryInv'
  BY DEF IInv, EntryInv, Accept, client
<1>7. CountInv'
  BY CountKept DEF IInv, Accept, client
<1>8. ThereInv'
  <2>1. UNCHANGED <<alive, call, stream, own, target, fallback, cut>>
    BY DEF Accept, client, hist
  <2>2. \A s \in Req, j \in Inst : s # r => active'[j][s] = active[j][s]
    BY DEF IInv, TypeOK, PlanInv, Accept
  <2>3. fallback[r] \notin own /\ own \subseteq Inst
    BY RoutingAssumption DEF IInv, TypeOK, StageInv, EntryInv, Accept
  <2>. QED
    BY <2>1, <2>2, <2>3 DEF IInv, ThereInv
<1>. QED
  BY <1>1, <1>2, <1>3, <1>4, <1>5, <1>6, <1>7, <1>8 DEF IInv

\* A failed submission leaves the entries and the counters alone.
LEMMA SubmitFailsStep ==
  ASSUME IInv, NEW r \in Req, SubmitFails(r)
  PROVE  IInv'
<1>1. TypeOK'
  BY DEF IInv, TypeOK, SubmitFails, CleanUp, Kinds, client, hist
<1>2. PlanInv'
  BY DEF IInv, PlanInv, SubmitFails, hist
<1>3. StageInv'
  BY DEF IInv, StageInv, SubmitFails, client
<1>4. CancelInv'
  BY DEF IInv, CancelInv, SubmitFails, hist
<1>5. CalmInv'
  BY DEF IInv, CalmInv, SubmitFails, client, hist
<1>6. EntryInv'
  BY DEF IInv, EntryInv, SubmitFails, client
<1>7. CountInv'
  BY CountKept DEF IInv, SubmitFails, client
<1>8. ThereInv'
  BY ThereKept DEF IInv, SubmitFails, client, hist
<1>. QED
  BY <1>1, <1>2, <1>3, <1>4, <1>5, <1>6, <1>7, <1>8 DEF IInv

\* generate gives up and returns.
LEMMA GiveUpStep ==
  ASSUME IInv, NEW r \in Req, GiveUp(r)
  PROVE  IInv'
<1>1. TypeOK'
  BY DEF IInv, TypeOK, GiveUp, Returns, scale_down
<1>2. PlanInv'
  BY DEF IInv, TypeOK, PlanInv, GiveUp, Returns
<1>3. StageInv'
  BY DEF IInv, TypeOK, StageInv, GiveUp, Returns
<1>4. CancelInv'
  BY DEF IInv, CancelInv, GiveUp, Returns
<1>5. CalmInv'
  BY DEF IInv, CalmInv, GiveUp, Returns
<1>6. EntryInv'
  BY DEF IInv, EntryInv, GiveUp, Returns
<1>7. CountInv'
  BY CountKept DEF IInv, GiveUp
<1>8. ThereInv'
  <2>1. call[r] = "mgr"
    BY DEF IInv, StageInv, GiveUp
  <2>. QED
    BY <2>1, ThereKept DEF IInv, TypeOK, GiveUp, Returns, scale_down
<1>. QED
  BY <1>1, <1>2, <1>3, <1>4, <1>5, <1>6, <1>7, <1>8 DEF IInv

\* generate books the Llumlets and returns.
LEMMA BookStep ==
  ASSUME IInv, NEW r \in Req, Book(r)
  PROVE  IInv'
<1>1. TypeOK'
  BY DEF IInv, TypeOK, Book, Returns, llumlets, hist
<1>2. PlanInv'
  BY DEF IInv, TypeOK, PlanInv, Book, Returns, hist
<1>3. StageInv'
  BY DEF IInv, TypeOK, StageInv, Book, Returns
<1>4. CancelInv'
  BY DEF IInv, CancelInv, Book, Returns, hist
<1>5. CalmInv'
  BY DEF IInv, CalmInv, Book, Returns, llumlets, hist
<1>6. EntryInv'
  BY DEF IInv, EntryInv, Book, Returns
<1>7. CountInv'
  BY CountKept DEF IInv, Book
<1>8. ThereInv'
  <2>1. call[r] = "mgr"
    BY DEF IInv, StageInv, Book
  <2>. QED
    BY <2>1, ThereKept DEF IInv, TypeOK, Book, Returns, llumlets, hist
<1>. QED
  BY <1>1, <1>2, <1>3, <1>4, <1>5, <1>6, <1>7, <1>8 DEF IInv

\* The last output of a request removes its entry and counts it out.
LEMMA FinishStep ==
  ASSUME IInv, NEW i \in Inst, NEW r \in Req, Finish(i, r)
  PROVE  IInv'
<1>1. TypeOK'
  <2>1. UNCHANGED <<alive, aborts, call, mgrAvail, own, target, leaving, closing, mgr, hist>>
    BY DEF Finish
  <2>2. active' \in [Inst -> [Req -> {"no", "mute", "loud"}]]
    BY DEF IInv, TypeOK, Finish
  <2>3. stream' \in [Req -> {"none", "open", "finished"}]
    BY DEF IInv, TypeOK, Finish
  <2>4. fallback' \in [Req -> Inst \cup {NoInst}]
    BY DEF IInv, TypeOK, Finish, Settle
  <2>5. count' \in [Inst -> Nat]
    BY SMTT(30) DEF IInv, TypeOK, Finish, Settle, Discount
  <2>. QED
    BY <2>1, <2>2, <2>3, <2>4, <2>5 DEF IInv, TypeOK, mgr, hist
<1>2. PlanInv'
  BY DEF IInv, PlanInv, Finish, mgr, hist
<1>3. StageInv'
  BY DEF IInv, StageInv, Finish, mgr
<1>4. CancelInv'
  BY DEF IInv, CancelInv, Finish, mgr, hist
<1>5. CalmInv'
  BY DEF IInv, CalmInv, Finish, mgr, hist
<1>6. EntryInv'
  BY RoutingAssumption DEF IInv, TypeOK, EntryInv, Finish, Settle
<1>7. CountInv'
  <2>1. CASE UNCHANGED <<count, fallback>>
    BY <2>1, CountKept DEF IInv, Finish
  <2>2. CASE Settle(r)
    <3>1. PICK j \in Inst \cup {NoInst} : j = fallback[r]
      BY DEF IInv, TypeOK
    <3>2. r \in Users(j) /\ Discount(j) /\ own' = own /\ closing' = closing
      BY <2>2, <3>1 DEF Users, Settle, Finish
    <3>3. fallback' = [fallback EXCEPT ![r] = NoInst]
      BY <2>2 DEF Settle
    <3>4. \A h \in own : NoInst # h /\ (closing[r] # h \/ j = NoInst)
      BY <3>1, RoutingAssumption DEF IInv, TypeOK, EntryInv
    <3>5. \A h \in own : Users(h)' = IF h = j THEN Users(h) \ {r} ELSE Users(h)
      BY <3>1, <3>2, <3>3, <3>4 DEF IInv, TypeOK, Users
    <3>. QED
      BY <3>2, <3>5, CountDown DEF IInv
  <2>. QED
    BY <2>1, <2>2 DEF Finish
<1>8. ThereInv'
  <2>1. UNCHANGED <<alive, call, own, target, cut>>
    BY DEF Finish, hist
  <2>2. /\ \A s \in Req, j \in Inst :
            active'[j][s] = IF j = i /\ s = r THEN "no" ELSE active[j][s]
        /\ \A s \in Req : s # r => fallback'[s] = fallback[s] /\ stream'[s] = stream[s]
    BY DEF IInv, TypeOK, Finish, Settle
  <2>3. NoInst \notin own /\ own \subseteq Inst
    BY RoutingAssumption DEF IInv, TypeOK
  <2>4. CASE active[i][r] = "loud" /\ stream[r] = "open"
    <3>1. stream'[r] = "finished" /\ fallback'[r] = NoInst
      BY <2>4 DEF IInv, TypeOK, Finish, Settle
    <3>. QED
      BY <2>1, <2>2, <2>3, <3>1 DEF IInv, ThereInv
  <2>5. CASE ~(active[i][r] = "loud" /\ stream[r] = "open")
    <3>1. UNCHANGED <<stream, fallback>>
      BY <2>5 DEF Finish
    <3>2. fallback[r] = i /\ i \in own => call[r] \in {"inst", "done"}
      BY DEF IInv, TypeOK, EntryInv
    <3>3. ASSUME fallback[r] = i, i \in own, target[r] # i PROVE stream[r] = "finished"
      <4>1. call[r] = "done"
        BY <2>3, <3>2, <3>3 DEF IInv, EntryInv
      <4>2. active[i][r] = "loud"
        BY <3>3, <4>1 DEF IInv, TypeOK, ThereInv, Finish, Running
      <4>. QED
        BY <2>5, <4>1, <4>2 DEF IInv, TypeOK, ThereInv
    <3>. QED
      BY <2>1, <2>2, <2>3, <3>1, <3>3 DEF IInv, ThereInv
  <2>. QED
    BY <2>4, <2>5
<1>. QED
  BY <1>1, <1>2, <1>3, <1>4, <1>5, <1>6, <1>7, <1>8 DEF IInv

\* A Llumlet that ends a request for a Manager leaves the entry of the server,
\* and its counter.
LEMMA AbortAnsweredStep ==
  ASSUME IInv, NEW i \in Inst, NEW r \in Req, NEW k \in Kinds, AbortAnswered(i, r, k)
  PROVE  IInv'
<1>1. TypeOK'
  <2>1. UNCHANGED <<alive, client, mgrUp, gen, plan, waiting, recon, asked, snap,
                    cancelled, deaths, crashes>>
    BY DEF AbortAnswered
  <2>2. /\ active' \in [Inst -> [Req -> {"no", "mute", "loud"}]]
        /\ aborts' \subseteq Inst \X Req \X Kinds
    BY DEF IInv, TypeOK, AbortAnswered
  <2>3. routes' \in [Req -> SUBSET Inst] /\ known' \subseteq Inst /\ cut' \subseteq Req
    BY DEF IInv, TypeOK, AbortAnswered
  <2>. QED
    BY <2>1, <2>2, <2>3 DEF IInv, TypeOK, client
<1>2. PlanInv'
  BY DEF IInv, PlanInv, AbortAnswered
<1>3. StageInv'
  BY DEF IInv, StageInv, AbortAnswered, client
<1>4. CancelInv'
  BY DEF IInv, CancelInv, AbortAnswered
<1>5. CalmInv'
  BY DEF IInv, TypeOK, CalmInv, AbortAnswered, client
<1>6. EntryInv'
  BY DEF IInv, EntryInv, AbortAnswered, client
<1>7. CountInv'
  BY CountKept DEF IInv, AbortAnswered, client
<1>8. ThereInv'
  <2>1. UNCHANGED <<alive, call, stream, own, target, fallback>> /\ cut \subseteq cut'
    BY DEF AbortAnswered, client
  <2>2. \A s \in Req, j \in Inst :
          active'[j][s] = IF j = i /\ s = r THEN "no" ELSE active[j][s]
    BY DEF IInv, TypeOK, AbortAnswered
  <2>3. own \subseteq Inst /\ (i \in alive /\ fallback[r] = i => r \in cut')
    BY RoutingAssumption DEF IInv, TypeOK, AbortAnswered
  <2>. QED
    BY <2>1, <2>2, <2>3 DEF IInv, ThereInv
<1>. QED
  BY <1>1, <1>2, <1>3, <1>4, <1>5, <1>6, <1>7, <1>8 DEF IInv

\* The poll loop scales a dead Llumlet down.
LEMMA PollDeadStep ==
  ASSUME IInv, NEW i \in Inst, PollDead(i)
  PROVE  IInv'
<1>1. TypeOK'
  BY DEF IInv, TypeOK, PollDead, scale_down, client, hist
<1>2. PlanInv'
  BY DEF IInv, PlanInv, PollDead, hist
<1>3. StageInv'
  BY DEF IInv, StageInv, PollDead, client
<1>4. CancelInv'
  BY DEF IInv, CancelInv, PollDead, hist
<1>5. CalmInv'
  BY DEF IInv, CalmInv, PollDead, client, hist
<1>6. EntryInv'
  BY DEF IInv, EntryInv, PollDead, client
<1>7. CountInv'
  BY CountKept DEF IInv, PollDead, client
<1>8. ThereInv'
  BY ThereKept DEF IInv, PollDead, scale_down, client, hist
<1>. QED
  BY <1>1, <1>2, <1>3, <1>4, <1>5, <1>6, <1>7, <1>8 DEF IInv

\* An answer to the reconciliation changes the snapshot or the membership.
LEMMA ReconcileAnswerStep ==
  ASSUME IInv, NEW i \in Inst, ReconcileAnswer(i)
  PROVE  IInv'
<1>1. TypeOK'
  BY DEF IInv, TypeOK, ReconcileAnswer, scale_down, client, hist
<1>2. PlanInv'
  BY DEF IInv, PlanInv, ReconcileAnswer, hist
<1>3. StageInv'
  BY DEF IInv, StageInv, ReconcileAnswer, client
<1>4. CancelInv'
  BY DEF IInv, CancelInv, ReconcileAnswer, hist
<1>5. CalmInv'
  BY DEF IInv, CalmInv, ReconcileAnswer, client, hist
<1>6. EntryInv'
  BY DEF IInv, EntryInv, ReconcileAnswer, client
<1>7. CountInv'
  BY CountKept DEF IInv, ReconcileAnswer, client
<1>8. ThereInv'
  BY ThereKept DEF IInv, ReconcileAnswer, scale_down, client, hist
<1>. QED
  BY <1>1, <1>2, <1>3, <1>4, <1>5, <1>6, <1>7, <1>8 DEF IInv

\* The death of a Llumlet is not yet known to anyone.
LEMMA InstanceDiesStep ==
  ASSUME IInv, NEW i \in Inst, InstanceDies(i)
  PROVE  IInv'
<1>1. TypeOK'
  BY DEF IInv, TypeOK, InstanceDies, client, mgr
<1>2. PlanInv'
  BY DEF IInv, PlanInv, InstanceDies, mgr
<1>3. StageInv'
  BY DEF IInv, StageInv, InstanceDies, client, mgr
<1>4. CancelInv'
  BY DEF IInv, CancelInv, InstanceDies, mgr
<1>5. CalmInv'
  BY DEF IInv, TypeOK, CalmInv, InstanceDies, client, mgr
<1>6. EntryInv'
  BY DEF IInv, EntryInv, InstanceDies, client
<1>7. CountInv'
  BY CountKept DEF IInv, InstanceDies, client
<1>8. ThereInv'
  <2>1. UNCHANGED <<call, stream, own, target, fallback, cut>> /\ alive' = alive \ {i}
    BY DEF InstanceDies, client
  <2>2. \A s \in Req, j \in Inst :
          active'[j][s] = IF j = i THEN "no" ELSE active[j][s]
    BY DEF IInv, TypeOK, InstanceDies
  <2>3. own \subseteq Inst
    BY RoutingAssumption DEF IInv, TypeOK
  <2>. QED
    BY <2>1, <2>2, <2>3 DEF IInv, ThereInv
<1>. QED
  BY <1>1, <1>2, <1>3, <1>4, <1>5, <1>6, <1>7, <1>8 DEF IInv

\* The reconciliation reads the membership.
LEMMA ReconcileStartStep ==
  ASSUME IInv, ReconcileStart
  PROVE  IInv'
<1>1. TypeOK'
  BY DEF IInv, TypeOK, ReconcileStart, llumlets, client, hist
<1>2. PlanInv'
  BY DEF IInv, PlanInv, ReconcileStart, hist
<1>3. StageInv'
  BY DEF IInv, StageInv, ReconcileStart, client
<1>4. CancelInv'
  BY DEF IInv, CancelInv, ReconcileStart, hist
<1>5. CalmInv'
  BY DEF IInv, CalmInv, ReconcileStart, llumlets, client, hist
<1>6. EntryInv'
  BY DEF IInv, EntryInv, ReconcileStart, client
<1>7. CountInv'
  BY CountKept DEF IInv, ReconcileStart, client
<1>8. ThereInv'
  BY ThereKept DEF IInv, ReconcileStart, client, llumlets, hist
<1>. QED
  BY <1>1, <1>2, <1>3, <1>4, <1>5, <1>6, <1>7, <1>8 DEF IInv

\* The reconciliation replaces the map of routes.
LEMMA ReconcileEndStep ==
  ASSUME IInv, ReconcileEnd
  PROVE  IInv'
<1>1. TypeOK'
  BY DEF IInv, TypeOK, ReconcileEnd, Reported, llumlets, client, hist
<1>2. PlanInv'
  BY DEF IInv, PlanInv, ReconcileEnd, hist
<1>3. StageInv'
  BY DEF IInv, StageInv, ReconcileEnd, client
<1>4. CancelInv'
  BY DEF IInv, CancelInv, ReconcileEnd, hist
<1>5. CalmInv'
  BY DEF IInv, CalmInv, ReconcileEnd, llumlets, client, hist
<1>6. EntryInv'
  BY DEF IInv, EntryInv, ReconcileEnd, client
<1>7. CountInv'
  BY CountKept DEF IInv, ReconcileEnd, client
<1>8. ThereInv'
  BY ThereKept DEF IInv, ReconcileEnd, client, llumlets, hist
<1>. QED
  BY <1>1, <1>2, <1>3, <1>4, <1>5, <1>6, <1>7, <1>8 DEF IInv

\* The death of the Manager ends its coroutines; its clients' calls fail.
LEMMA ManagerDiesStep ==
  ASSUME IInv, ManagerDies
  PROVE  IInv'
<1>1. TypeOK'
  <2>1. UNCHANGED <<alive, active, stream, mgrAvail, own, count, fallback, target, closing,
                    cut, deaths>>
    BY DEF ManagerDies
  <2>2. /\ call' \in [Req -> {"idle", "mgr", "error", "inst", "retry", "done"}]
        /\ gen' \in [Req -> {"none", "wait", "first", "second", "book", "cleanup"}]
        /\ waiting' \subseteq Req /\ routes' \in [Req -> SUBSET Inst]
        /\ asked' \subseteq Inst /\ snap' \subseteq Inst \X Req /\ known' \subseteq Inst
        /\ leaving' \in [Req -> {"no", "call", "raised", "error", "done"}]
        /\ crashes' \in Nat
    BY DEF IInv, TypeOK, ManagerDies
  <2>5. aborts' \subseteq Inst \X Req \X Kinds
    BY DEF IInv, TypeOK, ManagerDies, Kinds
  <2>3. mgrUp' \in BOOLEAN /\ recon' \in BOOLEAN
    BY DEF ManagerDies
  <2>4. \A s \in Req : gen'[s] = "none"
    BY DEF ManagerDies
  <2>. QED
    BY <2>1, <2>2, <2>3, <2>4, <2>5 DEF IInv, TypeOK
<1>2. PlanInv'
  BY DEF IInv, PlanInv, ManagerDies
<1>3. StageInv'
  BY DEF IInv, StageInv, ManagerDies
<1>4. CancelInv'
  BY DEF IInv, PlanInv, CancelInv, ManagerDies
<1>5. CalmInv'
  BY DEF IInv, TypeOK, CalmInv, ManagerDies
<1>6. EntryInv'
  BY DEF IInv, EntryInv, ManagerDies
<1>7. CountInv'
  BY CountKept DEF IInv, ManagerDies
<1>8. ThereInv'
  BY ThereKept DEF IInv, ManagerDies, mgr
<1>. QED
  BY <1>1, <1>2, <1>3, <1>4, <1>5, <1>6, <1>7, <1>8 DEF IInv

\* The restarted Manager has lost its map.
LEMMA ManagerRestartsStep ==
  ASSUME IInv, ManagerRestarts
  PROVE  IInv'
<1>1. TypeOK'
  BY DEF IInv, TypeOK, ManagerRestarts, llumlets, client, hist
<1>2. PlanInv'
  BY DEF IInv, PlanInv, ManagerRestarts, hist
<1>3. StageInv'
  BY DEF IInv, StageInv, ManagerRestarts, client
<1>4. CancelInv'
  BY DEF IInv, CancelInv, ManagerRestarts, hist
<1>5. CalmInv'
  BY DEF IInv, CalmInv, ManagerRestarts, hist
<1>6. EntryInv'
  BY DEF IInv, EntryInv, ManagerRestarts, client
<1>7. CountInv'
  BY CountKept DEF IInv, ManagerRestarts, client
<1>8. ThereInv'
  BY ThereKept DEF IInv, ManagerRestarts, client, llumlets, hist
<1>. QED
  BY <1>1, <1>2, <1>3, <1>4, <1>5, <1>6, <1>7, <1>8 DEF IInv

-------------------------------------------------------------------------------
(* The theorems                                                                *)

\* Every step of a client, of the Manager, of a Llumlet or a failure preserves
\* the invariant.
LEMMA NextInv == IInv /\ [Next]_vars => IInv'
<1>. SUFFICES ASSUME IInv, [Next]_vars PROVE IInv'
  OBVIOUS
<1>1. CASE UNCHANGED vars
  BY <1>1 DEF vars, llumlets, client, mgr, hist, IInv, TypeOK, PlanInv, StageInv,
              CancelInv, CalmInv, EntryInv, CountInv, ThereInv, Users
<1>2. ASSUME NEW r \in Req, ClientStep(r) PROVE IInv'
  BY <1>2, GenerateStep, FirstErrorStep, FallBackStep, FallbackAnswersStep DEF ClientStep
<1>3. ASSUME NEW r \in Req, ManagerStep(r) PROVE IInv'
  BY <1>3, DispatchStep, CancelSeenStep, AcceptStep, SubmitFailsStep, GiveUpStep, BookStep
     DEF ManagerStep
<1>4. ASSUME NEW r \in Req,
             \/ AbortByManager(r) \/ CancelStream(r) \/ AbortReturns(r)
             \/ AbortByServer(r) \/ ServerAbortAnswered(r)
      PROVE  IInv'
  BY <1>4, AbortByManagerStep, CancelStreamStep, AbortReturnsStep, AbortByServerStep,
     ServerAbortAnsweredStep
<1>5. ASSUME NEW r \in Req, NEW i \in Inst,
             Finish(i, r) \/ \E k \in Kinds : AbortAnswered(i, r, k)
      PROVE  IInv'
  BY <1>5, FinishStep, AbortAnsweredStep
<1>6. ASSUME NEW i \in Inst, PollDead(i) \/ ReconcileAnswer(i) \/ InstanceDies(i) PROVE IInv'
  BY <1>6, PollDeadStep, ReconcileAnswerStep, InstanceDiesStep
<1>7. ASSUME ReconcileStart \/ ReconcileEnd \/ ManagerDies \/ ManagerRestarts PROVE IInv'
  BY <1>7, ReconcileStartStep, ReconcileEndStep, ManagerDiesStep, ManagerRestartsStep
<1>. QED
  BY <1>1, <1>2, <1>3, <1>4, <1>5, <1>6, <1>7 DEF Next

\* The inductive invariant of the routing of requests.
THEOREM RoutingInvariant == Spec => []IInv
<1>. QED
  BY InitInv, NextInv, PTL DEF Spec

\* With P/D disaggregation no half of a request is submitted once it was
\* cancelled while Manager.generate waited for its roles, and, before the first
\* failure of the Manager, a cancelled request runs nowhere.
THEOREM CancelledNotSubmittedAlways == Spec => []CancelledNotSubmitted
<1>1. IInv => CancelledNotSubmitted
  <2>. SUFFICES ASSUME IInv PROVE CancelledNotSubmitted
    OBVIOUS
  <2>1. ASSUME PD, NEW r \in cancelled
        PROVE  /\ gen[r] \in {"none", "wait"}
               /\ crashes = 0 => \A i \in Inst : ~Running(i, r)
    BY <2>1 DEF IInv, PlanInv, CancelInv, CalmInv, Running
  <2>. QED
    BY <2>1 DEF IInv, CancelledNotSubmitted
<1>. QED
  BY <1>1, RoutingInvariant, PTL

\* The counters by which the API server picks its fallback Llumlet are the
\* numbers of the requests it dispatched there and has not settled, and each of
\* these is really on its live Llumlet, unless a Manager aborted it there or its
\* stream had ended before; through any number of deaths, Manager crashes,
\* retries and aborts.
THEOREM FallbackCountedAlways == Spec => []FallbackCounted
<1>1. IInv => FallbackCounted
  BY DEF IInv, CountInv, ThereInv, Users, FallbackCounted
<1>. QED
  BY <1>1, RoutingInvariant, PTL
===============================================================================
