---------------------------- MODULE RequestRouting ----------------------------
(***************************************************************************)
(* One request from the API server to the Llumlets and back:               *)
(* LlumnixClientVLLM (entrypoints/vllm/client.py) with its fallback for a  *)
(* Manager outage, Manager.generate, abort and the reconciliation of the   *)
(* request maps (manager.py), Llumlet.generate/abort, and deaths of        *)
(* Llumlets and of the Manager.                                            *)
(*                                                                         *)
(* With P/D disaggregation a request has a plan of two Llumlets, producer  *)
(* and consumer; otherwise, or when an endpoint is missing, of one.  Each  *)
(* action is a stretch of one coroutine between two awaits.                *)
(***************************************************************************)
EXTENDS Integers, FiniteSets, Sequences, Functions

CONSTANTS
  Inst, Prefill,  \* Llumlets, and those of type PREFILL
  Own,            \* Llumlets the API server holds itself
  Req,
  NoInst,
  PD,             \* enable_pd_disagg on a vLLM V1 backend
  MaxDeaths, MaxCrashes

ASSUME RoutingAssumption ==
  /\ Prefill \subseteq Inst /\ Own \subseteq Inst /\ IsFiniteSet(Inst)
  /\ IsFiniteSet(Req) /\ NoInst \notin Inst
  /\ PD \in BOOLEAN /\ MaxDeaths \in Nat /\ MaxCrashes \in Nat

VARIABLES
  \* Llumlets
  alive,          \* live Llumlet actors
  active,         \* [Inst -> [Req -> "no", "mute" or "loud"]]: running, outputs suppressed or not
  aborts,         \* <<i, r, k>>: abort calls of Managers under way (k as in Kinds)
  \* API server
  call,           \* stage of LlumnixClientVLLM.generate
  stream,         \* request_streams: "none", "open" or "finished"
  mgrAvail,       \* manager_available
  own,            \* instances
  count,          \* instance_num_requests
  fallback,       \* _fallback_request_instance
  target,         \* the Llumlet whose answer _generate_by_instance awaits
  leaving,        \* stage of LlumnixClientVLLM.abort
  closing,        \* the Llumlet it calls itself, the Manager having failed
  \* Manager
  mgrUp,
  known,          \* instances
  gen,            \* stage of Manager.generate
  plan,           \* the Llumlets it submits to
  waiting,        \* _waiting_pd_request_ids
  routes,         \* request_instances (a request without entry has {})
  recon,          \* _get_request_instance is under way
  asked, snap,    \* its calls under way, and the <<i, r>> reported so far
  \* history and bounds
  cancelled,      \* aborted while they waited in generate
  cut,            \* fallback requests that their Llumlet ended for a Manager
  deaths, crashes

llumlets == <<alive, active, aborts>>
client == <<call, stream, mgrAvail, own, count, fallback, target, leaving, closing>>
mgr == <<mgrUp, known, gen, plan, waiting, routes, recon, asked, snap>>
hist == <<cancelled, cut, deaths, crashes>>
vars == <<llumlets, client, mgr, hist>>

\* Calls of the abort and of the clean-up in generate of the Manager that is up,
\* and calls whose Manager has died: they may arrive or be lost.
Kinds == {"abort", "cleanup", "orphan"}

Running(i, r) == i \in alive /\ active[i][r] # "no"

\* Manager.generate ends and the client's await returns.
Returns(r) ==
  /\ plan' = [plan EXCEPT ![r] = << >>]
  /\ gen' = [gen EXCEPT ![r] = "none"]
  /\ call' = [call EXCEPT ![r] = "done"]
  /\ mgrAvail' = TRUE

\* Manager.scale_down kills the Llumlets of S.
scale_down(S) ==
  /\ known' = known \ S
  /\ alive' = alive \ S

Init ==
  /\ alive = Inst /\ known = Inst
  /\ active = [i \in Inst |-> [r \in Req |-> "no"]]
  /\ aborts = {}
  /\ call = [r \in Req |-> "idle"] /\ stream = [r \in Req |-> "none"]
  /\ mgrAvail \in BOOLEAN  \* FALSE after an outage an earlier request met
  /\ own = Own /\ count = [i \in Inst |-> 0]
  /\ fallback = [r \in Req |-> NoInst] /\ leaving = [r \in Req |-> "no"]
  /\ target = [r \in Req |-> NoInst] /\ closing = [r \in Req |-> NoInst]
  /\ mgrUp = TRUE
  /\ gen = [r \in Req |-> "none"] /\ plan = [r \in Req |-> << >>]
  /\ waiting = {} /\ routes = [r \in Req |-> {}]
  /\ recon = FALSE /\ asked = {} /\ snap = {}
  /\ cancelled = {} /\ cut = {}
  /\ deaths = 0 /\ crashes = 0

-------------------------------------------------------------------------------
(* LlumnixClientVLLM                                                           *)

\* Manager.generate starts; with P/D the request can be cancelled from here on.
Enter(r) ==
  /\ gen' = [gen EXCEPT ![r] = "wait"]
  /\ waiting' = IF PD THEN waiting \cup {r} ELSE waiting

\* generate: a new stream, then the call of the Manager.  The call of an actor
\* that is down fails.
Generate(r) ==
  /\ call[r] \in {"idle", "retry"}
  /\ stream' = [stream EXCEPT ![r] = "open"]
  /\ IF mgrUp
     THEN /\ call' = [call EXCEPT ![r] = "mgr"]
          /\ Enter(r)
     ELSE /\ call' = [call EXCEPT ![r] = "error"]
          /\ UNCHANGED <<gen, waiting>>
  /\ cancelled' = cancelled \ {r}
  /\ UNCHANGED <<llumlets, mgrAvail, own, count, fallback, target, leaving, closing, mgrUp, known, plan,
                 routes, recon, asked, snap, cut, deaths, crashes>>

\* The first RayActorError: the request is not generated again.
FirstError(r) ==
  /\ call[r] = "error" /\ mgrAvail
  /\ mgrAvail' = FALSE
  /\ call' = [call EXCEPT ![r] = "done"]
  /\ UNCHANGED <<llumlets, stream, own, count, fallback, target, leaving, closing, mgr, hist>>

\* _generate_by_instance: a Llumlet of this server with the fewest requests, or
\* a pause (WAIT_MANAGER_INTERVAL) when there is none.
FallBack(r) ==
  /\ call[r] = "error" /\ ~mgrAvail
  /\ \/ \E i \in own :
          /\ \A j \in own : count[i] <= count[j]
          /\ count' = [count EXCEPT ![i] = @ + 1]
          /\ fallback' = [fallback EXCEPT ![r] = i]
          /\ target' = [target EXCEPT ![r] = i]
          /\ call' = [call EXCEPT ![r] = "inst"]
     \/ /\ own = {}
        /\ call' = [call EXCEPT ![r] = "retry"]
        /\ UNCHANGED <<count, fallback, target>>
  /\ UNCHANGED <<llumlets, stream, mgrAvail, own, leaving, closing, mgr, hist>>

\* The fallback Llumlet answers, or is dead: then it is forgotten and the request
\* generated again, unless an earlier request has met the death already.
FallbackAnswers(r) ==
  LET i == target[r] IN
  /\ call[r] = "inst"
  /\ target' = [target EXCEPT ![r] = NoInst]
  /\ IF i \in alive
     THEN /\ active' = [active EXCEPT ![i][r] = "loud"]
          /\ cut' = cut \ {r}
          /\ call' = [call EXCEPT ![r] = "done"]
          /\ UNCHANGED <<own, count>>
     ELSE /\ own' = own \ {i}
          /\ count' = [count EXCEPT ![i] = 0]
          /\ call' = [call EXCEPT ![r] = IF i \in own THEN "retry" ELSE "done"]
          /\ UNCHANGED <<active, cut>>
  /\ UNCHANGED <<alive, aborts, stream, mgrAvail, fallback, leaving, closing, mgr,
                 cancelled, deaths, crashes>>

\* A request of the fallback Llumlet i is over.
Discount(i) ==
  count' = IF i \in own THEN [count EXCEPT ![i] = IF @ > 0 THEN @ - 1 ELSE 0] ELSE count

\* Forgetting the entry, but not the count.
SettleEntryOnly(r) ==
  /\ fallback' = [fallback EXCEPT ![r] = NoInst]
  /\ count' = count

\* The local counter and the fallback entry of a request that is over.
Settle(r) ==
  /\ fallback' = [fallback EXCEPT ![r] = NoInst]
  /\ Discount(fallback[r])

\* A Llumlet ends a request; its last output closes the stream of the request
\* if the stream is still there (get_request_outputs_loop, and
\* _forward_v1_outputs with its suppress_output).
Finish(i, r) ==
  /\ Running(i, r)
  /\ active' = [active EXCEPT ![i][r] = "no"]
  /\ IF active[i][r] = "loud" /\ stream[r] = "open"
     THEN /\ stream' = [stream EXCEPT ![r] = "finished"]
          /\ Settle(r)
     ELSE UNCHANGED <<stream, count, fallback>>
  /\ UNCHANGED <<alive, aborts, call, mgrAvail, own, target, leaving, closing, mgr, hist>>

\* A request that its HTTP handler may abort, which reads the stream once generate
\* has returned and sees that the client has left before the last output; or
\* another caller that knows the id, while Manager.generate is under way.
Abortable(r) ==
  /\ leaving[r] = "no"
  /\ call[r] = "mgr" \/ (call[r] = "done" /\ stream[r] = "open")

\* Manager.abort: the request stops waiting, and every Llumlet of its entry is
\* called in the order of the set until one of them is no longer registered (the
\* KeyError ends the call).
CallManager(r, S) ==
  /\ waiting' = waiting \ {r}
  /\ cancelled' = IF r \in waiting THEN cancelled \cup {r} ELSE cancelled
  /\ S \subseteq known /\ (routes[r] \subseteq known => S = routes[r])
  /\ aborts' = aborts \cup (S \X {r} \X {"abort"})

\* abort awaits the Manager's answer.
AbortByManager(r) ==
  /\ Abortable(r) /\ mgrUp
  /\ \E S \in SUBSET routes[r] : CallManager(r, S)
  /\ leaving' = [leaving EXCEPT ![r] = IF routes[r] \subseteq known THEN "call" ELSE "raised"]
  /\ UNCHANGED <<alive, active, call, stream, mgrAvail, own, count, fallback, target, closing, mgrUp, known,
                 gen, plan, routes, recon, asked, snap, cut, deaths, crashes>>

\* abort_request, the cancellation of the stream: nobody awaits the answer.
CancelStream(r) ==
  /\ Abortable(r)
  /\ leaving' = [leaving EXCEPT ![r] = "done"]
  /\ IF mgrUp THEN \E S \in SUBSET routes[r] : CallManager(r, S)
              ELSE UNCHANGED <<waiting, cancelled, aborts>>
  /\ UNCHANGED <<alive, active, call, stream, mgrAvail, own, count, fallback, target, closing, mgrUp, known,
                 gen, plan, routes, recon, asked, snap, cut, deaths, crashes>>

\* The Manager's answer: its calls are answered, or it raised the KeyError.  The
\* entry of a fallback request and its count stay.
AbortReturns(r) ==
  /\ mgrUp
  /\ \/ leaving[r] = "raised"
     \/ leaving[r] = "call" /\ \A i \in Inst : <<i, r, "abort">> \notin aborts
  /\ leaving' = [leaving EXCEPT ![r] = "done"]
  /\ UNCHANGED <<llumlets, call, stream, mgrAvail, own, count, fallback, target, closing, mgr, hist>>

\* abort, when the Manager is down or has died before its answer: the fallback
\* Llumlet is called.
AbortByServer(r) ==
  LET i == fallback[r] IN
  /\ leaving[r] = "error" \/ (Abortable(r) /\ ~mgrUp)
  /\ leaving' = [leaving EXCEPT ![r] = "done"]
  /\ fallback' = [fallback EXCEPT ![r] = NoInst]
  /\ closing' = IF i \in own THEN [closing EXCEPT ![r] = i] ELSE closing
  /\ UNCHANGED <<llumlets, call, stream, mgrAvail, own, count, target, mgr, hist>>

\* Its answer, or the error of a dead Llumlet.  A live one has started with the
\* server's earlier call of generate before.
ServerAbortAnswered(r) ==
  LET i == closing[r] IN
  /\ i # NoInst /\ (i \in alive => target[r] # i)
  /\ active' = [active EXCEPT ![i][r] = "no"]
  /\ closing' = [closing EXCEPT ![r] = NoInst]
  /\ Discount(i)
  /\ UNCHANGED <<alive, aborts, call, stream, mgrAvail, own, fallback, target, leaving, mgr, hist>>

-------------------------------------------------------------------------------
(* Manager                                                                     *)

Plans ==
  IF PD
  THEN {<<p, d>> : p \in known \cap Prefill, d \in known \ Prefill}
       \cup {<<p>> : p \in {q \in known \cap Prefill : known \ Prefill # {}}}
  ELSE {<<i>> : i \in known}

DispatchUnchecked(r) ==
  /\ gen[r] = "wait"
  /\ \E p \in Plans : plan' = [plan EXCEPT ![r] = p]
  /\ waiting' = waiting \ {r}
  /\ gen' = [gen EXCEPT ![r] = "first"]
  /\ UNCHANGED <<llumlets, client, mgrUp, known, routes, recon, asked, snap, hist>>

\* generate finds Llumlets for a request; with P/D, if it still waits.
Dispatch(r) ==
  /\ gen[r] = "wait" /\ (PD => r \in waiting)
  /\ \E p \in Plans : plan' = [plan EXCEPT ![r] = p]
  /\ waiting' = waiting \ {r}
  /\ gen' = [gen EXCEPT ![r] = "first"]
  /\ UNCHANGED <<llumlets, client, mgrUp, known, routes, recon, asked, snap, hist>>

\* Looking at the cancellation only when there are Llumlets to dispatch to.
CancelSeenAtDispatch(r) ==
  /\ PD /\ gen[r] = "wait" /\ r \notin waiting /\ Plans # {}
  /\ Returns(r)
  /\ UNCHANGED <<llumlets, stream, own, count, fallback, target, leaving, closing, mgrUp, known, waiting,
                 routes, recon, asked, snap, hist>>

\* With P/D, generate sees that the request was cancelled meanwhile.
CancelSeen(r) ==
  /\ PD /\ gen[r] = "wait" /\ r \notin waiting
  /\ Returns(r)
  /\ UNCHANGED <<llumlets, stream, own, count, fallback, target, leaving, closing, mgrUp, known, waiting,
                 routes, recon, asked, snap, hist>>

Stage(r) == IF gen[r] = "first" THEN 1 ELSE 2

\* One Llumlet of the plan accepts its half of the request.
Accept(r) ==
  LET k == Stage(r)  i == plan[r][k] IN
  /\ gen[r] \in {"first", "second"}
  /\ i \in known \cap alive
  /\ active' = [active EXCEPT ![i][r] = IF k < Len(plan[r]) THEN "mute" ELSE "loud"]
  /\ gen' = [gen EXCEPT ![r] = IF k < Len(plan[r]) THEN "second" ELSE "book"]
  /\ UNCHANGED <<alive, aborts, client, mgrUp, known, plan, waiting, routes, recon, asked, snap, hist>>

\* The Llumlets the clean-up of a failed pair calls: both, unless the first is
\* no longer registered (the KeyError ends the clean-up).
CleanUp(r) ==
  IF Len(plan[r]) = 2 /\ plan[r][1] \in known
  THEN {plan[r][1]} \cup ({plan[r][2]} \cap known) ELSE {}

\* A submission fails: the Llumlet is dead or no longer registered.
SubmitFails(r) ==
  LET i == plan[r][Stage(r)] IN
  /\ gen[r] \in {"first", "second"}
  /\ i \notin known \cap alive
  /\ aborts' = aborts \cup (CleanUp(r) \X {r} \X {"cleanup"})
  /\ gen' = [gen EXCEPT ![r] = "cleanup"]
  /\ UNCHANGED <<alive, active, client, mgrUp, known, plan, waiting, routes, recon, asked, snap, hist>>

\* The clean-up calls have been answered: the first Llumlet of the plan is
\* scaled down and generate returns.
GiveUp(r) ==
  /\ gen[r] = "cleanup"
  /\ \A i \in Inst : <<i, r, "cleanup">> \notin aborts
  /\ scale_down({plan[r][1]})
  /\ Returns(r)
  /\ UNCHANGED <<active, aborts, stream, own, count, fallback, target, leaving, closing, mgrUp, waiting,
                 routes, recon, asked, snap, cancelled, cut, deaths, crashes>>

\* The bookkeeping after the submissions: a pair replaces the entry, a single
\* Llumlet is entered only where there is none (setdefault).
Book(r) ==
  /\ gen[r] = "book"
  /\ routes' = [routes EXCEPT ![r] =
                  IF Len(plan[r]) = 2 \/ @ = {} THEN Range(plan[r]) ELSE @]
  /\ Returns(r)
  /\ UNCHANGED <<llumlets, stream, own, count, fallback, target, leaving, closing, mgrUp, known, waiting,
                 recon, asked, snap, hist>>

\* Llumlet.abort ends the request.  The callback of Manager.abort forgets its
\* routes, or scales a dead Llumlet down; the clean-up in generate has none.
AbortAnswered(i, r, k) ==
  /\ <<i, r, k>> \in aborts
  /\ aborts' = aborts \ {<<i, r, k>>}
  /\ active' = [active EXCEPT ![i][r] = "no"]
  /\ IF i \in alive
     THEN /\ cut' = IF fallback[r] = i THEN cut \cup {r} ELSE cut
          /\ routes' = IF k = "abort" THEN [routes EXCEPT ![r] = {}] ELSE routes
          /\ UNCHANGED known
     ELSE /\ known' = IF k = "abort" THEN known \ {i} ELSE known
          /\ UNCHANGED <<cut, routes>>
  /\ UNCHANGED <<alive, client, mgrUp, gen, plan, waiting, recon, asked, snap,
                 cancelled, deaths, crashes>>

\* _poll_instance_info_loop meets a dead Llumlet.
PollDead(i) ==
  /\ mgrUp /\ i \in known \ alive
  /\ scale_down({i})
  /\ UNCHANGED <<active, aborts, client, mgrUp, gen, plan, waiting, routes, recon, asked, snap, hist>>

\* _get_request_instance asks every registered Llumlet for its requests.
ReconcileStart ==
  /\ mgrUp /\ ~recon /\ known # {}
  /\ recon' = TRUE
  /\ asked' = known
  /\ snap' = {}
  /\ UNCHANGED <<llumlets, client, mgrUp, known, gen, plan, waiting, routes, hist>>

ReconcileAnswer(i) ==
  /\ i \in asked
  /\ asked' = asked \ {i}
  /\ IF i \in alive
     THEN /\ snap' = snap \cup ({i} \X {r \in Req : active[i][r] # "no"})
          /\ UNCHANGED <<alive, known>>
     ELSE scale_down({i}) /\ UNCHANGED snap
  /\ UNCHANGED <<active, aborts, client, mgrUp, gen, plan, waiting, routes, recon, hist>>

Reported(r) == {i \in Inst : <<i, r>> \in snap}

\* Refreshing only the requests the Manager already knows.
ReconcileKnownOnly ==
  /\ recon /\ asked = {}
  /\ routes' = [r \in Req |-> IF routes[r] = {} THEN {} ELSE Reported(r)]
  /\ recon' = FALSE /\ snap' = {}
  /\ UNCHANGED <<llumlets, client, mgrUp, known, gen, plan, waiting, asked, hist>>

\* _reconcile_request_instances replaces the maps by what was reported.
ReconcileEnd ==
  /\ recon /\ asked = {}
  /\ routes' = [r \in Req |-> Reported(r)]
  /\ recon' = FALSE /\ snap' = {}
  /\ UNCHANGED <<llumlets, client, mgrUp, known, gen, plan, waiting, asked, hist>>

-------------------------------------------------------------------------------
(* Deaths                                                                      *)

InstanceDies(i) ==
  /\ i \in alive /\ deaths < MaxDeaths
  /\ alive' = alive \ {i}
  /\ active' = [active EXCEPT ![i] = [r \in Req |-> "no"]]
  /\ deaths' = deaths + 1
  /\ UNCHANGED <<aborts, client, mgr, cancelled, cut, crashes>>

\* The Manager dies: its coroutines end and the clients' calls fail.
ManagerDies ==
  /\ mgrUp /\ crashes < MaxCrashes
  /\ mgrUp' = FALSE
  /\ crashes' = crashes + 1
  /\ gen' = [r \in Req |-> "none"] /\ plan' = [r \in Req |-> << >>]
  /\ call' = [r \in Req |-> IF call[r] = "mgr" THEN "error" ELSE call[r]]
  /\ leaving' = [r \in Req |-> IF leaving[r] \in {"call", "raised"} THEN "error" ELSE leaving[r]]
  /\ aborts' = {<<a[1], a[2], "orphan">> : a \in aborts}
  /\ known' = {}
  /\ waiting' = {} /\ routes' = [r \in Req |-> {}]
  /\ recon' = FALSE /\ asked' = {} /\ snap' = {}
  /\ UNCHANGED <<alive, active, stream, mgrAvail, own, count, fallback, target, closing,
                 cancelled, cut, deaths>>

\* Ray restarts it, and it connects to the Llumlets it finds.
ManagerRestarts ==
  /\ ~mgrUp
  /\ mgrUp' = TRUE
  /\ known' = alive
  /\ UNCHANGED <<llumlets, client, gen, plan, waiting, routes, recon, asked, snap, hist>>

-------------------------------------------------------------------------------
ClientStep(r) ==
  \/ Generate(r) \/ FirstError(r) \/ FallBack(r) \/ FallbackAnswers(r)

ManagerStep(r) ==
  \/ Dispatch(r) \/ CancelSeen(r) \/ Accept(r) \/ SubmitFails(r) \/ GiveUp(r) \/ Book(r)

Next ==
  \/ \E r \in Req :
       \/ ClientStep(r) \/ ManagerStep(r)
       \/ AbortByManager(r) \/ CancelStream(r) \/ AbortReturns(r)
       \/ AbortByServer(r) \/ ServerAbortAnswered(r)
       \/ \E i \in Inst : Finish(i, r) \/ \E k \in Kinds : AbortAnswered(i, r, k)
  \/ \E i \in Inst : PollDead(i) \/ ReconcileAnswer(i) \/ InstanceDies(i)
  \/ ReconcileStart \/ ReconcileEnd \/ ManagerDies \/ ManagerRestarts

Spec == Init /\ [][Next]_vars

\* Coroutines go on, remote calls are answered, Ray restarts the Manager.
FairSpec ==
  /\ Spec
  /\ WF_vars(ReconcileStart) /\ WF_vars(ReconcileEnd) /\ WF_vars(ManagerRestarts)
  /\ \A i \in Inst : WF_vars(ReconcileAnswer(i))
  /\ \A r \in Req :
       /\ WF_vars(ManagerStep(r)) /\ WF_vars(FirstError(r)) /\ WF_vars(FallBack(r))
       /\ WF_vars(FallbackAnswers(r)) /\ WF_vars(call[r] = "retry" /\ Generate(r))
       /\ \A i \in Inst : WF_vars(\E k \in {"abort", "cleanup"} : AbortAnswered(i, r, k))

-------------------------------------------------------------------------------
(* Properties                                                                  *)

TypeOK ==
  /\ alive \subseteq Inst /\ known \subseteq Inst /\ own \subseteq Own
  /\ active \in [Inst -> [Req -> {"no", "mute", "loud"}]]
  /\ aborts \subseteq Inst \X Req \X Kinds /\ cut \subseteq Req
  /\ call \in [Req -> {"idle", "mgr", "error", "inst", "retry", "done"}]
  /\ stream \in [Req -> {"none", "open", "finished"}]
  /\ count \in [Inst -> Nat] /\ fallback \in [Req -> Inst \cup {NoInst}]
  /\ target \in [Req -> Inst \cup {NoInst}] /\ closing \in [Req -> Inst \cup {NoInst}]
  /\ leaving \in [Req -> {"no", "call", "raised", "error", "done"}]
  /\ gen \in [Req -> {"none", "wait", "first", "second", "book", "cleanup"}]
  /\ \A r \in Req : gen[r] \in {"first", "second", "book", "cleanup"}
                      => Len(plan[r]) \in 1..2 /\ Range(plan[r]) \subseteq Inst
  /\ waiting \subseteq Req /\ routes \in [Req -> SUBSET Inst]
  /\ asked \subseteq Inst /\ snap \subseteq Inst \X Req
  /\ {mgrUp, mgrAvail, recon} \subseteq BOOLEAN /\ {deaths, crashes} \subseteq Nat

\* With P/D, neither half of a pair is submitted once the request was cancelled
\* while it waited for its roles (the comment in Manager.generate).
CancelledNotSubmitted ==
  /\ TypeOK
  /\ PD => \A r \in cancelled :
       /\ gen[r] \in {"none", "wait"}
       /\ crashes = 0 => \A i \in Inst : ~Running(i, r)

\* The requests the API server counts on Llumlet i.
Users(i) == {r \in Req : fallback[r] = i \/ closing[r] = i}

\* The counters of the fallback are the numbers of the requests dispatched by it
\* and not settled, through deaths, retries and aborts; and these are really
\* there, on a live Llumlet: being submitted, running or being aborted.  There
\* are two ways only to be counted without running: a Manager aborted the
\* request, or a copy the Manager had dispatched ended the stream before.
FallbackCounted ==
  \A i \in own :
    /\ count[i] = Cardinality(Users(i))
    /\ i \in alive => \A r \in Users(i) :
         \/ target[r] = i \/ active[i][r] # "no" \/ closing[r] = i
         \/ r \in cut \/ stream[r] = "finished"

\* The accounting stays bounded (the comment in get_request_outputs_loop):
\* every request counted on a live Llumlet is there.
FallbackBounded ==
  \A i \in own \cap alive : \A r \in Users(i) :
    target[r] = i \/ active[i][r] # "no" \/ closing[r] = i

\* A request that runs on a registered Llumlet is in the Manager's map again
\* after a while, so that an abort reaches it: after a restart, after a dispatch
\* that bypassed the Manager, after a snapshot that was taken too early.
RoutesRestored ==
  \A i \in Inst, r \in Req :
    Running(i, r) ~> (i \in routes[r] \/ ~Running(i, r) \/ known = {})

\* Manager.generate returns, whatever dies and whoever gives up while it runs;
\* it may wait without end only for Llumlets to dispatch to, and only while the
\* request is wanted.
GenerateReturns ==
  \A r \in Req :
    gen[r] # "none" ~> (gen[r] = "none" \/ (Plans = {} /\ (PD => r \in waiting)))

\* Manager.generate scales down only dead Llumlets ("Instance {} is dead").
OnlyDeadFelled == [][(\E r \in Req : GiveUp(r)) => alive' = alive]_vars

\* An abort of a booked request calls every Llumlet that runs a half of it
\* (the comment on request_instances in Manager.__init__).
AbortReachesPair ==
  [][\A r \in Req : leaving[r] = "no" /\ leaving'[r] # "no" /\ mgrUp /\ routes[r] # {}
       => \A i \in known : Running(i, r) => <<i, r, "abort">> \in aborts']_vars
===============================================================================
