------------------------------- MODULE KvHandoff -------------------------------
(***************************************************************************)
(* The P/D handoff of vLLM V1: Manager.generate submits one request to a    *)
(* prefill and to a decoding instance under a shared id that carries both   *)
(* endpoints, and the KV layers travel through CoreXZmqP2pEngine.           *)
(*                                                                          *)
(* An EngineCore runs one step at a time; its model thread sends or waits   *)
(* for one tensor after the other, while the listener thread stores what    *)
(* arrives.  A tensor is a request and a layer.  An exception in the model  *)
(* thread ends the EngineCore, and the actor of the instance lives on.      *)
(***************************************************************************)
EXTENDS Naturals, FiniteSets, Sequences, SequencesExt

CONSTANTS
  Prefill, Decode,     \* instances: kv_producer and kv_consumer
  Req, Layers,         \* Layers: number of layers
  NoEnd,
  MaxFaults            \* bound: rejected payloads, early timeouts, dead instances

ASSUME HandoffAssumption ==
  /\ IsFiniteSet(Prefill) /\ IsFiniteSet(Decode) /\ Prefill \cap Decode = {}
  /\ IsFiniteSet(Req) /\ Layers \in Nat \ {0} /\ MaxFaults \in Nat
  /\ NoEnd \notin Prefill \cup Decode

Inst == Prefill \cup Decode
Tensor == [req : Req, layer : 1 .. Layers]

VARIABLES
  known,     \* instances whose kv_endpoint the manager knows
  eng,       \* [Inst -> "up", "failed" (EngineCore) or "gone" (actor)]
  gen,       \* [Req -> progress of Manager.generate]
  id,        \* [Req -> the endpoints that the internal request id carries]
  half,      \* [Inst -> [Req -> state of the request in the EngineCore]]
  job,       \* [Inst -> Seq(Tensor)]: transfers left in the step of the model thread
  asked,     \* instances whose model thread waits for an acknowledgement
  net,       \* [Inst -> [Inst -> Seq(Tensor)]]: DEALER to ROUTER
  acks,      \* [Inst -> [Inst -> Seq(BOOLEAN)]]: replies to a DEALER, by peer
  store,     \* [Inst -> SUBSET Tensor]: recv_store
  sent,      \* [Inst -> SUBSET Tensor]: send_request_id_to_tensor_ids
  aborts,    \* abort calls under way: <<instance, request>>
  lost,      \* tensors a listener rejected
  starved,   \* requests whose tensor timed out although their decoding instance is well
  faults

vars == <<known, eng, gen, id, half, job, asked, net, acks, store, sent, aborts, lost, starved, faults>>

Init ==
  /\ known = {} /\ eng = [e \in Inst |-> "up"]
  /\ gen = [r \in Req |-> "new"]
  /\ id = [r \in Req |-> [decode |-> NoEnd, prefill |-> NoEnd]]
  /\ half = [e \in Inst |-> [r \in Req |-> "none"]]
  /\ job = [e \in Inst |-> << >>] /\ asked = {}
  /\ net = [e \in Inst |-> [f \in Inst |-> << >>]]
  /\ acks = [e \in Inst |-> [f \in Inst |-> << >>]]
  /\ store = [e \in Inst |-> {}] /\ sent = [e \in Inst |-> {}]
  /\ aborts = {} /\ lost = {} /\ starved = {} /\ faults = 0

Fault == faults < MaxFaults /\ faults' = faults + 1

-------------------------------------------------------------------------------
(* Request ids                                                                 *)

\* The endpoint of an instance that has not reported yet is not a valid one.
valid_p2p_endpoint(e) == e \in known

\* One id with the endpoints of both sides.
decorate_p2p_pd_request_id(p, d) == [decode |-> d, prefill |-> p]

\* The peer named by the id; NoEnd stands for the ValueError.
parse_request_id(r, is_prefill) == IF is_prefill THEN id[r].decode ELSE id[r].prefill

-------------------------------------------------------------------------------
(* The manager and the adapters                                                *)

\* get_instance_info brings the endpoint of an instance.
Report(e) ==
  /\ e \notin known /\ eng[e] # "gone"
  /\ known' = known \cup {e}
  /\ UNCHANGED <<eng, gen, id, half, job, asked, net, acks, store, sent, aborts, lost, starved, faults>>

\* Llumlet.generate and add_request; the outputs of a failed EngineCore end at
\* once with an exception.
Submit(e, r) ==
  half' = [half EXCEPT ![e][r] = IF eng[e] = "up" THEN "queued" ELSE "failed"]

GenerateProducer(r, p, d) ==
  /\ gen[r] = "new" /\ valid_p2p_endpoint(p) /\ valid_p2p_endpoint(d)
  /\ eng[p] # "gone"
  /\ id' = [id EXCEPT ![r] = decorate_p2p_pd_request_id(p, d)]
  /\ Submit(p, r)
  /\ gen' = [gen EXCEPT ![r] = "producer"]
  /\ UNCHANGED <<known, eng, job, asked, net, acks, store, sent, aborts, lost, starved, faults>>

GenerateConsumer(r) ==
  /\ gen[r] = "producer" /\ eng[id[r].decode] # "gone"
  /\ Submit(id[r].decode, r)
  /\ gen' = [gen EXCEPT ![r] = "both"]
  /\ UNCHANGED <<known, eng, id, job, asked, net, acks, store, sent, aborts, lost, starved, faults>>

\* An endpoint is missing: a single request, with the public id, on the prefill
\* instance.
GenerateSingle(r, p, d) ==
  /\ gen[r] = "new" /\ ~(valid_p2p_endpoint(p) /\ valid_p2p_endpoint(d))
  /\ eng[p] # "gone"
  /\ Submit(p, r)
  /\ gen' = [gen EXCEPT ![r] = "single"]
  /\ UNCHANGED <<known, eng, id, job, asked, net, acks, store, sent, aborts, lost, starved, faults>>

BothSides(r) == {<<id[r].prefill, r>>, <<id[r].decode, r>>}

\* The call to the decoding instance raised: both sides are aborted.
GenerateFails(r) ==
  /\ gen[r] = "producer" /\ eng[id[r].decode] = "gone"
  /\ aborts' = aborts \cup BothSides(r)
  /\ gen' = [gen EXCEPT ![r] = "ended"]
  /\ UNCHANGED <<known, eng, id, half, job, asked, net, acks, store, sent, lost, starved, faults>>

\* Manager.abort: the calls to the two sides arrive in any order.
ClientAborts(r) ==
  /\ gen[r] = "both"
  /\ aborts' = aborts \cup BothSides(r)
  /\ gen' = [gen EXCEPT ![r] = "ended"]
  /\ UNCHANGED <<known, eng, id, half, job, asked, net, acks, store, sent, lost, starved, faults>>

-------------------------------------------------------------------------------
(* EngineCore steps                                                            *)

Live == {"queued", "running", "loaded"}

\* The tensors of the finished requests R of e that are left in its store.
KeepAll(e, R) == store[e]

get_finished(e, R) == {t \in store[e] : t.req \notin R}

\* The EngineCore takes up an abort between two steps.
AbortArrives(e, r) ==
  /\ <<e, r>> \in aborts
  /\ aborts' = aborts \ {<<e, r>>}
  /\ IF eng[e] = "up" /\ half[e][r] \in Live
     THEN /\ job[e] = << >>
          /\ half' = [half EXCEPT ![e][r] = "aborted"]
          /\ store' = [store EXCEPT ![e] = get_finished(e, {r})]
          /\ sent' = [sent EXCEPT ![e] = {t \in @ : t.req # r}]
     ELSE UNCHANGED <<half, store, sent>>
  /\ UNCHANGED <<known, eng, gen, id, job, asked, net, acks, lost, starved, faults>>

\* Transfers of a batch: layer by layer on the producer, whose save_kv_layer
\* hook goes through the requests; request by request on the consumer.
Transfers(e, q) ==
  IF e \in Prefill
  THEN [k \in 1 .. Layers * Len(q) |-> [req |-> q[((k - 1) % Len(q)) + 1], layer |-> ((k - 1) \div Len(q)) + 1]]
  ELSE [k \in 1 .. Layers * Len(q) |-> [req |-> q[((k - 1) \div Layers) + 1], layer |-> ((k - 1) % Layers) + 1]]

\* A step is scheduled for the requests of q, and the model thread starts.
StartStep(e) ==
  /\ eng[e] = "up" /\ job[e] = << >>
  /\ \E B \in SUBSET {r \in Req : half[e][r] = "queued"} :
       /\ B # {}
       /\ \E q \in SetToSeqs(B) : job' = [job EXCEPT ![e] = Transfers(e, q)]
       /\ half' = [half EXCEPT ![e] = [r \in Req |-> IF r \in B THEN "running" ELSE @[r]]]
  /\ UNCHANGED <<known, eng, gen, id, asked, net, acks, store, sent, aborts, lost, starved, faults>>

\* The EngineCore of e is no more: its requests fail, its store and sockets are
\* gone.  What it had sent may still arrive, or not.
Fails(e, how) ==
  /\ eng' = [eng EXCEPT ![e] = how]
  /\ half' = [half EXCEPT ![e] = [r \in Req |-> IF @[r] \in Live THEN "failed" ELSE @[r]]]
  /\ job' = [job EXCEPT ![e] = << >>] /\ asked' = asked \ {e}
  /\ store' = [store EXCEPT ![e] = {}] /\ sent' = [sent EXCEPT ![e] = {}]
  /\ acks' = [acks EXCEPT ![e] = [f \in Inst |-> << >>]]
  /\ \E kept \in BOOLEAN :
       net' = [f \in Inst |-> [g \in Inst |->
                 IF g = e \/ (f = e /\ ~kept) THEN << >> ELSE net[f][g]]]

\* The model thread has done the first transfer of its step.  After the last
\* one a producer has made its only token and ends; a consumer goes on decoding.
Advance(e) ==
  LET R == {r \in Req : half[e][r] = "running"}  last == Len(job[e]) = 1 IN
  /\ job' = [job EXCEPT ![e] = Tail(@)]
  /\ half' = IF last THEN [half EXCEPT ![e] = [r \in Req |->
                              IF r \notin R THEN @[r] ELSE IF e \in Prefill THEN "done" ELSE "loaded"]]
             ELSE half
  /\ store' = IF last /\ e \in Prefill THEN [store EXCEPT ![e] = get_finished(e, R)] ELSE store

Peer(e) == parse_request_id(Head(job[e]).req, e \in Prefill)

Sending(e) == e \in Prefill /\ eng[e] = "up" /\ job[e] # << >>

\* save_kv_layer, send_tensor: the message, and then the wait for the reply.
SendTensor(e) ==
  /\ Sending(e) /\ e \notin asked /\ Peer(e) # NoEnd
  /\ net' = [net EXCEPT ![e][Peer(e)] = Append(@, Head(job[e]))]
  /\ asked' = asked \cup {e}
  /\ UNCHANGED <<known, eng, gen, id, half, job, acks, store, sent, aborts, lost, starved, faults>>

\* The id names no endpoint: ValueError.
SendNowhere(e) ==
  /\ Sending(e) /\ e \notin asked /\ Peer(e) = NoEnd
  /\ Fails(e, "failed")
  /\ UNCHANGED <<known, gen, id, aborts, lost, starved, faults>>

\* The reply: a refusal makes send_tensor return False, which nobody looks at.
SendAnswered(e) ==
  /\ Sending(e) /\ e \in asked /\ acks[e][Peer(e)] # << >>
  /\ LET t == Head(job[e])  ok == Head(acks[e][Peer(e)])
         R == IF Len(job[e]) = 1 THEN {r \in Req : half[e][r] = "running"} ELSE {} IN
       sent' = [sent EXCEPT ![e] = {u \in (IF ok THEN @ \cup {t} ELSE @) : u.req \notin R}]
  /\ acks' = [acks EXCEPT ![e][Peer(e)] = Tail(@)]
  /\ asked' = asked \ {e}
  /\ Advance(e)
  /\ UNCHANGED <<known, eng, gen, id, net, aborts, lost, starved, faults>>

SendTimesOut(e) ==
  /\ Sending(e) /\ e \in asked /\ acks[e][Peer(e)] = << >>
  /\ \/ eng[Peer(e)] # "up" /\ UNCHANGED faults
     \/ Fault
  /\ Fails(e, "failed")
  /\ UNCHANGED <<known, gen, id, aborts, lost, starved>>

\* The message of peer f at the listener of e.
Received(e, f) == eng[e] = "up" /\ net[f][e] # << >> /\ net' = [net EXCEPT ![f][e] = Tail(@)]

Reply(e, f, ok) == acks' = IF eng[f] = "up" THEN [acks EXCEPT ![f][e] = Append(@, ok)] ELSE acks

\* The reply before the tensor is stored, which then fails.
ListenUnstored(e, f) ==
  /\ Received(e, f) /\ Reply(e, f, TRUE)
  /\ UNCHANGED <<known, eng, gen, id, half, job, asked, store, sent, aborts, lost, starved, faults>>

\* _listen: the tensor is stored, the waiting thread is notified, the reply sent.
\* The thread ends with the socket (ZMQError), that is with the EngineCore; a
\* ZMQError of an open socket is left out.
Listen(e, f) ==
  /\ Received(e, f) /\ Reply(e, f, TRUE)
  /\ store' = [store EXCEPT ![e] = @ \cup {Head(net[f][e])}]
  /\ UNCHANGED <<known, eng, gen, id, half, job, asked, sent, aborts, lost, starved, faults>>

ListenRejects(e, f) ==
  /\ Received(e, f) /\ Reply(e, f, FALSE) /\ Fault
  /\ lost' = lost \cup {Head(net[f][e])}
  /\ UNCHANGED <<known, eng, gen, id, half, job, asked, store, sent, aborts, starved>>

Receiving(e) == e \in Decode /\ eng[e] = "up" /\ job[e] # << >>

\* start_load_kv, recv_tensor: the tensor is there.
RecvTensor(e) ==
  /\ Receiving(e) /\ Head(job[e]) \in store[e]
  /\ Advance(e)
  /\ UNCHANGED <<known, eng, gen, id, asked, net, acks, sent, aborts, lost, starved, faults>>

\* The tensor t is on its way or will be sent.
Coming(t) ==
  LET p == id[t.req].prefill IN
  \/ \E e \in Inst : t \in ToSet(net[p][e])
  \/ eng[p] = "up" /\ half[p][t.req] = "queued"
  \/ t \in ToSet(IF p \in asked THEN Tail(job[p]) ELSE job[p])

\* Waiting again as long as the actor of the producer lives.
RecvWaitsForActor(e) ==
  /\ Receiving(e) /\ Head(job[e]) \notin store[e] /\ eng[Peer(e)] = "gone"
  /\ Fails(e, "failed")
  /\ UNCHANGED <<known, gen, id, aborts, lost, starved, faults>>

\* No tensor within zmq_recv_timeout_s: TimeoutError.  Every tensor that arrives
\* starts the wait anew; finitely many can, so that it expires in the end.
RecvTimesOut(e) ==
  /\ Receiving(e) /\ Head(job[e]) \notin store[e]
  /\ IF Coming(Head(job[e])) THEN Fault /\ UNCHANGED starved
     ELSE starved' = starved \cup {Head(job[e]).req} /\ UNCHANGED faults
  /\ Fails(e, "failed")
  /\ UNCHANGED <<known, gen, id, aborts, lost>>

\* The last token of the consumer's request.
FinishDecode(e, r) ==
  /\ e \in Decode /\ eng[e] = "up" /\ job[e] = << >> /\ half[e][r] = "loaded"
  /\ half' = [half EXCEPT ![e][r] = "done"]
  /\ store' = [store EXCEPT ![e] = get_finished(e, {r})]
  /\ UNCHANGED <<known, eng, gen, id, job, asked, net, acks, sent, aborts, lost, starved, faults>>

\* The actor of an instance dies.
Dies(e) ==
  /\ eng[e] # "gone" /\ Fault
  /\ Fails(e, "gone")
  /\ UNCHANGED <<known, gen, id, aborts, lost, starved>>

-------------------------------------------------------------------------------
ModelThread(e) ==
  \/ StartStep(e) \/ SendTensor(e) \/ SendNowhere(e) \/ SendAnswered(e)
  \/ SendTimesOut(e) \/ RecvTensor(e) \/ RecvTimesOut(e)

Next ==
  \/ \E e \in Inst : Report(e) \/ ModelThread(e) \/ Dies(e)
  \/ \E e, f \in Inst : Listen(e, f) \/ ListenRejects(e, f)
  \/ \E e \in Inst, r \in Req : AbortArrives(e, r) \/ FinishDecode(e, r)
  \/ \E r \in Req : GenerateConsumer(r) \/ GenerateFails(r) \/ ClientAborts(r)
  \/ \E r \in Req, p \in Prefill, d \in Decode : GenerateProducer(r, p, d) \/ GenerateSingle(r, p, d)

Spec == Init /\ [][Next]_vars

\* Calls arrive, both threads of an EngineCore run, and requests are decoded.
FairSpec ==
  /\ Spec
  /\ \A e \in Inst : WF_vars(ModelThread(e))
  /\ \A e, f \in Inst : WF_vars(Listen(e, f))
  /\ \A e \in Inst, r \in Req : WF_vars(AbortArrives(e, r)) /\ WF_vars(FinishDecode(e, r))
  /\ \A r \in Req : WF_vars(GenerateConsumer(r) \/ GenerateFails(r))

-------------------------------------------------------------------------------
(* Properties                                                                  *)

HalfStates == {"none", "queued", "running", "loaded", "done", "aborted", "failed"}

TypeOK ==
  /\ known \subseteq Inst /\ eng \in [Inst -> {"up", "failed", "gone"}]
  /\ gen \in [Req -> {"new", "producer", "both", "single", "ended"}]
  /\ id \in [Req -> [decode : Inst \cup {NoEnd}, prefill : Inst \cup {NoEnd}]]
  /\ half \in [Inst -> [Req -> HalfStates]]
  /\ job \in [Inst -> Seq(Tensor)] /\ asked \subseteq Inst
  /\ net \in [Inst -> [Inst -> Seq(Tensor)]] /\ acks \in [Inst -> [Inst -> Seq(BOOLEAN)]]
  /\ store \in [Inst -> SUBSET Tensor] /\ sent \in [Inst -> SUBSET Tensor]
  /\ aborts \subseteq Inst \X Req /\ lost \subseteq Tensor /\ starved \subseteq Req
  /\ faults \in 0 .. MaxFaults

\* A tensor that the producer holds as sent is at the decoding instance that its
\* id names until the request ends there, and a listener never holds a tensor of
\* a request that is not its own, whatever timeouts, refusals and aborts do.
AckedIsStored ==
  /\ TypeOK
  /\ \A e \in Inst, t \in Tensor : t \in store[e] => id[t.req].decode = e
  /\ \A e \in Inst, t \in Tensor : t \in sent[e] =>
       \/ t \in store[id[t.req].decode]
       \/ half[id[t.req].decode][t.req] \in {"done", "aborted", "failed"}
       \/ eng[id[t.req].decode] # "up"

\* A request that was decoded to its end leaves no tensor behind, neither in a
\* recv_store nor on the way to one.
NoResidue ==
  \A e \in Decode, r \in Req : half[e][r] = "done" =>
    \A f \in Inst : \A t \in store[f] \cup ToSet(net[id[r].prefill][f]) : t.req # r

\* A request accepted by its decoding instance ends there, and it fails only with
\* the EngineCore: a producer that died, was aborted or had a tensor refused
\* never leaves the consumer waiting for ever, and no batch of several requests
\* on both sides makes them wait for each other.
HandoffEnds ==
  \A e \in Decode, r \in Req :
    half[e][r] = "queued" ~>
      \/ half[e][r] \in {"done", "aborted"}
      \/ half[e][r] = "failed" /\ eng[e] # "up"

\* A peer is not left waiting when its other half has failed: the model thread
\* of a decoding instance never times out on a tensor that will not come.
PeerReleased == starved = {}
===============================================================================
